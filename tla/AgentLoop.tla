------------------------------ MODULE AgentLoop ------------------------------
(***************************************************************************)
(* The agent process: agent_loop (agent/loop.py) and the start and         *)
(* shutdown around it (agent/main.py), interleaved with the operator's API *)
(* handlers on the shared StateStore, with the clock, with signals, and    *)
(* with actuator calls that time out, fail or complete late.               *)
(*                                                                         *)
(* Code between two awaits runs without interruption, so one action here   *)
(* is what the loop does from one await that really yields to the next:    *)
(*                                                                         *)
(*   boot -> top -> read -> [decide ->] dispatch -> apply -> sleep -> top  *)
(*                    \________ a crash or a stop ________/                *)
(*                                 |                                       *)
(*                               exit -> final -> closing -> done          *)
(*                                                                         *)
(* asyncio.gather does not cancel the other awaitables when one of them    *)
(* raises: an actuator call left behind is an orphan, which may still      *)
(* reach the hardware during a later tick.                                 *)
(***************************************************************************)
EXTENDS StateStore, SafetyMonitor

CONSTANTS
  EngineCommands,    \* what the decision engine can return
  OperatorCommands,  \* what the operator can post
  Timed,             \* the operations whose timeout setting is positive
  Slots,             \* orphan calls that can be outstanding at once (a bound)
  Packages           \* the sets of names that the package may fail to provide

Devices    == {"thrusters", "experiments"}
Operations == {"sensors", "decision"} \cup Devices

\* loop.py never imports DeadReckoningEstimator, and calls three methods that
\* no class of the package defines.  The code as committed is the package that
\* lacks CommittedUnresolved; the one that lacks nothing supplies these names.
CommittedUnresolved == {"DeadReckoningEstimator", "EstimatedState.from_observation",
                        "aggregate_confidence", "compute_state"}

ASSUME AgentLoopAssumption ==
  /\ EngineCommands \subseteq Commands
  /\ OperatorCommands \subseteq Commands
  /\ EngineCommands # {}
  /\ Observations # {}
  /\ Timed \subseteq Operations
  /\ Packages \subseteq SUBSET CommittedUnresolved

VARIABLES
  pc,        \* the await at which the process stands
  snapMode,  \* (mode, last_command) as read at the start of the tick
  snapCmd,
  obs,       \* the observation of this tick
  cmd,       \* the command this tick decided to apply
  branch,    \* which branch of the loop body the tick took
  force,     \* override_mode of the tick is SAFE
  call,      \* the apply calls of this tick that are outstanding, per device
  orphans,   \* apply calls of earlier ticks that were left behind
  out,       \* the command each device last acted on
  stop,      \* stop_event
  missing,   \* what this package fails to provide; never changes
  \* History variables, read by no action.
  gathered,  \* how the gather of this tick ended
  late,      \* devices on which an orphan landed after the tick's own call
  opSince,   \* the operator set the mode after the tick last forced SAFE
  stale,     \* non-neutral commands dispatched since the mode became SAFE, up to 2
  opIdle     \* time since the operator last posted a command or entered MANUAL,
             \* or a tick of another branch than MANUAL wrote its command

tickVars == <<snapMode, snapCmd, obs, cmd, branch, force>>
hwVars   == <<call, orphans, out>>
histVars == <<gathered, late, opSince, stale, opIdle>>
vars     == <<storeVars, pc, tickVars, hwVars, stop, missing, histVars>>

Phases   == {"boot", "top", "read", "decide", "dispatch", "apply", "sleep",
             "exit", "final", "closing", "done"}
Branches == Modes \cup {"sensor_timeout", "deadman"}
AlertBranches == {"sensor_timeout", "deadman"}
OrphanCalls   == [slot : Slots, dev : Devices, cmd : Commands]

Idle == [d \in Devices |-> NoValue]

-----------------------------------------------------------------------------
Init ==
  /\ StoreInit
  /\ pc = "boot"
  /\ snapMode = "AUTONOMOUS" /\ snapCmd = NoValue
  /\ obs = NoValue /\ cmd = Neutral /\ branch = "AUTONOMOUS" /\ force = FALSE
  /\ call = Idle /\ orphans = {} /\ out = [d \in Devices |-> Neutral]
  /\ stop = FALSE /\ missing \in Packages
  /\ gathered = "ok" /\ late = {} /\ opSince = FALSE /\ stale = 0
  /\ opIdle = 0

(***************************************************************************)
(* The mode is set by the loop, which only ever sets SAFE, or by the       *)
(* operator.                                                               *)
(***************************************************************************)
SetModeSafe ==
  /\ mode' = "SAFE"
  /\ opSince' = FALSE

Leave == pc' = "exit"

\* The objects agent_loop builds before its first tick.
Boot ==
  /\ pc = "boot"
  /\ \/ /\ "DeadReckoningEstimator" \in missing
        /\ Leave
     \/ /\ "DeadReckoningEstimator" \notin missing
        /\ pc' = "top"
  /\ UNCHANGED <<storeVars, tickVars, hwVars, stop, missing, gathered, late, opSince, stale, opIdle>>

StopIgnored == FALSE
StopRequested == stop

\* The top of the loop: leave on stop_event, else snapshot the store and start
\* reading the sensors.
BeginTick ==
  /\ pc = "top"
  /\ \/ /\ StopRequested
        /\ Leave
        /\ UNCHANGED <<snapMode, snapCmd>>
     \/ /\ ~ StopRequested
        /\ pc' = "read"
        /\ snapMode' = mode
        /\ snapCmd' = lastCmd
  /\ UNCHANGED <<storeVars, obs, cmd, branch, force, hwVars, stop, missing, gathered, late,
                 opSince, stale, opIdle>>

\* The read timed out: force SAFE, then apply a neutral command.
SensorTimeout ==
  /\ pc = "read"
  /\ SetModeSafe
  /\ cmd' = Neutral
  /\ branch' = "sensor_timeout"
  /\ pc' = "dispatch"
  /\ UNCHANGED <<lastObs, lastCmd, source, idle, snapMode, snapCmd, obs, force,
                 hwVars, stop, missing, gathered, late, stale, opIdle>>

\* Any other exception of the read is not caught in the loop.
SensorError ==
  /\ pc = "read"
  /\ Leave
  /\ UNCHANGED <<storeVars, tickVars, hwVars, stop, missing, gathered, late, opSince, stale, opIdle>>

\* MANUAL applies the command of the snapshot, or a neutral one if there is none.
ManualCommandUnchecked(c) == c
ManualCommand(c) == IF c = NoValue THEN Neutral ELSE c

\* The branches of the loop body on the mode read at the start of the tick, up
\* to the gather that applies the command.
Take(b, c) ==
  /\ branch' = b
  /\ cmd' = c
  /\ pc' = "dispatch"

SafeTickReplays ==
  /\ snapMode = "SAFE"
  /\ Take("SAFE", ManualCommand(snapCmd))
  /\ UNCHANGED <<mode, opSince>>
SafeTick ==
  /\ snapMode = "SAFE"
  /\ Take("SAFE", Neutral)
  /\ UNCHANGED <<mode, opSince>>

DeadmanTick ==
  /\ snapMode = "MANUAL" /\ DeadmanExpired
  /\ Take("deadman", Neutral)
  /\ SetModeSafe

ManualTickForgets ==
  /\ snapMode = "MANUAL" /\ ~ DeadmanExpired
  /\ Take("MANUAL", Neutral)
  /\ UNCHANGED <<mode, opSince>>
ManualTick ==
  /\ snapMode = "MANUAL" /\ ~ DeadmanExpired
  /\ Take("MANUAL", ManualCommand(snapCmd))
  /\ UNCHANGED <<mode, opSince>>

AutonomousTick ==
  /\ snapMode = "AUTONOMOUS"
  /\ branch' = "AUTONOMOUS"
  /\ pc' = "decide"
  /\ UNCHANGED <<mode, opSince, cmd>>

\* Before it branches, every tick runs the perception and world pipeline on its
\* observation; that awaits nothing and touches no state modelled here.
PipelineResolves == missing \subseteq {"DeadReckoningEstimator"}

SensorsRead(o) ==
  /\ pc = "read"
  /\ obs' = o
  /\ snapCmd' = NoValue
  /\ \/ /\ ~ PipelineResolves
        /\ Leave
        /\ UNCHANGED <<mode, opSince, cmd, branch>>
     \/ /\ PipelineResolves
        /\ SafeTick \/ DeadmanTick \/ ManualTick \/ AutonomousTick
  /\ UNCHANGED <<lastObs, lastCmd, source, idle, snapMode, force, hwVars, stop, missing,
                 gathered, late, stale, opIdle>>

\* The engine answered with c, or the timer ran out and c is the safe command;
\* either way the safety monitor is asked.  The loop takes the monitor's command
\* only together with a mode.
Enforced(c) ==
  LET verdict == Enforce(obs, c, Neutral) IN
  /\ force' = (verdict.mode = "SAFE")
  /\ cmd' = IF verdict.mode = "SAFE" THEN verdict.cmd ELSE c
  /\ pc' = "dispatch"
  /\ UNCHANGED <<storeVars, snapMode, snapCmd, obs, branch, hwVars, stop, missing, histVars>>

Decide(c) ==
  /\ pc = "decide"
  /\ Enforced(c)

DecisionTimeout ==
  /\ pc = "decide"
  /\ Enforced(Neutral)

DecisionError ==
  /\ pc = "decide"
  /\ Leave
  /\ UNCHANGED <<storeVars, tickVars, hwVars, stop, missing, gathered, late, opSince, stale, opIdle>>

(***************************************************************************)
(* The tasks of the gather start one after the other: the store is updated *)
(* and both apply calls begin.  Only an AUTONOMOUS tick reports a source,  *)
(* and only it can carry a set_mode from the safety monitor.               *)
(***************************************************************************)
Dispatch(s) ==
  /\ pc = "dispatch"
  /\ UpdateCommand(cmd, IF branch = "AUTONOMOUS" THEN s ELSE NoValue)
  /\ lastObs' = IF branch \in AlertBranches THEN lastObs ELSE obs
  /\ \/ /\ force
        /\ SetModeSafe
     \/ /\ ~ force
        /\ UNCHANGED <<mode, opSince>>
  /\ call' = [d \in Devices |-> cmd]
  /\ stale' = IF mode = "SAFE" /\ cmd # Neutral /\ stale < 2 THEN stale + 1 ELSE stale
  /\ pc' = "apply"
  /\ opIdle' = IF branch = "MANUAL" THEN opIdle ELSE 0
  /\ UNCHANGED <<tickVars, orphans, out, stop, missing, gathered, late>>

\* An apply call of this tick completes; with the last one the gather returns.
GatherReturnsEarly == TRUE
GatherReturns == call' = Idle

ApplyDone(d) ==
  /\ pc = "apply"
  /\ call[d] # NoValue
  /\ out' = [out EXCEPT ![d] = call[d]]
  /\ call' = [call EXCEPT ![d] = NoValue]
  /\ late' = late \ {d}
  /\ \/ /\ GatherReturns
        /\ pc' = "sleep"
        /\ gathered' = "ok"
     \/ /\ ~ GatherReturns
        /\ UNCHANGED <<pc, gathered>>
  /\ UNCHANGED <<storeVars, tickVars, orphans, stop, missing, opSince, stale, opIdle>>

\* The call on d ends in an exception: the hardware may or may not have acted
\* on it, and a call still outstanding on the other device is left behind.
ApplyRaises(d) ==
  /\ pc = "apply"
  /\ call[d] # NoValue
  /\ out' \in {out, [out EXCEPT ![d] = call[d]]}
  /\ call' = Idle
  /\ \/ /\ \A e \in Devices \ {d} : call[e] = NoValue
        /\ UNCHANGED orphans
     \/ \E e \in Devices \ {d}, i \in Slots :
          /\ call[e] # NoValue
          /\ \A o \in orphans : o.slot # i
          /\ orphans' = orphans \cup {[slot |-> i, dev |-> e, cmd |-> call[e]]}

\* A timeout forces SAFE, except in the two alert branches, which have already
\* done so and swallow every exception of their gather.
HandleTimeoutLogged == UNCHANGED <<mode, opSince>>
HandleTimeout ==
  \/ /\ branch \in AlertBranches
     /\ UNCHANGED <<mode, opSince>>
  \/ /\ branch \notin AlertBranches
     /\ SetModeSafe

ApplyTimeout(d) ==
  /\ ApplyRaises(d)
  /\ HandleTimeout
  /\ pc' = "sleep"
  /\ gathered' = "timeout"
  /\ UNCHANGED <<lastObs, lastCmd, source, idle, tickVars, stop, missing, late, stale, opIdle>>

\* Any other exception ends the loop, unless an alert branch swallows it.
ApplyError(d) ==
  /\ ApplyRaises(d)
  /\ gathered' = "error"
  /\ \/ /\ branch \in AlertBranches
        /\ pc' = "sleep"
     \/ /\ branch \notin AlertBranches
        /\ Leave
  /\ UNCHANGED <<storeVars, tickVars, stop, missing, late, opSince, stale, opIdle>>

\* The locals of a tick are dead after it, and so is what is recorded about it.
ForgetTick ==
  /\ snapMode' = "AUTONOMOUS" /\ snapCmd' = NoValue /\ obs' = NoValue
  /\ cmd' = Neutral /\ branch' = "AUTONOMOUS" /\ force' = FALSE
  /\ gathered' = "ok" /\ late' = {} /\ opSince' = FALSE

\* The sleep to the end of the period.
WakeResumes ==
  /\ pc = "sleep"
  /\ pc' = "top"
  /\ mode' = IF branch \in AlertBranches THEN "AUTONOMOUS" ELSE mode
  /\ ForgetTick
  /\ UNCHANGED <<lastObs, lastCmd, source, idle, hwVars, stop, missing, stale, opIdle>>
Wake ==
  /\ pc = "sleep"
  /\ pc' = "top"
  /\ ForgetTick
  /\ UNCHANGED <<storeVars, hwVars, stop, missing, stale, opIdle>>

-----------------------------------------------------------------------------
(***************************************************************************)
(* An orphan reaches its device, or ends without effect (its own timer, an *)
(* error).                                                                 *)
(***************************************************************************)
OrphanLands(o) ==
  /\ o \in orphans
  /\ out' = [out EXCEPT ![o.dev] = o.cmd]
  /\ orphans' = orphans \ {o}
  /\ late' = late \cup {o.dev}
  /\ UNCHANGED <<storeVars, pc, tickVars, call, stop, missing, gathered, opSince, stale, opIdle>>

OrphanEnds(o) ==
  /\ o \in orphans
  /\ orphans' = orphans \ {o}
  /\ UNCHANGED <<storeVars, pc, tickVars, call, out, stop, missing, histVars>>

-----------------------------------------------------------------------------
(***************************************************************************)
(* main.py: the finally block forces SAFE, applies a neutral command to    *)
(* the thrusters only, without a timer, swallowing every exception, and    *)
(* closes.  The event loop cancels what is left of the orphans.            *)
(***************************************************************************)
ForceSafeOnExit ==
  /\ pc = "exit"
  /\ mode' = "SAFE"
  /\ pc' = "final"
  /\ ForgetTick
  /\ UNCHANGED <<lastObs, lastCmd, source, idle, hwVars, stop, missing, stale, opIdle>>

FinalApplySkipped ==
  /\ pc = "final"
  /\ pc' = "closing"
  /\ UNCHANGED <<storeVars, tickVars, hwVars, stop, missing, histVars>>
FinalApply ==
  /\ pc = "final"
  /\ \/ /\ out' = [out EXCEPT !["thrusters"] = Neutral]
        /\ late' = late \ {"thrusters"}
        /\ gathered' = "ok"
     \/ /\ gathered' = "error"
        /\ UNCHANGED <<out, late>>
  /\ pc' = "closing"
  /\ UNCHANGED <<storeVars, tickVars, call, orphans, stop, missing, opSince, stale, opIdle>>

Close ==
  /\ pc = "closing"
  /\ pc' = "done"
  /\ orphans' = {}
  /\ UNCHANGED <<storeVars, tickVars, call, out, stop, missing, histVars>>

-----------------------------------------------------------------------------
Running == pc # "done"

\* POST /mode and the set_mode message of /ws/control.
OperatorSetMode(m) ==
  /\ Running
  /\ mode' = m
  /\ opSince' = TRUE
  /\ stale' = IF m = "SAFE" THEN stale ELSE 0
  /\ opIdle' = IF m = "MANUAL" /\ mode # "MANUAL" THEN 0 ELSE opIdle
  /\ UNCHANGED <<lastObs, lastCmd, source, idle, pc, tickVars, hwVars, stop, missing,
                 gathered, late>>

\* POST /command and the command message of /ws/control.
OperatorCommand(c) ==
  /\ Running
  /\ UpdateCommand(c, NoValue)
  /\ opIdle' = 0
  /\ UNCHANGED <<mode, lastObs, pc, tickVars, hwVars, stop, missing, gathered, late, opSince,
                 stale>>

\* SIGTERM or SIGINT.
Signal ==
  /\ Running
  /\ ~ stop
  /\ stop' = TRUE
  /\ UNCHANGED <<storeVars, pc, tickVars, hwVars, missing, histVars>>

Clock ==
  /\ Running
  /\ idle' = Older(idle)
  /\ opIdle' = Older(opIdle)
  /\ UNCHANGED <<mode, lastObs, lastCmd, source, pc, tickVars, hwVars, stop, missing, gathered,
                 late, opSince, stale>>

-----------------------------------------------------------------------------
Shutdown == ForceSafeOnExit \/ FinalApply \/ Close

Tick ==
  \/ Boot \/ BeginTick \/ Wake
  \/ SensorTimeout \/ SensorError
  \/ DecisionTimeout \/ DecisionError
  \/ \E o \in Observations : SensorsRead(o)
  \/ \E c \in EngineCommands : Decide(c)
  \/ \E s \in Sources : Dispatch(s)
  \/ \E d \in Devices : ApplyDone(d) \/ ApplyTimeout(d) \/ ApplyError(d)

Environment ==
  \/ \E m \in Modes : OperatorSetMode(m)
  \/ \E c \in OperatorCommands : OperatorCommand(c)
  \/ \E o \in orphans : OrphanLands(o) \/ OrphanEnds(o)
  \/ Signal
  \/ Clock

Next == Tick \/ Shutdown \/ Environment

Spec == Init /\ [][Next]_vars

\* What ends an operation that awaits a device or a model, if it is timed: the
\* timer of the tick, or for a call left behind its own.
TimerFiresForDevices(x) ==
  \/ x \in Devices /\ ApplyTimeout(x)
  \/ \E o \in orphans : o.dev = x /\ OrphanEnds(o)
TimerFires(x) ==
  \/ x = "sensors" /\ SensorTimeout
  \/ x = "decision" /\ DecisionTimeout
  \/ x \in Devices /\ ApplyTimeout(x)
  \/ \E o \in orphans : o.dev = x /\ OrphanEnds(o)

-----------------------------------------------------------------------------
(***************************************************************************)
(* Properties                                                              *)
(***************************************************************************)

\* Every variable holds a value the program can produce; no tick stage sees a
\* command, an observation or a call outside the declared sets.
TypeOK ==
  /\ StoreTypeOK
  /\ pc \in Phases
  /\ snapMode \in Modes /\ snapCmd \in Commands \cup {NoValue}
  /\ obs \in Observations \cup {NoValue} /\ cmd \in Commands
  /\ branch \in Branches /\ force \in BOOLEAN
  /\ call \in [Devices -> Commands \cup {NoValue}]
  /\ orphans \subseteq OrphanCalls
  /\ out \in [Devices -> Commands]
  /\ stop \in BOOLEAN /\ missing \subseteq CommittedUnresolved
  /\ gathered \in {"ok", "timeout", "error"}
  /\ late \subseteq Devices /\ opSince \in BOOLEAN /\ stale \in 0 .. 2
  /\ opIdle \in 0 .. Deadman + 1

\* However the operator's mode changes, the safety monitor and the failures of
\* a tick interleave, at most one non-neutral command is sent to the actuators
\* from the moment the mode becomes SAFE until the operator leaves SAFE: the
\* one of the tick that had read the mode before.
AtMostOneStaleCommand == stale <= 1

\* A tick in which the sensors or an actuator timed out, the dead-man's switch
\* tripped or an autonomous observation broke a hard limit ends with the
\* vehicle in SAFE, unless the operator has set the mode since.
TickFaulty ==
  \/ branch \in AlertBranches
  \/ gathered = "timeout"
  \/ branch = "AUTONOMOUS" /\ LimitBreached(obs)

FaultForcesSafe == pc = "sleep" /\ TickFaulty => mode = "SAFE" \/ opSince

\* When the gather of a tick returned normally, each device acts on the command
\* of that tick, unless a call left behind by an earlier tick reached it after.
ActuatorsMatchTick ==
  pc = "sleep" /\ gathered = "ok" => \A d \in Devices : out[d] = cmd \/ d \in late

\* After the final apply of main.py the thrusters are neutral, unless that apply
\* failed or a call left behind by a tick reached them after it.
ThrustersNeutralAtExit ==
  pc \in {"closing", "done"} /\ gathered = "ok" =>
    out["thrusters"] = Neutral \/ "thrusters" \in late

\* The loop implements ModeAuthority: a tick that has read the mode and not yet
\* dispatched holds its authority.
Authority ==
  INSTANCE ModeAuthority
    WITH authority <- IF pc \in {"read", "decide", "dispatch"} THEN snapMode ELSE "none",
         issued    <- IF pc = "apply" THEN cmd ELSE Neutral

RefinesModeAuthority == Authority!Spec

\* A stop signal ends the run, whatever the tick in progress is waiting for.
StopEndsRun == stop ~> pc = "done"

\* "Every I/O operation is timeout-bounded" (loop.py): a tick that waits for the
\* sensors, the engine or the actuators gets to its end.
EveryTickEnds == pc \in {"read", "decide", "apply"} ~> pc \in {"sleep", "exit"}

\* When the mode stays SAFE, the loop stays alive and the actuator calls stop
\* failing, every device ends up neutral for good, also when calls left behind
\* by earlier ticks still land.
SafeSettles ==
  /\ <>[](mode = "SAFE" /\ pc \notin {"exit", "final", "closing", "done"})
  /\ <>[][\A d \in Devices : ~ ApplyTimeout(d) /\ ~ ApplyError(d)]_vars
  => <>[](\A d \in Devices : out[d] = Neutral)

-----------------------------------------------------------------------------
(***************************************************************************)
(* Inductive strengthenings of the invariants, proved in AgentLoop_proofs. *)
(***************************************************************************)
Deciding == pc \in {"read", "decide", "dispatch"}

\* The mode a tick acts on, and the command that follows from it.
TickInv ==
  /\ pc = "decide" => snapMode = "AUTONOMOUS"
  /\ pc = "dispatch" /\ snapMode = "SAFE" => cmd = Neutral

\* A stale command has been dispatched only if SAFE has lasted since, so that the
\* tick in progress, if it has not dispatched, has read SAFE.
StaleInv ==
  /\ stale \in {0, 1}
  /\ stale = 1 => mode = "SAFE" /\ (Deciding => snapMode = "SAFE")

\* Each fault forces SAFE at its own point of the tick.
FaultInv ==
  /\ pc = "decide" => branch = "AUTONOMOUS"
  /\ pc \in {"dispatch", "apply", "sleep"} /\ branch \in AlertBranches
       => mode = "SAFE" \/ opSince
  /\ pc = "dispatch" /\ branch = "AUTONOMOUS" /\ LimitBreached(obs) => force
  /\ pc \in {"apply", "sleep"} /\ branch = "AUTONOMOUS" /\ LimitBreached(obs)
       => mode = "SAFE" \/ opSince
  /\ pc = "sleep" /\ gathered = "timeout" => mode = "SAFE" \/ opSince

\* A device whose call has returned acts on the command of the tick.
ActuatorInv ==
  /\ pc = "apply" => \A d \in Devices :
       /\ call[d] \in {cmd, NoValue}
       /\ call[d] = NoValue => out[d] = cmd \/ d \in late
  /\ ActuatorsMatchTick

-----------------------------------------------------------------------------
(***************************************************************************)
(* What the documentation says and the code does not do.                   *)
(***************************************************************************)

\* state.py:9-11: in MANUAL, once no new command has been posted for
\* manual_deadman_s seconds, the next check trips.  Silence is counted from the
\* latest of the operator's command, the entry into MANUAL and the last command of
\* a tick of another branch, so that nothing but a MANUAL tick's own write-back of
\* an old command (loop.py:259) can have restarted the clock.
DeadmanWatchesOperator ==
  [][pc = "read" /\ pc' = "dispatch" /\ branch' = "MANUAL" /\ mode = "MANUAL"
       /\ Deadman > 0
       => opIdle <= Deadman]_vars

\* monitor.py: the caller applies both the command and the mode that enforce()
\* returned, so an obstacle stop, which carries no mode, still stops the vehicle.
ObstacleStopApplied ==
  pc = "apply" /\ branch = "AUTONOMOUS" /\ ObstacleClose(obs) => cmd = Neutral

=============================================================================
