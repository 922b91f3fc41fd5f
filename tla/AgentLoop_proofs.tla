--------------------------- MODULE AgentLoop_proofs ---------------------------
(***************************************************************************)
(* Theorems about AgentLoop: its type invariant, the bound on stale        *)
(* commands, and that it implements ModeAuthority, for every set of        *)
(* commands, observations and orphan slots, every set of timed operations, *)
(* any dead-man limit and any set of unresolved names; and about           *)
(* Deployment: it implements AgentLoop, and a command of the operator is   *)
(* kept as long as MANUAL lasts.                                           *)
(***************************************************************************)
EXTENDS Deployment, TLAPS

\* The safety monitor answers with the engine's command or the neutral one, and
\* asks for SAFE or for no mode change.
LEMMA EnforceType ==
  ASSUME NEW o, NEW c \in Commands
  PROVE  /\ Enforce(o, c, Neutral).cmd \in {c, Neutral}
         /\ Enforce(o, c, Neutral).cmd \in Commands
         /\ Enforce(o, c, Neutral).mode \in {"SAFE", "none"}
         /\ Enforce(o, c, Neutral).mode = "SAFE" <=> LimitBreached(o)
BY StateStoreAssumption DEF Enforce

\* Every reachable state of the agent process is well typed: whatever times out,
\* fails or interleaves, no stage of a tick holds a missing or foreign command.
THEOREM TypeCorrect == Spec => []TypeOK
<1> USE StateStoreAssumption, AgentLoopAssumption
<1>1. Init => TypeOK
  <2> SUFFICES ASSUME Init PROVE TypeOK
    OBVIOUS
  <2>1. StoreTypeOK
    BY DEF Init, StoreInit, StoreTypeOK, Modes
  <2>2. call \in [Devices -> Commands \cup {NoValue}] /\ out \in [Devices -> Commands]
    BY DEF Init, Idle
  <2>3. snapMode \in Modes /\ branch \in Branches /\ opIdle \in 0 .. Deadman + 1
    BY DEF Init, Branches, Modes
  <2>4. stale \in 0 .. 2 /\ missing \subseteq CommittedUnresolved
    BY AgentLoopAssumption DEF Init
  <2>5. QED
    BY <2>1, <2>2, <2>3, <2>4 DEF Init, TypeOK, Phases
<1>2. TypeOK /\ [Next]_vars => TypeOK'
  <2> SUFFICES ASSUME TypeOK, [Next]_vars PROVE TypeOK'
    OBVIOUS
  <2> USE DEF TypeOK, StoreTypeOK, Phases
  <2>1. CASE Boot
    BY <2>1 DEF Boot, Leave, storeVars, tickVars, hwVars
  <2>2. CASE BeginTick
    BY <2>2 DEF BeginTick, Leave, storeVars, tickVars, hwVars
  <2>3. CASE Wake
    BY <2>3 DEF Wake, ForgetTick, storeVars, hwVars, Branches, Modes
  <2>4. CASE SensorTimeout
    <3>1. mode' \in Modes /\ branch' \in Branches
      BY <2>4 DEF SensorTimeout, SetModeSafe, Branches, Modes
    <3>2. QED
      BY <2>4, <3>1 DEF SensorTimeout, SetModeSafe, hwVars
  <2>5. CASE SensorError \/ DecisionError
    BY <2>5 DEF SensorError, DecisionError, Leave, storeVars, tickVars, hwVars
  <2>6. ASSUME NEW o \in Observations, SensorsRead(o) PROVE TypeOK'
    <3>1. mode' \in Modes /\ branch' \in Branches /\ opSince' \in BOOLEAN
      BY <2>6 DEF SensorsRead, SafeTick, DeadmanTick, ManualTick, AutonomousTick,
         Take, SetModeSafe, Branches, Modes
    <3>2. cmd' \in Commands
      BY <2>6 DEF SensorsRead, SafeTick, DeadmanTick, ManualTick, AutonomousTick,
         Take, ManualCommand
    <3>3. pc' \in Phases
      BY <2>6 DEF SensorsRead, Leave, SafeTick, DeadmanTick, ManualTick, AutonomousTick,
         Take
    <3>4. QED
      BY <2>6, <3>1, <3>2, <3>3 DEF SensorsRead, hwVars
  <2>7. ASSUME NEW c \in Commands, Enforced(c) PROVE TypeOK'
    BY <2>7, EnforceType DEF Enforced, storeVars, hwVars, histVars
  <2>8. CASE DecisionTimeout \/ \E c \in EngineCommands : Decide(c)
    BY <2>7, <2>8 DEF DecisionTimeout, Decide
  <2>9. ASSUME NEW s \in Sources, Dispatch(s) PROVE TypeOK'
    <3>1. stale' \in 0 .. 2
      BY <2>9 DEF Dispatch
    <3>2. mode' \in Modes /\ opSince' \in BOOLEAN
      BY <2>9 DEF Dispatch, SetModeSafe, Modes
    <3>3. call' \in [Devices -> Commands \cup {NoValue}]
      BY <2>9 DEF Dispatch
    <3>4. /\ lastObs' \in Observations \cup {NoValue}
          /\ lastCmd' \in Commands \cup {NoValue}
          /\ source' \in Sources \cup {NoValue}
          /\ idle' \in 0 .. Deadman + 1
      BY <2>9 DEF Dispatch, UpdateCommand
    <3>5. QED
      BY <2>9, <3>1, <3>2, <3>3, <3>4 DEF Dispatch, tickVars
  <2>10. ASSUME NEW d \in Devices, ApplyDone(d) PROVE TypeOK'
    BY <2>10 DEF ApplyDone, storeVars, tickVars
  <2>11. ASSUME NEW d \in Devices, ApplyRaises(d)
         PROVE  /\ call' \in [Devices -> Commands \cup {NoValue}]
                /\ orphans' \subseteq OrphanCalls
                /\ out' \in [Devices -> Commands]
    <3>1. call[d] \in Commands
      BY <2>11 DEF ApplyRaises
    <3>2. out' \in [Devices -> Commands]
      BY <2>11, <3>1 DEF ApplyRaises
    <3>3. call' \in [Devices -> Commands \cup {NoValue}]
      BY <2>11 DEF ApplyRaises, Idle
    <3>4. orphans' \subseteq OrphanCalls
      BY <2>11 DEF ApplyRaises, OrphanCalls
    <3>5. QED
      BY <3>2, <3>3, <3>4
  <2>12. ASSUME NEW d \in Devices, ApplyTimeout(d) PROVE TypeOK'
    <3>1. mode' \in Modes /\ opSince' \in BOOLEAN
      BY <2>12 DEF ApplyTimeout, HandleTimeout, SetModeSafe, Modes
    <3>2. QED
      BY <2>11, <2>12, <3>1 DEF ApplyTimeout, tickVars
  <2>13. ASSUME NEW d \in Devices, ApplyError(d) PROVE TypeOK'
    BY <2>11, <2>13 DEF ApplyError, Leave, storeVars, tickVars
  <2>14. CASE ForceSafeOnExit
    BY <2>14 DEF ForceSafeOnExit, ForgetTick, hwVars, Branches, Modes
  <2>15. CASE FinalApply
    <3>1. out' \in [Devices -> Commands]
      BY <2>15 DEF FinalApply
    <3>2. QED
      BY <2>15, <3>1 DEF FinalApply, storeVars, tickVars
  <2>16. CASE Close
    BY <2>16 DEF Close, storeVars, tickVars, histVars
  <2>17. ASSUME NEW m \in Modes, OperatorSetMode(m) PROVE TypeOK'
    BY <2>17 DEF OperatorSetMode, tickVars, hwVars
  <2>18. ASSUME NEW c \in OperatorCommands, OperatorCommand(c) PROVE TypeOK'
    BY <2>18 DEF OperatorCommand, UpdateCommand, tickVars, hwVars
  <2>19. ASSUME NEW o \in orphans, OrphanLands(o) \/ OrphanEnds(o) PROVE TypeOK'
    BY <2>19 DEF OrphanLands, OrphanEnds, OrphanCalls, storeVars, tickVars, histVars
  <2>20. CASE Signal
    BY <2>20 DEF Signal, storeVars, tickVars, hwVars, histVars
  <2>21. CASE Clock
    BY <2>21 DEF Clock, Older, tickVars, hwVars
  <2>22. CASE UNCHANGED vars
    BY <2>22 DEF vars, storeVars, tickVars, hwVars, histVars
  <2>23. QED
    BY <2>1, <2>2, <2>3, <2>4, <2>5, <2>6, <2>8, <2>9, <2>10, <2>12, <2>13, <2>14,
       <2>15, <2>16, <2>17, <2>18, <2>19, <2>20, <2>21, <2>22
       DEF Next, Tick, Shutdown, Environment
<1>3. QED
  BY <1>1, <1>2, PTL DEF Spec

-----------------------------------------------------------------------------
\* What a tick commands follows from the mode it read: it decides freely only in
\* AUTONOMOUS, and commands nothing but neutral in SAFE.
LEMMA TickInvariant == Spec => []TickInv
<1>1. Init => TickInv
  BY DEF Init, TickInv
<1>2. TypeOK /\ TickInv /\ [Next]_vars => TickInv'
  <2> SUFFICES ASSUME TypeOK, TickInv, [Next]_vars PROVE TickInv'
    OBVIOUS
  <2> USE DEF TickInv
  <2>1. CASE Boot \/ BeginTick \/ Wake \/ SensorError \/ DecisionError \/ Shutdown
    BY <2>1 DEF Boot, BeginTick, Wake, SensorError, DecisionError, Shutdown, Leave,
       ForceSafeOnExit, FinalApply, Close
  <2>2. CASE SensorTimeout
    BY <2>2 DEF SensorTimeout
  <2>3. ASSUME NEW o \in Observations, SensorsRead(o) PROVE TickInv'
    BY <2>3 DEF SensorsRead, Leave, SafeTick, DeadmanTick, ManualTick, AutonomousTick, Take
  <2>4. CASE DecisionTimeout \/ \E c \in EngineCommands : Decide(c)
    BY <2>4 DEF DecisionTimeout, Decide, Enforced
  <2>5. CASE \E s \in Sources : Dispatch(s)
    BY <2>5 DEF Dispatch
  <2>6. ASSUME NEW d \in Devices, ApplyDone(d) \/ ApplyTimeout(d) \/ ApplyError(d)
        PROVE  TickInv'
    BY <2>6 DEF ApplyDone, ApplyTimeout, ApplyError, ApplyRaises, Leave
  <2>7. CASE Environment
    BY <2>7 DEF Environment, OperatorSetMode, OperatorCommand, OrphanLands, OrphanEnds,
       Signal, Clock, tickVars
  <2>8. CASE UNCHANGED vars
    BY <2>8 DEF vars, tickVars
  <2>9. QED
    BY <2>1, <2>2, <2>3, <2>4, <2>5, <2>6, <2>7, <2>8 DEF Next, Tick
<1>3. QED
  BY <1>1, <1>2, TypeCorrect, PTL DEF Spec

\* A second non-neutral command can be dispatched in SAFE only by a tick that read
\* another mode after the first one, and none did.
THEOREM StaleCommandsBounded == Spec => []AtMostOneStaleCommand
<1>1. Init => StaleInv
  BY DEF Init, StaleInv
<1>2. TypeOK /\ TickInv /\ StaleInv /\ [Next]_vars => StaleInv'
  <2> SUFFICES ASSUME TypeOK, TickInv, StaleInv, [Next]_vars PROVE StaleInv'
    OBVIOUS
  <2> USE DEF StaleInv, Deciding
  <2>1. CASE Boot \/ BeginTick \/ Wake \/ SensorError \/ DecisionError
    BY <2>1 DEF Boot, BeginTick, Wake, SensorError, DecisionError, Leave, ForgetTick,
       storeVars, tickVars
  <2>2. CASE Shutdown
    BY <2>2 DEF Shutdown, ForceSafeOnExit, FinalApply, Close, storeVars, histVars
  <2>3. CASE SensorTimeout
    BY <2>3 DEF SensorTimeout, SetModeSafe
  <2>4. ASSUME NEW o \in Observations, SensorsRead(o) PROVE StaleInv'
    BY <2>4 DEF SensorsRead, Leave, SafeTick, DeadmanTick, ManualTick, AutonomousTick,
       Take, SetModeSafe
  <2>5. CASE DecisionTimeout \/ \E c \in EngineCommands : Decide(c)
    BY <2>5 DEF DecisionTimeout, Decide, Enforced, storeVars, histVars
  <2>6. ASSUME NEW s \in Sources, Dispatch(s) PROVE StaleInv'
    <3>1. CASE stale = 1
      <4>1. mode = "SAFE" /\ cmd = Neutral
        BY <2>6, <3>1 DEF Dispatch, TickInv
      <4>2. QED
        BY <2>6, <3>1, <4>1 DEF Dispatch, SetModeSafe
    <3>2. CASE stale = 0
      BY <2>6, <3>2 DEF Dispatch, SetModeSafe
    <3>3. QED
      BY <3>1, <3>2
  <2>7. ASSUME NEW d \in Devices, ApplyDone(d) \/ ApplyTimeout(d) \/ ApplyError(d)
        PROVE  StaleInv'
    BY <2>7 DEF ApplyDone, ApplyTimeout, ApplyError, ApplyRaises, HandleTimeout,
       SetModeSafe, Leave, storeVars
  <2>8. CASE Environment
    BY <2>8 DEF Environment, OperatorSetMode, OperatorCommand, OrphanLands, OrphanEnds,
       Signal, Clock, UpdateCommand, storeVars, tickVars, histVars
  <2>9. CASE UNCHANGED vars
    BY <2>9 DEF vars, storeVars, tickVars, histVars
  <2>10. QED
    BY <2>1, <2>2, <2>3, <2>4, <2>5, <2>6, <2>7, <2>8, <2>9 DEF Next, Tick
<1>3. StaleInv => AtMostOneStaleCommand
  BY DEF StaleInv, AtMostOneStaleCommand
<1>4. QED
  BY <1>1, <1>2, <1>3, TypeCorrect, TickInvariant, PTL DEF Spec

-----------------------------------------------------------------------------
\* Every fault a tick can meet leaves the vehicle in SAFE at the end of the tick,
\* unless the operator set the mode after the tick forced it.
THEOREM FaultsForceSafe == Spec => []FaultForcesSafe
<1>1. Init => FaultInv
  BY DEF Init, FaultInv
<1>2. TypeOK /\ FaultInv /\ [Next]_vars => FaultInv'
  <2> SUFFICES ASSUME TypeOK, FaultInv, [Next]_vars PROVE FaultInv'
    OBVIOUS
  <2> USE DEF FaultInv
  <2>1. CASE Boot \/ BeginTick \/ Wake \/ SensorError \/ DecisionError
    BY <2>1 DEF Boot, BeginTick, Wake, SensorError, DecisionError, Leave
  <2>2. CASE Shutdown
    BY <2>2 DEF Shutdown, ForceSafeOnExit, FinalApply, Close
  <2>3. CASE SensorTimeout
    BY <2>3 DEF SensorTimeout, SetModeSafe
  <2>4. ASSUME NEW o \in Observations, SensorsRead(o) PROVE FaultInv'
    BY <2>4 DEF SensorsRead, Leave, SafeTick, DeadmanTick, ManualTick, AutonomousTick,
       Take, SetModeSafe, AlertBranches
  <2>5. ASSUME NEW c \in Commands, Enforced(c), pc = "decide" PROVE FaultInv'
    <3>1. (force' <=> LimitBreached(obs)) /\ obs' = obs /\ branch' = branch /\ pc' = "dispatch"
      BY <2>5, EnforceType DEF Enforced, TypeOK
    <3>2. branch \notin AlertBranches
      BY <2>5 DEF AlertBranches
    <3>3. QED
      BY <3>1, <3>2
  <2>6. CASE DecisionTimeout \/ \E c \in EngineCommands : Decide(c)
    BY <2>5, <2>6, StateStoreAssumption, AgentLoopAssumption DEF DecisionTimeout, Decide
  <2>7. ASSUME NEW s \in Sources, Dispatch(s) PROVE FaultInv'
    <3>1. CASE force
      BY <2>7, <3>1 DEF Dispatch, SetModeSafe, tickVars
    <3>2. CASE ~ force
      BY <2>7, <3>2 DEF Dispatch, tickVars
    <3>3. QED
      BY <3>1, <3>2
  <2>8. ASSUME NEW d \in Devices, ApplyDone(d) PROVE FaultInv'
    BY <2>8 DEF ApplyDone, storeVars, tickVars
  <2>9. ASSUME NEW d \in Devices, ApplyTimeout(d) PROVE FaultInv'
    BY <2>9 DEF ApplyTimeout, ApplyRaises, HandleTimeout, SetModeSafe, tickVars
  <2>10. ASSUME NEW d \in Devices, ApplyError(d) PROVE FaultInv'
    BY <2>10 DEF ApplyError, ApplyRaises, Leave, storeVars, tickVars
  <2>11. CASE Environment
    BY <2>11 DEF Environment, OperatorSetMode, OperatorCommand, OrphanLands, OrphanEnds,
       Signal, Clock, storeVars, tickVars, histVars
  <2>12. CASE UNCHANGED vars
    BY <2>12 DEF vars, storeVars, tickVars, histVars
  <2>13. QED
    BY <2>1, <2>2, <2>3, <2>4, <2>6, <2>7, <2>8, <2>9, <2>10, <2>11, <2>12 DEF Next, Tick
<1>3. FaultInv => FaultForcesSafe
  BY DEF FaultInv, FaultForcesSafe, TickFaulty
<1>4. QED
  BY <1>1, <1>2, <1>3, TypeCorrect, PTL DEF Spec

-----------------------------------------------------------------------------
\* After a gather that returned normally each device acts on the command of the
\* tick, unless an orphan of an earlier tick reached it later.
THEOREM ActuatorsFollowTick == Spec => []ActuatorsMatchTick
<1>1. Init => ActuatorInv
  BY DEF Init, ActuatorInv, ActuatorsMatchTick
<1>2. TypeOK /\ ActuatorInv /\ [Next]_vars => ActuatorInv'
  <2> SUFFICES ASSUME TypeOK, ActuatorInv, [Next]_vars PROVE ActuatorInv'
    OBVIOUS
  <2> USE DEF ActuatorInv, ActuatorsMatchTick
  <2>1. CASE Boot \/ BeginTick \/ Wake \/ SensorError \/ DecisionError
    BY <2>1 DEF Boot, BeginTick, Wake, SensorError, DecisionError, Leave
  <2>2. CASE Shutdown
    BY <2>2 DEF Shutdown, ForceSafeOnExit, FinalApply, Close
  <2>3. CASE SensorTimeout
    BY <2>3 DEF SensorTimeout
  <2>4. ASSUME NEW o \in Observations, SensorsRead(o) PROVE ActuatorInv'
    BY <2>4 DEF SensorsRead, Leave, SafeTick, DeadmanTick, ManualTick, AutonomousTick, Take
  <2>5. CASE DecisionTimeout \/ \E c \in EngineCommands : Decide(c)
    BY <2>5 DEF DecisionTimeout, Decide, Enforced
  <2>6. ASSUME NEW s \in Sources, Dispatch(s) PROVE ActuatorInv'
    BY <2>6, StateStoreAssumption DEF Dispatch, tickVars, TypeOK
  <2>7. ASSUME NEW d \in Devices, ApplyDone(d) PROVE ActuatorInv'
    <3>1. \A e \in Devices : /\ call'[e] \in {cmd', NoValue}
                             /\ call'[e] = NoValue => out'[e] = cmd' \/ e \in late'
      BY <2>7 DEF ApplyDone, TypeOK, tickVars
    <3>2. CASE GatherReturns
      <4>1. \A e \in Devices : call'[e] = NoValue
        BY <3>2 DEF GatherReturns, Idle
      <4>2. pc' = "sleep"
        BY <2>7, <3>2 DEF ApplyDone
      <4>3. \A e \in Devices : out'[e] = cmd' \/ e \in late'
        BY <3>1, <4>1
      <4>4. QED
        BY <4>2, <4>3
    <3>3. CASE ~ GatherReturns
      <4>1. pc' = "apply"
        BY <2>7, <3>3 DEF ApplyDone
      <4>2. QED
        BY <3>1, <4>1
    <3>4. QED
      BY <3>2, <3>3
  <2>8. ASSUME NEW d \in Devices, ApplyTimeout(d) \/ ApplyError(d) PROVE ActuatorInv'
    BY <2>8 DEF ApplyTimeout, ApplyError, Leave
  <2>9. ASSUME NEW o \in orphans, OrphanLands(o) PROVE ActuatorInv'
    BY <2>9 DEF OrphanLands, tickVars, TypeOK, OrphanCalls
  <2>10. ASSUME NEW o \in orphans, OrphanEnds(o) PROVE ActuatorInv'
    BY <2>10 DEF OrphanEnds, tickVars, histVars
  <2>11. CASE \/ \E m \in Modes : OperatorSetMode(m)
              \/ \E c \in OperatorCommands : OperatorCommand(c)
              \/ Signal \/ Clock
    BY <2>11 DEF OperatorSetMode, OperatorCommand, Signal, Clock, tickVars, hwVars, histVars
  <2>12. CASE UNCHANGED vars
    BY <2>12 DEF vars, tickVars, hwVars, histVars
  <2>13. QED
    BY <2>1, <2>2, <2>3, <2>4, <2>5, <2>6, <2>7, <2>8, <2>9, <2>10, <2>11, <2>12
       DEF Next, Tick, Environment
<1>3. ActuatorInv => ActuatorsMatchTick
  BY DEF ActuatorInv
<1>4. QED
  BY <1>1, <1>2, <1>3, TypeCorrect, PTL DEF Spec

-----------------------------------------------------------------------------
\* After the final apply of main.py succeeded the thrusters are neutral, unless a
\* call left behind by a tick reached them after it; no other step of the process
\* touches them then.
THEOREM ThrustersNeutral == Spec => []ThrustersNeutralAtExit
<1>1. Init => ThrustersNeutralAtExit
  BY DEF Init, ThrustersNeutralAtExit
<1>2. TypeOK /\ ThrustersNeutralAtExit /\ [Next]_vars => ThrustersNeutralAtExit'
  <2> SUFFICES ASSUME TypeOK, ThrustersNeutralAtExit, [Next]_vars
               PROVE  ThrustersNeutralAtExit'
    OBVIOUS
  <2> USE DEF ThrustersNeutralAtExit
  <2>1. CASE Boot \/ BeginTick \/ Wake \/ SensorTimeout \/ SensorError \/ DecisionError
    BY <2>1 DEF Boot, BeginTick, Wake, SensorTimeout, SensorError, DecisionError, Leave
  <2>2. ASSUME NEW o \in Observations, SensorsRead(o) PROVE ThrustersNeutralAtExit'
    BY <2>2 DEF SensorsRead, Leave, SafeTick, DeadmanTick, ManualTick, AutonomousTick, Take
  <2>3. CASE DecisionTimeout \/ \E c \in EngineCommands : Decide(c)
    BY <2>3 DEF DecisionTimeout, Decide, Enforced
  <2>4. CASE \E s \in Sources : Dispatch(s)
    BY <2>4 DEF Dispatch
  <2>5. ASSUME NEW d \in Devices, ApplyDone(d) \/ ApplyTimeout(d) \/ ApplyError(d)
        PROVE  ThrustersNeutralAtExit'
    BY <2>5 DEF ApplyDone, ApplyTimeout, ApplyError, Leave
  <2>6. CASE ForceSafeOnExit
    BY <2>6 DEF ForceSafeOnExit
  <2>7. CASE FinalApply
    BY <2>7 DEF FinalApply, TypeOK, Devices
  <2>8. CASE Close
    BY <2>8 DEF Close, histVars
  <2>9. ASSUME NEW o \in orphans, OrphanLands(o) \/ OrphanEnds(o)
        PROVE  ThrustersNeutralAtExit'
    <3>1. CASE OrphanLands(o)
      <4>1. o.dev # "thrusters" => out'["thrusters"] = out["thrusters"]
        BY <3>1 DEF OrphanLands, TypeOK, Devices
      <4>2. late' = late \cup {o.dev} /\ pc' = pc /\ gathered' = gathered
        BY <3>1 DEF OrphanLands
      <4>3. QED
        BY <4>1, <4>2
    <3>2. CASE OrphanEnds(o)
      BY <3>2 DEF OrphanEnds, histVars
    <3>3. QED
      BY <2>9, <3>1, <3>2
  <2>10. CASE \/ \E m \in Modes : OperatorSetMode(m)
              \/ \E c \in OperatorCommands : OperatorCommand(c)
              \/ Signal \/ Clock
    BY <2>10 DEF OperatorSetMode, OperatorCommand, Signal, Clock, hwVars, histVars
  <2>11. CASE UNCHANGED vars
    BY <2>11 DEF vars, hwVars, histVars
  <2>12. QED
    BY <2>1, <2>2, <2>3, <2>4, <2>5, <2>6, <2>7, <2>8, <2>9, <2>10, <2>11
       DEF Next, Tick, Shutdown, Environment
<1>3. QED
  BY <1>1, <1>2, TypeCorrect, PTL DEF Spec

-----------------------------------------------------------------------------
\* The loop implements the abstract mode authority: each of its steps is a step of
\* ModeAuthority or leaves the abstract state unchanged.  In particular only the
\* operator leaves SAFE, and a tick that read SAFE issues the neutral command.
THEOREM ImplementsModeAuthority == Spec => RefinesModeAuthority
<1> USE StateStoreAssumption, AgentLoopAssumption
<1>1. Init => Authority!Init
  BY DEF Init, StoreInit, Authority!Init
<1>2. TypeOK /\ TickInv /\ [Next]_vars => [Authority!Next]_Authority!vars
  <2> SUFFICES ASSUME TypeOK, TickInv, [Next]_vars
               PROVE  [Authority!Next]_Authority!vars
    OBVIOUS
  <2> USE DEF Authority!vars, Authority!Next
  <2>1. CASE Boot
    BY <2>1 DEF Boot, Leave, storeVars, tickVars
  <2>2. CASE BeginTick
    BY <2>2 DEF BeginTick, Leave, storeVars, Authority!Grant
  <2>3. CASE Wake
    BY <2>3 DEF Wake, storeVars
  <2>4. CASE SensorTimeout
    BY <2>4 DEF SensorTimeout, SetModeSafe, Authority!ForceSafe
  <2>5. CASE SensorError \/ DecisionError
    BY <2>5 DEF SensorError, DecisionError, Leave, storeVars, tickVars, Authority!Abandon
  <2>6. ASSUME NEW o \in Observations, SensorsRead(o)
        PROVE  [Authority!Next]_Authority!vars
    BY <2>6 DEF SensorsRead, Leave, SafeTick, DeadmanTick, ManualTick, AutonomousTick,
       Take, SetModeSafe, Authority!ForceSafe, Authority!Abandon
  <2>7. CASE DecisionTimeout \/ \E c \in EngineCommands : Decide(c)
    BY <2>7 DEF DecisionTimeout, Decide, Enforced, storeVars
  <2>8. ASSUME NEW s \in Sources, Dispatch(s) PROVE Authority!Issue(cmd)
    <3>1. mode' \in {mode, "SAFE"} /\ cmd' = cmd /\ snapMode # "none"
      BY <2>8 DEF Dispatch, SetModeSafe, tickVars, TypeOK, Modes
    <3>2. QED
      BY <2>8, <3>1 DEF Dispatch, TickInv, Authority!Issue
  <2>9. ASSUME NEW d \in Devices, ApplyDone(d) PROVE [Authority!Next]_Authority!vars
    BY <2>9 DEF ApplyDone, storeVars, tickVars, Authority!Finish
  <2>10. ASSUME NEW d \in Devices, ApplyTimeout(d) PROVE [Authority!Next]_Authority!vars
    BY <2>10 DEF ApplyTimeout, ApplyRaises, HandleTimeout, SetModeSafe, tickVars,
       Authority!Finish, Authority!ForceSafe
  <2>11. ASSUME NEW d \in Devices, ApplyError(d) PROVE [Authority!Next]_Authority!vars
    BY <2>11 DEF ApplyError, ApplyRaises, Leave, storeVars, tickVars, Authority!Finish
  <2>12. CASE ForceSafeOnExit
    BY <2>12 DEF ForceSafeOnExit, Authority!ForceSafe
  <2>13. CASE FinalApply \/ Close
    BY <2>13 DEF FinalApply, Close, storeVars, tickVars
  <2>14. ASSUME NEW m \in Modes, OperatorSetMode(m) PROVE Authority!OperatorSets(m)
    BY <2>14 DEF OperatorSetMode, tickVars, Authority!OperatorSets
  <2>15. ASSUME NEW c \in OperatorCommands, OperatorCommand(c)
         PROVE  [Authority!Next]_Authority!vars
    BY <2>15 DEF OperatorCommand, tickVars
  <2>16. CASE (\E o \in orphans : OrphanLands(o) \/ OrphanEnds(o)) \/ Signal \/ Clock
    BY <2>16 DEF OrphanLands, OrphanEnds, Signal, Clock, storeVars, tickVars
  <2>17. CASE UNCHANGED vars
    BY <2>17 DEF vars, storeVars, tickVars
  <2>18. (\E c \in Commands : Authority!Issue(c)) => Authority!Next
    BY DEF Authority!Next
  <2>19. (\E m \in Modes : Authority!OperatorSets(m)) => Authority!Next
    BY DEF Authority!Next, Modes, Authority!Modes
  <2>20. CASE \E s \in Sources : Dispatch(s)
    BY <2>8, <2>18, <2>20 DEF TypeOK
  <2>21. CASE \E m \in Modes : OperatorSetMode(m)
    BY <2>14, <2>19, <2>21
  <2>22. QED
    BY <2>1, <2>2, <2>3, <2>4, <2>5, <2>6, <2>7, <2>9, <2>10, <2>11, <2>12, <2>13,
       <2>15, <2>16, <2>17, <2>20, <2>21 DEF Next, Tick, Shutdown, Environment
<1>3. QED
  BY <1>1, <1>2, TypeCorrect, TickInvariant, PTL DEF Spec, RefinesModeAuthority, Authority!Spec

-----------------------------------------------------------------------------
(***************************************************************************)
(* The loop beside the API's handlers.                                     *)
(***************************************************************************)
\* Deployment implements AgentLoop: whether the API (api/routes.py) shares the agent's
\* store or keeps its own, what the agent process and its store do together with the
\* handlers is what AgentLoop allows, for a handler in another process reaches nothing.
THEOREM ImplementsAgent == DeploymentSpec => Spec
<1>1. DeploymentInit => Init
  BY DEF DeploymentInit
<1>2. [DeploymentNext]_allVars => [Next]_vars
  <2> SUFFICES ASSUME [DeploymentNext]_allVars PROVE [Next]_vars
    OBVIOUS
  <2>1. CASE AgentStep
    BY <2>1 DEF AgentStep, Alone, Next, Environment
  <2>2. CASE Handlers
    <3>1. ASSUME NEW m \in Modes, ApiSetMode(m) \/ SharedSetMode(m) PROVE [Next]_vars
      BY <3>1 DEF ApiSetMode, SharedSetMode, Next, Environment
    <3>2. ASSUME NEW c \in OperatorCommands, ApiCommand(c) \/ SharedCommand(c)
          PROVE  [Next]_vars
      BY <3>2 DEF ApiCommand, SharedCommand, Next, Environment
    <3>3. QED
      BY <2>2, <3>1, <3>2 DEF Handlers
  <2>3. CASE UNCHANGED allVars
    BY <2>3 DEF allVars
  <2>4. QED
    BY <2>1, <2>2, <2>3 DEF DeploymentNext
<1>3. QED
  BY <1>1, <1>2, PTL DEF DeploymentSpec, Spec

\* So all that was proved of the agent holds of it in either deployment: its faults
\* force SAFE, its actuators follow its ticks, it stops with neutral thrusters, it
\* leaves one stale command at most, and it implements the mode authority.
THEOREM AgentHoldsWhenDeployed ==
  DeploymentSpec => /\ [](FaultForcesSafe /\ ActuatorsMatchTick)
                    /\ [](ThrustersNeutralAtExit /\ AtMostOneStaleCommand)
                    /\ RefinesModeAuthority
BY ImplementsAgent, FaultsForceSafe, ActuatorsFollowTick, ThrustersNeutral,
   StaleCommandsBounded, ImplementsModeAuthority, PTL

\* Whatever ticks, timeouts, calls left behind and changes of mode come between, a
\* command the operator posted in MANUAL while no tick was before its write is the
\* store's, until he posts another or MANUAL ends.
THEOREM DueCommandsKept == DeploymentSpec => []DueCommandKept
<1>1. DeploymentInit => DueInv
  BY DEF DeploymentInit, DueInv
<1>2. DueInv /\ [DeploymentNext]_allVars => DueInv'
  <2> SUFFICES ASSUME DueInv, [DeploymentNext]_allVars, due' # NoValue PROVE DueInv'
    BY DEF DueInv
  <2> USE DEF DueInv, storeVars, tickVars
  <2>1. CASE Alone(Tick)
    <3> USE DEF SetModeSafe, Leave
    <3>1. mode' = "MANUAL" /\ due' = due /\ Tick
      BY <2>1 DEF Alone, WhileManual
    <3>2. CASE Boot \/ BeginTick \/ Wake
      BY <3>1, <3>2 DEF Boot, BeginTick, Wake, ForgetTick
    <3>3. CASE SensorTimeout \/ SensorError \/ DecisionError
      BY <3>1, <3>3 DEF SensorTimeout, SensorError, DecisionError
    <3>4. ASSUME NEW o \in Observations, SensorsRead(o) PROVE DueInv'
      BY <3>1, <3>4 DEF SensorsRead, SafeTick, DeadmanTick, ManualTick, AutonomousTick,
         ManualCommand, Take
    <3>5. CASE DecisionTimeout \/ \E c \in EngineCommands : Decide(c)
      BY <3>1, <3>5 DEF DecisionTimeout, Decide, Enforced
    <3>6. ASSUME NEW s \in Sources, Dispatch(s) PROVE DueInv'
      BY <3>1, <3>6 DEF Dispatch, UpdateCommand
    <3>7. ASSUME NEW d \in Devices, ApplyDone(d) \/ ApplyTimeout(d) \/ ApplyError(d)
          PROVE  DueInv'
      BY <3>1, <3>7 DEF ApplyDone, ApplyTimeout, ApplyError, HandleTimeout
    <3>8. QED
      BY <3>1, <3>2, <3>3, <3>4, <3>5, <3>6, <3>7 DEF Tick
  <2>2. CASE Alone(Shutdown)
    BY <2>2 DEF Alone, WhileManual, Shutdown, ForceSafeOnExit, FinalApply, Close
  <2>3. ASSUME NEW o \in orphans, Alone(OrphanLands(o)) \/ Alone(OrphanEnds(o))
        PROVE  DueInv'
    BY <2>3 DEF Alone, WhileManual, OrphanLands, OrphanEnds
  <2>4. CASE Alone(Signal) \/ Alone(Clock)
    BY <2>4 DEF Alone, WhileManual, Signal, Clock
  <2>5. ASSUME NEW m \in Modes, ApiSetMode(m) \/ SharedSetMode(m) PROVE DueInv'
    BY <2>5 DEF ApiSetMode, SharedSetMode, WhileManual, OperatorSetMode, vars
  <2>6. ASSUME NEW c \in OperatorCommands, ApiCommand(c) \/ SharedCommand(c) PROVE DueInv'
    BY <2>6 DEF ApiCommand, SharedCommand, OperatorCommand, UpdateCommand, Deciding, vars
  <2>7. CASE UNCHANGED allVars
    BY <2>7 DEF allVars, vars
  <2>8. QED
    BY <2>1, <2>2, <2>3, <2>4, <2>5, <2>6, <2>7 DEF DeploymentNext, AgentStep, Handlers
<1>3. DueInv => DueCommandKept
  BY DEF DueInv, DueCommandKept
<1>4. QED
  BY <1>1, <1>2, <1>3, PTL DEF DeploymentSpec

=============================================================================
