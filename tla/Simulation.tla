------------------------------- MODULE Simulation -------------------------------
(***************************************************************************)
(* The simulation laboratory: scenarios (simulation/scenarios.py), the     *)
(* injector (faults.py), the sensor suite (sensors.py) and, reduced to the *)
(* depth, the dynamics (dynamics.py).  A driver injects the event of the   *)
(* scenario, reads the sensors, feeds the reading to the energy planner    *)
(* and steps the dynamics; it may inject more faults and clear them all.   *)
(* The estimate of the current runs beside it.                             *)
(*                                                                         *)
(* The depth and battery channels add an error of a finite choice where    *)
(* the code draws it from a Gaussian.  The temperature and pressure        *)
(* channels are like the obstacle channel, of which only the bias and the  *)
(* freeze are followed.  Depths are in hundredths of a metre, voltages in  *)
(* hundredths of a volt; both pass from level to level.                    *)
(***************************************************************************)
EXTENDS Energy, CurrentEstimate, FiniteSets

CONSTANTS
  Depths,         \* the depths the vehicle passes through
  Levels,         \* the voltages the battery passes through; the lowest is 9 V
  DepthErrors,    \* what random.gauss may add to a depth, of deviation 2
  BatteryErrors,  \* what it may add to a voltage, of deviation 1
  NoValue,        \* None
  Motors,         \* the four thrusters
  MaxExtra        \* bound on the faults injected beside the scenario's own

\* No voltage is read 0.42 V, forty-two deviations, too high.
ASSUME SimulationAssumption ==
  /\ Depths \subseteq Nat /\ 0 \in Depths
  /\ Levels \subseteq Nat /\ {900, 1050, 1100, 1240} \subseteq Levels
  /\ DepthErrors \subseteq Int /\ BatteryErrors \subseteq Int
  /\ \A e \in BatteryErrors : e < 42
  /\ NoValue \notin Int
  /\ Motors # {} /\ MaxExtra \in Nat

Channels == {"depth", "battery", "obstacle"}

VARIABLES
  depth,     \* dynamics.z
  turning,   \* dynamics.vyaw still holds an injected rate
  current,   \* dynamics.current_x, current_y are not zero
  battery,   \* sensors._battery_v
  frozen,    \* the channels with frozen set
  biased,    \* the channels with a bias; 4 m for the depth
  dropout,   \* depth.dropout_prob = 1.0
  last,      \* _last_value of the depth and of the battery channel
  ingress,   \* sensors._water_ingress
  health,    \* injector._thruster_health, in hundredths
  pending,   \* the events of the scenario still to come
  extra,     \* how many more faults may be injected
  reading,   \* the observation read in this step, or NoReading
  cleared    \* history: no fault was injected since clear_all

driverVars == <<depth, turning, current, battery, frozen, biased, dropout, last,
                ingress, health, pending, extra, reading, cleared>>
simulationVars == <<driverVars, estimateVars>>

NoReading == [depth |-> NoValue, battery |-> NoValue, ingress |-> FALSE]

-----------------------------------------------------------------------------
(***************************************************************************)
(* The scenarios: what Scenario.build starts from, and the one event.      *)
(* normal, communication_loss and llm_timeout have none.                   *)
(***************************************************************************)
Events ==
  {"drain_to_low", "drain_to_critical", "dvl_out", "imu_bias", "depth_bias",
   "motor0_degrade", "obstacle_close", "ingress", "freeze_depth"}

Scenarios == {[current |-> FALSE, events |-> {e}] : e \in Events}
               \cup {[current |-> c, events |-> {}] : c \in BOOLEAN}

SimulationInit ==
  /\ \E scenario \in Scenarios :
       current = scenario.current /\ pending = scenario.events
  /\ depth = 0 /\ turning = FALSE /\ battery = 1240
  /\ frozen = {} /\ biased = {} /\ dropout = FALSE
  /\ last = [depth |-> NoValue, battery |-> NoValue]
  /\ ingress = FALSE
  /\ health = [m \in Motors |-> 100]
  /\ extra = MaxExtra
  /\ reading = NoReading
  /\ cleared = TRUE
  /\ EstimateInit

-----------------------------------------------------------------------------
(***************************************************************************)
(* FaultInjector                                                           *)
(***************************************************************************)
DrainBattery(v) ==
  /\ battery' = v
  /\ UNCHANGED <<turning, current, frozen, biased, dropout, ingress, health>>

DvlDropout ==
  /\ dropout' = TRUE
  /\ UNCHANGED <<turning, current, battery, frozen, biased, ingress, health>>

ImuBias ==
  /\ turning' = TRUE
  /\ UNCHANGED <<current, battery, frozen, biased, dropout, ingress, health>>

SetBias(channel) ==
  /\ biased' = biased \cup {channel}
  /\ UNCHANGED <<turning, current, battery, frozen, dropout, ingress, health>>

SensorFreeze(channel) ==
  /\ frozen' = frozen \cup {channel}
  /\ UNCHANGED <<turning, current, battery, biased, dropout, ingress, health>>

WaterIngress ==
  /\ ingress' = TRUE
  /\ UNCHANGED <<turning, current, battery, frozen, biased, dropout, health>>

AddCurrent ==
  /\ current' = TRUE
  /\ UNCHANGED <<turning, battery, frozen, biased, dropout, ingress, health>>

ThrusterDegraded(m, h) ==
  /\ health' = [health EXCEPT ![m] = h]
  /\ UNCHANGED <<turning, current, battery, frozen, biased, dropout, ingress>>

\* What each scenario's event does.
Happens(event) ==
  \/ event = "drain_to_low"      /\ DrainBattery(1100)
  \/ event = "drain_to_critical" /\ DrainBattery(1050)
  \/ event = "dvl_out"           /\ DvlDropout
  \/ event = "imu_bias"          /\ ImuBias
  \/ event = "depth_bias"        /\ SetBias("depth")
  \/ event = "motor0_degrade"    /\ ThrusterDegraded(CHOOSE m \in Motors : TRUE, 30)
  \/ event = "obstacle_close"    /\ SetBias("obstacle")
  \/ event = "ingress"           /\ WaterIngress
  \/ event = "freeze_depth"      /\ SensorFreeze("depth")

Injected ==
  /\ reading' = NoReading
  /\ cleared' = FALSE
  /\ UNCHANGED <<depth, last>>

ScenarioEvent ==
  \E event \in pending :
    /\ pending' = pending \ {event}
    /\ Happens(event)
    /\ Injected
    /\ UNCHANGED extra

Inject ==
  /\ extra > 0
  /\ extra' = extra - 1
  /\ \/ DvlDropout \/ ImuBias \/ SetBias("depth")
     \/ \E channel \in Channels : SensorFreeze(channel)
     \/ DrainBattery(1050) \/ WaterIngress \/ AddCurrent
     \/ \E m \in Motors, h \in {0, 40} : ThrusterDegraded(m, h)
  /\ Injected
  /\ UNCHANGED pending

\* It does not stop a turn, charge the battery, or reach the obstacle channel and
\* the freeze of the battery channel.
ClearAllButFreeze ==
  /\ dropout' = FALSE
  /\ biased' = biased \ {"depth"}
  /\ UNCHANGED frozen
  /\ ingress' = FALSE
  /\ current' = FALSE
  /\ health' = [m \in Motors |-> 100]
  /\ reading' = NoReading
  /\ cleared' = TRUE
  /\ UNCHANGED <<depth, turning, battery, last, pending, extra>>
ClearAll ==
  /\ dropout' = FALSE
  /\ biased' = biased \ {"depth"}
  /\ frozen' = frozen \ {"depth"}
  /\ ingress' = FALSE
  /\ current' = FALSE
  /\ health' = [m \in Motors |-> 100]
  /\ reading' = NoReading
  /\ cleared' = TRUE
  /\ UNCHANGED <<depth, turning, battery, last, pending, extra>>

-----------------------------------------------------------------------------
(***************************************************************************)
(* SensorChannel.sample and SimSensorSuite.read                            *)
(***************************************************************************)
Sample(channel, truth, bias, error, lost, previous) ==
  IF channel \in frozen THEN (IF previous = NoValue THEN truth ELSE previous)
  ELSE IF lost THEN NoValue
  ELSE truth + bias + error

Remember(channel, value, previous) ==
  IF channel \in frozen \/ value = NoValue THEN previous ELSE value

\* A dropped depth is replaced by the true one, without noise.
OrTruth(value, truth) == IF value = NoValue THEN truth ELSE value

\* The level n, and those with none between them and n.
Adjacent(n, levels) ==
  {m \in levels : ~ \E k \in levels : (m < k /\ k < n) \/ (n < k /\ k < m)}

Read ==
  /\ battery' \in {v \in Adjacent(battery, Levels) : v <= battery}
  /\ \E depthError \in DepthErrors, batteryError \in BatteryErrors :
       LET d == Sample("depth", depth, IF "depth" \in biased THEN 400 ELSE 0,
                       depthError, dropout, last.depth)
           b == Sample("battery", battery', 0, batteryError, FALSE, last.battery)
       IN  /\ reading' = [depth |-> OrTruth(d, depth),
                          battery |-> OrTruth(b, battery'), ingress |-> ingress]
           /\ last' = [depth |-> Remember("depth", d, last.depth),
                       battery |-> Remember("battery", b, last.battery)]
  /\ UNCHANGED <<depth, turning, current, frozen, biased, dropout, ingress, health,
                 pending, extra, cleared>>

\* AUVDynamics.step: the depth moves a little, under thrust or momentum, and not
\* above the surface; drag may have stopped the turn.
DynamicsStep ==
  /\ depth' \in Adjacent(depth, Depths)
  /\ turning' \in {turning, FALSE}
  /\ reading' = NoReading
  /\ UNCHANGED <<current, battery, frozen, biased, dropout, last, ingress, health,
                 pending, extra, cleared>>

DriverNext == ScenarioEvent \/ Inject \/ ClearAll \/ Read \/ DynamicsStep

SimulationNext ==
  \/ DriverNext /\ UNCHANGED estimateVars
  \/ EstimateNext /\ UNCHANGED driverVars

SimulationSpec == SimulationInit /\ [][SimulationNext]_simulationVars

-----------------------------------------------------------------------------
(***************************************************************************)
(* Properties                                                              *)
(***************************************************************************)

\* faults.py:92, "restore nominal operation": a reading after clear_all, with no
\* fault injected since, shows the depth and the voltage up to the noise of their
\* channels, and no ingress.  The voltage is that of the drained battery, and it is
\* excepted when the battery channel was frozen: clear_all restores neither.
ClearRestoresReadings ==
  cleared /\ reading # NoReading =>
    /\ reading.depth - depth \in DepthErrors
    /\ ~ reading.ingress
    /\ "battery" \notin frozen => reading.battery - battery \in BatteryErrors

\* scenarios.py, critical_battery expects "return" or "surface": whatever faults
\* came before and however far the battery falls, a reading of a critical battery
\* ends the mission by the loop's formula of the charge whatever the noise, and by
\* from_observation's, which returns up to 10.52 V, when the noise lifts it by no
\* more than 0.02 V.  Not when the battery channel was frozen, perhaps at a voltage
\* long gone.
CriticalBatteryReturns ==
  reading # NoReading /\ battery <= 1050 /\ "battery" \notin frozen =>
    /\ DecideEnergy(InLoop(reading.battery)) \in {"return", "surface"}
    /\ reading.battery - battery <= 2 =>
         DecideEnergy(FromObservation(reading.battery)) \in {"return", "surface"}

-----------------------------------------------------------------------------
(***************************************************************************)
(* What the proofs strengthen them by                                      *)
(***************************************************************************)
FlagsOK ==
  /\ turning \in BOOLEAN /\ current \in BOOLEAN /\ dropout \in BOOLEAN
  /\ ingress \in BOOLEAN /\ cleared \in BOOLEAN

ReadingsOK ==
  /\ last \in [depth : Int \cup {NoValue}, battery : Int \cup {NoValue}]
  /\ reading \in [depth : Int, battery : Int, ingress : BOOLEAN] \cup {NoReading}

SimulationTypeOK ==
  /\ FlagsOK /\ ReadingsOK
  /\ depth \in Depths
  /\ battery \in Nat
  /\ frozen \subseteq Channels /\ biased \subseteq Channels
  /\ health \in [Motors -> 0 .. 100]
  /\ pending \subseteq Events /\ extra \in 0 .. MaxExtra

\* No fault is in force but those that clear_all does not reach.
ClearedIsClear ==
  cleared => ~ dropout /\ ~ ingress /\ "depth" \notin biased \cup frozen

\* The battery is drained and read, and nothing between, while its channel is free.
BatteryReadTrue ==
  reading # NoReading /\ "battery" \notin frozen =>
    reading.battery - battery \in BatteryErrors

=============================================================================
