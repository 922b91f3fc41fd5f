# A TLA+ model of AUVBrain

AUVBrain runs an autonomous underwater vehicle: a control loop reads sensors,
asks an engine (an LLM or a set of rules) for a command, lets a safety monitor
override it and sends it to the actuators, while an operator changes the mode
and posts commands through an HTTP and WebSocket API. These modules model the
parts of it whose correctness depends on the order in which things happen. They
are translated from the Python source under `src/src/auvbrain/`; paths below are
relative to that directory. `PROJECT.json` maps each definition to the lines it
stands for, and lists each run, finding, hazard and theorem.

## 1. Inventory

### Processes, threads and tasks

| Where | What runs |
|---|---|
| `auv-agent` process | one asyncio loop with one task, `agent_loop`; the awaitables of an `asyncio.gather` are tasks of their own, and live on when one of them raises |
| | the telemetry thread, a daemon fed by a `queue.Queue` |
| | pool threads that run the calls of an in-process model (llama.cpp) |
| | signal handlers that set `stop_event` |
| `auv-api` process | uvicorn with async handlers that give way at every query and commit, and pool threads for plain-function dependencies (the rate limiter) |
| `auth/cli.py` | makes and revokes keys in the same database, from a process of its own |
| both | an instance `STATE` of `StateStore` each: the module is imported twice |

Code between two awaits is not interrupted by another task of the same loop.
Threads can interleave anywhere.

### Components

| Component | State | Operations | Hard behaviour | Correct when |
|---|---|---|---|---|
| Vehicle state store (`state.py`) | mode, last observation, last command, its source, the dead-man's clock | get, set_mode, update_observation, update_command, check_manual_deadman | read by the loop long before it acts on what it read | readers do not overwrite what was written since |
| Agent loop (`agent/loop.py`) | locals of a tick | one tick: snapshot, sensors, pipeline, a branch per mode, gather of the actuator calls, telemetry, sleep | awaits between read and use; four timers; calls left behind; crashes | a fault ends in SAFE; SAFE issues nothing but neutral; actuators follow the tick; ticks end; a stop ends the run |
| Start and shutdown (`agent/main.py`) | stop_event | signal, finally block | a failing or late actuator call | the vehicle is left safe, telemetry is complete |
| Safety monitor (`safety/monitor.py`) | none that decides | enforce | order of the limits, NaN, missing readings; what the caller does with the pair | a breached limit gives SAFE and the neutral command |
| Decision engines (`agent/policy.py`) | failures, cooldown, source | decide, tool rounds | two timers around one call, cancellation, replies that parse as something else | the rules answer when the model fails, the model rests and is retried |
| Telemetry writer (`telemetry/writer.py`) | queue, stop flag, file buffer, drop count | write, close, worker | two threads, a full queue, a dying worker, exit of the interpreter | nothing accepted is lost or reordered, drops are counted |
| Rate limiter (`api/limiter.py`) | a bucket per address | check | time is read before the lock | quota per interval |
| Operator API (`api/routes.py`, `api/ws.py`) | none of its own | set mode, post command, keys, streams | long-lived sockets, another process than the loop | what the operator posts takes effect |
| API keys, database (`auth/`, `db/`) | key rows | create, check, expire, revoke | a check made once, sockets and requests that outlive it | an effect needs the scope; an ended key works only through what had passed before |
| LLM clients (`llm/`) | a lazily loaded model and its lock | chat_json | timed-out threads keep the lock, construction outside the lock | an answer is that of the call that waits for it; few models |
| Tools (`agent/tool_registry.py`, `agent/tools/`) | registry | dispatch | bounded rounds | a call is made or reported |
| Sensor validation (`perception/`) | previous value and frozen count per channel | validate | called once or twice per tick, depending on the mode | a frozen channel is reported, a glitch leaves no trace |
| Action shield (`safety/shield.py`) | none | evaluate | early returns, only the nearest obstacle | what a caller gets by submitting again is safe |
| Faults (`faults/`) | none | detect, diagnose, plan | escalation, several faults at once | the most urgent fault decides the strategy |
| Planning (`planning/`) | none that decides | plan, evaluate, decide | two looks at a map whose entries expire, ranking with infeasible options | the best feasible route leads |
| World model (`world/`) | obstacles, currents, mission | update, query, decay | obstacles expire unasked; a read of the current stores its decay | an estimate is never overrated |
| Actuator health (`control/actuator_health.py`) | health estimate per motor | update | repeated evidence | a healthy motor recovers |
| Memory (`memory/`) | rows | record, ingest, search | unique keys, commits whose outcome is unknown, filter after limit | what was recorded survives; only limits hide it |
| Metrics (`metrics/registry.py`) | counters | inc, snapshot | counters nobody increments | what is exposed is counted |
| Simulation (`simulation/`) | vehicle, sensors, faults | step, inject, clear_all | combinations of faults | clear_all restores the readings |
| Navigation (`navigation/`) | position, velocity, confidence | update | confidence saturates and must recover | a healthy sensor restores it |
| Control laws, hardware (`control/`, `hardware/`) | numeric | | floating point, GPIO | out of reach, see section 7 |

### Interactions

The loop calls hardware, engine, monitor and telemetry directly, and shares
`STATE` with the API handlers when both live in one process. `main.py` wires the
loop, catches its end and closes telemetry. The engine owns no task: a timer
around its call, of its own or of the loop, cancels it, but a pool thread that
runs the call goes on. A tool registry would give the engine the planner, the
shield and the memory as tools, over one `WorldState`; `main.py` passes none, so
these parts are reached by tests, scripts and whoever builds a registry. The API
handlers, the sockets and the command line meet in the rows of the database.

## 2. Modules

| Module | Models | State that corresponds to the code |
|---|---|---|
| `StateStore` | `state.py` | `mode`, `lastObs`, `lastCmd`, `source` are the fields of `VehicleState`; `idle` is the age of `_last_manual_command_ts` |
| `SafetyMonitor` | `SafetyMonitor.enforce` | no state; `Enforce` returns the pair (mode, command) |
| `AgentLoop` | `agent_loop`, `_run_async`, the operator's handlers | `pc` names the await at which the process stands, `snapMode`, `snapCmd`, `obs`, `cmd`, `branch`, `force` are the locals of a tick, `call` and `orphans` the outstanding actuator calls, `out` what the hardware acts on, `missing` the names the package fails to provide (it never changes) |
| `ModeAuthority` | abstract: what the loop promises about the mode | |
| `Deployment` | the two processes of README.md lines 93-97 | `apiMode`, `apiCmd` are the second `STATE` |
| `DecisionEngine` | `FallbackDecisionEngine`, `LLMDecisionEngine`, the timers around them | `failures`, `cooldown`, `source` are fields; `setting` is what `main.py` wires and never changes, `waited` is the age of the call, `round` the tool round |
| `TelemetryWriter` | `TelemetryWriter` and its thread | `queue`, `dropped`, `stopFlag` are fields; `wpc` is the line of `_worker`, `buf` the file buffer, `disk` the file |
| `RateLimiter` | `TokenBucketLimiter.check` on pool threads | `tokens`, `last` are the bucket; `now` is the local of each thread |
| `Perception` | `SensorValidator`, `DeadReckoningEstimator`'s confidence, `FaultDetector`, `FaultDiagnosis`, as the loop's ticks call them | `prev` and `count` are `_prev` and `_constant_counts`, `health` the `sensor_health` of the last validation, `nav` is `_confidence`, `faults` the fault list; `stage` separates the two validations of an autonomous tick |
| `Inference` | the engine with `llm/`: HTTP clients, and llama.cpp on pool threads | `queued`, `owner` and `answer` say where the call of the engine is; `at` is the line of `_chat_json_blocking` of each thread, `held` its local, `llama` and `lock` the fields of the client |
| `Access` | `auth/`, the key endpoints and commands of `api/routes.py`, `/ws/control`, the key rows | `row` is the table; `request` and `socket` hold what a handler in progress has read and passed; `effect` is what the last step brought about |
| `Energy` | `planning/energy.py` | no state; a charge counts in a unit of its own, so many to the hundredth, which is a Wh of the default pack |
| `ActionShield` | `safety/shield.py` | no state; `Evaluate` returns verdict and command |
| `TacticalPlanner` | `planning/tactical.py`, `planning/trajectory.py` | no state; a route is a sequence of points |
| `Autonomy` | the tools on plan, shield, energy and trajectory over the world model | `obstacles` is `_obstacles` with the time each has left, `waypoint` the mission's index, `world` the snapshot a registry was bound to, `plan` the locals of `request_replan` |
| `MemoryStore` | `memory/`, the memory tools, `rag_documents` | `rows` is the table by its unique source, `call` what a search has read and not yet returned |
| `CurrentEstimate` | the confidence of `world/environment.py` | `samples`, `confidence`, `age` |
| `Simulation` | `simulation/`, with the energy planner on its readings and the current estimate | `last` is `_last_value` of the frozen channels, the rest the fields of injector, suite and dynamics |
| `AgentLoopMC`, `DeploymentMC`, `InferenceMC`, `RateLimiterMC`, `PerceptionMC`, `AutonomyMC`, `AccessMC`, `MemoryStoreMC`, `SimulationMC` | instances for TLC | |
| `AgentLoop_proofs` (with `Deployment`), `Inference_proofs` (with `DecisionEngine`), `Autonomy_proofs` (with `Simulation` and `CurrentEstimate`), `TelemetryWriter_proofs`, `RateLimiter_proofs`, `Perception_proofs`, `Access_proofs`, `MemoryStore_proofs` | theorems, see section 5 | |

`AgentLoop` extends `StateStore` and `SafetyMonitor`; `Deployment` extends
`AgentLoop` with the operator's handlers on the same store or on another.
`Inference` extends `DecisionEngine`, replaces "the model answers or does not" by
clients, threads, lock and model, and is proved to implement it. `Autonomy`
extends `TacticalPlanner`, which extends `ActionShield` and `Energy`;
`Simulation` extends `Energy` and `CurrentEstimate`. `DecisionEngine`,
`TelemetryWriter`, `RateLimiter`, `Perception` and the modules on top of them share
no variable with the loop: the loop sees of the engine that it answers, raises or
does not answer, and nothing of the others; what perception computes reaches the
telemetry and the engine's prompt, never the mode or a command of the loop.
Composing them would add no behaviour.

### How a tick becomes actions

One action is what the loop does between two awaits that really yield. An
`async with` on an uncontended lock whose body never awaits does not yield, so
each store operation is part of the step that contains it.

| Action | `agent/loop.py` |
|---|---|
| `Boot` | the objects built before the loop, 66-85 |
| `BeginTick` | stop check, snapshot of mode and command, 87-119 |
| `SensorsRead`, `SensorTimeout`, `SensorError` | the read and its outcomes, 115-176; `SensorsRead` continues into the branch of the snapshot |
| `SafeTick`, `DeadmanTick`, `ManualTick`, `AutonomousTick` | the four branches up to their next await |
| `Decide`, `DecisionTimeout`, `DecisionError` | the engine and the monitor, 337-364 |
| `Dispatch` | the store writes and the start of the gather, 364-375 |
| `ApplyDone`, `ApplyTimeout`, `ApplyError` | one actuator call ends; a failure leaves the other behind |
| `OrphanLands`, `OrphanEnds` | a call that was left behind acts, or does not |
| `Wake` | the end of the sleep, 412-413 |
| `ForceSafeOnExit`, `FinalApply`, `Close` | the finally block of `main.py` |

Five variables record history and are read by no action: `gathered`, `late`,
`opSince`, `stale`, `opIdle`. They exist to state properties.

Commands, observations and sources are small sets of values. An observation is a
record of the fields the monitor reads; a reading may be `NotANumber` or
`Absent`. The age of the dead-man's clock counts clock units and saturates just
above the limit, because it is compared with nothing else.

`missing` is the set of names that `loop.py` uses and the package does not
provide. As committed these are the four of `CommittedUnresolved`, and the loop
ends before its first tick. `Packages` lists the packages
a run looks at: `agent_loop` includes the committed one, one that lacks the
pipeline's names only and leaves in its first tick, and the one that provides
all names. The remaining runs look at the last alone: they describe the loop
that its authors wrote, once the names exist.

### Decision engine

A reply of the model is one of six kinds, which is all the two parsers tell
apart. Both timers fire at a deadline; the clock does not pass a due timer. When
both are due the loop's fires, because it was armed first and asyncio runs
timers of the same time in that order; its cancellation is a `CancelledError`,
which `except Exception` does not catch.

### Inference

A step of a thread is what it does between two reads or writes of what the threads
share: `_llama`, the lock, and the future the event loop waits on. A timer that
cancels the call drops it when it is still queued, and otherwise leaves its thread
at work (`Abandon`): `owner` forgets it, `at` does not. The construction of the
model is two steps, because the attribute is set and then read again for the return.

### Telemetry writer

Each read of the stop flag and of the queue by the thread is a step. `WriteLine`
may pass lines to the disk early, as a file object does when its buffer fills.
`WorkerDies` covers an exception of `json.dumps` and of the file. `Exit` ends the
interpreter with the thread and its buffer.

### Rate limiter

One unit of tokens is what one clock unit refills, so that a request costs
`Cost` units and all arithmetic is on integers. A request reads the time in
`Arrive` and takes the lock in `Check`, where any number of other requests may
have been in between.

### Perception

Two channels stand for five: depth, which every observation has, and pressure,
which is optional and checked against depth. Readings are integers in steps of
depth, with one out of range, NaN, an infinity and, for pressure, absence. `Read` is what a tick
does with its observation; `OneValidation` is a SAFE or MANUAL tick, and
`FirstValidation` followed by `SecondValidation` an AUTONOMOUS one. The estimate
that the first detection of a tick is given comes from a method that does not exist
(`loop.py` 147), so whether it has diverged is left open. Confidences are tenths;
the aggregate one is compared with its threshold without taking roots. `held` and
`good` record history.

### Access

A step of a request is what its dependencies and its handler do between two
database calls: `Lookup` reads the row and keeps what it says, `Admit` compares it
with the clock and touches it, `Authorise` is `require_scope`, `Limit` the limiter
in its thread, `Handle` the handler. The row is not read again. A socket does
the same once, in `SocketLookup` and `Accept`, and then handles messages for as long
as it is open. `Restart` ends what the API process holds. `holders` records, for a
key that has ended, which actors had passed its check before.

### Autonomy

`request_replan` looks at the nearest obstacle three times, and each look compares
the expiry of every obstacle with the clock; these are the steps `plan` goes through,
with `Elapse` between them. The other tools look once and are operators, so that a
property can apply them in any state. A sort is `Listed`: the elements at some places of
a list, in an order of the places that is given as a set of pairs. Points have a position along the track and a
depth; energies, charges and scores are integers, in units named in the modules.

### MemoryStore

A text is the sequence of its words, and a pattern is found where it occurs in one
piece. A commit can land although its caller gets an error; the caller may then
record again. A search reads its rows in one step and returns in another; what it
makes of the rows in between, filtered, ranked and cut, is `Answer`, and what it was to
return of the rows that matched is `WantedRows`.

### Simulation

The driver of a scenario injects its event, reads, feeds the energy planner and
steps, in any order; it may inject another fault and clear all. Depths and voltages
are hundredths and pass from level to level. `Sample` adds an error from
`DepthErrors` or `BatteryErrors`, which stand for the Gaussians of
`simulation/sensors.py:45`; the assumption bounds a voltage's at 0.42 V, forty-two
deviations. The charge that a reading makes is not rounded, by either formula.
`cleared` records whether a fault was injected since `clear_all`.

## 3. Runs

Passing runs:

| Run | Bounds | What it shows |
|---|---|---|
| `agent_loop` | one command besides neutral for the engine and the operator, a nominal, a too-deep and an obstacle observation, dead-man limit 1, one orphan slot, all packages | the safety invariants of the loop, and that it implements `ModeAuthority` |
| `deployment` | a command each for engine and operator, one observation, no dead-man's switch, every operation timed, one orphan slot, one process or two | a command posted in MANUAL stays; a stop ends the run, ticks end, a lasting SAFE leaves every device neutral |
| `inference` | 2 threads, 3 clients, 2 failures, cooldown 2, the six orders and absences of the two timers, tools and fallback on and off | the source is the decider, no late answer is taken for another, models are bounded, the primary rests and is retried, decisions are made |
| `telemetry` | queue of 2, 4 events, interval 2, failures | order, completeness and counting across the two threads; accepted events reach the disk |
| `rate_limiter` | 3 threads, price 2, burst 4, clock to 5, every interval | no interval exceeds its quota |
| `perception` | readings 0 to 3 with 3 out of range, NaN, an infinite depth, absent pressure, largest step 1, tolerance 1, frozen after 3, ingress with four observations | a frozen channel is reported, glitches leave no trace, ingress decides the strategy, the estimator recovers |
| `autonomy` | commands on every axis, two obstacles that live 3 clock units, near or in the avoidance range, sure or doubtful; two waypoints; confidences, depths and charges on both sides of each threshold | when the shield misses an obstacle, that resubmitting settles, what a plan leads with (never with the slower variant of a feasible direct route) and when it fails |
| `access` | an operator's key that expires and an administrator's, two requests, one socket, restarts | effects need the scope; an ended key acts only through those that had passed |
| `memory` | three sources, one word, an episode with notes or without, a fault whose action repeats the word or none, two levels of trust around the least trusted one, one search at a time, one result or two | what was reported as recorded survives; a search returns only what it is to return, and misses no more of it than it left unread; the retriever withholds a trusted row only for its fill of rows trusted as much, or for procedures |
| `simulation` | every scenario, one fault more, four voltages, two depths, one motor, no error or one deviation of the depth, no error or 0.03 V, current stale after 2 | what `clear_all` restores up to the noise, which readings of a critical battery end the mission, that the current's confidence is never overrated |

Bounds. The passing invariants of the loop tell neutral from not neutral, so one
other command is enough; where it matters whose command is applied, the engine and
the operator have one each. A tick has at most two calls
outstanding, and one orphan slot already lets a call land in any later tick and
after the shutdown; a second one repeats it. Three observations suffice for
`agent_loop`: the monitor has three verdicts, and all limits lead to the same one;
their order is data. `deployment` asks about commands and progress, for which one
observation is enough. Two threads are the least that race for the
construction of the model while a third call waits behind them; the timers cover
absent, engine first, loop first and both at once. A queue of 2 with 4 events fills,
drains and drops. Three
threads are the least for which one stale request sees a bucket that two others
have moved in opposite directions. Readings 0 to 2 have a pair that is one step apart
and a pair that is two, which is all that spikes and disagreements depend on; a
frozen limit of 3 is odd, so that counting twice per tick and once per tick reach it
at different points. Two obstacles are the least of which one hides the other, and a
life of 3 lets one expire between any two of the three looks of a plan. Two
requests let one key revoke another, or itself, while a request or socket of it is
in progress. With one result a search reads two rows, and three sources are more
than it reads; with two it reads them all. The action that repeats the word is what
lets `lookup_similar` find a fault at all. An error of 0.03 V is the least that lifts
10.5 V over the threshold of `from_observation`, and 3 m between the depths is more than
any error and less than the bias. One fault beside the scenario's own already meets each of its events.

Deadlock is checked except where the system really stops: the runs with the agent
process, `deployment` included, end in
`done`, the writer's in `exited` or when all events are written. The others never
stop.

Runs that end in a violation state what the repository says of itself and the
code does not do. Each has a finding in `PROJECT.json` that quotes the line:

| Run | The code |
|---|---|
| `deadman_silence` | restarts the dead-man's clock on every MANUAL tick |
| `obstacle_stop` | drops a stop that carries no mode |

Further divergences that the models contain as the code has them, and for which
there is no run:

- As committed the loop cannot start: `agent/loop.py:75` builds
  `DeadReckoningEstimator`, which it does not import, and lines 147-154 call three
  methods that exist nowhere in the package; `tests/test_agent_loop.py:73` expects
  ticks.
- Entering MANUAL does not restart the dead-man's clock (`state.py:50`), which
  runs from the last command of any mode; `config.py:81` speaks of time in MANUAL.
- The first MANUAL ticks after AUTONOMOUS apply the engine's last command
  (`agent/loop.py:253`); the repository's README, line 82, says operator commands.
- Only AUTONOMOUS ticks ask the safety monitor (`agent/loop.py:252`);
  `safety/monitor.py:3` says every tick.
- A tick that read its mode before it became SAFE still sends its command
  (`agent/loop.py:366`). `AtMostOneStaleCommand` says that there is only one.
- Shutdown makes the thrusters neutral and leaves the experiments as they are
  (`agent/main.py:79`).
- All timeouts are absent by default (`config.py:97`); `agent/loop.py:8` says every
  operation is bounded. `deployment` sets them.
- An operator's command posted while a MANUAL tick is between its snapshot and its
  write is overwritten by the command of the snapshot (`agent/loop.py:259`);
  `api/routes.py:109` says that it is applied by the loop in MANUAL. `DueCommandKept`
  says what is kept: any command posted at another time.
- `auv-api` and `auv-agent`, which the repository's README (lines 93-98) starts in
  two terminals, have a store each (`state.py:87`); `state.py:3` says one is shared, and
  `api/routes.py:109` that the loop applies the operator's command. No mode or command
  posted to the API then reaches the loop, so that nothing takes it out of SAFE once
  a fault forced it. No run shows this: there is no order of steps in which it could be otherwise.
- The loop's timer for a decision (`agent/loop.py:340`) has the same length as the
  engine's and is armed first, so it cancels the engine, which does not fall back to
  the rules; the loop takes the neutral command. The repository's README, line 122,
  and `agent/policy.py:174` say that it falls back.
- `settings.mode` is read from `AUV_MODE` and never used (`config.py:25`).
- A decision that the loop's timer cut off is not counted as a failure
  (`agent/policy.py:226`), so the cooldown does not begin.
- A reply that is nothing but a tool call is taken for the neutral command
  (`agent/policy.py:141`).
- The interpreter can exit with events queued (`telemetry/writer.py:51`), and drops
  are counted in the writer alone, never in the metric that is exposed for them
  (`telemetry/writer.py:44`, `metrics/registry.py`).
- The rate limiter reads the time before its lock (`api/limiter.py:41`), and so can
  deny a request that fits in the burst.
- An AUTONOMOUS tick validates its observation twice (`agent/loop.py:145`, 307). In
  the second validation the reading is compared with itself, so a spike is never in
  the fault list or the confidence that the tick goes on with, against
  `perception/validator.py:10`, and the frozen limit of `validator.py:41` ticks is
  reached in about half as many. No property counts ticks from below:
  `FrozenIsReported` says a frozen channel is reported no later than promised.
- The cross-check of depth and pressure replaces a reason and a confidence that the
  range check has set (`validator.py:106`): an impossible reading can rise from
  confidence 0.1 to 0.4 and from a fault of severity high to medium.
- The first validation takes every tick to last 0.1 s (`validator.py:71`).
- An absent or implausible reading leaves the previous reference in place, however
  old it is by then.
- The escalation of several high faults changes nothing (`faults/diagnosis.py:60`):
  the escalated copy is bound to the loop variable. Nothing in the package calls
  `FaultDiagnosis` outside its tests.
- No reading of the sonar reaches the obstacle map (`world/model.py`,
  `WorldStateBuilder.build`), although a comment there (line 106) says so. The map is
  filled by whoever calls `update`; a registry stays bound to the `WorldState` it was
  made with, while its obstacles and mission go on.
- The lock of the in-process model is there to serialise access
  (`llm/llama_cpp_client.py:30`), but the construction is outside it: calls that time
  out while it lasts build more models. `ModelsBounded` says how many.
- The shield's docstring lists checks that do not exist; a clamp returns before the
  gate for critical faults, and only the nearest obstacle is looked at, so a doubtful
  obstacle hides a sure one behind it (`safety/shield.py:137`). `ShieldSettles` says
  that submitting what came back closes the first gap, `ObstacleMissedOnlyIfMasked`
  that the second is the only one. A caller that applies the first answer of the
  shield moves under a critical fault.
- The gate for critical faults is to "block any non-zero thruster commands"
  (`safety/shield.py:169`), and looks at surge, sway and heave above 0.05 alone: a command
  of full yaw, or of 0.05 on each axis, is approved under a critical fault.
  `ShieldSettles` claims the axes other than yaw only.
- "Filter infeasible candidates" (`planning/tactical.py:64`) filters none; the direct
  route comes before the avoidance route even when it is infeasible, and the fallback
  is a slow cruise. A plan raises `AttributeError` when the nearest obstacle expires
  between two looks, against the docstring at line 48.
- `execute_mission_action` and the memory tools are in no registry
  (`agent/tools/definitions.py`).
- `clear_all` (`simulation/faults.py:92`, "restore nominal operation") leaves
  the drained voltage, a frozen battery channel, the biases and freezes of the
  obstacle channels and an injected turn as they are. The scenario low_battery
  expects a replan, but at its voltage the energy planner continues.
- The scenario critical_battery expects "return" or "surface" at 10.5 V, which is 0.02 V
  under the threshold of `EnergyState.from_observation`: with noise of more than that,
  two deviations (`simulation/sensors.py:85`), the planner continues, and of a frozen
  battery channel it goes on deciding as before the fall (`simulation/sensors.py:37`).
  `CriticalBatteryReturns` says for which readings it does not. The loop's formula has
  0.42 V to spare.
- Nothing in the program sets the two costs of an `EnergyState`, so `decide` never
  answers "abort" or "replan" (`planning/energy.py:130`-138; theorem `EnergyAnswers`).
- The loop and `EnergyState.from_observation` compute the charge by two formulas.
- `CurrentModel` stores its decay when it is read, so its confidence depends on the
  number of reads; `reset` keeps the time of the last measurement
  (`world/environment.py`).
- A fault row's text has labels between the names, and `lookup_similar`'s pattern has
  none, so against `memory/fault_memory.py:91` it finds of what `record_fault` wrote only
  a row whose action or outcome happens to spell the names so; `retrieve_procedure` looks for
  its text twice in a row and `retrieve_fault_memory` repeats the type
  (`memory/fault_memory.py`, `memory/retriever.py`).
- The filters run after the row limit (`memory/retriever.py:111`): as many untrusted
  rows that match as are read hide a trusted one. `MissedOnlyByLimit` and
  `LostOnlyToTrust` bound the loss by the rows left unread.
- `upsert` names a column `metadata_` that the table calls `metadata`
  (`db/repositories.py`); with SQLAlchemy 2 every ingestion then fails. The model
  lets an ingestion land; one that fails changes nothing.
- `_resolve_key`'s docstring (`auth/dependencies.py:57`) says 403 for a revoked or
  expired key, the code answers 401; `AUV_AUTH_ENABLED` (`config.py:46`) is read by
  nobody.
- `scripts/autonomy_benchmark.py`, `tests/test_memory_retrieval.py`,
  `tests/test_tactical_planner.py` and `tests/test_simulation_scenarios.py` call functions
  with names or signatures they do not have; the last also takes `read`, a coroutine, for
  a dictionary.

## 4. Fairness

`Deployment` (`DeploymentFairSpec`): the event loop runs what is ready, so the steps of the loop that
await nothing foreign are weakly fair. An operation that awaits a device, a
sensor or a model ends for certain only if it has a timeout (`Timed`); then the
timer is weakly fair. Nothing is assumed of the hardware, the operator, the
signals or an answer. The final apply is never timed; its fairness is that of the
bundled adapters, which do not block in it.

`Inference`: time passes, timers that are due fire, the event loop hears of an
answer that is there, and the agent loop asks again. The HTTP clients bound every wait,
so a request ends. The threads of an in-process model are bounded by nothing and are
assumed to get on only while neither timer is set (`Untimed`): then nothing else
ends a decision. With a timer no thread need ever end, and the decision is made all
the same.

`TelemetryWriter`: the thread is scheduled, time passes, and `join` returns.

`Perception`: an AUTONOMOUS tick that has validated once goes on to its second
validation, because nothing is awaited in between. `NavigationRecovers` supposes in
its antecedent that AUTONOMOUS ticks keep coming, with a depth that is healthy.

`Access`, `Autonomy`, `MemoryStore`, `Simulation` and `RateLimiter` state no
liveness and assume no fairness.

`SafeSettles` assumes in its own antecedent that the mode stays SAFE and that
actuator calls stop failing: it says that SAFE leaves every device neutral as
soon as the hardware lets it, in spite of calls still in flight.

## 5. Theorems

Proved by TLAPS for all values of the constants that satisfy the assumptions
named in the modules.

`AgentLoop_proofs`
- `TypeCorrect`: `TypeOK`.
- `StaleCommandsBounded`: at most one non-neutral command after SAFE. The bound
  is not inductive by itself. `StaleInv` adds that once one has been sent, SAFE
  has lasted since, so that a tick which has not dispatched yet has read SAFE;
  `TickInv` adds that such a tick dispatches neutral.
- `FaultsForceSafe`: `FaultInv` states for each fault the point of the tick from
  which SAFE holds, until the operator sets the mode.
- `ActuatorsFollowTick`: `ActuatorInv` says of each device whether its call has
  returned and what it acts on meanwhile.
- `ThrustersNeutral`: `ThrustersNeutralAtExit` is inductive with `TypeOK`.
- `ImplementsModeAuthority`: the initial state and every step map to an initial
  state, a step or a stutter of `ModeAuthority`, using `TypeOK` and `TickInv`.

- `ImplementsAgent`: `DeploymentSpec => Spec`. Each step beside the handlers is a step of
  `AgentLoop`, and a handler of another process is a stutter.
- `AgentHoldsWhenDeployed`: hence all of the above in either deployment.
- `DueCommandsKept`: `DueInv` adds to the property that MANUAL lasts, and that a tick
  which has not written its command yet carries the one that is due: it took its
  snapshot after the command was posted.

`Inference_proofs`
- `TypeCorrect`, `SourceIsDecider`.
- `PrimaryRests`: `RestInv` relates the engine's counter to the failures that
  happened and the cooldown to the time since. The property supposes
  `EngineSeesTimeouts`, that the engine's own timer is the one to fire; the
  equal timers of `main.py` do not satisfy it, because failures the engine does
  not see are not counted.
- `ImplementsEngine`: `InferenceSpec => DecisionEngine`'s `Spec`, so what is proved of the
  engine holds with any client; every step of a thread is a stutter of the engine.
- `CallsHaveOneOwner`: `CallInv` says that the engine awaits its model exactly while its
  call is queued, owned or answered, and that these exclude each other.
- `ModelsStayBounded`: `ModelInv`. A thread builds only when it found no model, and
  none starts to once there is one; so the models built and the threads still building
  are together no more than the threads. Assumes that the pool is finite.

`Access_proofs`
- `OnlyAuthorisedEffects`: `AccessInv` says of each stage of a request and of a socket
  what the checks before it established, about a row that stays once it was made.
- `EndedKeysAreInert`: `HolderInv` says that of an ended key every actor past its check
  is recorded as a holder, and while the key is not expired also every one about to be.
  The second half is needed because a revocation is too late for whoever has read the
  row, the clock only for those past the comparison.

`TelemetryWriter_proofs`
- `TypeCorrect`, `DropsAreCounted`, `EventsKeepOrder`.
- `JoinedCloseCompletes`: `DrainInv` says that a worker past its last look has an
  empty queue behind it, because the stop flag was set before it looked and
  nothing is queued after the flag. `EventsKeepOrder` does the rest.

`RateLimiter_proofs`
- `TypeCorrect`: a bucket overdrawn by stale times is refilled by the present
  time.
- `QuotaHolds`: `QuotaInv` bounds what an interval has spent together with the
  content of the bucket extrapolated to the interval's end, a quantity that no
  request, stale or not, increases.

`Perception_proofs`
- `TypeCorrect`: among the rest, a remembered reference is plausible.
- `StuckIsReported`: `HeldInv` says that the reference of a channel is its last
  plausible reading and that its count is at least the number of ticks the reading
  has been held, in ticks of either kind; a count at the limit degrades the channel,
  and a second validation or a disagreement degrades it again.
- `GlitchesAreForgotten`: an action property, from `HeldInv`.
- `IngressAlwaysSurfaces`: no fault of the detectors has a priority as urgent as
  ingress.

`Autonomy_proofs`, about the world model and the shield
- `TypeCorrect`: the obstacles, the mission's index and the world.
- `MissedOnlyIfMasked`: `NearestIsNearest` says what pruning and sorting the obstacles
  leave at the head: a live one that no live one is nearer than. The property follows
  from it and `Evaluate`, in any state that is typed.
- `Settles`: `ShieldIsSound` takes the verdicts of `Evaluate` apart for any command,
  sighting and world; `ChangesLast` says that what one call took out of a
  command the next finds gone. `ClampedStaysDriven` says that no clamp takes an axis
  under what the gate for critical faults looks at, unless it takes it out, so that a
  first answer which drives an axis other than yaw is rejected in the end.

`Autonomy_proofs`, about plans
- `FailsOnlyOnExpiry`: an action property. `RangingOK` adds that a plan between two
  looks has an obstacle to look at, or one has expired since it began.
- `Ranking`: `RoutesOK` says of each stage of a plan which routes it has and with which
  clearance each was made, and `StillClear` that the clearance of the direct route is
  at most the distance of every obstacle still alive, at every later time of the plan. Without the last, a direct route called feasible could not be confirmed when
  the plan answers. `AnswerOK` says that there is no answer before the end. The order of the
  answer comes from `ListedInOrder` (each place once, in its order, for any finite
  places and strict total order) and the worth of a slower variant from `ScoreGrows`.
- `PartIsFeasible`: the evaluation of a path is monotone, in the path and in the charge.
  It rests on `PathCostIsDefined` and `PathCostGrows`, which follow the recursion by the
  least number for which they would fail, and on `RootIsNat`.
- `EnergyAnswers`: what the energy planner can answer at all.

`Autonomy_proofs`, about the simulation
- `SimulationTypeCorrect`, `EstimateTypeCorrect`.
- `ClearRestores`: `ClearedIsClear` says that since a `clear_all` no fault is in force
  except those it does not reach. It claims the depth and the voltage up to the noise, the
  voltage unless its channel is frozen, and nothing of the obstacle channel.
- `CriticalBatteryEndsMission`: `BatteryReadTrue` says that the battery was not drained
  between a reading and the decision on it, unless its channel is frozen, and
  `CriticalCharge` that the planner ends the mission up to 10.52 V by one formula and up to
  10.92 V by the other.
- `NotOverrated`: an action property. `NeverAboveEarned` bounds the stored confidence by
  the one last measured, and `DecayBound` bounds the quotient of the decay.

`MemoryStore_proofs`
- `TypeCorrect`.
- `EntriesSurvive`: inductive with `TypeOK`: only a source without a row is inserted.
- `MissesAreLimits`: `SearchesComplete` says of a search in progress that it holds rows
  that match, each once, and that no more of them are missing than its limit made it
  leave. `KeptRows` says what the loop that filters the rows returns, and `FirstKRows`
  what cutting after the ranking leaves. That each row is held once is needed to count:
  a fill of `k` places must be `k` rows.
- `LossesAreDeserved`: of the rows that were read, one that the retriever withholds has `k`
  rows before it in the order of trust, or gave way to procedures; so what is lost
  otherwise was not read.
- `RetrievedInOrder`: the rows of an answer of the retriever fall in trust.

The assumptions are those of the modules that declare the constants: the types of
commands, readings, worlds and rows, finite sets where the code has a pool or a table,
and positive limits. A recursion that a proof is about is a recursive function (`Kept`,
`PathCost`), and a sort is `Listed`.

## 6. Only model-checked

Liveness is out of the prover's reach: `StopEndsRun`, `EveryTickEnds`, `SafeSettles`,
`DecisionIsMade`, `PrimaryIsRetried`, `AcceptedReachesDisk` and `NavigationRecovers`.
Every safety invariant and every action property that a passing run checks is stated by
a theorem. The two runs that end in a violation are counterexamples, which TLC finds.

## 7. Not modelled

- Control laws, mixing, the integration of position and velocity, and the vector of the
  current: floating-point computations without control flow that could go wrong in
  order. Of the dynamics the depth is kept and whether an injected turn lasts.
- `control/actuator_health.py`, which nothing constructs; the repositories of
  telemetry and mission logs in `db/repositories.py`, which nothing calls.
- Tools that only copy a state into a dictionary, endpoints and streams that only read,
  the web page, prompts, texts of reasons and alerts.
- GPIO, FastAPI, uvicorn, SQLAlchemy, the database and the LLM services are external:
  what the code sees of them is an answer, an error, or none.
- Metrics, logging, configuration parsing and the scripts. Pacing of the loop (the
  length of its sleep).
- A rate of 0, which disables the limiter; the number of its buckets, which only grows.
- Embeddings, which are stored and never searched; similarity scores.

## 8. Plan

Done: the loop and its store, the deployment, the engine and the models behind it, the
writer, the limiter, perception up to the recovery strategy, keys and their
effects, planning and the shield over the world model, memory, and the simulation.
Every safety property of the runs is proved.
What is left:

1. Abstract specifications of the telemetry writer (a queue that loses nothing it
   accepted) and of the rate limiter, implemented step by step.
2. The safety part of what the liveness properties rest on: that a fair action is
   enabled where it is needed remains with TLC, that every step of a tick lowers a
   rank can be proved.
