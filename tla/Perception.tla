------------------------------ MODULE Perception ------------------------------
(***************************************************************************)
(* What a tick of agent_loop makes of its observation: SensorValidator     *)
(* (perception/), DeadReckoningEstimator (navigation/) and FaultDetector   *)
(* (faults/), as state over ticks, and what FaultDiagnosis makes of the    *)
(* faults.  The loop does not call FaultDiagnosis; its tests do.           *)
(*                                                                         *)
(* Every tick validates its observation once; an AUTONOMOUS tick validates *)
(* the same observation a second time, on the same validator, and takes    *)
(* its estimate and its faults from that.  Nothing is awaited in between.  *)
(*                                                                         *)
(* The channels are depth, which every observation has, and pressure,      *)
(* which is optional and checked against depth.  The battery is checked    *)
(* like depth and taken to be healthy; temperature and sonar are checked   *)
(* like pressure, without the cross-check.                                 *)
(***************************************************************************)
EXTENDS Integers

CONSTANTS
  Values,       \* what a channel can read, in steps of depth
  Observations, \* the observations of a tick
  NotANumber,   \* NaN
  Infinite,     \* an infinity, of one sign
  Absent,       \* None
  Limits,       \* per channel: lo, hi and the largest step between two ticks
  Tolerance,    \* the largest difference of depth and pressure that agree
  FrozenAfter,  \* _CONSTANT_TICKS
  NavStart, NavGain, NavLoss, NavLeast, NavMost,  \* the estimator's confidence
  NavUsable     \* the confidence below which navigation has diverged

Channels  == {"depth", "pressure"}
Readings  == Values \cup {NotANumber, Infinite}
NoReading == Absent

ASSUME PerceptionAssumption ==
  /\ Values \subseteq Int /\ Values # {}
  /\ {NotANumber, Infinite, Absent} \cap Int = {}
  /\ Absent \notin {NotANumber, Infinite} /\ NotANumber # Infinite
  /\ Observations \subseteq
       [depth : Readings, pressure : Readings \cup {Absent}, ingress : BOOLEAN]
  /\ Limits \in [Channels -> [lo : Int, hi : Int, step : Nat]]
  /\ Tolerance \in Nat
  /\ FrozenAfter \in Nat \ {0}
  /\ {NavStart, NavGain, NavLoss, NavLeast, NavMost, NavUsable} \subseteq Nat
  /\ NavLeast <= NavStart /\ NavStart <= NavMost
  /\ NavLeast <= NavUsable /\ NavUsable <= NavMost

\* The health of a channel: why it is degraded and its confidence in tenths.  Each
\* reason clears a flag, so only the reason "none" is healthy; a channel that was
\* not read has no entry.
Reasons == {"none", "out_of_range", "spike", "constant", "disagree", "no_entry"}
Health  == [reason : Reasons, confidence : 0 .. 10]

VARIABLES
  stage,   \* "read", or "second" before the second validation of a tick
  obs,     \* the observation of the tick
  prev,    \* _prev: the reading each channel is compared with
  count,   \* _constant_counts, saturating at FrozenAfter
  health,  \* sensor_health of the last validation
  nav,     \* _confidence of the estimator
  faults,  \* the fault list of the last detection
  \* History variables, read by no action.
  held,    \* ticks since the reading of a channel changed, saturating
  good     \* the last plausible reading of a channel

sensorVars == <<prev, count, health>>
vars == <<stage, obs, sensorVars, nav, faults, held, good>>

Least(a, b)    == IF a < b THEN a ELSE b
Greatest(a, b) == IF a < b THEN b ELSE a
Apart(a, b)    == IF a < b THEN b - a ELSE a - b

-----------------------------------------------------------------------------
(***************************************************************************)
(* SensorValidator.                                                        *)
(***************************************************************************)
Degraded(reason, confidence) == [reason |-> reason, confidence |-> confidence]
Healthy(h) == h.reason = "none"

Plausible(c, v) == v \in Values /\ Limits[c].lo <= v /\ v <= Limits[c].hi

\* The frozen count of a channel after the plausible reading v, and its health:
\* a reading cannot have jumped and be the same.
CountRestarts(c, v) == IF v = prev[c] THEN 1 ELSE 0
CountAfter(c, v) == IF v = prev[c] THEN Least(count[c] + 1, FrozenAfter) ELSE 0

CheckNumeric(c, v) ==
  CASE v \notin Values                       -> Degraded("out_of_range", 0)
    [] v \in Values /\ ~ Plausible(c, v)     -> Degraded("out_of_range", 1)
    [] Plausible(c, v) /\ prev[c] # NoReading /\ Apart(v, prev[c]) > Limits[c].step
                                             -> Degraded("spike", 3)
    [] Plausible(c, v) /\ CountAfter(c, v) = FrozenAfter
                                             -> Degraded("constant", 2)
    [] OTHER                                 -> Degraded("none", 10)

Check(c, v) == IF v = Absent THEN Degraded("no_entry", 10) ELSE CheckNumeric(c, v)

\* A disagreement of depth and pressure replaces what the checks of each have found.
\* An infinity is infinitely far from a number, and its distance to itself is NaN.
Disagree(o) ==
  /\ o.depth # NotANumber
  /\ o.pressure \notin {NotANumber, Absent}
  /\ \/ {o.depth, o.pressure} \subseteq Values /\ Apart(o.depth, o.pressure) > Tolerance
     \/ Infinite \in {o.depth, o.pressure} /\ o.depth # o.pressure

Validated(o) ==
  [c \in Channels |-> IF Disagree(o) THEN Degraded("disagree", 4) ELSE Check(c, o[c])]

\* Only plausible readings are remembered; an implausible or absent one leaves the
\* reference and the count as they are.
RememberEverything(o) ==
  /\ prev' = [c \in Channels |-> IF o[c] \in Values THEN o[c] ELSE prev[c]]
  /\ count' = [c \in Channels |-> IF Plausible(c, o[c]) THEN CountAfter(c, o[c]) ELSE count[c]]
Remember(o) ==
  /\ prev' = [c \in Channels |-> IF Plausible(c, o[c]) THEN o[c] ELSE prev[c]]
  /\ count' = [c \in Channels |-> IF Plausible(c, o[c]) THEN CountAfter(c, o[c]) ELSE count[c]]

Validate(o) ==
  /\ health' = Validated(o)
  /\ Remember(o)

\* The geometric mean of the confidences of battery, depth and, if read, pressure
\* is below 0.35.
PoorlyObserved(h) ==
  IF h["pressure"].reason = "no_entry"
  THEN h["depth"].confidence * 1000 < 1225
  ELSE h["depth"].confidence * h["pressure"].confidence * 10000 < 42875

-----------------------------------------------------------------------------
(***************************************************************************)
(* FaultDetector, FaultDiagnosis and RecoveryPlanner.                      *)
(***************************************************************************)
Fault(part, type, severity) == [part |-> part, type |-> type, severity |-> severity]

SensorFault(c, h) ==
  CASE h.reason = "spike"        -> Fault(c, "spike", "medium")
    [] h.reason = "constant"     -> Fault(c, "frozen", "medium")
    [] h.reason = "out_of_range" -> Fault(c, "bias", "high")
    [] h.reason = "disagree"     -> Fault(c, "disagreement", "medium")
    [] OTHER                     -> Fault(c, "unknown", "low")

Diverged == Fault("estimator", "diverged", "high")
Ingress  == Fault("hull", "ingress", "critical")

Parts  == Channels \cup {"estimator", "hull"}
Types  == {"spike", "frozen", "bias", "disagreement", "unknown", "diverged", "ingress"}
Faults == [part : Parts, type : Types, severity : {"low", "medium", "high", "critical"}]

Detect(h, o, diverged) ==
       {SensorFault(c, h[c]) : c \in {d \in Channels : h[d].reason \notin {"none", "no_entry"}}}
  \cup (IF diverged THEN {Diverged} ELSE {})
  \cup (IF o.ingress THEN {Ingress} ELSE {})

\* The row of the strategy table that fits a fault of the detector, and its priority.
\* The faults without a row are of medium or low severity, for which there is none
\* of the fallbacks either.
Action(f) ==
  CASE f.type = "ingress"                              -> "emergency_surface"
    [] f.type = "diverged"                             -> "hold_position"
    [] f.type \in {"bias", "frozen", "disagreement"}   -> "reconfigure_estimator"
    [] OTHER                                           -> "none"

Priority(f) ==
  CASE f.type = "ingress"                   -> 0
    [] f.type = "diverged"                  -> 1
    [] f.type = "bias"                      -> 2
    [] f.type \in {"frozen", "disagreement"} -> 3
    [] OTHER                                -> 4

\* The planner takes the candidate of the lowest number.  The escalation before it
\* changes nothing: the escalated copy of a fault is bound to the loop variable only.
LastCandidate(fs) == {f \in fs : \A g \in fs : Priority(g) <= Priority(f)}
Leading(fs) == {f \in fs : \A g \in fs : Priority(f) <= Priority(g)}

Strategies(fs) == {Action(f) : f \in Leading(fs)}

-----------------------------------------------------------------------------
(***************************************************************************)
(* The tick.                                                               *)
(***************************************************************************)
Init ==
  /\ stage = "read"
  /\ obs = [depth |-> Absent, pressure |-> Absent, ingress |-> FALSE]
  /\ prev = [c \in Channels |-> NoReading]
  /\ count = [c \in Channels |-> 0]
  /\ health = [c \in Channels |-> Degraded("no_entry", 10)]
  /\ nav = NavStart
  /\ faults = {}
  /\ held = [c \in Channels |-> 0]
  /\ good = [c \in Channels |-> NoReading]

\* What a tick does with a new observation, and what is recorded of it.
Read(o) ==
  /\ obs' = o
  /\ Validate(o)
  /\ held' = [c \in Channels |-> IF Plausible(c, o[c]) /\ o[c] = obs[c]
                                 THEN Least(held[c] + 1, FrozenAfter) ELSE 0]
  /\ good' = [c \in Channels |-> IF Plausible(c, o[c]) THEN o[c] ELSE good[c]]
  /\ UNCHANGED nav

\* A SAFE or MANUAL tick: validate and detect.  The estimate that this detection is
\* given is made by a method that does not exist, so it may or may not have diverged.
OneValidation(o, diverged) ==
  /\ stage = "read"
  /\ Read(o)
  /\ faults' = Detect(health', o, diverged)
  /\ UNCHANGED stage

\* An AUTONOMOUS tick does the same first; the faults it detects then are replaced
\* before anything reads them.
FirstValidation(o) ==
  /\ stage = "read"
  /\ Read(o)
  /\ stage' = "second"
  /\ UNCHANGED faults

\* The estimator trusts itself more with each healthy depth and less without.
NavUncapped(h) == IF Healthy(h) THEN nav + NavGain ELSE Greatest(NavLeast, nav - NavLoss)
NavNeverGains(h) == IF Healthy(h) THEN nav ELSE Greatest(NavLeast, nav - NavLoss)
NavAfter(h) == IF Healthy(h) THEN Least(NavMost, nav + NavGain)
               ELSE Greatest(NavLeast, nav - NavLoss)

\* An AUTONOMOUS tick: validate the same observation again, fuse, detect.
SecondValidation ==
  /\ stage = "second"
  /\ stage' = "read"
  /\ Validate(obs)
  /\ nav' = NavAfter(health'["depth"])
  /\ faults' = Detect(health', obs, nav' < NavUsable \/ PoorlyObserved(health'))
  /\ UNCHANGED <<obs, held, good>>

Next ==
  \/ \E o \in Observations, diverged \in BOOLEAN : OneValidation(o, diverged)
  \/ \E o \in Observations : FirstValidation(o)
  \/ SecondValidation

Spec == Init /\ [][Next]_vars

\* A tick that has begun is finished.
FairSpec == Spec /\ WF_vars(SecondValidation)

-----------------------------------------------------------------------------
(***************************************************************************)
(* Properties                                                              *)
(***************************************************************************)

\* References, counts, confidences and faults are ones the code can produce; the
\* reference of a channel is always plausible.
TypeOK ==
  /\ stage \in {"read", "second"}
  /\ obs \in [depth : Readings \cup {Absent}, pressure : Readings \cup {Absent},
              ingress : BOOLEAN]
  /\ prev \in [Channels -> Values \cup {NoReading}]
  /\ \A c \in Channels : prev[c] # NoReading => Plausible(c, prev[c])
  /\ count \in [Channels -> 0 .. FrozenAfter]
  /\ health \in [Channels -> Health]
  /\ nav \in NavLeast .. NavMost
  /\ faults \subseteq Faults
  /\ held \in [Channels -> 0 .. FrozenAfter]
  /\ good \in [Channels -> Values \cup {NoReading}]

\* A channel that has given the same plausible reading for FrozenAfter ticks is in
\* the fault list of the tick, whatever modes, glitches and absences came before and
\* also when another check gave its own reason.
FrozenIsReported ==
  stage = "read" => \A c \in Channels : held[c] >= FrozenAfter => \E f \in faults : f.part = c

\* Glitches leave no trace: a plausible reading that moved by no more than a step
\* from the last plausible one, and not by nothing, and that the other channel does
\* not contradict, is healthy, however many implausible readings came in between.
GlitchLeavesNoTrace ==
  [][\A c \in Channels :
       /\ stage = "read" /\ Plausible(c, obs'[c]) /\ obs'[c] # good[c]
       /\ good[c] = NoReading \/ Apart(obs'[c], good[c]) <= Limits[c].step
       /\ ~ Disagree(obs')
       => Healthy(health'[c])]_vars

\* Water in the hull leads to an emergency ascent, whatever else is wrong: a finished
\* tick leaves a fault list for which FaultDiagnosis chooses it and nothing else.
IngressSurfaces ==
  stage = "read" /\ obs.ingress => Strategies(faults) = {"emergency_surface"}

\* Once the depth sensor is healthy in every autonomous tick, and there are always
\* more of them, the estimator trusts itself again for good.
NavigationRecovers ==
  /\ []<>(stage = "second")
  /\ <>[][SecondValidation => Healthy(health'["depth"])]_vars
  => <>[](nav >= NavUsable)

-----------------------------------------------------------------------------
\* The reference of a channel is its last plausible reading; one that has been held
\* has been counted at least as often.
HeldInv ==
  \A c \in Channels :
    /\ held[c] <= count[c]
    /\ held[c] > 0 => Plausible(c, obs[c])
    /\ Plausible(c, obs[c]) => prev[c] = obs[c]
    /\ good[c] = prev[c]

=============================================================================
