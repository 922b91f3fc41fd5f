-------------------------- MODULE Perception_proofs --------------------------
(***************************************************************************)
(* Theorems about Perception: its types, what a glitch leaves behind, that *)
(* a stuck channel is reported, and that ingress decides the strategy.     *)
(***************************************************************************)
EXTENDS Perception, TLAPS

\* A validated channel has a health, and keeps a plausible reference and a count.
LEMMA ValidateType ==
  ASSUME TypeOK, NEW o, Validate(o), NEW c \in Channels
  PROVE  /\ health' = Validated(o) /\ health'[c] \in Health
         /\ prev'[c] = (IF Plausible(c, o[c]) THEN o[c] ELSE prev[c])
         /\ count'[c] = (IF Plausible(c, o[c]) THEN CountAfter(c, o[c]) ELSE count[c])
         /\ count'[c] \in 0 .. FrozenAfter
<1>1. health' = Validated(o)
  BY DEF Validate
<1>2. Validated(o)[c] = IF Disagree(o) THEN Degraded("disagree", 4) ELSE Check(c, o[c])
  BY DEF Validated
<1>3. \A r \in Reasons, n \in 0 .. 10 : Degraded(r, n) \in Health
  BY DEF Degraded, Health
<1>4. CheckNumeric(c, o[c]) \in Health
  <2>1. CASE o[c] \notin Values
    BY <1>3, <2>1 DEF CheckNumeric, Reasons
  <2>2. CASE o[c] \in Values /\ ~ Plausible(c, o[c])
    BY <1>3, <2>2 DEF CheckNumeric, Reasons
  <2>3. CASE Plausible(c, o[c])
    <3>1. o[c] \in Values
      BY <2>3 DEF Plausible
    <3>2. CheckNumeric(c, o[c]) \in {Degraded("spike", 3), Degraded("constant", 2),
                                     Degraded("none", 10)}
      BY <2>3, <3>1 DEF CheckNumeric
    <3>3. QED
      BY <1>3, <3>2 DEF Reasons
  <2>4. QED
    BY <2>1, <2>2, <2>3
<1>5. health'[c] \in Health
  <2>1. Degraded("disagree", 4) \in Health /\ Degraded("no_entry", 10) \in Health
    BY <1>3 DEF Reasons
  <2>2. QED
    BY <1>1, <1>2, <1>4, <2>1 DEF Check
<1>6. /\ prev'[c] = (IF Plausible(c, o[c]) THEN o[c] ELSE prev[c])
      /\ count'[c] = (IF Plausible(c, o[c]) THEN CountAfter(c, o[c]) ELSE count[c])
  BY DEF Validate, Remember
<1>7. count'[c] \in 0 .. FrozenAfter
  <2>1. count[c] \in 0 .. FrozenAfter /\ FrozenAfter \in Nat
    BY PerceptionAssumption DEF TypeOK
  <2>2. QED
    BY <1>6, <2>1 DEF CountAfter, Least
<1>8. QED
  BY <1>1, <1>5, <1>6, <1>7

\* What the detector reports are faults, and every degraded channel is among them.
LEMMA DetectType ==
  ASSUME NEW h, \A c \in Channels : h[c] \in Health, NEW o, NEW d \in BOOLEAN
  PROVE  /\ Detect(h, o, d) \subseteq Faults
         /\ \A c \in Channels : h[c].reason \notin {"none", "no_entry"} =>
              \E f \in Detect(h, o, d) : f.part = c
<1>1. Diverged \in Faults /\ Ingress \in Faults
  BY DEF Diverged, Ingress, Fault, Faults, Parts, Types
<1>2. ASSUME NEW c \in Channels PROVE SensorFault(c, h[c]) \in Faults /\ SensorFault(c, h[c]).part = c
  BY DEF SensorFault, Fault, Faults, Parts, Types
<1>3. QED
  BY <1>1, <1>2 DEF Detect

-----------------------------------------------------------------------------
\* Every reachable state of the pipeline is well typed, and no implausible reading
\* ever becomes the reference of a channel.
THEOREM TypeCorrect == Spec => []TypeOK
<1>1. Init => TypeOK
  BY PerceptionAssumption DEF Init, TypeOK, NoReading, Degraded, Health, Reasons, Readings
<1>2. TypeOK /\ [Next]_vars => TypeOK'
  <2> SUFFICES ASSUME TypeOK, [Next]_vars PROVE TypeOK'
    OBVIOUS
  <2>1. ASSUME NEW o, Validate(o)
        PROVE  /\ prev' \in [Channels -> Values \cup {NoReading}]
               /\ \A c \in Channels : prev'[c] # NoReading => Plausible(c, prev'[c])
               /\ count' \in [Channels -> 0 .. FrozenAfter]
               /\ health' \in [Channels -> Health]
    <3>1. \A c \in Channels : prev'[c] \in Values \cup {NoReading}
                              /\ (prev'[c] # NoReading => Plausible(c, prev'[c]))
      BY <2>1, ValidateType DEF TypeOK, Plausible
    <3>2. \A c \in Channels : count'[c] \in 0 .. FrozenAfter /\ health'[c] \in Health
      BY <2>1, ValidateType
    <3>3. /\ prev' = [c \in Channels |-> prev'[c]]
          /\ count' = [c \in Channels |-> count'[c]]
          /\ health' = [c \in Channels |-> health'[c]]
      BY <2>1 DEF Validate, Remember, Validated
    <3>4. QED
      BY <3>1, <3>2, <3>3
  <2>2. ASSUME NEW o \in Observations, Read(o)
        PROVE  /\ held' \in [Channels -> 0 .. FrozenAfter]
               /\ good' \in [Channels -> Values \cup {NoReading}]
               /\ obs' \in [depth : Readings \cup {Absent}, pressure : Readings \cup {Absent},
                            ingress : BOOLEAN]
    <3>1. \A c \in Channels : Least(held[c] + 1, FrozenAfter) \in 0 .. FrozenAfter
      BY PerceptionAssumption DEF TypeOK, Least
    <3>2. held' \in [Channels -> 0 .. FrozenAfter]
      BY <2>2, <3>1, PerceptionAssumption DEF Read
    <3>3. good' \in [Channels -> Values \cup {NoReading}]
      BY <2>2 DEF Read, TypeOK, Plausible
    <3>4. obs' \in [depth : Readings \cup {Absent}, pressure : Readings \cup {Absent},
                    ingress : BOOLEAN]
      BY <2>2, PerceptionAssumption DEF Read
    <3>5. QED
      BY <3>2, <3>3, <3>4
  <2>3. ASSUME NEW o \in Observations, NEW d \in BOOLEAN, OneValidation(o, d) PROVE TypeOK'
    <3>1. Validate(o) /\ Read(o)
      BY <2>3 DEF OneValidation, Read
    <3>2. faults' \subseteq Faults
      BY <2>1, <2>3, <3>1, DetectType DEF OneValidation
    <3>3. stage' = stage /\ nav' = nav
      BY <2>3 DEF OneValidation, Read
    <3>4. QED
      BY <2>1, <2>2, <3>1, <3>2, <3>3 DEF TypeOK, Plausible
  <2>4. ASSUME NEW o \in Observations, FirstValidation(o) PROVE TypeOK'
    <3>1. Validate(o) /\ Read(o)
      BY <2>4 DEF FirstValidation, Read
    <3>2. stage' = "second" /\ nav' = nav /\ faults' = faults
      BY <2>4 DEF FirstValidation, Read
    <3>3. QED
      BY <2>1, <2>2, <3>1, <3>2 DEF TypeOK, Plausible
  <2>5. CASE SecondValidation
    <3>1. Validate(obs)
      BY <2>5 DEF SecondValidation
    <3>2. nav' \in NavLeast .. NavMost
      BY <2>5, PerceptionAssumption DEF SecondValidation, NavAfter, Least, Greatest, TypeOK
    <3>3. (nav' < NavUsable \/ PoorlyObserved(health')) \in BOOLEAN
      BY DEF PoorlyObserved
    <3>4. faults' \subseteq Faults
      BY <2>1, <2>5, <3>1, <3>3, DetectType DEF SecondValidation
    <3>5. stage' = "read" /\ UNCHANGED <<obs, held, good>>
      BY <2>5 DEF SecondValidation
    <3>6. QED
      BY <2>1, <3>1, <3>2, <3>4, <3>5 DEF TypeOK, Plausible
  <2>6. CASE UNCHANGED vars
    BY <2>6 DEF vars, sensorVars, TypeOK, Plausible
  <2>7. QED
    BY <2>3, <2>4, <2>5, <2>6 DEF Next
<1>3. QED
  BY <1>1, <1>2, PTL DEF Spec

-----------------------------------------------------------------------------
\* The step of a channel's history that reading o takes: what has been held has been
\* counted, and the reference is the last plausible reading.
LEMMA ReadKeepsHeld ==
  ASSUME TypeOK, HeldInv, NEW o \in Observations, Read(o)
  PROVE  HeldInv'
<1> SUFFICES ASSUME NEW c \in Channels
             PROVE  /\ held'[c] <= count'[c]
                    /\ held'[c] > 0 => Plausible(c, obs'[c])
                    /\ Plausible(c, obs'[c]) => prev'[c] = obs'[c]
                    /\ good'[c] = prev'[c]
  BY DEF HeldInv, Plausible
<1>1. /\ obs' = o
      /\ held'[c] = (IF Plausible(c, o[c]) /\ o[c] = obs[c]
                     THEN Least(held[c] + 1, FrozenAfter) ELSE 0)
      /\ good'[c] = (IF Plausible(c, o[c]) THEN o[c] ELSE good[c])
  BY DEF Read
<1>2. /\ prev'[c] = (IF Plausible(c, o[c]) THEN o[c] ELSE prev[c])
      /\ count'[c] = (IF Plausible(c, o[c]) THEN CountAfter(c, o[c]) ELSE count[c])
      /\ count'[c] \in 0 .. FrozenAfter
  BY ValidateType DEF Read
<1>3. /\ held[c] \in 0 .. FrozenAfter /\ count[c] \in 0 .. FrozenAfter /\ FrozenAfter \in Nat
      /\ held[c] <= count[c] /\ good[c] = prev[c]
      /\ Plausible(c, obs[c]) => prev[c] = obs[c]
  BY PerceptionAssumption DEF TypeOK, HeldInv
<1>4. held'[c] <= count'[c]
  <2>1. CASE Plausible(c, o[c]) /\ o[c] = obs[c]
    <3>1. count'[c] = Least(count[c] + 1, FrozenAfter)
      BY <1>2, <1>3, <2>1 DEF CountAfter
    <3>2. QED
      BY <1>1, <1>3, <2>1, <3>1 DEF Least
  <2>2. CASE ~ (Plausible(c, o[c]) /\ o[c] = obs[c])
    BY <1>1, <1>2, <2>2
  <2>3. QED
    BY <2>1, <2>2
<1>5. held'[c] > 0 => Plausible(c, obs'[c])
  BY <1>1
<1>6. QED
  BY <1>1, <1>2, <1>3, <1>4, <1>5

\* The strengthened invariant of a channel's history.
LEMMA HeldCounted == Spec => []HeldInv
<1>1. Init => HeldInv
  <2> SUFFICES ASSUME Init, NEW c \in Channels
               PROVE  /\ held[c] <= count[c]
                      /\ held[c] > 0 => Plausible(c, obs[c])
                      /\ Plausible(c, obs[c]) => prev[c] = obs[c]
                      /\ good[c] = prev[c]
    BY DEF HeldInv
  <2>1. held[c] = 0 /\ count[c] = 0 /\ good[c] = prev[c]
    BY DEF Init
  <2>2. obs[c] = Absent
    BY DEF Init, Channels
  <2>3. ~ Plausible(c, obs[c])
    BY <2>2, PerceptionAssumption DEF Plausible
  <2>4. QED
    BY <2>1, <2>3
<1>2. TypeOK /\ HeldInv /\ [Next]_vars => HeldInv'
  <2> SUFFICES ASSUME TypeOK, HeldInv, [Next]_vars PROVE HeldInv'
    OBVIOUS
  <2>1. CASE \E o \in Observations, d \in BOOLEAN : OneValidation(o, d)
    BY <2>1, ReadKeepsHeld DEF OneValidation
  <2>2. CASE \E o \in Observations : FirstValidation(o)
    BY <2>2, ReadKeepsHeld DEF FirstValidation
  <2>3. CASE SecondValidation
    <3> SUFFICES ASSUME NEW c \in Channels
                 PROVE  /\ held[c] <= count'[c]
                        /\ held[c] > 0 => Plausible(c, obs[c])
                        /\ Plausible(c, obs[c]) => prev'[c] = obs[c]
                        /\ good[c] = prev'[c]
      BY <2>3 DEF SecondValidation, HeldInv, Plausible
    <3>1. /\ prev'[c] = (IF Plausible(c, obs[c]) THEN obs[c] ELSE prev[c])
          /\ count'[c] = (IF Plausible(c, obs[c]) THEN CountAfter(c, obs[c]) ELSE count[c])
      BY <2>3, ValidateType DEF SecondValidation
    <3>2. held[c] \in 0 .. FrozenAfter /\ count[c] \in 0 .. FrozenAfter /\ FrozenAfter \in Nat
      BY PerceptionAssumption DEF TypeOK
    <3>3. QED
      BY <3>1, <3>2 DEF HeldInv, CountAfter, Least
  <2>4. CASE UNCHANGED vars
    BY <2>4 DEF vars, sensorVars, HeldInv, Plausible
  <2>5. QED
    BY <2>1, <2>2, <2>3, <2>4 DEF Next
<1>3. QED
  BY <1>1, <1>2, TypeCorrect, PTL DEF Spec

-----------------------------------------------------------------------------
\* A validation whose reading is the reference, counted to within one of the limit,
\* finds the channel degraded.
LEMMA StuckIsDegraded ==
  ASSUME TypeOK, NEW o, Validate(o), NEW c \in Channels, Plausible(c, o[c]),
         prev[c] = o[c], count[c] + 1 >= FrozenAfter
  PROVE  health'[c].reason \notin {"none", "no_entry"}
<1>1. o[c] \in Int /\ o[c] \in Values /\ o[c] # Absent
  BY PerceptionAssumption DEF Plausible
<1>2. Apart(o[c], prev[c]) = 0 /\ Limits[c].step \in Nat
  BY <1>1, PerceptionAssumption DEF Apart
<1>3. CountAfter(c, o[c]) = FrozenAfter
  BY PerceptionAssumption DEF CountAfter, Least, TypeOK
<1>4. Check(c, o[c]) = Degraded("constant", 2)
  BY <1>1, <1>2, <1>3 DEF Check, CheckNumeric
<1>5. health'[c] \in {Degraded("disagree", 4), Degraded("constant", 2)}
  BY <1>4, ValidateType DEF Validated
<1>6. QED
  BY <1>5 DEF Degraded

\* A channel that gave the same plausible reading for FrozenAfter ticks is in the fault
\* list of the tick.
THEOREM StuckIsReported == Spec => []FrozenIsReported
<1>1. Init => FrozenIsReported
  BY PerceptionAssumption DEF Init, FrozenIsReported
<1>2. TypeOK /\ HeldInv /\ FrozenIsReported /\ [Next]_vars => FrozenIsReported'
  <2> SUFFICES ASSUME TypeOK, HeldInv, FrozenIsReported, [Next]_vars
               PROVE  FrozenIsReported'
    OBVIOUS
  <2>1. FrozenAfter \in Nat \ {0} /\ \A c \in Channels : held[c] \in 0 .. FrozenAfter
                                                     /\ count[c] \in 0 .. FrozenAfter
    BY PerceptionAssumption DEF TypeOK
  <2>2. ASSUME NEW o \in Observations, NEW d \in BOOLEAN, OneValidation(o, d)
        PROVE  FrozenIsReported'
    <3> SUFFICES ASSUME NEW c \in Channels, held'[c] >= FrozenAfter
                 PROVE  \E f \in faults' : f.part = c
      BY DEF FrozenIsReported
    <3>1. Validate(o) /\ faults' = Detect(health', o, d)
      BY <2>2 DEF OneValidation, Read
    <3>2. held'[c] = (IF Plausible(c, o[c]) /\ o[c] = obs[c]
                      THEN Least(held[c] + 1, FrozenAfter) ELSE 0)
      BY <2>2 DEF OneValidation, Read
    <3>3. Plausible(c, o[c]) /\ o[c] = obs[c] /\ held[c] + 1 >= FrozenAfter
      BY <2>1, <3>2 DEF Least
    <3>4. prev[c] = o[c] /\ count[c] + 1 >= FrozenAfter
      BY <2>1, <3>3 DEF HeldInv
    <3>5. health'[c].reason \notin {"none", "no_entry"}
      BY <3>1, <3>3, <3>4, StuckIsDegraded
    <3>6. \A e \in Channels : health'[e] \in Health
      BY <3>1, ValidateType
    <3>7. QED
      BY <3>1, <3>5, <3>6, DetectType
  <2>3. ASSUME NEW o \in Observations, FirstValidation(o) PROVE FrozenIsReported'
    BY <2>3 DEF FirstValidation, FrozenIsReported
  <2>4. CASE SecondValidation
    <3> SUFFICES ASSUME NEW c \in Channels, held[c] >= FrozenAfter
                 PROVE  \E f \in faults' : f.part = c
      BY <2>4 DEF FrozenIsReported, SecondValidation
    <3>0. (nav' < NavUsable \/ PoorlyObserved(health')) \in BOOLEAN
      BY DEF PoorlyObserved
    <3>1. PICK d \in BOOLEAN : Validate(obs) /\ faults' = Detect(health', obs, d)
      BY <2>4, <3>0 DEF SecondValidation
    <3>2. Plausible(c, obs[c]) /\ prev[c] = obs[c] /\ count[c] + 1 >= FrozenAfter
      BY <2>1 DEF HeldInv
    <3>3. health'[c].reason \notin {"none", "no_entry"}
      BY <3>1, <3>2, StuckIsDegraded
    <3>4. \A e \in Channels : health'[e] \in Health
      BY <3>1, ValidateType
    <3>5. QED
      BY <3>1, <3>3, <3>4, DetectType
  <2>5. CASE UNCHANGED vars
    BY <2>5 DEF vars, FrozenIsReported
  <2>6. QED
    BY <2>2, <2>3, <2>4, <2>5 DEF Next
<1>3. QED
  BY <1>1, <1>2, TypeCorrect, HeldCounted, PTL DEF Spec

-----------------------------------------------------------------------------
\* A plausible reading near the last plausible one is healthy, whatever implausible
\* readings came in between.
THEOREM GlitchesAreForgotten == Spec => GlitchLeavesNoTrace
<1>1. TypeOK /\ HeldInv /\ [Next]_vars =>
        \A c \in Channels :
          /\ stage = "read" /\ Plausible(c, obs'[c]) /\ obs'[c] # good[c]
          /\ good[c] = NoReading \/ Apart(obs'[c], good[c]) <= Limits[c].step
          /\ ~ Disagree(obs')
          => Healthy(health'[c]) \/ UNCHANGED vars
  <2> SUFFICES ASSUME TypeOK, HeldInv, [Next]_vars, ~ UNCHANGED vars, NEW c \in Channels,
                      stage = "read", Plausible(c, obs'[c]), obs'[c] # good[c],
                      good[c] = NoReading \/ Apart(obs'[c], good[c]) <= Limits[c].step,
                      ~ Disagree(obs')
               PROVE  Healthy(health'[c])
    OBVIOUS
  <2>1. Validate(obs')
    BY DEF Next, OneValidation, FirstValidation, SecondValidation, Read
  <2>2. good[c] = prev[c]
    BY DEF HeldInv
  <2>3. /\ obs'[c] \in Int /\ obs'[c] \in Values /\ obs'[c] # Absent
        /\ FrozenAfter \in Nat \ {0} /\ Limits[c].step \in Int
    <3>1. obs'[c] \in Int /\ obs'[c] \in Values
      BY PerceptionAssumption DEF Plausible
    <3>2. Limits[c] \in [lo : Int, hi : Int, step : Nat]
      BY PerceptionAssumption
    <3>3. QED
      BY <3>1, <3>2, PerceptionAssumption
  <2>4. CountAfter(c, obs'[c]) = 0
    BY <2>2 DEF CountAfter
  <2>5. prev[c] = NoReading \/ ~ (Apart(obs'[c], prev[c]) > Limits[c].step)
    <3>1. CASE good[c] # NoReading
      <4>1. prev[c] \in Int
        BY <2>2, <3>1, PerceptionAssumption DEF TypeOK
      <4>2. QED
        BY <2>2, <2>3, <3>1, <4>1 DEF Apart
    <3>2. QED
      BY <2>2, <3>1
  <2>6. Check(c, obs'[c]) = Degraded("none", 10)
    BY <2>3, <2>4, <2>5 DEF Check, CheckNumeric
  <2>7. health'[c] = Degraded("none", 10)
    BY <2>1, <2>6 DEF Validate, Validated
  <2>8. QED
    BY <2>7 DEF Healthy, Degraded
<1>2. TypeOK /\ HeldInv /\ [Next]_vars =>
        [\A c \in Channels :
          /\ stage = "read" /\ Plausible(c, obs'[c]) /\ obs'[c] # good[c]
          /\ good[c] = NoReading \/ Apart(obs'[c], good[c]) <= Limits[c].step
          /\ ~ Disagree(obs')
          => Healthy(health'[c])]_vars
  BY <1>1
<1>3. QED
  BY <1>2, TypeCorrect, HeldCounted, PTL DEF Spec, GlitchLeavesNoTrace

-----------------------------------------------------------------------------
\* Ingress has the one priority no other fault has, so it decides the strategy.
LEMMA IngressLeads ==
  ASSUME NEW h, \A c \in Channels : h[c] \in Health, NEW o, NEW d \in BOOLEAN, o.ingress
  PROVE  Strategies(Detect(h, o, d)) = {"emergency_surface"}
<1> DEFINE fs == Detect(h, o, d)
<1>1. Ingress \in fs
  BY DEF Detect
<1>2. \A f \in fs : f = Ingress \/ f.type # "ingress"
  BY DEF Detect, SensorFault, Diverged, Fault
<1>3. Priority(Ingress) = 0 /\ Action(Ingress) = "emergency_surface"
  BY DEF Ingress, Fault, Priority, Action
<1>4. \A f \in fs : f # Ingress => Priority(f) \in 1 .. 4
  BY <1>2 DEF Priority
<1>5. Leading(fs) = {Ingress}
  BY <1>1, <1>3, <1>4 DEF Leading
<1>6. QED
  BY <1>3, <1>5 DEF Strategies

\* Water in the hull leads to an emergency ascent, whatever else the tick found.
THEOREM IngressAlwaysSurfaces == Spec => []IngressSurfaces
<1>1. Init => IngressSurfaces
  BY DEF Init, IngressSurfaces
<1>2. TypeOK /\ IngressSurfaces /\ [Next]_vars => IngressSurfaces'
  <2> SUFFICES ASSUME TypeOK, IngressSurfaces, [Next]_vars PROVE IngressSurfaces'
    OBVIOUS
  <2>1. ASSUME NEW o \in Observations, NEW d \in BOOLEAN, OneValidation(o, d)
        PROVE  IngressSurfaces'
    <3>1. Validate(o) /\ obs' = o /\ faults' = Detect(health', o, d)
      BY <2>1 DEF OneValidation, Read
    <3>2. \A c \in Channels : health'[c] \in Health
      BY <3>1, ValidateType
    <3>3. CASE o.ingress
      BY <3>1, <3>2, <3>3, IngressLeads DEF IngressSurfaces
    <3>4. QED
      BY <3>1, <3>3 DEF IngressSurfaces
  <2>2. ASSUME NEW o \in Observations, FirstValidation(o) PROVE IngressSurfaces'
    BY <2>2 DEF FirstValidation, IngressSurfaces
  <2>3. CASE SecondValidation
    <3>0. (nav' < NavUsable \/ PoorlyObserved(health')) \in BOOLEAN
      BY DEF PoorlyObserved
    <3>1. PICK d \in BOOLEAN :
            Validate(obs) /\ obs' = obs /\ faults' = Detect(health', obs, d)
      BY <2>3, <3>0 DEF SecondValidation
    <3>2. \A c \in Channels : health'[c] \in Health
      BY <3>1, ValidateType
    <3>3. CASE obs.ingress
      BY <3>1, <3>2, <3>3, IngressLeads DEF IngressSurfaces
    <3>4. QED
      BY <3>1, <3>3 DEF IngressSurfaces
  <2>4. CASE UNCHANGED vars
    BY <2>4 DEF vars, IngressSurfaces
  <2>5. QED
    BY <2>1, <2>2, <2>3, <2>4 DEF Next
<1>3. QED
  BY <1>1, <1>2, TypeCorrect, PTL DEF Spec

=============================================================================
