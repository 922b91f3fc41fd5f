---------------------------- MODULE Inference_proofs ----------------------------
(***************************************************************************)
(* Theorems about DecisionEngine, for every setting of its timers, failure *)
(* limit and cooldown, and about Inference for every set of pool threads   *)
(* and every client: it implements DecisionEngine, whose theorems so hold  *)
(* of it; an answer is never taken for that of another call; and the       *)
(* models built outside the lock are bounded.                              *)
(***************************************************************************)
EXTENDS Inference, FiniteSetTheorems, TLAPS

-----------------------------------------------------------------------------
(***************************************************************************)
(* The engine by itself.                                                   *)
(***************************************************************************)
USE DEF Results, PrimaryResults, Replies, MaxRounds, Least, AllSettings,
        Enabled, Tools, LoopTimeout, EngineTimer

\* What the primary engine returns is one of its results.
LEMMA PrimaryResult ==
  ASSUME NEW reply \in Replies
  PROVE  (IF Tools THEN WithTools(reply) ELSE SingleShot(reply)) \in PrimaryResults
BY DEF WithTools, SingleShot

\* Every reachable state is well typed: counters saturate, timers stay armed
\* within their settings.
THEOREM TypeCorrect == Spec => []TypeOK
<1> USE DecisionEngineAssumption DEF DecisionEngineAssumption
<1>1. Init => TypeOK
  <2>1. Init => waited \in 0 .. EngineTimer + LoopTimeout
    BY DEF Init
  <2>2. Init => /\ round \in 1 .. MaxRounds
                /\ failures \in 0 .. MaxFailures /\ cooldown \in 0 .. Cooldown
                /\ streak \in 0 .. MaxFailures /\ quiet \in 0 .. Cooldown
    BY DEF Init
  <2>3. QED
    BY <2>1, <2>2 DEF Init, TypeOK
<1>2. TypeOK /\ [Next]_vars => TypeOK'
  <2> SUFFICES ASSUME TypeOK, [Next]_vars PROVE TypeOK'
    OBVIOUS
  <2> USE DEF TypeOK
  <2>1. CASE Decide
    BY <2>1 DEF Decide, AskPrimary, AskRules, Return
  <2>2. Fail /\ UNCHANGED setting => TypeOK'
    BY DEF Fail, AskRules, Return, CooldownAfter
  <2>3. ASSUME NEW r \in PrimaryResults, PrimaryReturns(r), UNCHANGED setting
        PROVE  TypeOK'
    <3>1. CASE Fail
      BY <2>3, <3>1 DEF Fail, AskRules, Return, CooldownAfter
    <3>2. CASE ~ Fail
      BY <2>3, <3>2 DEF PrimaryReturns, Succeed, Return, engineVars
    <3>3. QED
      BY <3>1, <3>2
  <2>4. ASSUME NEW reply \in Replies, Reply(reply) PROVE TypeOK'
    <3>1. UNCHANGED setting
      BY <2>4 DEF Reply
    <3>2. CASE CallsTool(reply) /\ RoundLeft
      BY <2>4, <3>1, <3>2 DEF Reply, RoundLeft, engineVars
    <3>3. CASE ~ (CallsTool(reply) /\ RoundLeft)
      BY <2>3, <2>4, <3>1, <3>3, PrimaryResult DEF Reply
    <3>4. QED
      BY <3>2, <3>3
  <2>5. CASE ChatError
    <3>1. CASE Enabled
      BY <2>2, <2>5, <3>1 DEF ChatError
    <3>2. CASE ~ Enabled
      BY <2>5, <3>2 DEF ChatError, Return, engineVars
    <3>3. QED
      BY <3>1, <3>2
  <2>6. CASE EngineTimesOut
    BY <2>2, <2>6 DEF EngineTimesOut
  <2>7. CASE LoopTimesOut
    BY <2>7 DEF LoopTimesOut, Return, engineVars
  <2>8. CASE Clock
    <3>1. waited' \in 0 .. EngineTimer' + LoopTimeout'
      <4>1. CASE phase = "chat" /\ EngineTimer > 0
        BY <2>8, <4>1 DEF Clock
      <4>2. CASE phase = "chat" /\ LoopTimeout > 0
        BY <2>8, <4>2 DEF Clock
      <4>3. QED
        BY <2>8, <4>1, <4>2 DEF Clock
    <3>2. QED
      BY <2>8, <3>1 DEF Clock
  <2>9. CASE UNCHANGED vars
    BY <2>9 DEF vars, engineVars
  <2>10. QED
    BY <2>1, <2>4, <2>5, <2>6, <2>7, <2>8, <2>9 DEF Next
<1>3. QED
  BY <1>1, <1>2, PTL DEF Spec

-----------------------------------------------------------------------------
\* When the engine's timer is the first to fire, its counter is the number of
\* failed calls in a row and its cooldown covers the time since the last of them.
LEMMA RestInvariant == Spec => []RestInv
<1> USE DecisionEngineAssumption DEF DecisionEngineAssumption
<1> DEFINE Covered == /\ failures = streak
                      /\ failures = MaxFailures => cooldown + quiet >= Cooldown
<1>1. Init => RestInv
  BY DEF Init, RestInv
<1>2. TypeOK /\ RestInv /\ [Next]_vars => RestInv'
  <2> SUFFICES ASSUME TypeOK, RestInv, [Next]_vars, Enabled', EngineSeesTimeouts'
               PROVE  Covered'
    BY DEF RestInv
  <2>0. UNCHANGED setting
    BY DEF Next, Decide, Reply, ChatError, EngineTimesOut, LoopTimesOut, Clock, vars
  <2>a. Enabled /\ EngineSeesTimeouts
    BY <2>0 DEF EngineSeesTimeouts
  <2>b. Covered
    BY <2>a DEF RestInv
  <2> USE <2>a, <2>b DEF TypeOK
  <2>1. CASE Decide
    BY <2>1 DEF Decide
  <2>2. Fail => Covered'
    BY DEF Fail, CooldownAfter
  <2>3. ASSUME NEW r \in PrimaryResults, PrimaryReturns(r) PROVE Covered'
    <3>1. CASE Fail
      BY <2>2, <3>1
    <3>2. CASE ~ Fail
      BY <2>3, <3>2 DEF PrimaryReturns, Succeed
    <3>3. QED
      BY <3>1, <3>2
  <2>4. ASSUME NEW reply \in Replies, Reply(reply) PROVE Covered'
    <3>1. CASE CallsTool(reply) /\ RoundLeft
      BY <2>4, <3>1 DEF Reply, engineVars
    <3>2. CASE ~ (CallsTool(reply) /\ RoundLeft)
      BY <2>3, <2>4, <3>2, PrimaryResult DEF Reply
    <3>3. QED
      BY <3>1, <3>2
  <2>5. CASE ChatError \/ EngineTimesOut
    BY <2>2, <2>5 DEF ChatError, EngineTimesOut
  <2>6. CASE LoopTimesOut
    BY <2>6 DEF LoopTimesOut, LoopTimerDue, EngineSeesTimeouts
  <2>7. CASE Clock
    BY <2>7 DEF Clock
  <2>8. CASE UNCHANGED vars
    BY <2>8 DEF vars, engineVars
  <2>9. QED
    BY <2>1, <2>4, <2>5, <2>6, <2>7, <2>8 DEF Next
<1>3. QED
  BY <1>1, <1>2, TypeCorrect, PTL DEF Spec

\* A primary engine that failed MaxFailures times in a row is left alone for the
\* cooldown, when its failures are seen: the agent process does not see to that, it
\* gives the loop's timer and the engine's the same length.
THEOREM PrimaryRests == Spec => PrimaryRestsAfterFailures
<1> DEFINE Rests == phase = "idle" /\ phase' = "chat" /\ Enabled /\ EngineSeesTimeouts
                      /\ streak >= MaxFailures => quiet >= Cooldown
<1>1. TypeOK /\ RestInv /\ [Next]_vars => [Rests]_vars
  <2> SUFFICES ASSUME TypeOK, RestInv, Next,
                      phase = "idle", phase' = "chat", Enabled, EngineSeesTimeouts,
                      streak >= MaxFailures
               PROVE  quiet >= Cooldown
    OBVIOUS
  <2>1. Decide
    BY DEF Next, Reply, ChatError, EngineTimesOut, LoopTimesOut, Clock, TypeOK
  <2>2. cooldown = 0
    BY <2>1 DEF Decide, AskRules, Return, TypeOK, DecisionEngineAssumption
  <2>3. QED
    BY <2>2, DecisionEngineAssumption DEF RestInv, TypeOK
<1>2. QED
  BY <1>1, TypeCorrect, RestInvariant, PTL DEF Spec, PrimaryRestsAfterFailures

-----------------------------------------------------------------------------
\* The reported source is the engine that made the decision, for all settings.
THEOREM SourceIsDecider == Spec => []SourceNamesDecider
<1> DEFINE Inv == SourceNamesDecider /\ (~ Enabled /\ phase = "chat" => source = "LLM")
<1>1. Init => Inv
  BY DEF Init, SourceNamesDecider
<1>2. TypeOK /\ Inv /\ [Next]_vars => Inv'
  <2> SUFFICES ASSUME TypeOK, Inv, [Next]_vars PROVE Inv'
    OBVIOUS
  <2> USE DecisionEngineAssumption DEF SourceNamesDecider
  <2>1. CASE Decide
    BY <2>1 DEF Decide, AskPrimary, AskRules, Return
  <2>2. Fail => Inv'
    BY DEF Fail, AskRules, Return
  <2>3. ASSUME NEW r \in PrimaryResults, PrimaryReturns(r), phase = "chat" PROVE Inv'
    <3>1. CASE Fail
      BY <2>2, <3>1
    <3>2. CASE ~ Fail
      BY <2>3, <3>2 DEF PrimaryReturns, Succeed, Return, engineVars
    <3>3. QED
      BY <3>1, <3>2
  <2>4. ASSUME NEW reply \in Replies, Reply(reply) PROVE Inv'
    <3>1. CASE CallsTool(reply) /\ RoundLeft
      BY <2>4, <3>1 DEF Reply, engineVars
    <3>2. CASE ~ (CallsTool(reply) /\ RoundLeft)
      BY <2>3, <2>4, <3>2, PrimaryResult DEF Reply
    <3>3. QED
      BY <3>1, <3>2
  <2>5. CASE ChatError \/ EngineTimesOut
    BY <2>2, <2>5 DEF ChatError, EngineTimesOut, Return
  <2>6. CASE LoopTimesOut
    BY <2>6 DEF LoopTimesOut, Return
  <2>7. CASE Clock \/ UNCHANGED vars
    BY <2>7 DEF Clock, vars, engineVars
  <2>8. QED
    BY <2>1, <2>4, <2>5, <2>6, <2>7 DEF Next
<1>3. QED
  BY <1>1, <1>2, TypeCorrect, PTL DEF Spec

HIDE DEF Results, PrimaryResults, Replies, MaxRounds, Least, AllSettings,
        Enabled, Tools, LoopTimeout, EngineTimer

-----------------------------------------------------------------------------
(***************************************************************************)
(* The pool and the clients add to the engine only what it abstracts from: *)
(* which answer comes, and when.                                           *)
(***************************************************************************)

\* Every behaviour of the engine with its model is one of DecisionEngine.
THEOREM ImplementsEngine == InferenceSpec => Spec
<1>1. InferenceInit => Init
  BY DEF InferenceInit
<1>2. [InferenceNext]_allVars => [Next]_vars
  <2>1. Ask \/ Hear \/ GiveUp \/ Passes => Next
    BY DEF Ask, Hear, GiveUp, Passes, Next
  <2>2. (OllamaAnswers \/ OpenAiAnswers \/ \E w \in Workers : Thread(w)) => UNCHANGED vars
    BY DEF OllamaAnswers, OpenAiAnswers, ServerAnswers, Thread
  <2>3. UNCHANGED allVars => UNCHANGED vars
    BY DEF allVars
  <2>4. QED
    BY <2>1, <2>2, <2>3 DEF InferenceNext
<1>3. QED
  BY <1>1, <1>2, PTL DEF InferenceSpec, Spec

-----------------------------------------------------------------------------
(***************************************************************************)
(* The engine's steps, by what they do to phase.                           *)
(***************************************************************************)
LEMMA EnginePhases ==
  /\ Decide => phase = "idle"
  /\ EngineTimesOut \/ LoopTimesOut => phase' # "chat"
  /\ Clock => UNCHANGED phase
BY DEF Decide, EngineTimesOut, LoopTimesOut, Clock, Fail, AskRules, Return, ChatError

\* A step of a thread, by what it does to the call.
LEMMA ThreadCalls ==
  ASSUME InferenceAssumption, CallInv, NEW w \in Workers, Thread(w)
  PROVE  CallInv'
<1> USE DEF CallInv, Places, Goto, poolVars
<1>1. UNCHANGED phase
  BY DEF Thread, vars
<1>2. CASE Start(w)
  BY <1>1, <1>2 DEF Start, InferenceAssumption
<1>3. CASE FindModel(w) \/ Build(w) \/ ReturnModel(w) \/ Acquire(w)
  <2>1. /\ UNCHANGED <<queued, owner, answer>>
        /\ \E place \in Places \ {"idle"} : at' = [at EXCEPT ![w] = place]
    BY <1>3 DEF FindModel, Build, ReturnModel, Acquire
  <2>2. QED
    BY <1>1, <2>1
<1>4. CASE BuildFails(w) \/ Infer(w)
  <2>1. /\ UNCHANGED queued
        /\ at' = [at EXCEPT ![w] = "idle"]
        /\ IF owner = w THEN owner' = NoWorker /\ answer' \in {"text", "raised"}
           ELSE UNCHANGED <<owner, answer>>
    BY <1>4 DEF BuildFails, Infer, End
  <2>2. CASE owner = w
    BY <1>1, <2>1, <2>2 DEF InferenceAssumption
  <2>3. CASE owner # w
    BY <1>1, <2>1, <2>3
  <2>4. QED
    BY <2>2, <2>3
<1>5. QED
  BY <1>2, <1>3, <1>4 DEF Thread

\* The answer the engine is given is that of the call it waits for: a call is in
\* one place at a time, and one that was given up has none.
THEOREM CallsHaveOneOwner == InferenceSpec => []CallHasOneOwner
<1> USE InferenceAssumption
<1>1. InferenceInit => CallInv
  BY DEF InferenceInit, Init, CallInv, Places
<1>2. CallInv /\ [InferenceNext]_allVars => CallInv'
  <2> SUFFICES ASSUME CallInv, [InferenceNext]_allVars PROVE CallInv'
    OBVIOUS
  <2>1. CASE Ask
    BY <2>1, EnginePhases DEF Ask, CallInv, modelVars
  <2>2. CASE Hear
    <3>1. answer # "none"
      BY <2>2 DEF Hear
    <3>2. QED
      BY <2>2, <3>1 DEF Hear, CallInv, modelVars
  <2>3. CASE GiveUp
    BY <2>3, EnginePhases DEF GiveUp, Abandon, CallInv, modelVars
  <2>4. CASE Passes
    BY <2>4, EnginePhases DEF Passes, CallInv, poolVars, modelVars
  <2>5. CASE OllamaAnswers \/ OpenAiAnswers
    BY <2>5 DEF OllamaAnswers, OpenAiAnswers, ServerAnswers, CallInv, modelVars, vars
  <2>6. ASSUME NEW w \in Workers, Thread(w) PROVE CallInv'
    BY <2>6, ThreadCalls
  <2>7. CASE UNCHANGED allVars
    BY <2>7 DEF allVars, vars, poolVars, modelVars, CallInv
  <2>8. QED
    BY <2>1, <2>2, <2>3, <2>4, <2>5, <2>6, <2>7 DEF InferenceNext
<1>3. CallInv => CallHasOneOwner
  <2> SUFFICES ASSUME CallInv PROVE CallHasOneOwner
    OBVIOUS
  <2> DEFINE pending == {p \in {"queued", "owned", "answered"} :
                           \/ p = "queued"   /\ queued
                           \/ p = "owned"    /\ owner # NoWorker
                           \/ p = "answered" /\ answer # "none"}
  <2>1. CASE phase # "chat"
    <3>1. pending = {}
      BY <2>1 DEF CallInv
    <3>2. QED
      BY <2>1, <3>1, FS_EmptySet DEF CallInv, CallHasOneOwner
  <2>2. CASE phase = "chat"
    <3>1. \E p : pending = {p}
      <4>1. queued => pending = {"queued"}
        BY DEF CallInv
      <4>2. owner # NoWorker => pending = {"owned"}
        BY DEF CallInv
      <4>3. answer # "none" => pending = {"answered"}
        BY DEF CallInv
      <4>4. QED
        BY <2>2, <4>1, <4>2, <4>3 DEF CallInv
    <3>2. Cardinality(pending) = 1
      BY <3>1, FS_Singleton
    <3>3. QED
      BY <2>2, <3>2 DEF CallInv, CallHasOneOwner
  <2>3. QED
    BY <2>1, <2>2
<1>4. QED
  BY <1>1, <1>2, <1>3, PTL DEF InferenceSpec

-----------------------------------------------------------------------------
(***************************************************************************)
(* The models.                                                             *)
(***************************************************************************)

\* A thread that moves between two places away from "build" leaves those that are
\* building as they are; one that arrives there, or leaves it, changes them by one.
LEMMA BuildingMoves ==
  ASSUME InferenceAssumption, at \in [Workers -> Places], NEW w \in Workers,
         NEW place \in Places, at' = [at EXCEPT ![w] = place]
  PROVE  /\ IsFiniteSet(Building) /\ Cardinality(Building) \in Nat
         /\ Cardinality(Workers) \in Nat
         /\ Cardinality(Building') \in 0 .. Cardinality(Workers)
         /\ at[w] # "build" /\ place # "build" => Building' = Building
         /\ at[w] = "build" /\ place # "build" =>
              Cardinality(Building') = Cardinality(Building) - 1
<1>1. IsFiniteSet(Workers) /\ Building \subseteq Workers /\ Building' \subseteq Workers
  BY DEF InferenceAssumption, Building
<1>2. /\ IsFiniteSet(Building) /\ Cardinality(Building) \in Nat
      /\ Cardinality(Workers) \in Nat
      /\ Cardinality(Building') \in Nat
      /\ Cardinality(Building') <= Cardinality(Workers)
  BY <1>1, FS_Subset, FS_CardinalityType
<1>3. ASSUME at[w] # "build", place # "build" PROVE Building' = Building
  BY <1>3 DEF Building
<1>4. ASSUME at[w] = "build", place # "build"
      PROVE  Cardinality(Building') = Cardinality(Building) - 1
  <2>1. Building' = Building \ {w} /\ w \in Building
    BY <1>4 DEF Building
  <2>2. QED
    BY <1>2, <2>1, FS_RemoveElement
<1>5. QED
  BY <1>2, <1>3, <1>4

\* A step of a thread, by what it does to the models.
LEMMA ThreadModels ==
  ASSUME InferenceAssumption, ModelInv, NEW w \in Workers, Thread(w)
  PROVE  ModelInv'
<1> USE DEF ModelInv, Places, Goto, NoModel
<1>1. ASSUME NEW place \in Places, at' = [at EXCEPT ![w] = place]
      PROVE  /\ Cardinality(Building) \in Nat /\ Cardinality(Workers) \in Nat
             /\ Cardinality(Building') \in 0 .. Cardinality(Workers)
             /\ at[w] # "build" /\ place # "build" => Building' = Building
             /\ at[w] = "build" /\ place # "build" =>
                  Cardinality(Building') = Cardinality(Building) - 1
  BY <1>1, BuildingMoves
<1>2. CASE Start(w) \/ FindModel(w)
  <2>1. CASE Start(w)
    BY <1>1, <2>1 DEF Start
  <2>2. CASE FindModel(w) /\ llama # NoModel
    BY <1>1, <2>2 DEF FindModel
  <2>3. CASE FindModel(w) /\ llama = NoModel
    BY <1>1, <2>3 DEF FindModel
  <2>4. QED
    BY <1>2, <2>1, <2>2, <2>3
<1>3. CASE Build(w)
  BY <1>1, <1>3 DEF Build
<1>4. CASE BuildFails(w)
  BY <1>1, <1>4 DEF BuildFails, End
<1>5. CASE ReturnModel(w)
  BY <1>1, <1>5 DEF ReturnModel
<1>6. CASE Acquire(w)
  BY <1>1, <1>6 DEF Acquire
<1>7. CASE Infer(w)
  BY <1>1, <1>7 DEF Infer, End
<1>8. QED
  BY <1>2, <1>3, <1>4, <1>5, <1>6, <1>7 DEF Thread

\* However calls are abandoned while the first model is under construction, there
\* are never more models than threads, and none is used before it is built.
THEOREM ModelsStayBounded == InferenceSpec => []ModelsBounded
<1> USE InferenceAssumption
<1>1. InferenceInit => ModelInv
  <2>1. InferenceInit => Building = {}
    BY DEF InferenceInit, Building
  <2>2. Cardinality({}) = 0 /\ Cardinality(Workers) \in Nat
    BY FS_EmptySet, FS_CardinalityType DEF InferenceAssumption
  <2>3. QED
    BY <2>1, <2>2 DEF InferenceInit, ModelInv, Places, NoModel
<1>2. ModelInv /\ [InferenceNext]_allVars => ModelInv'
  <2> SUFFICES ASSUME ModelInv, [InferenceNext]_allVars PROVE ModelInv'
    OBVIOUS
  <2>1. CASE UNCHANGED modelVars
    BY <2>1 DEF modelVars, ModelInv, Building
  <2>2. ASSUME NEW w \in Workers, Thread(w) PROVE ModelInv'
    BY <2>2, ThreadModels
  <2>3. QED
    BY <2>1, <2>2 DEF InferenceNext, Ask, Hear, GiveUp, Passes, OllamaAnswers,
       OpenAiAnswers, ServerAnswers, allVars
<1>3. ModelInv => ModelsBounded
  <2> SUFFICES ASSUME ModelInv PROVE ModelsBounded
    OBVIOUS
  <2>1. Cardinality(Workers) \in Nat /\ Cardinality(Building) \in Nat
    <3>1. IsFiniteSet(Workers) /\ Building \subseteq Workers
      BY DEF InferenceAssumption, Building
    <3>2. QED
      BY <3>1, FS_Subset, FS_CardinalityType
  <2>2. QED
    BY <2>1 DEF ModelInv, ModelsBounded, NoModel
<1>4. QED
  BY <1>1, <1>2, <1>3, PTL DEF InferenceSpec

=============================================================================
