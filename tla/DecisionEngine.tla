---------------------------- MODULE DecisionEngine ----------------------------
(***************************************************************************)
(* How a decision is made when the LLM is enabled (agent/policy.py): the   *)
(* FallbackDecisionEngine around the LLMDecisionEngine and the rules, under *)
(* the timer agent_loop puts around the whole call (agent/loop.py).        *)
(*                                                                         *)
(* main.py gives both timers the same decision_timeout_s, the loop arms    *)
(* its own first, and asyncio fires the earlier one first: the other is    *)
(* then cancelled with CancelledError, which is not an Exception.          *)
(*                                                                         *)
(* A reply of the model is reduced to what the two parsers tell apart.     *)
(* VehicleCommand ignores unknown keys and has a default for every field,  *)
(* so any JSON object without its keys, a tool call among them, is a valid *)
(* and neutral command.                                                    *)
(***************************************************************************)
EXTENDS Integers

CONSTANTS
  MaxFailures,  \* max(1, settings.llm_max_consecutive_failures)
  Cooldown,     \* settings.llm_failure_cooldown_s in clock units; 0 disables it
  Settings      \* the ways the engine can be set up, see below

\* enabled: settings.llm_fallback_enabled; engineTimer: the engine's timeout_s and
\* loopTimer: the loop's decision_timeout_s, in clock units, 0 for None; tools: the
\* LLM engine was given a tool registry.
AllSettings == [enabled : BOOLEAN, engineTimer : Nat, loopTimer : Nat, tools : BOOLEAN]

ASSUME DecisionEngineAssumption ==
  /\ MaxFailures \in Nat \ {0}
  /\ Cooldown \in Nat
  /\ Settings \subseteq AllSettings

\* What the model can answer; "quoted" is surrounded by other text.
Replies == {"command", "tool_call", "quoted_command", "quoted_tool_call",
            "bad_object", "no_object"}

\* What a decision can come to, and by whom.
PrimaryResults == {"command", "neutral", "parse_fail", "schema_fail", "invalid",
                   "tool_loop_timeout"}
Results == PrimaryResults \cup {"none", "rules", "safe", "error"}

VARIABLES
  setting,   \* a member of Settings; never changes
  phase,     \* "idle", or "chat" while the primary engine awaits the model
  round,     \* the tool round of the chat
  waited,    \* time since the decision was asked for, as far as a timer needs it
  failures,  \* _consecutive_failures, saturating at MaxFailures
  cooldown,  \* time left until _cooldown_until
  source,    \* engine.source
  result,    \* what the last decision came to
  \* History variables, read by no action.
  streak,    \* calls of the primary that failed since the last good one, saturating
  quiet      \* time since the last of them, saturating at Cooldown

engineVars == <<failures, cooldown, source>>
vars == <<setting, phase, round, waited, engineVars, result, streak, quiet>>

MaxRounds == 3
Least(a, b) == IF a < b THEN a ELSE b

Enabled     == setting.enabled
Tools       == setting.tools
LoopTimeout == setting.loopTimer
EngineTimer == IF Enabled THEN setting.engineTimer ELSE 0

-----------------------------------------------------------------------------
Init ==
  /\ setting \in Settings
  /\ phase = "idle" /\ round = 1 /\ waited = 0
  /\ failures = 0 /\ cooldown = 0 /\ source = "RULES"
  /\ result = "none"
  /\ streak = 0 /\ quiet = 0

Return(r) ==
  /\ phase' = "idle"
  /\ round' = 1
  /\ waited' = 0
  /\ result' = r

AskPrimary ==
  /\ phase' = "chat"
  /\ UNCHANGED <<round, waited, result>>

\* The rules await nothing, so a decision of theirs is one step.
AskRules ==
  /\ source' = "RULES"
  /\ Return("rules")

DecideRearms ==
  /\ phase = "idle"
  /\ \/ /\ ~ Enabled
        /\ source' = "LLM"
        /\ AskPrimary
        /\ UNCHANGED cooldown
     \/ /\ Enabled /\ cooldown > 0
        /\ AskRules
        /\ cooldown' = Cooldown
     \/ /\ Enabled /\ cooldown = 0
        /\ AskPrimary
        /\ UNCHANGED <<source, cooldown>>
  /\ UNCHANGED <<setting, failures, streak, quiet>>
Decide ==
  /\ phase = "idle"
  /\ \/ /\ ~ Enabled
        /\ source' = "LLM"
        /\ AskPrimary
     \/ /\ Enabled /\ cooldown > 0
        /\ AskRules
     \/ /\ Enabled /\ cooldown = 0
        /\ AskPrimary
        /\ UNCHANGED source
  /\ UNCHANGED <<setting, failures, cooldown, streak, quiet>>

\* The except clause: count the failure, perhaps start a cooldown, ask the rules.
CooldownAfterOneMore(count) == IF count > MaxFailures THEN Cooldown ELSE cooldown
CooldownAfter(count) == IF count >= MaxFailures THEN Cooldown ELSE cooldown

FailKeepsSource ==
  LET count == failures + 1 IN
  /\ failures' = Least(count, MaxFailures)
  /\ cooldown' = CooldownAfter(count)
  /\ UNCHANGED source
  /\ Return("rules")
  /\ streak' = Least(streak + 1, MaxFailures)
  /\ quiet' = 0
Fail ==
  LET count == failures + 1 IN
  /\ failures' = Least(count, MaxFailures)
  /\ cooldown' = CooldownAfter(count)
  /\ AskRules
  /\ streak' = Least(streak + 1, MaxFailures)
  /\ quiet' = 0

Succeed(r) ==
  /\ failures' = 0
  /\ source' = "LLM"
  /\ Return(r)
  /\ streak' = 0
  /\ UNCHANGED <<cooldown, quiet>>

\* The primary engine returned r: without fallback it is the decision, with
\* fallback the two notes of a failed parse are turned into a failure.
PrimaryReturns(r) ==
  \/ /\ ~ Enabled
     /\ Return(r)
     /\ UNCHANGED <<engineVars, streak, quiet>>
  \/ /\ Enabled /\ r \in {"parse_fail", "schema_fail"}
     /\ Fail
  \/ /\ Enabled /\ r \notin {"parse_fail", "schema_fail"}
     /\ Succeed(r)

\* LLMDecisionEngine.decide: validate the text, else the object inside it.
SingleShot(reply) ==
  CASE reply \in {"command", "quoted_command"}     -> "command"
    [] reply \in {"tool_call", "quoted_tool_call"} -> "neutral"
    [] reply = "bad_object"                        -> "schema_fail"
    [] reply = "no_object"                         -> "parse_fail"

\* _decide_with_tools: validate the text as a command, else look for a tool call
\* in it, which begins another round while rounds are left.
CallsTool(reply) == Tools /\ reply = "quoted_tool_call"

RoundLeft == round < MaxRounds

WithTools(reply) ==
  CASE reply = "command"          -> "command"
    [] reply = "tool_call"        -> "neutral"
    [] reply = "quoted_tool_call" -> "tool_loop_timeout"
    [] OTHER                      -> "invalid"

Reply(reply) ==
  /\ phase = "chat"
  /\ \/ /\ CallsTool(reply) /\ RoundLeft
        /\ round' = Least(round + 1, MaxRounds)
        /\ UNCHANGED <<phase, waited, engineVars, result, streak, quiet>>
     \/ /\ ~ (CallsTool(reply) /\ RoundLeft)
        /\ PrimaryReturns(IF Tools THEN WithTools(reply) ELSE SingleShot(reply))
  /\ UNCHANGED setting

\* The client raised: a failure, or without fallback an exception of the engine.
ChatError ==
  /\ phase = "chat"
  /\ \/ /\ Enabled
        /\ Fail
     \/ /\ ~ Enabled
        /\ Return("error")
        /\ UNCHANGED <<engineVars, streak, quiet>>
  /\ UNCHANGED setting

\* The timer of the engine fires, unless the loop's is due with it or before it.
EngineTimesOut ==
  /\ phase = "chat"
  /\ EngineTimer > 0 /\ waited = EngineTimer
  /\ LoopTimeout = 0 \/ EngineTimer < LoopTimeout
  /\ Fail
  /\ UNCHANGED setting

\* The timer of the loop fires: CancelledError leaves the engine as it is, and
\* the loop takes its safe command.
LoopTimerPast == LoopTimeout > 0 /\ waited > LoopTimeout
LoopTimerDue  == LoopTimeout > 0 /\ waited = LoopTimeout

LoopTimesOut ==
  /\ phase = "chat"
  /\ LoopTimerDue
  /\ EngineTimer = 0 \/ LoopTimeout <= EngineTimer
  /\ Return("safe")
  /\ streak' = Least(streak + 1, MaxFailures)
  /\ quiet' = 0
  /\ UNCHANGED <<setting, engineVars>>

\* Time passes up to the first timer that is due.
Clock ==
  /\ \A t \in {EngineTimer, LoopTimeout} : phase = "chat" /\ t > 0 => waited < t
  /\ waited' = IF phase = "chat" /\ EngineTimer + LoopTimeout > 0 THEN waited + 1 ELSE 0
  /\ cooldown' = IF cooldown > 0 THEN cooldown - 1 ELSE 0
  /\ quiet' = Least(quiet + 1, Cooldown)
  /\ UNCHANGED <<setting, phase, round, failures, source, result, streak>>

Next ==
  \/ Decide
  \/ \E reply \in Replies : Reply(reply)
  \/ ChatError
  \/ EngineTimesOut \/ LoopTimesOut
  \/ Clock

Spec == Init /\ [][Next]_vars

\* Nothing but the model can end a decision.
Untimed == EngineTimer = 0 /\ LoopTimeout = 0

-----------------------------------------------------------------------------
(***************************************************************************)
(* Properties                                                              *)
(***************************************************************************)

\* The engine sees every failure when its own timer is the first to fire.
EngineSeesTimeouts ==
  Enabled => LoopTimeout = 0 \/ (EngineTimer > 0 /\ EngineTimer < LoopTimeout)

\* Counters and timers stay within their bounds and every result is one the
\* engines produce.
TypeOK ==
  /\ setting \in Settings
  /\ phase \in {"idle", "chat"}
  /\ round \in 1 .. MaxRounds
  /\ waited \in 0 .. EngineTimer + LoopTimeout
  /\ failures \in 0 .. MaxFailures
  /\ cooldown \in 0 .. Cooldown
  /\ source \in {"LLM", "RULES"}
  /\ result \in Results
  /\ streak \in 0 .. MaxFailures
  /\ quiet \in 0 .. Cooldown

\* The class comment of FallbackDecisionEngine: after MaxFailures calls of the
\* primary in a row have failed, by timeout, exception or unparsable output, it
\* is not called again within Cooldown of the last of them.  True only when the
\* engine sees the failures.
PrimaryRestsAfterFailures ==
  [][phase = "idle" /\ phase' = "chat" /\ Enabled /\ EngineSeesTimeouts
        /\ streak >= MaxFailures => quiet >= Cooldown]_vars

\* The source the telemetry and the state store report for a decision is the
\* engine that made it.
SourceNamesDecider ==
  phase = "idle" =>
    /\ result = "rules" => source = "RULES"
    /\ result \in PrimaryResults => source = "LLM"

\* A decision that was asked for is made, whatever the model answers or does not.
DecisionIsMade == phase = "chat" ~> phase = "idle"

\* However often it fails, the primary engine is tried again and again.
PrimaryIsRetried == []<>(phase = "chat")

-----------------------------------------------------------------------------
\* The engine's counter is the number of failed calls in a row, and its cooldown
\* covers the time since the last of them.
RestInv ==
  Enabled /\ EngineSeesTimeouts =>
    /\ failures = streak
    /\ failures = MaxFailures => cooldown + quiet >= Cooldown

=============================================================================
