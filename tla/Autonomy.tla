-------------------------------- MODULE Autonomy --------------------------------
(***************************************************************************)
(* The world model (world/obstacles.py, world/mission_state.py,            *)
(* world/model.py) with what reads it through the agent's tools            *)
(* (agent/tool_registry.py, agent/tools/definitions.py): the planner, the  *)
(* shield and the energy state.                                            *)
(*                                                                         *)
(* A registry is bound to the WorldState it was made with: its estimates   *)
(* stay as they were, its obstacles and mission are those of the builder.  *)
(* All of this runs in one thread, so during a tool call nothing changes   *)
(* but the time, and each read of the nearest obstacle looks at the clock. *)
(* A plan is therefore modelled read by read; the other tools read once    *)
(* and change nothing, and are operators.                                  *)
(*                                                                         *)
(* The caller of ObstacleMap.update and advance_waypoint is external: the  *)
(* builder does not push the sonar, and the loop moves no mission.         *)
(***************************************************************************)
EXTENDS TacticalPlanner, Functions

CONSTANTS
  Worlds,        \* what a WorldState can hold: [nav, x, depth, maxDepth, soc, critical]
  Route,         \* MissionContext.waypoints
  Detections,    \* what sonar reports: [distance, confidence]
  Ttl,           \* ttl_s of an obstacle, in clock units
  MaxObstacles,  \* bound on the obstacles alive at once
  Commands       \* candidate commands the shield is asked about

ASSUME AutonomyAssumption ==
  /\ \A w \in Worlds : /\ w.nav \in 0 .. 100 /\ w.soc \in 0 .. 100
                       /\ w.x \in Int /\ w.depth \in Int
  /\ \A n \in DOMAIN Route : Route[n].x \in Int /\ Route[n].depth \in Int
  /\ \A d \in Detections : d.distance \in Nat \ {0} /\ d.confidence \in 0 .. 100
  /\ Ttl \in Nat \ {0} /\ MaxObstacles \in Nat
  /\ \A c \in Commands : c \in [{"surge", "sway", "heave", "yaw"} -> -100 .. 100]

VARIABLES
  obstacles,  \* ObstacleMap._obstacles: [distance, confidence, left], left of Ttl
  waypoint,   \* current_waypoint_idx + 1
  world,      \* the WorldState the registry is bound to
  plan,       \* request_replan in progress: [stage, routes]
  reply,      \* what the last request_replan returned: [status, candidates]
  expired     \* history: an obstacle expired since the plan began

vars == <<obstacles, waypoint, world, plan, reply, expired>>
NoPlan  == [stage |-> "idle", routes |-> <<>>]
NoReply == [status |-> "none", candidates |-> <<>>]
Idle    == plan.stage = "idle"

Init ==
  /\ obstacles = <<>> /\ waypoint = 1
  /\ world \in Worlds
  /\ plan = NoPlan /\ reply = NoReply /\ expired = FALSE

-----------------------------------------------------------------------------
(***************************************************************************)
(* ObstacleMap                                                             *)
(***************************************************************************)
IsLive(o) == o.left > 0

\* _prune: those that are left, in their order.
Pruned(list) ==
  Listed(list, {i \in DOMAIN list : IsLive(list[i])},
         {p \in (DOMAIN list) \X (DOMAIN list) : p[1] < p[2]})

Live == Pruned(obstacles)

EffectiveConfidence(o) == (o.confidence * o.left) \div Ttl

Sighting(o) == [distance |-> o.distance, confidence |-> EffectiveConfidence(o)]

\* By distance alone, whatever they are worth; the first of equals.
ByDistance(list) ==
  Listed(list, DOMAIN list,
         {p \in (DOMAIN list) \X (DOMAIN list) :
            \/ list[p[1]].distance < list[p[2]].distance
            \/ list[p[1]].distance = list[p[2]].distance /\ p[1] < p[2]})

NearestOldest(list) == IF Pruned(list) = <<>> THEN NoSighting ELSE Sighting(Head(Pruned(list)))
NearestIn(list) ==
  IF Pruned(list) = <<>> THEN NoSighting ELSE Sighting(Head(ByDistance(Pruned(list))))

Nearest == NearestIn(obstacles)

Detect(d) ==
  /\ Idle
  /\ Len(Live) < MaxObstacles
  /\ obstacles' = Append(Live, [distance |-> d.distance, confidence |-> d.confidence,
                                left |-> Ttl])
  /\ reply' = NoReply
  /\ UNCHANGED <<waypoint, world, plan, expired>>

Clock ==
  /\ obstacles # <<>>
  /\ obstacles' = [i \in DOMAIN obstacles |->
                     [obstacles[i] EXCEPT !.left = IF @ > 0 THEN @ - 1 ELSE 0]]
  /\ expired' = (expired \/ (~ Idle /\ \E o \in Range(obstacles) : o.left = 1))
  /\ reply' = NoReply
  /\ UNCHANGED <<waypoint, world, plan>>

-----------------------------------------------------------------------------
(***************************************************************************)
(* The mission and the world                                               *)
(***************************************************************************)
HasWaypoint == waypoint \in DOMAIN Route

AdvanceWaypoint ==
  /\ Idle
  /\ HasWaypoint  \* bound: the index goes on counting past the end
  /\ waypoint' = waypoint + 1
  /\ reply' = NoReply
  /\ UNCHANGED <<obstacles, world, plan, expired>>

\* The builder makes a new WorldState around the same map and mission, and a
\* registry is made for it.
Rebuild(w) ==
  /\ Idle
  /\ world' = w
  /\ reply' = NoReply
  /\ UNCHANGED <<obstacles, waypoint, plan, expired>>

-----------------------------------------------------------------------------
(***************************************************************************)
(* request_replan, dispatched by the registry                              *)
(***************************************************************************)
Go(stage, routes) == plan' = [stage |-> stage, routes |-> routes]

Return(status, candidates) ==
  /\ plan' = NoPlan
  /\ expired' = FALSE
  /\ reply' = [status |-> status, candidates |-> candidates]

StartPlan ==
  /\ Idle
  /\ Go(IF HasWaypoint /\ NavigationTrusted(world) THEN "direct" ELSE "rest", <<>>)
  /\ reply' = NoReply
  /\ UNCHANGED <<obstacles, waypoint, world, expired>>

\* The route candidate of a stage, with the clearance that was read for it.
RouteCandidate(stage, clearance) ==
  IF stage = "direct" THEN DirectCandidate(Route[waypoint], world, clearance)
  ELSE SlowCandidate(Route[waypoint], world, clearance)

AddRoute(stage, clearance) ==
  Go(IF stage = "direct" THEN "slow" ELSE "rest",
     Append(plan.routes, RouteCandidate(stage, clearance)))

Ranging(stage) == IF stage = "direct" THEN "direct_range" ELSE "slow_range"

\* `x.distance_m if x else None`: the nearest obstacle is looked up for the
\* condition, and when there is one it is looked up again for the distance.
SeeUnchecked(stage) ==
  /\ plan.stage = stage
  /\ obstacles' = Live
  /\ Go(Ranging(stage), plan.routes)
  /\ UNCHANGED <<waypoint, world, reply, expired>>
See(stage) ==
  /\ plan.stage = stage
  /\ obstacles' = Live
  /\ \/ /\ Nearest = NoSighting
        /\ AddRoute(stage, NoClearance)
     \/ /\ Nearest # NoSighting
        /\ Go(Ranging(stage), plan.routes)
  /\ UNCHANGED <<waypoint, world, reply, expired>>

\* By now there may be none: None has no distance_m, and dispatch returns the
\* error of the tool.
Measure(stage) ==
  /\ plan.stage = Ranging(stage)
  /\ obstacles' = Live
  /\ \/ /\ Nearest = NoSighting
        /\ Return("error", <<>>)
     \/ /\ Nearest # NoSighting
        /\ AddRoute(stage, Nearest.distance)
        /\ UNCHANGED <<reply, expired>>
  /\ UNCHANGED <<waypoint, world>>

Rank ==
  /\ plan.stage = "rest"
  /\ obstacles' = Live
  /\ Return("replanned", Ranked(plan.routes \o OtherCandidates(world, Nearest)))
  /\ UNCHANGED <<waypoint, world>>

-----------------------------------------------------------------------------
\* check_action_safety, get_energy_state and evaluate_trajectory, as they would
\* answer now.
CheckActionSafety(c) == Evaluate(c, world, Nearest)
EnergyDecision == DecideEnergy(EnergyOf(world.soc))
EvaluateRoute(points) ==
  EvaluateTrajectory(points, EnergyOf(world.soc), 10 * world.nav,
                     IF Nearest = NoSighting THEN NoClearance ELSE Nearest.distance)

Next ==
  \/ \E d \in Detections : Detect(d)
  \/ Clock
  \/ AdvanceWaypoint
  \/ \E w \in Worlds : Rebuild(w)
  \/ StartPlan
  \/ \E stage \in {"direct", "slow"} : See(stage) \/ Measure(stage)
  \/ Rank

Spec == Init /\ [][Next]_vars

-----------------------------------------------------------------------------
(***************************************************************************)
(* What holds of a plan between its reads, beside the types                *)
(***************************************************************************)
Distances  == {d.distance : d \in Detections}
Clearances == {NoClearance} \cup Distances

Obstacle == [distance : Distances, confidence : 0 .. 100, left : 0 .. Ttl]

TypeOK ==
  /\ obstacles \in Seq(Obstacle)
  /\ waypoint \in Nat \ {0}
  /\ world \in Worlds

\* What a plan took for clear is so at every later time of the plan: obstacles
\* only expire while it runs.
StillClear(clearance) ==
  \A o \in Range(obstacles) :
    IsLive(o) => clearance # NoClearance /\ clearance <= o.distance

\* The routes of a plan so far, each with the clearance it was given.
RoutesOK ==
  \/ plan.stage \in {"idle", "rest"} /\ plan.routes = <<>>
  \/ plan.stage \in {"direct", "direct_range"} /\ HasWaypoint /\ plan.routes = <<>>
  \/ /\ plan.stage \in {"slow", "slow_range", "rest"} /\ HasWaypoint
     /\ \E c \in Clearances :
          /\ StillClear(c)
          /\ IF plan.stage = "rest"
             THEN \E b \in Clearances :
                    plan.routes = <<RouteCandidate("direct", c), RouteCandidate("slow", b)>>
             ELSE plan.routes = <<RouteCandidate("direct", c)>>

\* A plan that saw an obstacle still has one, unless one expired.
RangingOK ==
  plan.stage \in {"direct_range", "slow_range"} =>
    expired \/ \E o \in Range(obstacles) : IsLive(o)

\* There is no answer before the end.
AnswerOK == ~ Idle => reply = NoReply

-----------------------------------------------------------------------------
(***************************************************************************)
(* Properties                                                              *)
(***************************************************************************)

\* shield.py:71-72, "reject any command when an obstacle is closer": a command is
\* allowed near a live, confident obstacle only when another obstacle that is as
\* near or nearer is worth less, for the shield looks at the nearest alone.
ObstacleMissedOnlyIfMasked ==
  Idle => \A c \in Commands : Allowed(CheckActionSafety(c)) =>
    \A i \in DOMAIN Live :
      Blocked(Sighting(Live[i])) =>
        \E j \in DOMAIN Live : /\ Live[j].distance <= Live[i].distance
                               /\ EffectiveConfidence(Live[j]) <= 40

\* The axes that c drives by more than the 0.05 which every axis may keep.
Driven(c) == {axis \in DOMAIN c : Abs(c[axis]) > 5}

\* The shield makes one change per call and skips the checks behind it, the gate
\* for critical faults included.  A caller that submits what it got back needs at
\* most two more calls to reach a command the shield approves or rejects, and no
\* thrust has grown on the way.  Under a critical fault what is then approved drives
\* no axis but yaw, and what the first call let through although it drives another
\* axis ends in a rejection.  (The gate does not look at yaw, nor at thrusts up to
\* 0.05, although shield.py:169 says "block any non-zero thruster commands".)
ShieldSettles ==
  Idle => \A c \in Commands :
    LET first  == CheckActionSafety(c)
        second == CheckActionSafety(first.command)
        third  == CheckActionSafety(second.command)
    IN  /\ third.verdict # "modify"
        /\ \A axis \in DOMAIN c : Abs(third.command[axis]) <= Abs(c[axis])
        /\ world.critical =>
             /\ Allowed(third) => Driven(third.command) \subseteq {"yaw"}
             /\ Allowed(third) => Driven(first.command) \subseteq {"yaw"}

\* tactical.py:48, "always produces at least one candidate": a plan fails only
\* when an obstacle expired between two of its looks at the map.
PlanFailsOnlyOnExpiry ==
  [][reply'.status = "error" => expired]_vars

\* A plan leads with the best of its feasible routes; an infeasible one leads
\* only when no route is feasible.  A direct route that is feasible leads, so that
\* the slower variant, which is worth less by its confidence, is first only when
\* an obstacle kept the direct one out.  What a plan calls a feasible direct route
\* the tool evaluate_trajectory confirms, though obstacles may have expired since.
\* When the energy planner would end the mission the plan offers the hold, and
\* the last candidate is always the fallback.
PlanIsRanked ==
  reply.status = "replanned" =>
    LET candidates == reply.candidates
        lead == Head(candidates)
    IN  /\ \A i \in DOMAIN candidates : candidates[i].evaluation.feasible =>
             /\ lead.evaluation.feasible
             /\ lead.evaluation.score >= candidates[i].evaluation.score
        /\ \A i \in DOMAIN candidates :
             candidates[i].kind = "direct" /\ candidates[i].evaluation.feasible =>
               /\ lead = candidates[i]
               /\ EvaluateRoute(<<Origin(world), Route[waypoint]>>) = candidates[i].evaluation
        /\ EnergyDecision \in {"surface", "return"} =>
             \E i \in DOMAIN candidates : candidates[i].kind = "hold"
        /\ candidates[Len(candidates)] = Fallback

=============================================================================
