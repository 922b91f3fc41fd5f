---------------------------- MODULE TacticalPlanner ----------------------------
(***************************************************************************)
(* The candidates of TacticalPlanner (planning/tactical.py), the path and  *)
(* score behind them (planning/trajectory.py) and their ranking.           *)
(*                                                                         *)
(* Points have a position along the track and a depth, in metres; energies *)
(* are in hundredths of a Wh, scores in ten-thousandths, rounded down.     *)
(***************************************************************************)
EXTENDS ActionShield, Energy, Sequences, FiniteSets

Root(n) == CHOOSE r \in 0 .. n : r * r <= n /\ n < (r + 1) * (r + 1)

Distance(p, q) ==
  Root((q.x - p.x) * (q.x - p.x) + (q.depth - p.depth) * (q.depth - p.depth))

\* Trajectory.from_waypoints: the segments between consecutive points, at the
\* default 0.05 Wh per metre.
PathCost(points) ==
  LET cost[n \in 0 .. Len(points)] ==
        IF n <= 1 THEN 0 ELSE cost[n - 1] + 5 * Distance(points[n - 1], points[n])
  IN  cost[Len(points)]

NoClearance == -1

Infeasible == [feasible |-> FALSE, score |-> 0]

\* TrajectoryEvaluator.evaluate, with its default weights; nav is in thousandths.
\* No segment is ever given a risk.
Score(cost, available, nav) ==
  LET efficiency == IF available = 0 THEN IF cost = 0 THEN 4000 ELSE 0
                    ELSE 4000 - (4000 * cost) \div available
  IN  efficiency + 4000 + 2 * nav

EvaluateTrajectory(points, energy, nav, clearance) ==
  LET cost      == PathCost(points)
      available == 100 * Available(energy)
  IN  IF cost > available \/ (clearance # NoClearance /\ clearance < MinClearance)
      THEN Infeasible
      ELSE [feasible |-> TRUE, score |-> Score(cost, available, nav)]

\* _command_toward: neutral on the spot, else the speed along the direction.
CommandToward(origin, target, speed) ==
  LET d == Distance(origin, target)
  IN  IF d = 0 THEN Neutral
      ELSE [Neutral EXCEPT !.surge = ((target.x - origin.x) * speed) \div d,
                           !.heave = ((target.depth - origin.depth) * speed) \div d]

NotEvaluated == Infeasible

Candidate(kind, command, evaluation, priority) ==
  [kind |-> kind, command |-> command, evaluation |-> evaluation, priority |-> priority]

Origin(world) == [x |-> world.x, depth |-> world.depth]

DirectCandidate(target, world, clearance) ==
  Candidate("direct", CommandToward(Origin(world), target, 30),
            EvaluateTrajectory(<<Origin(world), target>>, EnergyOf(world.soc),
                               10 * world.nav, clearance), 0)

\* The slower variant of the same path.
SlowCandidate(target, world, clearance) ==
  Candidate("slow", CommandToward(Origin(world), target, 15),
            EvaluateTrajectory(<<Origin(world), target>>, EnergyOf(world.soc),
                               9 * world.nav, clearance), 1)

Avoidance == Candidate("avoid", [Neutral EXCEPT !.yaw = 50], NotEvaluated, 0)
Hold      == Candidate("hold", Neutral, NotEvaluated, 2)
Fallback  == Candidate("fallback", [Neutral EXCEPT !.surge = 10], NotEvaluated, 99)

NavigationTrusted(world) == world.nav >= 60

AvoidanceDue(near) == near.confidence > 30 /\ near.distance < 300

HoldDue(world) == world.soc < 25

\* What plan adds after the route candidates.
OtherCandidates(world, near) ==
  (IF AvoidanceDue(near) THEN <<Avoidance>> ELSE <<>>)
    \o (IF HoldDue(world) THEN <<Hold>> ELSE <<>>)
    \o <<Fallback>>

\* The elements of a list that stand at some of its places, in a strict order of
\* these places that is given as the set of its pairs.
Listed(list, places, order) ==
  [k \in 1 .. Cardinality(places) |->
     list[CHOOSE i \in places : Cardinality({j \in places : <<j, i>> \in order}) = k - 1]]

\* candidates.sort(key=_sort_key): stable, a candidate without a feasible
\* evaluation counts as -1.
SortScore(candidate) ==
  IF candidate.evaluation.feasible THEN candidate.evaluation.score ELSE -10000

RankedByPriority(candidates) ==
  Listed(candidates, DOMAIN candidates,
         {p \in (DOMAIN candidates) \X (DOMAIN candidates) :
            LET a == candidates[p[1]]
                b == candidates[p[2]]
            IN  a.priority < b.priority \/ (a.priority = b.priority /\ p[1] < p[2])})
Ranked(candidates) ==
  Listed(candidates, DOMAIN candidates,
         {p \in (DOMAIN candidates) \X (DOMAIN candidates) :
            LET a == candidates[p[1]]
                b == candidates[p[2]]
            IN  \/ SortScore(a) > SortScore(b)
                \/ /\ SortScore(a) = SortScore(b)
                   /\ a.priority < b.priority \/ (a.priority = b.priority /\ p[1] < p[2])})

=============================================================================
