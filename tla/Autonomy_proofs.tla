---------------------------- MODULE Autonomy_proofs ----------------------------
(***************************************************************************)
(* Theorems about Autonomy, for every route, world, set of detections and  *)
(* time to live, and about Simulation, whose readings the energy planner   *)
(* of both decides on, for every depth, set of voltages and of thrusters   *)
(* and any number of faults.                                               *)
(***************************************************************************)
EXTENDS Autonomy, Simulation, FiniteSetTheorems, SequenceTheorems,
        WellFoundedInduction, TLAPS

-----------------------------------------------------------------------------
(***************************************************************************)
(* Numbers, and the energy planner.                                        *)
(***************************************************************************)

\* A product of naturals is one.
LEMMA Product ==
  \A a, b \in Nat : a * b \in Nat
OBVIOUS

\* A quotient is a number, and no more than it divides comes of it again.
LEMMA Quotient ==
  ASSUME NEW a \in Nat, NEW b \in Nat \ {0}
  PROVE  a \div b \in Nat /\ (a \div b) * b <= a
OBVIOUS

\* A set of naturals that is not empty has a least member.
LEMMA LeastMember ==
  ASSUME NEW S \in SUBSET Nat, S # {}
  PROVE  \E n \in S : \A m \in S : n <= m
<1> DEFINE Less == OpToRel(<, Nat)
<1>1. \A m, n \in Nat : m < n => <<m, n>> \in Less
  BY DEF OpToRel
<1>2. \E n \in S : \A m \in S : <<m, n>> \notin Less
  BY NatLessThanWellFounded, WFMin
<1> HIDE DEF Less
<1>3. PICK n \in S : \A m \in S : <<m, n>> \notin Less
  BY <1>2
<1>4. ASSUME NEW m \in S PROVE n <= m
  <2>1. ~ (m < n)
    BY <1>1, <1>3
  <2>2. QED
    BY <2>1
<1>5. QED
  BY <1>4

\* All that EnergyPlanner.decide (planning/energy.py) answers as long as the two costs
\* of an EnergyState keep their defaults, as they do in the program: it ends the mission
\* on a fifth of the charge or less, and never says "abort" or "replan".
THEOREM EnergyAnswers ==
  ASSUME NEW soc \in 0 .. 100
  PROVE  DecideEnergy(EnergyOf(soc)) = IF soc < 15 THEN "surface"
                                       ELSE IF soc <= 20 THEN "return"
                                       ELSE "continue"
<1> DEFINE e == EnergyOf(soc)
<1>1. /\ e.unit = 1 /\ e.soc = soc /\ e.missionCost = 0 /\ e.returnCost = 5
      /\ Reserve(e) = 10
  BY DEF EnergyOf, EnergyIn, Reserve
<1> HIDE DEF e
<1>2. DecideEnergy(e) = IF soc < 15 THEN "surface"
                        ELSE IF soc <= 20 THEN "return"
                        ELSE "continue"
  BY <1>1 DEF DecideEnergy, CanReturn, Available, Margin
<1>3. QED
  BY <1>2 DEF e

-----------------------------------------------------------------------------
(***************************************************************************)
(* Lists in an order.                                                      *)
(***************************************************************************)

\* A strict order in which any two places are compared.
TotalOrder(places, order) ==
  /\ \A i \in places : <<i, i>> \notin order
  /\ \A i, j \in places : i # j => <<i, j>> \in order \/ <<j, i>> \in order
  /\ \A i, j, k \in places : <<i, j>> \in order /\ <<j, k>> \in order => <<i, k>> \in order

\* Listed takes each place once, in their order.
LEMMA ListedInOrder ==
  ASSUME NEW list, NEW places, IsFiniteSet(places), NEW order, TotalOrder(places, order)
  PROVE  \E place \in [1 .. Cardinality(places) -> places] :
           /\ Listed(list, places, order) =
                [k \in 1 .. Cardinality(places) |-> list[place[k]]]
           /\ \A i \in places : \E k \in 1 .. Cardinality(places) : place[k] = i
           /\ \A k, l \in 1 .. Cardinality(places) :
                k < l => <<place[k], place[l]>> \in order
<1> DEFINE size == Cardinality(places)
           Before(i) == {j \in places : <<j, i>> \in order}
           rank == [i \in places |-> Cardinality(Before(i))]
           place == [k \in 1 .. size |-> CHOOSE i \in places : Cardinality(Before(i)) = k - 1]
<1>1. size \in Nat
  BY FS_CardinalityType
<1>2. \A i \in places : IsFiniteSet(Before(i)) /\ Cardinality(Before(i)) \in Nat
  BY FS_Subset, FS_CardinalityType
<1>3. ASSUME NEW i \in places PROVE rank[i] \in 0 .. size - 1
  <2>1. Before(i) \in SUBSET places /\ i \notin Before(i)
    BY DEF TotalOrder
  <2>2. Cardinality(Before(i)) <= size /\ Cardinality(Before(i)) # size
    BY <2>1, FS_Subset
  <2>3. QED
    BY <1>1, <1>2, <2>2
<1>4. ASSUME NEW i \in places, NEW j \in places, <<i, j>> \in order
      PROVE  rank[i] < rank[j]
  <2>1. Before(i) \in SUBSET Before(j) /\ i \in Before(j) /\ i \notin Before(i)
    BY <1>4 DEF TotalOrder
  <2>2. Cardinality(Before(i)) <= Cardinality(Before(j))
        /\ Cardinality(Before(i)) # Cardinality(Before(j))
    BY <1>2, <2>1, FS_Subset
  <2>3. QED
    BY <1>2, <2>2
<1> HIDE DEF Before, rank, size
<1>5. ASSUME NEW i \in places, NEW j \in places, rank[i] = rank[j] PROVE i = j
  <2>1. <<i, j>> \notin order /\ <<j, i>> \notin order
    BY <1>1, <1>3, <1>4, <1>5
  <2>2. QED
    BY <2>1 DEF TotalOrder
<1>6. rank \in [places -> 0 .. size - 1]
  BY <1>3 DEF rank
<1>7. rank \in Surjection(places, 0 .. size - 1)
  <2>1. rank \in Injection(places, 0 .. size - 1)
    BY <1>5, <1>6 DEF Injection, IsInjective
  <2>2. IsFiniteSet(0 .. size - 1) /\ Cardinality(0 .. size - 1) = size
    BY <1>1, FS_Interval
  <2>3. QED
    BY <2>1, <2>2, FS_Injection DEF size
<1>8. \A k \in 1 .. size : place[k] \in places /\ rank[place[k]] = k - 1
  <2> TAKE k \in 1 .. size
  <2>1. \E i \in places : rank[i] = k - 1
    BY <1>1, <1>7 DEF Surjection
  <2>2. \E i \in places : Cardinality(Before(i)) = k - 1
    BY <2>1 DEF rank
  <2>3. QED
    BY <2>2 DEF rank
<1>9. Listed(list, places, order) = [k \in 1 .. size |-> list[place[k]]]
  BY DEF Listed, size, Before
<1> HIDE DEF place
<1>10. place \in [1 .. size -> places]
  BY <1>8 DEF place
<1>11. ASSUME NEW i \in places PROVE \E k \in 1 .. size : place[k] = i
  <2>1. rank[i] + 1 \in 1 .. size /\ (rank[i] + 1) - 1 = rank[i]
    BY <1>1, <1>3
  <2>2. place[rank[i] + 1] = i
    BY <1>5, <1>8, <2>1
  <2>3. QED
    BY <2>1, <2>2
<1>12. ASSUME NEW k \in 1 .. size, NEW l \in 1 .. size, k < l
       PROVE  <<place[k], place[l]>> \in order
  <2>1. place[k] \in places /\ place[l] \in places
    BY <1>8
  <2>2. place[k] # place[l] /\ ~ (rank[place[l]] < rank[place[k]])
    BY <1>1, <1>8, <1>12
  <2>3. QED
    BY <1>4, <2>1, <2>2 DEF TotalOrder
<1>13. QED
  BY <1>9, <1>10, <1>11, <1>12 DEF size

\* The places of a list are as many as it is long.
LEMMA Places ==
  ASSUME NEW n \in Nat
  PROVE  IsFiniteSet(1 .. n) /\ Cardinality(1 .. n) = n
<1>1. IsFiniteSet(1 .. n) /\ Cardinality(1 .. n) = IF 1 > n THEN 0 ELSE n - 1 + 1
  BY FS_Interval
<1>2. QED
  BY <1>1

\* A list that is sorted holds what it held, in the order.
LEMMA Sorted ==
  ASSUME NEW T, NEW list \in Seq(T), NEW order, TotalOrder(DOMAIN list, order)
  PROVE  \E place \in [1 .. Len(list) -> 1 .. Len(list)] :
           /\ Listed(list, DOMAIN list, order) = [k \in 1 .. Len(list) |-> list[place[k]]]
           /\ \A i \in 1 .. Len(list) : \E k \in 1 .. Len(list) : place[k] = i
           /\ \A k, l \in 1 .. Len(list) : k < l => <<place[k], place[l]>> \in order
<1> DEFINE places == 1 .. Len(list)
<1>1. DOMAIN list = places /\ Len(list) \in Nat
  OBVIOUS
<1>2. IsFiniteSet(places) /\ Cardinality(places) = Len(list)
  BY <1>1, Places
<1>3. TotalOrder(places, order)
  BY <1>1
<1> HIDE DEF places
<1>4. \E place \in [1 .. Cardinality(places) -> places] :
        /\ Listed(list, places, order) =
             [k \in 1 .. Cardinality(places) |-> list[place[k]]]
        /\ \A i \in places : \E k \in 1 .. Cardinality(places) : place[k] = i
        /\ \A k, l \in 1 .. Cardinality(places) :
             k < l => <<place[k], place[l]>> \in order
  BY <1>2, <1>3, ListedInOrder
<1>5. \E place \in [1 .. Len(list) -> places] :
        /\ Listed(list, DOMAIN list, order) = [k \in 1 .. Len(list) |-> list[place[k]]]
        /\ \A i \in places : \E k \in 1 .. Len(list) : place[k] = i
        /\ \A k, l \in 1 .. Len(list) : k < l => <<place[k], place[l]>> \in order
  BY <1>1, <1>2, <1>4
<1>6. QED
  BY <1>5 DEF places

\* _prune keeps the obstacles that are left, and no others.
LEMMA PrunedRows ==
  ASSUME NEW T, NEW list \in Seq(T)
  PROVE  /\ Pruned(list) \in Seq(T)
         /\ Range(Pruned(list)) = {o \in Range(list) : IsLive(o)}
<1> DEFINE places == {i \in DOMAIN list : IsLive(list[i])}
           order == {p \in (DOMAIN list) \X (DOMAIN list) : p[1] < p[2]}
<1>1. DOMAIN list = 1 .. Len(list) /\ Len(list) \in Nat /\ \A i \in DOMAIN list : list[i] \in T
  OBVIOUS
<1>2. IsFiniteSet(places)
  <2>1. IsFiniteSet(1 .. Len(list))
    BY <1>1, Places
  <2>2. places \in SUBSET (1 .. Len(list))
    BY <1>1
  <2>3. QED
    BY <2>1, <2>2, FS_Subset
<1>3. TotalOrder(places, order)
  BY <1>1 DEF TotalOrder
<1>4. Pruned(list) = Listed(list, places, order)
  BY DEF Pruned
<1> HIDE DEF places, order
<1>5. \E place \in [1 .. Cardinality(places) -> places] :
        /\ Listed(list, places, order) =
             [k \in 1 .. Cardinality(places) |-> list[place[k]]]
        /\ \A i \in places : \E k \in 1 .. Cardinality(places) : place[k] = i
        /\ \A k, l \in 1 .. Cardinality(places) :
             k < l => <<place[k], place[l]>> \in order
  BY <1>2, <1>3, ListedInOrder
<1>6. PICK place \in [1 .. Cardinality(places) -> places] :
        /\ Pruned(list) = [k \in 1 .. Cardinality(places) |-> list[place[k]]]
        /\ \A i \in places : \E k \in 1 .. Cardinality(places) : place[k] = i
  BY <1>4, <1>5
<1>7. Cardinality(places) \in Nat
  BY <1>2, FS_CardinalityType
<1>8. \A i \in places : i \in DOMAIN list /\ IsLive(list[i])
  BY DEF places
<1>9. \A i \in DOMAIN list : IsLive(list[i]) => i \in places
  BY DEF places
<1>10. Pruned(list) \in Seq(T)
  BY <1>1, <1>6, <1>7, <1>8
<1>11. Range(Pruned(list)) = {o \in Range(list) : IsLive(o)}
  <2>1. DOMAIN Pruned(list) = 1 .. Cardinality(places)
    BY <1>6
  <2>2. ASSUME NEW k \in DOMAIN Pruned(list)
        PROVE  Pruned(list)[k] \in {o \in Range(list) : IsLive(o)}
    BY <1>6, <1>8, <2>1 DEF Range
  <2>3. ASSUME NEW i \in DOMAIN list, IsLive(list[i])
        PROVE  \E k \in DOMAIN Pruned(list) : Pruned(list)[k] = list[i]
    BY <1>6, <1>9, <2>1, <2>3
  <2>4. QED
    BY <2>2, <2>3 DEF Range
<1>12. QED
  BY <1>10, <1>11

\* What the world reports as the nearest obstacle is one of those that are left,
\* and none of them is nearer.
LEMMA NearestIsNearest ==
  ASSUME NEW list \in Seq(Obstacle)
  PROVE  \/ NearestIn(list) = NoSighting /\ \A o \in Range(list) : ~ IsLive(o)
         \/ /\ NearestIn(list) # NoSighting
            /\ \E o \in Range(list) :
                 /\ IsLive(o) /\ NearestIn(list) = Sighting(o)
                 /\ \A p \in Range(list) : IsLive(p) => o.distance <= p.distance
<1> DEFINE live == Pruned(list)
           order == {p \in (DOMAIN live) \X (DOMAIN live) :
                       \/ live[p[1]].distance < live[p[2]].distance
                       \/ live[p[1]].distance = live[p[2]].distance /\ p[1] < p[2]}
<1>1. live \in Seq(Obstacle) /\ Range(live) = {o \in Range(list) : IsLive(o)}
  BY PrunedRows
<1> HIDE DEF live
<1>2. /\ DOMAIN live = 1 .. Len(live) /\ Len(live) \in Nat
      /\ \A i \in DOMAIN live : live[i] \in Obstacle
      /\ live = <<>> <=> Len(live) = 0
  BY <1>1
<1>3. \A o \in Obstacle : o.distance \in Nat \ {0}
  BY AutonomyAssumption DEF AutonomyAssumption, Obstacle, Distances
<1>4. CASE live = <<>>
  <2>1. Range(live) = {}
    BY <1>4 DEF Range
  <2>2. NearestIn(list) = NoSighting
    BY <1>4 DEF NearestIn, live
  <2>3. QED
    BY <1>1, <2>1, <2>2
<1>5. CASE live # <<>>
  <2>1. TotalOrder(DOMAIN live, order)
    BY <1>2, <1>3 DEF TotalOrder
  <2>2. ByDistance(live) = Listed(live, DOMAIN live, order)
    BY DEF ByDistance
  <2>3. \A i, j \in DOMAIN live : <<i, j>> \in order => live[i].distance <= live[j].distance
    BY <1>2, <1>3
  <2> HIDE DEF order
  <2>4. PICK place \in [1 .. Len(live) -> 1 .. Len(live)] :
          /\ ByDistance(live) = [k \in 1 .. Len(live) |-> live[place[k]]]
          /\ \A i \in 1 .. Len(live) : \E k \in 1 .. Len(live) : place[k] = i
          /\ \A k, l \in 1 .. Len(live) : k < l => <<place[k], place[l]>> \in order
    BY <1>1, <2>1, <2>2, Sorted
  <2>5. 1 \in 1 .. Len(live) /\ Head(ByDistance(live)) = live[place[1]]
    BY <1>2, <1>5, <2>4
  <2>6. place[1] \in DOMAIN live
    BY <1>2, <2>4, <2>5
  <2>7. ASSUME NEW i \in DOMAIN live PROVE live[place[1]].distance <= live[i].distance
    <3>1. PICK k \in 1 .. Len(live) : place[k] = i
      BY <1>2, <2>4
    <3>2. live[i].distance \in Nat /\ live[place[1]].distance \in Nat
      BY <1>2, <1>3, <2>4, <2>5
    <3>3. CASE k = 1
      BY <3>1, <3>2, <3>3
    <3>4. CASE k # 1
      <4>1. <<place[1], place[k]>> \in order
        BY <2>4, <2>5, <3>4
      <4>2. QED
        BY <2>3, <2>6, <3>1, <4>1
    <3>5. QED
      BY <3>3, <3>4
  <2>8. NearestIn(list) = Sighting(live[place[1]])
    BY <1>5, <2>5 DEF NearestIn, live
  <2>9. Sighting(live[place[1]]) # NoSighting
    BY <1>2, <1>3, <2>6 DEF Sighting, NoSighting
  <2>10. live[place[1]] \in Range(live) /\ \A p \in Range(live) : live[place[1]].distance <= p.distance
    BY <2>7, <2>6 DEF Range
  <2>11. QED
    BY <1>1, <2>8, <2>9, <2>10
<1>6. QED
  BY <1>4, <1>5

-----------------------------------------------------------------------------
(***************************************************************************)
(* The obstacles.                                                          *)
(***************************************************************************)

\* Time takes obstacles away and moves none of them.
LEMMA Aging ==
  ASSUME TypeOK, Clock
  PROVE  /\ obstacles' \in Seq(Obstacle)
         /\ \A o \in Range(obstacles') :
              IsLive(o) => \E p \in Range(obstacles) : IsLive(p) /\ p.distance = o.distance
         /\ \A p \in Range(obstacles) :
              IsLive(p) => p.left = 1 \/ \E o \in Range(obstacles') : IsLive(o)
<1>1. /\ DOMAIN obstacles = 1 .. Len(obstacles) /\ Len(obstacles) \in Nat
      /\ \A i \in DOMAIN obstacles : obstacles[i] \in Obstacle
  BY DEF TypeOK
<1>2. obstacles' = [i \in DOMAIN obstacles |->
                      [obstacles[i] EXCEPT !.left = IF @ > 0 THEN @ - 1 ELSE 0]]
  BY DEF Clock
<1>3. \A o \in Obstacle :
        LET older == [o EXCEPT !.left = IF @ > 0 THEN @ - 1 ELSE 0]
        IN  /\ older \in Obstacle /\ older.distance = o.distance
            /\ IsLive(older) => IsLive(o)
            /\ IsLive(o) => o.left = 1 \/ IsLive(older)
  BY AutonomyAssumption DEF AutonomyAssumption, Obstacle, IsLive
<1>4. \A i \in DOMAIN obstacles :
        /\ obstacles'[i] \in Obstacle /\ obstacles'[i].distance = obstacles[i].distance
        /\ IsLive(obstacles'[i]) => IsLive(obstacles[i])
        /\ IsLive(obstacles[i]) => obstacles[i].left = 1 \/ IsLive(obstacles'[i])
  BY <1>1, <1>2, <1>3
<1>5. DOMAIN obstacles' = DOMAIN obstacles
  BY <1>2
<1>6. obstacles' \in Seq(Obstacle)
  BY <1>1, <1>2, <1>4
<1>7. QED
  BY <1>4, <1>5, <1>6 DEF Range

\* Every reachable state of the world model is well typed.
THEOREM TypeCorrect == Spec => []TypeOK
<1>1. Init => TypeOK
  BY DEF Init, TypeOK
<1>2. TypeOK /\ [Next]_vars => TypeOK'
  <2> SUFFICES ASSUME TypeOK, [Next]_vars PROVE TypeOK'
    OBVIOUS
  <2>1. Live \in Seq(Obstacle)
    BY PrunedRows DEF Live, TypeOK
  <2>2. ASSUME NEW d \in Detections, Detect(d) PROVE TypeOK'
    <3>1. [distance |-> d.distance, confidence |-> d.confidence, left |-> Ttl] \in Obstacle
      BY AutonomyAssumption DEF AutonomyAssumption, Obstacle, Distances
    <3>2. QED
      BY <2>1, <2>2, <3>1 DEF Detect, TypeOK
  <2>3. CASE Clock
    BY <2>3, Aging DEF Clock, TypeOK
  <2>4. CASE AdvanceWaypoint
    BY <2>4 DEF AdvanceWaypoint, TypeOK
  <2>5. ASSUME NEW w \in Worlds, Rebuild(w) PROVE TypeOK'
    BY <2>5 DEF Rebuild, TypeOK
  <2>6. CASE StartPlan
    BY <2>6 DEF StartPlan, TypeOK
  <2>7. ASSUME NEW stage \in {"direct", "slow"}, See(stage) \/ Measure(stage) PROVE TypeOK'
    BY <2>1, <2>7 DEF See, Measure, TypeOK
  <2>8. CASE Rank
    BY <2>1, <2>8 DEF Rank, TypeOK
  <2>9. CASE UNCHANGED vars
    BY <2>9 DEF vars, TypeOK
  <2>10. QED
    BY <2>2, <2>3, <2>4, <2>5, <2>6, <2>7, <2>8, <2>9 DEF Next
<1>3. QED
  BY <1>1, <1>2, PTL DEF Spec

\* The share of a confidence that is left is a number.
LEMMA EffectiveIsNat ==
  ASSUME NEW o \in Obstacle
  PROVE  EffectiveConfidence(o) \in Nat
<1>1. o.confidence \in Nat /\ o.left \in Nat /\ Ttl \in Nat \ {0}
  BY AutonomyAssumption DEF AutonomyAssumption, Obstacle
<1>2. o.confidence * o.left \in Nat
  BY <1>1, Product
<1>3. QED
  BY <1>1, <1>2, Quotient DEF EffectiveConfidence

\* A command is allowed near a live, confident obstacle only when a nearer one
\* that is worth less hides it.
THEOREM MissedOnlyIfMasked == Spec => []ObstacleMissedOnlyIfMasked
<1>1. TypeOK => ObstacleMissedOnlyIfMasked
  <2> SUFFICES ASSUME TypeOK, NEW c \in Commands, Allowed(CheckActionSafety(c)),
                      NEW i \in DOMAIN Live, Blocked(Sighting(Live[i]))
               PROVE  \E j \in DOMAIN Live : /\ Live[j].distance <= Live[i].distance
                                             /\ EffectiveConfidence(Live[j]) <= 40
    BY DEF ObstacleMissedOnlyIfMasked
  <2>1. obstacles \in Seq(Obstacle)
    BY DEF TypeOK
  <2>2. Live \in Seq(Obstacle) /\ Range(Live) = {o \in Range(obstacles) : IsLive(o)}
    BY <2>1, PrunedRows DEF Live
  <2>3. Live[i] \in Range(Live) /\ Live[i] \in Obstacle
    BY <2>2 DEF Range
  <2>4. PICK o \in Range(obstacles) :
          /\ IsLive(o) /\ Nearest = Sighting(o)
          /\ \A p \in Range(obstacles) : IsLive(p) => o.distance <= p.distance
    BY <2>1, <2>2, <2>3, NearestIsNearest DEF Nearest
  <2>5. o \in Range(Live) /\ o \in Obstacle /\ o.distance <= Live[i].distance
    <3>1. o \in Range(Live) /\ Live[i] \in Range(obstacles) /\ IsLive(Live[i])
      BY <2>2, <2>3, <2>4
    <3>2. Range(Live) \subseteq Obstacle
      BY <2>2 DEF Range
    <3>3. QED
      BY <2>4, <3>1, <3>2
  <2>6. ~ Blocked(Nearest)
    BY DEF Allowed, CheckActionSafety, Evaluate, Verdict
  <2>7. o.distance \in Nat /\ Live[i].distance \in Nat
    BY <2>3, <2>5, AutonomyAssumption DEF AutonomyAssumption, Obstacle, Distances
  <2>8. Live[i].distance < MinClearance
    BY DEF Blocked, Sighting
  <2>9. EffectiveConfidence(o) <= 40
    BY <2>4, <2>5, <2>6, <2>7, <2>8, EffectiveIsNat DEF Blocked, Sighting, MinClearance
  <2>10. PICK j \in DOMAIN Live : Live[j] = o
    BY <2>5 DEF Range
  <2>11. QED
    BY <2>5, <2>9, <2>10
<1>2. QED
  BY <1>1, TypeCorrect, PTL
-----------------------------------------------------------------------------
(***************************************************************************)
(* The shield.                                                             *)
(***************************************************************************)
Command == [{"surge", "sway", "heave", "yaw"} -> -100 .. 100]

\* What the shield may make of a command: it takes the descent out, or else brings
\* the thrust down.
Change(c, d, w) ==
  \/ TooDeep(c, w)   /\ d = [c EXCEPT !.heave = 0]
  \/ ~ TooDeep(c, w) /\ d = [c EXCEPT !.surge = Clamp(@), !.sway = Clamp(@)]

\* The answer e of the shield about c: no thrust has grown, and only what it calls
\* modified is another command.
Sound(c, e, w) ==
  /\ e.command \in Command /\ e.verdict \in {"approve", "modify", "reject"}
  /\ \A axis \in DOMAIN c : Abs(e.command[axis]) <= Abs(c[axis])
  /\ IF e.verdict = "modify"
     THEN Change(c, e.command, w) /\ (TooDeep(c, w) \/ TooStrong(c, w))
     ELSE e.command = c
  /\ e.verdict = "approve" /\ w.critical => ~ IsMoving(e.command)

\* Every answer of the shield is sound.
LEMMA ShieldIsSound ==
  ASSUME NEW c \in Command, NEW w, NEW near
  PROVE  Sound(c, Evaluate(c, w, near), w)
<1> DEFINE e == Evaluate(c, w, near)
<1>1. \A n \in -100 .. 100 : Clamp(n) \in -100 .. 100 /\ Abs(Clamp(n)) <= Abs(n) /\ Abs(0) <= Abs(n)
  BY DEF Clamp, Abs, MaxLowThrust
<1>2. CASE Lost(w) \/ Blocked(near)
  <2>1. e = [verdict |-> "reject", command |-> c]
    BY <1>2 DEF Evaluate, Verdict
  <2>2. QED
    BY <2>1 DEF Sound, Command, Abs
<1>3. CASE ~ Lost(w) /\ ~ Blocked(near) /\ TooDeep(c, w)
  <2> DEFINE d == [c EXCEPT !.heave = 0]
  <2>1. d \in Command /\ \A axis \in DOMAIN c : Abs(d[axis]) <= Abs(c[axis])
    <3>1. d \in Command
      BY DEF Command
    <3>2. \A axis \in DOMAIN c : d[axis] = 0 \/ d[axis] = c[axis]
      BY DEF Command
    <3>3. \A axis \in DOMAIN c : c[axis] \in -100 .. 100
      BY DEF Command
    <3>4. \A n \in -100 .. 100 : Abs(0) <= Abs(n) /\ Abs(n) <= Abs(n)
      BY DEF Abs
    <3> HIDE DEF d
    <3>5. QED
      BY <3>1, <3>2, <3>3, <3>4
  <2>2. e = [verdict |-> "modify", command |-> d]
    BY <1>3 DEF Evaluate, Verdict
  <2>3. QED
    BY <1>3, <2>1, <2>2 DEF Sound, Change
<1>4. CASE ~ Lost(w) /\ ~ Blocked(near) /\ ~ TooDeep(c, w) /\ TooStrong(c, w)
  <2> DEFINE d == [c EXCEPT !.surge = Clamp(@), !.sway = Clamp(@)]
  <2>1. d \in Command /\ \A axis \in DOMAIN c : Abs(d[axis]) <= Abs(c[axis])
    <3>1. d \in Command
      <4>1. c.surge \in -100 .. 100 /\ c.sway \in -100 .. 100
        BY DEF Command
      <4>2. Clamp(c.surge) \in -100 .. 100
        BY <1>1, <4>1
      <4>3. Clamp(c.sway) \in -100 .. 100
        BY <1>1, <4>1
      <4>4. QED
        BY <4>2, <4>3 DEF Command
    <3>2. \A axis \in DOMAIN c : d[axis] = Clamp(c[axis]) \/ d[axis] = c[axis]
      BY DEF Command
    <3>3. \A axis \in DOMAIN c : c[axis] \in -100 .. 100
      BY DEF Command
    <3>4. \A n \in -100 .. 100 : Abs(Clamp(n)) <= Abs(n) /\ Abs(n) <= Abs(n)
      BY <1>1 DEF Abs
    <3> HIDE DEF d
    <3>5. QED
      BY <3>1, <3>2, <3>3, <3>4
  <2>2. e = [verdict |-> "modify", command |-> d]
    BY <1>4 DEF Evaluate, Verdict
  <2>3. QED
    BY <1>4, <2>1, <2>2 DEF Sound, Change
<1>5. CASE ~ Lost(w) /\ ~ Blocked(near) /\ ~ TooDeep(c, w) /\ ~ TooStrong(c, w)
  <2>1. e = IF w.critical /\ IsMoving(c) THEN [verdict |-> "reject", command |-> c]
            ELSE [verdict |-> "approve", command |-> c]
    BY <1>5 DEF Evaluate, Verdict
  <2>2. QED
    BY <2>1 DEF Sound, Command, Abs
<1>6. QED
  BY <1>2, <1>3, <1>4, <1>5

\* What was taken out stays out: without a descent the depth does not matter, and
\* a thrust that was brought down is not too strong.
LEMMA ChangesLast ==
  ASSUME NEW c \in Command, NEW d, NEW w, Change(c, d, w)
  PROVE  ~ TooDeep(d, w) /\ (~ TooDeep(c, w) => ~ TooStrong(d, w))
<1>1. \A n \in -100 .. 100 : ~ (Abs(Clamp(n)) > MaxLowThrust)
  BY DEF Clamp, Abs, MaxLowThrust
<1>2. c.surge \in -100 .. 100 /\ c.sway \in -100 .. 100
  BY DEF Command
<1>3. CASE TooDeep(c, w)
  <2>1. d.heave = 0
    BY <1>3 DEF Change, Command
  <2>2. QED
    BY <1>3, <2>1 DEF TooDeep
<1>4. CASE ~ TooDeep(c, w)
  <2>1. d.heave = c.heave /\ d.surge = Clamp(c.surge) /\ d.sway = Clamp(c.sway)
    BY <1>4 DEF Change, Command
  <2>2. ~ TooDeep(d, w)
    BY <1>4, <2>1 DEF TooDeep
  <2>3. ~ TooStrong(d, w)
    BY <1>1, <1>2, <2>1 DEF TooStrong
  <2>4. QED
    BY <2>2, <2>3
<1>5. QED
  BY <1>3, <1>4

\* Bringing the thrust down stops no axis.
LEMMA ClampedStaysDriven ==
  ASSUME NEW c \in Command, NEW d, NEW w, Change(c, d, w), ~ TooDeep(c, w)
  PROVE  Driven(c) \subseteq Driven(d)
<1>1. \A n \in -100 .. 100 : Abs(n) > 5 => Abs(Clamp(n)) > 5
  BY DEF Clamp, Abs, MaxLowThrust
<1>2. DOMAIN d = DOMAIN c /\ \A axis \in DOMAIN c : d[axis] = Clamp(c[axis]) \/ d[axis] = c[axis]
  BY DEF Change, Command
<1>3. \A axis \in DOMAIN c : c[axis] \in -100 .. 100
  BY DEF Command
<1>4. QED
  BY <1>1, <1>2, <1>3 DEF Driven

\* A command that does not move by the shield's test drives yaw at most.
LEMMA StillDrivesYaw ==
  ASSUME NEW c \in Command, ~ IsMoving(c)
  PROVE  Driven(c) \subseteq {"yaw"}
BY DEF Driven, IsMoving, Command

\* Two calls after the first the shield changes nothing more and no thrust has
\* grown on the way; under a critical fault nothing is left but yaw.
THEOREM Settles == Spec => []ShieldSettles
<1>1. ShieldSettles
  <2> SUFFICES ASSUME NEW c \in Command
      PROVE LET first  == CheckActionSafety(c)
                second == CheckActionSafety(first.command)
                third  == CheckActionSafety(second.command)
            IN  /\ third.verdict # "modify"
                /\ \A axis \in DOMAIN c : Abs(third.command[axis]) <= Abs(c[axis])
                /\ world.critical =>
                     /\ Allowed(third) => Driven(third.command) \subseteq {"yaw"}
                     /\ Allowed(third) => Driven(first.command) \subseteq {"yaw"}
    BY AutonomyAssumption DEF AutonomyAssumption, ShieldSettles, Command
  <2> DEFINE first  == CheckActionSafety(c)
             second == CheckActionSafety(first.command)
             third  == CheckActionSafety(second.command)
  <2>1. Sound(c, first, world)
    BY ShieldIsSound DEF CheckActionSafety
  <2>2. first.command \in Command
    BY <2>1 DEF Sound
  <2>3. Sound(first.command, second, world)
    BY <2>2, ShieldIsSound DEF CheckActionSafety
  <2>4. second.command \in Command
    BY <2>3 DEF Sound
  <2>5. Sound(second.command, third, world)
    BY <2>4, ShieldIsSound DEF CheckActionSafety
  <2>6. /\ first.command = c => second = first
        /\ second.command = first.command => third = second
    OBVIOUS
  <2> HIDE DEF first, second, third
  <2>7. third.verdict # "modify"
    <3>1. CASE first.verdict # "modify" \/ second.verdict # "modify"
      BY <2>1, <2>3, <2>6, <3>1 DEF Sound
    <3>2. CASE first.verdict = "modify" /\ second.verdict = "modify"
      <4>1. ~ TooDeep(first.command, world)
        BY <2>1, <2>2, <3>2, ChangesLast DEF Sound
      <4>2. ~ TooDeep(second.command, world) /\ ~ TooStrong(second.command, world)
        BY <2>2, <2>3, <3>2, <4>1, ChangesLast DEF Sound
      <4>3. QED
        BY <2>5, <4>2 DEF Sound
    <3>3. QED
      BY <3>1, <3>2
  <2>8. \A axis \in DOMAIN c : Abs(third.command[axis]) <= Abs(c[axis])
    <3>1. /\ DOMAIN c = {"surge", "sway", "heave", "yaw"}
          /\ DOMAIN first.command = {"surge", "sway", "heave", "yaw"}
          /\ DOMAIN second.command = {"surge", "sway", "heave", "yaw"}
      BY <2>2, <2>4 DEF Command
    <3>2. \A n \in -100 .. 100 : Abs(n) \in Nat
      BY DEF Abs
    <3>3. TAKE axis \in DOMAIN c
    <3>4. /\ Abs(c[axis]) \in Nat /\ Abs(first.command[axis]) \in Nat
          /\ Abs(second.command[axis]) \in Nat /\ Abs(third.command[axis]) \in Nat
      BY <2>2, <2>4, <2>5, <3>1, <3>2 DEF Sound, Command
    <3>5. /\ Abs(first.command[axis]) <= Abs(c[axis])
          /\ Abs(second.command[axis]) <= Abs(first.command[axis])
          /\ Abs(third.command[axis]) <= Abs(second.command[axis])
      BY <2>1, <2>3, <2>5, <3>1 DEF Sound
    <3>6. QED
      BY <3>4, <3>5
  <2>9. ASSUME world.critical, Allowed(third)
        PROVE  Driven(third.command) \subseteq {"yaw"} /\ Driven(first.command) \subseteq {"yaw"}
    <3>1. third.command = second.command /\ third.command \in Command
      BY <2>5, <2>7 DEF Sound
    <3>2. ~ IsMoving(third.command)
      BY <2>5, <2>7, <2>9 DEF Sound, Allowed
    <3>3. Driven(second.command) \subseteq {"yaw"}
      BY <3>1, <3>2, StillDrivesYaw
    <3>4. Driven(first.command) \subseteq Driven(second.command)
      <4>1. CASE first.verdict = "modify" /\ second.verdict = "modify"
        <5>1. ~ TooDeep(first.command, world) /\ Change(first.command, second.command, world)
          BY <2>1, <2>3, <4>1, ChangesLast DEF Sound
        <5>2. QED
          BY <2>2, <5>1, ClampedStaysDriven
      <4>2. CASE second.verdict # "modify"
        BY <2>3, <4>2 DEF Sound
      <4>3. CASE first.verdict # "modify"
        <5>1. second = first
          BY <2>1, <2>6, <4>3 DEF Sound
        <5>2. QED
          BY <2>3, <4>3, <5>1 DEF Sound
      <4>4. QED
        BY <4>1, <4>2, <4>3
    <3>5. QED
      BY <3>1, <3>3, <3>4
  <2>10. QED
    BY <2>7, <2>8, <2>9 DEF first, second, third
<1>2. QED
  BY <1>1, PTL
-----------------------------------------------------------------------------
(***************************************************************************)
(* The plan.                                                               *)
(***************************************************************************)

\* Each look at the map throws away what has expired, and nothing else.
LEMMA LookingKeeps ==
  ASSUME TypeOK, obstacles' = Live
  PROVE  \A o \in Range(obstacles') : o \in Range(obstacles) /\ IsLive(o)
BY PrunedRows DEF Live, TypeOK

\* What a look saw is there after it.
LEMMA LookingSees ==
  ASSUME TypeOK, obstacles' = Live, Nearest # NoSighting
  PROVE  \E o \in Range(obstacles') : IsLive(o)
<1>1. obstacles \in Seq(Obstacle)
  BY DEF TypeOK
<1>2. \E o \in Range(obstacles) : IsLive(o)
  BY <1>1, NearestIsNearest DEF Nearest
<1>3. Range(obstacles') = {o \in Range(obstacles) : IsLive(o)}
  BY <1>1, PrunedRows DEF Live
<1>4. QED
  BY <1>2, <1>3

\* A plan that saw an obstacle still sees one, unless one expired; and nothing
\* is answered before the end.
LEMMA RangingAnswers ==
  TypeOK /\ RangingOK /\ AnswerOK /\ [Next]_vars => (RangingOK /\ AnswerOK)'
<1> SUFFICES ASSUME TypeOK, RangingOK, AnswerOK, [Next]_vars
             PROVE  RangingOK' /\ AnswerOK'
  OBVIOUS
<1> USE DEF RangingOK, AnswerOK, Idle
<1>1. ASSUME NEW d \in Detections, Detect(d) PROVE RangingOK' /\ AnswerOK'
  BY <1>1 DEF Detect
<1>2. CASE Clock
  <2>1. AnswerOK'
    BY <1>2 DEF Clock
  <2>2. ASSUME plan.stage \in {"direct_range", "slow_range"}, ~ expired'
        PROVE  \E o \in Range(obstacles') : IsLive(o)
    <3>1. ~ expired /\ ~ \E o \in Range(obstacles) : o.left = 1
      BY <1>2, <2>2 DEF Clock
    <3>2. QED
      BY <1>2, <2>2, <3>1, Aging
  <2>3. plan' = plan
    BY <1>2 DEF Clock
  <2>4. QED
    BY <2>1, <2>2, <2>3
<1>3. CASE AdvanceWaypoint
  BY <1>3 DEF AdvanceWaypoint
<1>4. ASSUME NEW w \in Worlds, Rebuild(w) PROVE RangingOK' /\ AnswerOK'
  BY <1>4 DEF Rebuild
<1>5. CASE StartPlan
  BY <1>5 DEF StartPlan, Go
<1>6. ASSUME NEW stage \in {"direct", "slow"}, See(stage) PROVE RangingOK' /\ AnswerOK'
  <2>1. reply' = reply /\ plan.stage = stage
    BY <1>6 DEF See
  <2>2. CASE Nearest = NoSighting
    BY <1>6, <2>1, <2>2 DEF See, AddRoute, Go
  <2>3. CASE Nearest # NoSighting
    BY <1>6, <2>1, <2>3, LookingSees DEF See, Go
  <2>4. QED
    BY <2>2, <2>3
<1>7. ASSUME NEW stage \in {"direct", "slow"}, Measure(stage) PROVE RangingOK' /\ AnswerOK'
  BY <1>7 DEF Measure, Ranging, AddRoute, Go, Return, NoPlan
<1>8. CASE Rank
  BY <1>8 DEF Rank, Return, NoPlan
<1>9. CASE UNCHANGED vars
  BY <1>9 DEF vars
<1>10. QED
  BY <1>1, <1>2, <1>3, <1>4, <1>5, <1>6, <1>7, <1>8, <1>9 DEF Next

\* A plan fails only when an obstacle expired between two of its looks.
THEOREM FailsOnlyOnExpiry == Spec => PlanFailsOnlyOnExpiry
<1>1. Init => RangingOK /\ AnswerOK
  BY DEF Init, RangingOK, AnswerOK, Idle, NoPlan
<1>2. TypeOK /\ RangingOK /\ AnswerOK /\ [Next]_vars => [reply'.status = "error" => expired]_vars
  <2> SUFFICES ASSUME TypeOK, RangingOK, AnswerOK, Next, reply'.status = "error"
               PROVE  expired
    OBVIOUS
  <2>1. reply' # NoReply
    BY DEF NoReply
  <2>2. ASSUME NEW stage \in {"direct", "slow"}, See(stage) PROVE FALSE
    BY <2>1, <2>2 DEF See, AnswerOK, Idle
  <2>3. ASSUME NEW stage \in {"direct", "slow"}, Measure(stage) PROVE expired
    <3>1. plan.stage \in {"direct_range", "slow_range"}
      BY <2>3 DEF Measure, Ranging
    <3>2. Nearest = NoSighting
      BY <2>1, <2>3, <3>1 DEF Measure, AnswerOK, Idle
    <3>3. \A o \in Range(obstacles) : ~ IsLive(o)
      BY <3>2, NearestIsNearest DEF Nearest, TypeOK
    <3>4. QED
      BY <3>1, <3>3 DEF RangingOK
  <2>4. CASE Rank
    <3>1. reply'.status = "replanned"
      BY <2>4 DEF Rank, Return
    <3>2. QED
      BY <3>1
  <2>5. QED
    BY <2>1, <2>2, <2>3, <2>4 DEF Next, Detect, Clock, AdvanceWaypoint, Rebuild, StartPlan
<1>3. QED
  BY <1>1, <1>2, RangingAnswers, TypeCorrect, PTL DEF Spec, PlanFailsOnlyOnExpiry

-----------------------------------------------------------------------------
(***************************************************************************)
(* What a route costs and what it is worth.                                *)
(***************************************************************************)

\* Every natural has a root, so that Root chooses one.
LEMMA RootIsNat ==
  ASSUME NEW n \in Nat
  PROVE  Root(n) \in Nat
<1> DEFINE S == {r \in 0 .. n : n < (r + 1) * (r + 1)}
<1>1. n \in S
  OBVIOUS
<1>2. PICK r \in S : \A m \in S : r <= m
  <2>1. S \subseteq 0 .. n
    BY Zenon
  <2>2. S # {}
    BY <1>1
  <2> HIDE DEF S
  <2>3. S \in SUBSET Nat
    BY <2>1
  <2>4. QED
    BY <2>2, <2>3, LeastMember
<1>3. r * r <= n
  <2>1. CASE r = 0
    BY <2>1
  <2>2. CASE r # 0
    <3>1. r - 1 \in 0 .. n /\ r - 1 \notin S
      BY <1>2, <2>2
    <3>2. (r - 1) + 1 = r /\ r * r \in Int
      OBVIOUS
    <3>3. QED
      BY <3>1, <3>2
  <2>3. QED
    BY <2>1, <2>2
<1>4. r \in 0 .. n /\ r * r <= n /\ n < (r + 1) * (r + 1)
  BY <1>3
<1> DEFINE IsRoot(s) == s * s <= n /\ n < (s + 1) * (s + 1)
<1>5. Root(n) = CHOOSE s \in 0 .. n : IsRoot(s)
  BY DEF Root
<1>6. IsRoot(r)
  BY <1>4
<1> HIDE DEF IsRoot
<1>7. Root(n) \in 0 .. n
  BY <1>4, <1>5, <1>6
<1>8. QED
  BY <1>7

\* So is the distance between two points.
LEMMA DistanceIsNat ==
  ASSUME NEW p, NEW q, p.x \in Int, p.depth \in Int, q.x \in Int, q.depth \in Int
  PROVE  Distance(p, q) \in Nat
<1>1. \A i \in Int : i * i \in Nat
  OBVIOUS
<1>2. q.x - p.x \in Int /\ q.depth - p.depth \in Int
  OBVIOUS
<1>3. (q.x - p.x) * (q.x - p.x) \in Nat /\ (q.depth - p.depth) * (q.depth - p.depth) \in Nat
  BY <1>1, <1>2
<1>4. QED
  BY <1>3, RootIsNat DEF Distance

\* A set of points.
Points(S) == \A p \in S : p.x \in Int /\ p.depth \in Int

\* There is a function that satisfies the recursion of PathCost, so that it is one,
\* and PathCost is its value for the whole path.
LEMMA PathCostIsDefined ==
  ASSUME NEW points, Len(points) \in Nat
  PROVE  \E cost :
           /\ cost = [n \in 0 .. Len(points) |->
                        IF n <= 1 THEN 0
                        ELSE cost[n - 1] + 5 * Distance(points[n - 1], points[n])]
           /\ PathCost(points) = cost[Len(points)]
<1> DEFINE Step(f, n) == IF n <= 1 THEN 0
                         ELSE f[n - 1] + 5 * Distance(points[n - 1], points[n])
           Defined(k) == \E f : f = [n \in 0 .. k |-> Step(f, n)]
           Missing == {k \in Nat : ~ Defined(k)}
<1> HIDE DEF Step
<1>1. Defined(0)
  <2> DEFINE f == [n \in 0 .. 0 |-> 0]
  <2>1. f = [n \in 0 .. 0 |-> Step(f, n)]
    BY DEF Step
  <2>2. QED
    BY <2>1
<1>2. ASSUME NEW k \in Nat, Defined(k) PROVE Defined(k + 1)
  <2> PICK f : f = [n \in 0 .. k |-> Step(f, n)]
    BY <1>2
  <2> DEFINE g == [n \in 0 .. k + 1 |-> IF n = k + 1 THEN Step(f, k + 1) ELSE f[n]]
  <2>1. \A n \in 0 .. k : g[n] = Step(f, n)
    OBVIOUS
  <2>2. \A n \in 0 .. k + 1 : Step(g, n) = Step(f, n)
    BY DEF Step
  <2>3. g = [n \in 0 .. k + 1 |-> Step(g, n)]
    BY <2>1, <2>2
  <2>4. QED
    BY <2>3
<1>3. Missing = {}
  <2> SUFFICES ASSUME Missing # {} PROVE FALSE
    OBVIOUS
  <2>1. PICK k \in Missing : \A m \in Missing : k <= m
    BY LeastMember
  <2> HIDE DEF Defined
  <2>2. k # 0
    BY <1>1
  <2>3. Defined(k - 1)
    BY <2>1, <2>2
  <2>4. Defined(k)
    BY <1>2, <2>2, <2>3
  <2>5. QED
    BY <2>4
<1>4. Defined(Len(points))
  BY <1>3
<1> DEFINE cost == CHOOSE f : f = [n \in 0 .. Len(points) |->
                       IF n <= 1 THEN 0
                       ELSE f[n - 1] + 5 * Distance(points[n - 1], points[n])]
<1>5. \E f : f = [n \in 0 .. Len(points) |->
                    IF n <= 1 THEN 0
                    ELSE f[n - 1] + 5 * Distance(points[n - 1], points[n])]
  BY <1>4 DEF Step
<1>6. cost = [n \in 0 .. Len(points) |->
                IF n <= 1 THEN 0
                ELSE cost[n - 1] + 5 * Distance(points[n - 1], points[n])]
  BY <1>5, Zenon
<1>7. PathCost(points) = cost[Len(points)]
  BY DEF PathCost
<1> HIDE DEF cost
<1>8. QED
  BY <1>6, <1>7

\* The cost of a path is a number, and no part of it from its start costs more.
LEMMA PathCostGrows ==
  ASSUME NEW S, Points(S), NEW points \in Seq(S), NEW k \in 0 .. Len(points)
  PROVE  /\ PathCost(points) \in Nat
         /\ PathCost(SubSeq(points, 1, k)) <= PathCost(points)
<1> DEFINE part == SubSeq(points, 1, k)
<1>1. /\ Len(points) \in Nat /\ k \in Nat /\ k <= Len(points)
      /\ part \in Seq(S) /\ Len(part) = k
      /\ \A n \in 1 .. k : part[n] = points[n]
  OBVIOUS
<1> HIDE DEF part
<1>2. PICK cost : /\ cost = [n \in 0 .. Len(points) |->
                               IF n <= 1 THEN 0
                               ELSE cost[n - 1] + 5 * Distance(points[n - 1], points[n])]
                  /\ PathCost(points) = cost[Len(points)]
  BY <1>1, PathCostIsDefined
<1>3. PICK less : /\ less = [n \in 0 .. k |->
                               IF n <= 1 THEN 0
                               ELSE less[n - 1] + 5 * Distance(part[n - 1], part[n])]
                  /\ PathCost(part) = less[k]
  BY <1>1, PathCostIsDefined
<1>4. \A n \in 2 .. Len(points) : 5 * Distance(points[n - 1], points[n]) \in Nat
  <2> TAKE n \in 2 .. Len(points)
  <2>1. points[n - 1] \in S /\ points[n] \in S
    BY <1>1
  <2>2. Distance(points[n - 1], points[n]) \in Nat
    BY <2>1, DistanceIsNat DEF Points
  <2>3. QED
    BY <2>2
<1>5. /\ \A n \in 0 .. 1 : n <= Len(points) => cost[n] = 0
      /\ \A n \in 2 .. Len(points) :
           cost[n] = cost[n - 1] + 5 * Distance(points[n - 1], points[n])
  BY <1>1, <1>2
<1>6. /\ \A n \in 0 .. 1 : n <= k => less[n] = 0
      /\ \A n \in 2 .. k : less[n] = less[n - 1] + 5 * Distance(points[n - 1], points[n])
  BY <1>1, <1>3
<1> DEFINE Wrong == {n \in 0 .. Len(points) :
                       ~ /\ cost[n] \in Nat
                         /\ n <= k => cost[n] = less[n]
                         /\ n > k => less[k] <= cost[n]}
<1>7. Wrong = {}
  <2> SUFFICES ASSUME Wrong # {} PROVE FALSE
    OBVIOUS
  <2>1. Wrong \in SUBSET Nat
    OBVIOUS
  <2> HIDE DEF Wrong
  <2>2. PICK n \in Wrong : \A m \in Wrong : n <= m
    BY <2>1, LeastMember
  <2>3. n \in 0 .. Len(points)
    BY DEF Wrong
  <2>4. CASE n <= 1
    <3>1. cost[n] = 0 /\ (n <= k => less[n] = 0)
      BY <1>1, <1>5, <1>6, <2>3, <2>4
    <3>2. n > k => less[k] = 0
      BY <1>1, <1>6, <2>3, <2>4
    <3>4. QED
      BY <2>3, <3>1, <3>2 DEF Wrong
  <2>5. CASE n > 1
    <3>1. n - 1 \in 0 .. Len(points) /\ n - 1 \notin Wrong
      BY <1>1, <2>2, <2>3, <2>5
    <3>2. /\ cost[n - 1] \in Nat
          /\ n - 1 <= k => cost[n - 1] = less[n - 1]
          /\ n - 1 > k => less[k] <= cost[n - 1]
      BY <3>1 DEF Wrong
    <3>3. /\ 5 * Distance(points[n - 1], points[n]) \in Nat
          /\ cost[n] = cost[n - 1] + 5 * Distance(points[n - 1], points[n])
          /\ n <= k => less[n] = less[n - 1] + 5 * Distance(points[n - 1], points[n])
      BY <1>1, <1>4, <1>5, <1>6, <2>3, <2>5
    <3>4. cost[n] \in Nat
      BY <3>2, <3>3
    <3>5. n <= k => cost[n] = less[n]
      BY <1>1, <2>3, <3>2, <3>3
    <3>6. n > k => less[k] <= cost[n]
      <4>1. CASE n - 1 = k
        BY <3>2, <3>3, <4>1
      <4>2. CASE n - 1 > k
        <5>1. k \in 0 .. Len(points) /\ k \notin Wrong
          BY <1>1, <2>2, <2>3, <4>2
        <5>2. less[k] \in Nat
          BY <1>1, <5>1 DEF Wrong
        <5>3. QED
          BY <3>2, <3>3, <4>2, <5>2
      <4>3. QED
        BY <1>1, <2>3, <4>1, <4>2
    <3>7. QED
      BY <2>2, <3>4, <3>5, <3>6 DEF Wrong
  <2>6. QED
    BY <2>3, <2>4, <2>5
<1>8. /\ cost[Len(points)] \in Nat
      /\ Len(points) <= k => cost[Len(points)] = less[Len(points)]
      /\ Len(points) > k => less[k] <= cost[Len(points)]
  BY <1>1, <1>7
<1> HIDE DEF Wrong
<1>9. less[k] <= cost[Len(points)]
  BY <1>1, <1>8
<1>10. QED
  BY <1>2, <1>3, <1>8, <1>9 DEF part

\* A path between two points costs something.
LEMMA SegmentCost ==
  ASSUME NEW p, NEW q, p.x \in Int, p.depth \in Int, q.x \in Int, q.depth \in Int
  PROVE  PathCost(<<p, q>>) \in Nat
<1>1. Points({p, q}) /\ <<p, q>> \in Seq({p, q}) /\ 0 \in 0 .. Len(<<p, q>>)
  BY DEF Points
<1>2. QED
  BY <1>1, PathCostGrows

\* The evaluation of a trajectory is that it is not feasible or a score.
Evaluations == {Infeasible} \cup {[feasible |-> TRUE, score |-> s] : s \in Nat}

\* A path that the energy allows has a score of at least nothing.
LEMMA ScoreIsNat ==
  ASSUME NEW cost \in Nat, NEW available \in Nat, NEW nav \in Nat, cost <= available
  PROVE  Score(cost, available, nav) \in Nat
<1>1. CASE available = 0
  BY <1>1 DEF Score
<1>2. CASE available # 0
  <2> DEFINE q == (4000 * cost) \div available
  <2>1. 4000 * cost \in Nat /\ available \in Nat \ {0} /\ 4000 * cost <= 4000 * available
    BY <1>2
  <2>2. q \in Nat /\ q * available <= 4000 * cost
    BY <2>1, Quotient
  <2>3. q * available \in Nat
    BY <2>2, Product
  <2>4. q * available <= 4000 * available
    BY <2>1, <2>2, <2>3
  <2> HIDE DEF q
  <2>5. q <= 4000
    BY <2>1, <2>2, <2>4
  <2>6. QED
    BY <1>2, <2>2, <2>5 DEF Score, q
<1>3. QED
  BY <1>1, <1>2

\* The same path is worth no more to a vehicle that knows its place less well.
LEMMA ScoreGrows ==
  ASSUME NEW cost \in Nat, NEW available \in Nat, NEW less \in Nat, NEW more \in Nat,
         less <= more
  PROVE  Score(cost, available, less) <= Score(cost, available, more)
<1>1. CASE available = 0
  BY <1>1 DEF Score
<1>2. CASE available # 0
  <2> DEFINE q == (4000 * cost) \div available
  <2>1. q \in Nat
    BY <1>2, Quotient
  <2> HIDE DEF q
  <2>2. \A nav \in Nat : Score(cost, available, nav) = (4000 - q) + 4000 + 2 * nav
    BY <1>2 DEF Score, q
  <2>3. QED
    BY <2>1, <2>2
<1>3. QED
  BY <1>1, <1>2

\* A path that costs no more is worth no less to a vehicle with as much energy.
LEMMA ScoreFalls ==
  ASSUME NEW cost \in Nat, NEW available \in Nat, cost <= available,
         NEW lower \in Nat, lower <= cost, NEW larger \in Nat, available <= larger,
         NEW nav \in Nat
  PROVE  Score(cost, available, nav) <= Score(lower, larger, nav)
<1>1. CASE available = 0
  <2>1. cost = 0 /\ lower = 0
    BY <1>1
  <2>2. larger # 0 => (4000 * 0) \div larger = 0
    OBVIOUS
  <2>3. QED
    BY <1>1, <2>1, <2>2 DEF Score
<1>2. CASE available # 0
  <2> DEFINE q == (4000 * cost) \div available
             r == (4000 * lower) \div larger
  <2>1. q \in Nat /\ 4000 * cost < (q + 1) * available
    BY <1>2
  <2>2. r \in Nat /\ r * larger <= 4000 * lower
    <3>1. 4000 * lower \in Nat /\ larger \in Nat \ {0}
      BY <1>2
    <3>2. QED
      BY <3>1, Quotient
  <2>3. Score(cost, available, nav) = (4000 - q) + 4000 + 2 * nav
    BY <1>2 DEF Score
  <2>4. Score(lower, larger, nav) = (4000 - r) + 4000 + 2 * nav
    BY <1>2 DEF Score
  <2> HIDE DEF q, r
  <2>5. (q + 1) * available <= (q + 1) * larger
    <3>1. larger - available \in Nat /\ q + 1 \in Nat
      BY <2>1
    <3>2. (q + 1) * (larger - available) \in Nat
      BY <3>1, Product
    <3>3. (q + 1) * (larger - available) = (q + 1) * larger - (q + 1) * available
      BY <2>1
    <3>4. (q + 1) * larger \in Nat /\ (q + 1) * available \in Nat
      BY <3>1, Product
    <3>5. QED
      BY <3>2, <3>3, <3>4
  <2>6. r * larger < (q + 1) * larger
    <3>1. /\ r * larger \in Nat /\ (q + 1) * larger \in Nat /\ (q + 1) * available \in Nat
      BY <2>1, <2>2, Product
    <3>2. QED
      BY <2>1, <2>2, <2>5, <3>1
  <2>7. r <= q
    <3> SUFFICES ASSUME r > q PROVE FALSE
      BY <2>1, <2>2
    <3>1. r - (q + 1) \in Nat
      BY <2>1, <2>2
    <3>2. (r - (q + 1)) * larger \in Nat
      BY <3>1, Product
    <3>3. (r - (q + 1)) * larger = r * larger - (q + 1) * larger
      BY <2>1, <2>2
    <3>4. r * larger \in Nat /\ (q + 1) * larger \in Nat
      BY <2>1, <2>2, Product
    <3>5. QED
      BY <2>6, <3>2, <3>3, <3>4
  <2>8. QED
    BY <2>1, <2>2, <2>3, <2>4, <2>7
<1>3. QED
  BY <1>1, <1>2

\* What is evaluated from where the vehicle is to a point of the route.
LEMMA EvaluationTyped ==
  ASSUME NEW w \in Worlds, NEW target, target.x \in Int, target.depth \in Int,
         NEW nav \in Nat, NEW clearance
  PROVE  EvaluateTrajectory(<<Origin(w), target>>, EnergyOf(w.soc), nav, clearance)
           \in Evaluations
<1> DEFINE cost == PathCost(<<Origin(w), target>>)
           available == 100 * Available(EnergyOf(w.soc))
<1>1. Origin(w).x \in Int /\ Origin(w).depth \in Int
  BY AutonomyAssumption DEF AutonomyAssumption, Origin
<1>2. cost \in Nat
  BY <1>1, SegmentCost
<1>3. available \in Nat
  BY AutonomyAssumption DEF AutonomyAssumption, Available, EnergyOf, EnergyIn, Reserve
<1>4. EvaluateTrajectory(<<Origin(w), target>>, EnergyOf(w.soc), nav, clearance) =
        IF cost > available \/ (clearance # NoClearance /\ clearance < MinClearance)
        THEN Infeasible
        ELSE [feasible |-> TRUE, score |-> Score(cost, available, nav)]
  BY DEF EvaluateTrajectory
<1> HIDE DEF cost, available
<1>5. ~ (cost > available) => Score(cost, available, nav) \in Nat
  BY <1>2, <1>3, ScoreIsNat
<1>6. QED
  BY <1>4, <1>5 DEF Evaluations

\* Of two evaluations of one path that allow it, that with the better knowledge of
\* the place is worth no less.
LEMMA EvaluationGrows ==
  ASSUME NEW w \in Worlds, NEW target, target.x \in Int, target.depth \in Int,
         NEW less \in Nat, NEW more \in Nat, less <= more, NEW b, NEW c,
         EvaluateTrajectory(<<Origin(w), target>>, EnergyOf(w.soc), less, b).feasible,
         EvaluateTrajectory(<<Origin(w), target>>, EnergyOf(w.soc), more, c).feasible
  PROVE  EvaluateTrajectory(<<Origin(w), target>>, EnergyOf(w.soc), less, b).score
           <= EvaluateTrajectory(<<Origin(w), target>>, EnergyOf(w.soc), more, c).score
<1> DEFINE cost == PathCost(<<Origin(w), target>>)
           available == 100 * Available(EnergyOf(w.soc))
           Answer(refused, nav) == IF refused THEN Infeasible
                               ELSE [feasible |-> TRUE, score |-> Score(cost, available, nav)]
           bad(clearance) == cost > available
                               \/ (clearance # NoClearance /\ clearance < MinClearance)
<1>1. Origin(w).x \in Int /\ Origin(w).depth \in Int
  BY AutonomyAssumption DEF AutonomyAssumption, Origin
<1>2. cost \in Nat
  BY <1>1, SegmentCost
<1>3. available \in Nat
  BY AutonomyAssumption DEF AutonomyAssumption, Available, EnergyOf, EnergyIn, Reserve
<1>4. /\ EvaluateTrajectory(<<Origin(w), target>>, EnergyOf(w.soc), less, b) = Answer(bad(b), less)
      /\ EvaluateTrajectory(<<Origin(w), target>>, EnergyOf(w.soc), more, c) = Answer(bad(c), more)
  BY DEF EvaluateTrajectory
<1> HIDE DEF cost, available, bad
<1>5. ~ bad(b) /\ ~ bad(c)
  BY <1>4 DEF Infeasible
<1>6. Score(cost, available, less) <= Score(cost, available, more)
  BY <1>2, <1>3, ScoreGrows
<1>7. QED
  BY <1>4, <1>5, <1>6

\* The tool evaluate_trajectory (tools/definitions.py, planning/trajectory.py) never
\* refuses less for more: of a path that it finds feasible every part from the start
\* is feasible too, and worth no less, for the same vehicle and for one with more
\* charge.
THEOREM PartIsFeasible ==
  ASSUME NEW S, Points(S), NEW points \in Seq(S), NEW k \in 0 .. Len(points),
         NEW soc \in 0 .. 100, NEW more \in soc .. 100, NEW nav \in Nat, NEW clearance,
         EvaluateTrajectory(points, EnergyOf(soc), nav, clearance).feasible
  PROVE  /\ EvaluateTrajectory(SubSeq(points, 1, k), EnergyOf(more), nav, clearance).feasible
         /\ EvaluateTrajectory(points, EnergyOf(soc), nav, clearance).score
              <= EvaluateTrajectory(SubSeq(points, 1, k), EnergyOf(more), nav, clearance).score
<1> DEFINE part      == SubSeq(points, 1, k)
           cost      == PathCost(points)
           lower     == PathCost(part)
           available == 100 * Available(EnergyOf(soc))
           larger    == 100 * Available(EnergyOf(more))
           blocked   == clearance # NoClearance /\ clearance < MinClearance
           Answer(refused, c, a) == IF refused THEN Infeasible
                                    ELSE [feasible |-> TRUE, score |-> Score(c, a, nav)]
<1>1. cost \in Nat /\ lower \in Nat /\ lower <= cost
  <2>1. part \in Seq(S) /\ Len(points) \in Nat
    OBVIOUS
  <2>2. cost \in Nat /\ lower <= cost
    BY PathCostGrows
  <2>3. 0 \in 0 .. Len(part)
    BY <2>1
  <2> HIDE DEF part
  <2>4. lower \in Nat
    BY <2>1, <2>3, PathCostGrows
  <2>5. QED
    BY <2>2, <2>4
<1>2. available \in Nat /\ larger \in Nat /\ available <= larger
  BY DEF Available, EnergyOf, EnergyIn, Reserve
<1>3. /\ EvaluateTrajectory(points, EnergyOf(soc), nav, clearance)
           = Answer(cost > available \/ blocked, cost, available)
      /\ EvaluateTrajectory(part, EnergyOf(more), nav, clearance)
           = Answer(lower > larger \/ blocked, lower, larger)
  BY DEF EvaluateTrajectory
<1> HIDE DEF cost, lower, available, larger, blocked, part
<1>4. ~ (cost > available) /\ ~ blocked
  BY <1>3 DEF Infeasible
<1>5. ~ (lower > larger)
  BY <1>1, <1>2, <1>4
<1>6. Score(cost, available, nav) <= Score(lower, larger, nav)
  BY <1>1, <1>2, <1>4, ScoreFalls
<1>7. QED
  BY <1>3, <1>4, <1>5, <1>6 DEF part

-----------------------------------------------------------------------------
(***************************************************************************)
(* The routes of a plan, and the answer.                                   *)
(***************************************************************************)

\* A plan keeps its routes, and what it took for clear stays clear.
LEMMA RoutesKept == TypeOK /\ RoutesOK /\ [Next]_vars => RoutesOK'
<1> SUFFICES ASSUME TypeOK, RoutesOK, [Next]_vars PROVE RoutesOK'
  OBVIOUS
<1>1. ASSUME obstacles' = Live PROVE \A c : StillClear(c) => StillClear(c)'
  BY <1>1, LookingKeeps DEF StillClear
<1>2. CASE UNCHANGED vars
  BY <1>2 DEF vars, RoutesOK, HasWaypoint, StillClear, RouteCandidate, IsLive
<1>3. ASSUME Idle, UNCHANGED plan PROVE RoutesOK'
  BY <1>3 DEF RoutesOK, Idle
<1>4. ASSUME UNCHANGED <<waypoint, world, plan>>,
             \A c \in Clearances : StillClear(c) => StillClear(c)'
      PROVE  RoutesOK'
  BY <1>4 DEF RoutesOK, HasWaypoint, RouteCandidate
<1>5. ASSUME NEW stage \in {"direct", "slow"}, plan.stage \in {stage, Ranging(stage)},
             NEW c \in Clearances, StillClear(c)', AddRoute(stage, c),
             obstacles' = Live, UNCHANGED <<waypoint, world>>
      PROVE  RoutesOK'
  <2>1. \A t, b : RouteCandidate(t, b)' = RouteCandidate(t, b)
    BY <1>5 DEF RouteCandidate
  <2>2. HasWaypoint /\ HasWaypoint'
    BY <1>5 DEF RoutesOK, Ranging, HasWaypoint
  <2>3. CASE stage = "direct"
    <3>1. plan.routes = <<>>
      BY <1>5, <2>3 DEF RoutesOK, Ranging
    <3>2. plan' = [stage |-> "slow", routes |-> <<RouteCandidate("direct", c)>>]
      BY <1>5, <2>3, <3>1 DEF AddRoute, Go
    <3>3. QED
      BY <1>5, <2>1, <2>2, <3>2 DEF RoutesOK
  <2>4. CASE stage = "slow"
    <3>1. PICK d \in Clearances : StillClear(d) /\ plan.routes = <<RouteCandidate("direct", d)>>
      BY <1>5, <2>4 DEF RoutesOK, Ranging
    <3>2. plan' = [stage |-> "rest",
                   routes |-> <<RouteCandidate("direct", d), RouteCandidate("slow", c)>>]
      BY <1>5, <2>4, <3>1 DEF AddRoute, Go
    <3>3. StillClear(d)'
      BY <1>1, <1>5, <3>1
    <3>4. QED
      BY <1>5, <2>1, <2>2, <3>2, <3>3 DEF RoutesOK
  <2>5. QED
    BY <2>3, <2>4
<1>6. CASE Clock
  <2>1. \A c \in Clearances : StillClear(c) => StillClear(c)'
    BY <1>6, Aging DEF StillClear
  <2>2. QED
    BY <1>4, <1>6, <2>1 DEF Clock
<1>7. CASE StartPlan
  BY <1>7 DEF StartPlan, Go, RoutesOK, HasWaypoint
<1>8. ASSUME NEW stage \in {"direct", "slow"}, See(stage) PROVE RoutesOK'
  <2>1. /\ obstacles \in Seq(Obstacle) /\ obstacles' = Live
        /\ plan.stage = stage /\ UNCHANGED <<waypoint, world>>
    BY <1>8 DEF See, TypeOK
  <2>2. CASE Nearest = NoSighting
    <3>1. \A o \in Range(obstacles) : ~ IsLive(o)
      BY <2>1, <2>2, NearestIsNearest DEF Nearest
    <3>2. StillClear(NoClearance)'
      BY <2>1, <3>1, LookingKeeps DEF StillClear
    <3>3. AddRoute(stage, NoClearance) /\ NoClearance \in Clearances
      BY <1>8, <2>2 DEF See, Clearances
    <3>4. QED
      BY <1>5, <2>1, <3>2, <3>3
  <2>3. CASE Nearest # NoSighting
    <3>1. Go(Ranging(stage), plan.routes)
      BY <1>8, <2>3 DEF See
    <3>2. \A c : StillClear(c) => StillClear(c)'
      BY <1>1, <2>1
    <3>3. \A t, b : RouteCandidate(t, b)' = RouteCandidate(t, b)
      BY <2>1 DEF RouteCandidate
    <3>4. QED
      BY <2>1, <3>1, <3>2, <3>3 DEF Go, Ranging, RoutesOK, HasWaypoint
  <2>4. QED
    BY <2>2, <2>3
<1>9. ASSUME NEW stage \in {"direct", "slow"}, Measure(stage) PROVE RoutesOK'
  <2>1. /\ obstacles \in Seq(Obstacle) /\ obstacles' = Live
        /\ plan.stage = Ranging(stage) /\ UNCHANGED <<waypoint, world>>
    BY <1>9 DEF Measure, TypeOK
  <2>2. CASE Nearest = NoSighting
    BY <1>9, <2>2 DEF Measure, Return, NoPlan, RoutesOK
  <2>3. CASE Nearest # NoSighting
    <3>1. PICK o \in Range(obstacles) :
            /\ IsLive(o) /\ Nearest = Sighting(o)
            /\ \A p \in Range(obstacles) : IsLive(p) => o.distance <= p.distance
      BY <2>1, <2>3, NearestIsNearest DEF Nearest
    <3>2. o \in Obstacle /\ o.distance \in Distances /\ Nearest.distance = o.distance
      <4>1. o \in Obstacle
        BY <2>1, <3>1 DEF Range
      <4>2. QED
        BY <3>1, <4>1 DEF Obstacle, Sighting
    <3>3. o.distance # NoClearance /\ o.distance \in Clearances
      BY <3>2, AutonomyAssumption DEF AutonomyAssumption, Distances, NoClearance, Clearances
    <3>4. StillClear(o.distance)'
      BY <2>1, <3>1, <3>3, LookingKeeps DEF StillClear
    <3>5. AddRoute(stage, o.distance)
      BY <1>9, <2>3, <3>2 DEF Measure
    <3>6. QED
      BY <1>5, <2>1, <3>3, <3>4, <3>5
  <2>4. QED
    BY <2>2, <2>3
<1>10. CASE Rank
  BY <1>10 DEF Rank, Return, NoPlan, RoutesOK
<1>11. QED
  BY <1>2, <1>3, <1>6, <1>7, <1>8, <1>9, <1>10 DEF Next, Detect, AdvanceWaypoint, Rebuild

\* What a candidate counts as in the ranking.
LEMMA SortScores ==
  ASSUME NEW c, c.evaluation \in Evaluations
  PROVE  /\ SortScore(c) \in Int /\ SortScore(c) >= -10000
         /\ c.evaluation.feasible => SortScore(c) = c.evaluation.score /\ SortScore(c) >= 0
         /\ ~ c.evaluation.feasible => SortScore(c) = -10000
<1>1. CASE c.evaluation = Infeasible
  BY <1>1 DEF SortScore, Infeasible
<1>2. CASE c.evaluation # Infeasible
  <2>1. PICK s \in Nat : c.evaluation = [feasible |-> TRUE, score |-> s]
    BY <1>2 DEF Evaluations
  <2>2. QED
    BY <2>1 DEF SortScore
<1>3. QED
  BY <1>1, <1>2

\* The ranking keeps the candidates, leads with a best one, and ends with the one
\* that was last if it is not feasible and every other has an earlier priority.
LEMMA RankedRows ==
  ASSUME NEW T, NEW list \in Seq(T), list # <<>>,
         \A c \in Range(list) : c.evaluation \in Evaluations /\ c.priority \in Nat
  PROVE  LET ranked == Ranked(list)
             size   == Len(list)
         IN  /\ ranked \in Seq(T) /\ Len(ranked) = size /\ Range(ranked) = Range(list)
             /\ \A i \in 1 .. size :
                  /\ SortScore(ranked[1]) >= SortScore(ranked[i])
                  /\ SortScore(ranked[1]) = SortScore(ranked[i]) =>
                       ranked[1].priority <= ranked[i].priority
             /\ /\ ~ list[size].evaluation.feasible
                /\ \A i \in 1 .. size - 1 : list[i].priority < list[size].priority
                => ranked[size] = list[size]
<1> DEFINE size == Len(list)
           order == {p \in (DOMAIN list) \X (DOMAIN list) :
                       LET a == list[p[1]]
                           b == list[p[2]]
                       IN  \/ SortScore(a) > SortScore(b)
                           \/ /\ SortScore(a) = SortScore(b)
                              /\ a.priority < b.priority \/ (a.priority = b.priority /\ p[1] < p[2])}
<1>1. /\ DOMAIN list = 1 .. size /\ size \in Nat /\ 1 \in 1 .. size /\ size \in 1 .. size
      /\ \A i \in 1 .. size : list[i] \in T
  OBVIOUS
<1>2. \A i \in DOMAIN list : /\ list[i].evaluation \in Evaluations
                             /\ list[i].priority \in Nat
                             /\ SortScore(list[i]) \in Int /\ SortScore(list[i]) >= -10000
  BY SortScores DEF Range
<1>3. TotalOrder(DOMAIN list, order)
  BY <1>1, <1>2 DEF TotalOrder
<1>4. Ranked(list) = Listed(list, DOMAIN list, order)
  BY DEF Ranked
<1>5. \A i, j \in DOMAIN list : <<i, j>> \in order =>
        /\ SortScore(list[i]) >= SortScore(list[j])
        /\ SortScore(list[i]) = SortScore(list[j]) => list[i].priority <= list[j].priority
  BY <1>1, <1>2
<1> HIDE DEF order
<1>6. PICK place \in [1 .. size -> 1 .. size] :
        /\ Ranked(list) = [k \in 1 .. size |-> list[place[k]]]
        /\ \A i \in 1 .. size : \E k \in 1 .. size : place[k] = i
        /\ \A k, l \in 1 .. size : k < l => <<place[k], place[l]>> \in order
  BY <1>3, <1>4, Sorted
<1> HIDE DEF size
<1>7. Ranked(list) \in Seq(T) /\ Len(Ranked(list)) = size
  <2>1. \A k \in 1 .. size : list[place[k]] \in T
    BY <1>1, <1>6
  <2>2. QED
    BY <1>1, <1>6, <2>1
<1>8. Range(Ranked(list)) = Range(list)
  <2>1. DOMAIN Ranked(list) = 1 .. size
    BY <1>6
  <2>2. \A k \in 1 .. size : Ranked(list)[k] = list[place[k]] /\ place[k] \in DOMAIN list
    BY <1>1, <1>6
  <2>3. \A i \in DOMAIN list : \E k \in 1 .. size : Ranked(list)[k] = list[i]
    BY <1>1, <1>6
  <2>4. ASSUME NEW x \in Range(Ranked(list)) PROVE x \in Range(list)
    BY <2>1, <2>2 DEF Range
  <2>5. ASSUME NEW x \in Range(list) PROVE x \in Range(Ranked(list))
    BY <2>1, <2>3 DEF Range
  <2>6. QED
    BY <2>4, <2>5
<1>9. ASSUME NEW i \in 1 .. size
      PROVE  /\ SortScore(Ranked(list)[1]) >= SortScore(Ranked(list)[i])
             /\ SortScore(Ranked(list)[1]) = SortScore(Ranked(list)[i]) =>
                  Ranked(list)[1].priority <= Ranked(list)[i].priority
  <2>1. Ranked(list)[1] = list[place[1]] /\ Ranked(list)[i] = list[place[i]]
        /\ place[1] \in DOMAIN list /\ place[i] \in DOMAIN list
    BY <1>1, <1>6
  <2>2. CASE i = 1
    BY <1>2, <2>1, <2>2
  <2>3. CASE i # 1
    <3>1. <<place[1], place[i]>> \in order
      BY <1>1, <1>6, <2>3
    <3>2. QED
      BY <1>5, <2>1, <3>1
  <2>4. QED
    BY <2>2, <2>3
<1>10. ASSUME ~ list[size].evaluation.feasible,
              \A i \in 1 .. size - 1 : list[i].priority < list[size].priority
       PROVE  Ranked(list)[size] = list[size]
  <2>1. PICK k \in 1 .. size : place[k] = size
    BY <1>1, <1>6
  <2>2. ASSUME k # size PROVE FALSE
    <3>1. <<size, place[size]>> \in order /\ place[size] \in 1 .. size
      BY <1>1, <1>6, <2>1, <2>2
    <3>2. place[size] # size
      BY <1>1, <1>3, <3>1 DEF TotalOrder
    <3>3. list[place[size]].priority < list[size].priority
      BY <1>1, <1>10, <3>1, <3>2
    <3>4. size \in DOMAIN list /\ place[size] \in DOMAIN list
      BY <1>1, <3>1
    <3>5. SortScore(list[size]) = -10000
      <4>1. list[size].evaluation \in Evaluations /\ ~ list[size].evaluation.feasible
        BY <1>2, <1>10, <3>4
      <4>2. QED
        BY <4>1, SortScores
    <3>6. SortScore(list[place[size]]) \in Int /\ SortScore(list[place[size]]) >= -10000
      BY <1>2, <3>4
    <3>7. list[size].priority \in Nat /\ list[place[size]].priority \in Nat
      BY <1>2, <3>4
    <3>8. QED
      BY <1>5, <3>1, <3>3, <3>4, <3>5, <3>6, <3>7
  <2>3. QED
    BY <1>1, <1>6, <2>1, <2>2
<1>11. QED
  BY <1>7, <1>8, <1>9, <1>10 DEF size

\* What a plan offers beside the routes.
LEMMA OtherRows ==
  ASSUME NEW w, NEW near
  PROVE  LET others == OtherCandidates(w, near)
             size   == Len(others)
         IN  /\ others \in Seq({Avoidance, Hold, Fallback}) /\ size \in Nat \ {0}
             /\ others[size] = Fallback
             /\ \A i \in 1 .. size - 1 : others[i] \in {Avoidance, Hold}
             /\ HoldDue(w) => \E i \in 1 .. size : others[i] = Hold
<1> DEFINE others == OtherCandidates(w, near)
           first  == IF AvoidanceDue(near) THEN <<Avoidance>> ELSE <<>>
           second == IF HoldDue(w) THEN <<Hold>> ELSE <<>>
<1> DEFINE T == {Avoidance, Hold}
<1>0. /\ <<>> \in Seq(T) /\ <<Avoidance>> \in Seq(T) /\ <<Hold>> \in Seq(T)
      /\ Len(<<Hold>>) = 1 /\ <<Hold>>[1] = Hold
  OBVIOUS
<1>1. first \in Seq(T)
  BY <1>0, Zenon
<1>2. second \in Seq(T) /\ (HoldDue(w) => Len(second) = 1 /\ second[1] = Hold)
  <2>1. CASE HoldDue(w)
    BY <1>0, <2>1
  <2>2. CASE ~ HoldDue(w)
    BY <1>0, <2>2
  <2>3. QED
    BY <2>1, <2>2
<1>3. others = (first \o second) \o <<Fallback>>
  BY DEF OtherCandidates
<1> HIDE DEF first, second, others
<1> DEFINE both == first \o second
<1>4. /\ both \in Seq({Avoidance, Hold}) /\ Len(both) \in Nat
      /\ HoldDue(w) => \E i \in 1 .. Len(both) : both[i] = Hold
  <2>1. both \in Seq({Avoidance, Hold}) /\ Len(both) = Len(first) + Len(second)
    BY <1>1, <1>2
  <2>2. ASSUME HoldDue(w) PROVE \E i \in 1 .. Len(both) : both[i] = Hold
    <3>1. Len(first) + 1 \in 1 .. Len(both) /\ both[Len(first) + 1] = second[1]
      BY <1>1, <1>2, <2>1, <2>2
    <3>2. QED
      BY <1>2, <2>2, <3>1
  <2>3. QED
    BY <2>1, <2>2
<1>5. others = both \o <<Fallback>>
  BY <1>3
<1> HIDE DEF both
<1>6. /\ others \in Seq({Avoidance, Hold, Fallback}) /\ Len(others) = Len(both) + 1
      /\ others[Len(both) + 1] = Fallback
      /\ \A i \in 1 .. Len(both) : others[i] = both[i] /\ both[i] \in {Avoidance, Hold}
  BY <1>4, <1>5
<1>7. QED
  BY <1>4, <1>6 DEF others

\* The routes a plan ends with: each was evaluated, and what it took for clear
\* when it evaluated the direct one is clear still.
LEMMA RouteRows ==
  ASSUME TypeOK, RoutesOK, plan.stage = "rest"
  PROVE  /\ plan.routes \in Seq(Range(plan.routes))
         /\ \A c \in Range(plan.routes) :
              /\ c.evaluation \in Evaluations /\ c.priority \in {0, 1}
              /\ c.kind = "direct" =>
                   \E d \in Clearances : StillClear(d) /\ c = RouteCandidate("direct", d)
         /\ \A c, e \in Range(plan.routes) :
              e.kind = "direct" /\ e.evaluation.feasible /\ c.evaluation.feasible /\ c # e =>
                c.evaluation.score <= e.evaluation.score /\ e.priority < c.priority
<1>1. CASE plan.routes = <<>>
  <2>1. Range(plan.routes) = {}
    BY <1>1 DEF Range
  <2>2. QED
    BY <1>1, <2>1
<1>2. CASE plan.routes # <<>>
  <2>1. PICK d \in Clearances : /\ StillClear(d)
                                /\ \E b \in Clearances : plan.routes =
                                     <<RouteCandidate("direct", d), RouteCandidate("slow", b)>>
    BY <1>2 DEF RoutesOK
  <2>2. PICK b \in Clearances :
          plan.routes = <<RouteCandidate("direct", d), RouteCandidate("slow", b)>>
    BY <2>1
  <2>3. HasWaypoint
    BY <1>2 DEF RoutesOK
  <2>4. Route[waypoint].x \in Int /\ Route[waypoint].depth \in Int
    BY <2>3, AutonomyAssumption DEF AutonomyAssumption, HasWaypoint
  <2>5. world \in Worlds /\ 10 * world.nav \in Nat /\ 9 * world.nav \in Nat
    <3>1. world \in Worlds
      BY DEF TypeOK
    <3>2. world.nav \in 0 .. 100
      BY <3>1, AutonomyAssumption DEF AutonomyAssumption
    <3>3. QED
      BY <3>1, <3>2
  <2>6. /\ EvaluateTrajectory(<<Origin(world), Route[waypoint]>>, EnergyOf(world.soc),
                              10 * world.nav, d) \in Evaluations
        /\ EvaluateTrajectory(<<Origin(world), Route[waypoint]>>, EnergyOf(world.soc),
                              9 * world.nav, b) \in Evaluations
    BY <2>4, <2>5, EvaluationTyped
  <2>7. /\ RouteCandidate("direct", d).evaluation \in Evaluations
        /\ RouteCandidate("direct", d).priority = 0
    BY <2>6 DEF RouteCandidate, DirectCandidate, Candidate
  <2>8. /\ RouteCandidate("slow", b).evaluation \in Evaluations
        /\ RouteCandidate("slow", b).priority = 1 /\ RouteCandidate("slow", b).kind = "slow"
    BY <2>6 DEF RouteCandidate, SlowCandidate, Candidate
  <2>9. Range(plan.routes) = {RouteCandidate("direct", d), RouteCandidate("slow", b)}
    BY <2>2 DEF Range
  <2>10. plan.routes \in Seq(Range(plan.routes))
    BY <2>2, <2>9
  <2>11. ASSUME RouteCandidate("direct", d).evaluation.feasible,
                RouteCandidate("slow", b).evaluation.feasible
         PROVE  RouteCandidate("slow", b).evaluation.score
                  <= RouteCandidate("direct", d).evaluation.score
    <3>1. 9 * world.nav <= 10 * world.nav
      BY <2>5, AutonomyAssumption DEF AutonomyAssumption
    <3>2. /\ RouteCandidate("direct", d).evaluation =
               EvaluateTrajectory(<<Origin(world), Route[waypoint]>>, EnergyOf(world.soc),
                                  10 * world.nav, d)
          /\ RouteCandidate("slow", b).evaluation =
               EvaluateTrajectory(<<Origin(world), Route[waypoint]>>, EnergyOf(world.soc),
                                  9 * world.nav, b)
      BY DEF RouteCandidate, DirectCandidate, SlowCandidate, Candidate
    <3>3. QED
      BY <2>4, <2>5, <2>11, <3>1, <3>2, EvaluationGrows
  <2>12. QED
    BY <2>1, <2>7, <2>8, <2>9, <2>10, <2>11
<1>3. QED
  BY <1>1, <1>2

\* The tool evaluate_trajectory confirms a direct route that was feasible, if what
\* the plan took for clear is clear still.
LEMMA RouteConfirmed ==
  ASSUME NEW d, NEW near,
         RouteCandidate("direct", d).evaluation.feasible,
         d = NoClearance => near = NoSighting,
         near = NoSighting \/ (d <= near.distance /\ d \in Int /\ near.distance \in Int)
  PROVE  EvaluateTrajectory(<<Origin(world), Route[waypoint]>>, EnergyOf(world.soc),
                            10 * world.nav,
                            IF near = NoSighting THEN NoClearance ELSE near.distance)
           = RouteCandidate("direct", d).evaluation
<1> DEFINE cost == PathCost(<<Origin(world), Route[waypoint]>>)
           available == 100 * Available(EnergyOf(world.soc))
           seen == IF near = NoSighting THEN NoClearance ELSE near.distance
           Answer(c) == IF cost > available \/ (c # NoClearance /\ c < MinClearance)
                        THEN Infeasible
                        ELSE [feasible |-> TRUE, score |-> Score(cost, available, 10 * world.nav)]
<1>1. RouteCandidate("direct", d).evaluation = Answer(d)
  BY DEF RouteCandidate, DirectCandidate, Candidate, EvaluateTrajectory
<1>2. EvaluateTrajectory(<<Origin(world), Route[waypoint]>>, EnergyOf(world.soc),
                         10 * world.nav, seen) = Answer(seen)
  BY DEF EvaluateTrajectory
<1> HIDE DEF cost, available
<1>3. ~ (cost > available) /\ (d = NoClearance \/ ~ (d < MinClearance))
  BY <1>1 DEF Infeasible
<1>4. seen = NoClearance \/ ~ (seen < MinClearance)
  BY <1>3 DEF MinClearance, NoClearance
<1>5. Answer(seen) = Answer(d)
  BY <1>3, <1>4
<1>6. QED
  BY <1>1, <1>2, <1>5

\* A plan leads with the best of its feasible routes, what it calls a feasible
\* direct route is confirmed, the hold is offered when the energy planner would
\* end the mission, and the fallback comes last.
LEMMA RankAnswers ==
  ASSUME TypeOK, RoutesOK, Rank
  PROVE  PlanIsRanked'
<1> DEFINE others == OtherCandidates(world, Nearest)
           list   == plan.routes \o others
           ranked == Ranked(list)
           T      == Range(plan.routes) \cup {Avoidance, Hold, Fallback}
           size   == Len(list)
<1>1. /\ plan.stage = "rest" /\ obstacles' = Live /\ UNCHANGED <<waypoint, world>>
      /\ reply'.candidates = ranked
  BY DEF Rank, Return
<1>2. /\ plan.routes \in Seq(Range(plan.routes))
      /\ \A c \in Range(plan.routes) :
           /\ c.evaluation \in Evaluations /\ c.priority \in {0, 1}
           /\ c.kind = "direct" =>
                \E d \in Clearances : StillClear(d) /\ c = RouteCandidate("direct", d)
      /\ \A c, e \in Range(plan.routes) :
           e.kind = "direct" /\ e.evaluation.feasible /\ c.evaluation.feasible /\ c # e =>
             c.evaluation.score <= e.evaluation.score /\ e.priority < c.priority
  BY <1>1, RouteRows
<1>3. /\ others \in Seq({Avoidance, Hold, Fallback}) /\ Len(others) \in Nat \ {0}
      /\ others[Len(others)] = Fallback
      /\ \A i \in 1 .. Len(others) - 1 : others[i] \in {Avoidance, Hold}
      /\ HoldDue(world) => \E i \in 1 .. Len(others) : others[i] = Hold
  BY OtherRows
<1> HIDE DEF others
<1>4. /\ list \in Seq(T) /\ size = Len(plan.routes) + Len(others)
      /\ \A i \in 1 .. Len(plan.routes) : list[i] \in Range(plan.routes)
      /\ \A i \in 1 .. Len(others) : list[Len(plan.routes) + i] = others[i]
  <2>1. plan.routes \in Seq(T) /\ others \in Seq(T)
    BY <1>2, <1>3
  <2>2. \A i \in 1 .. Len(plan.routes) : plan.routes[i] \in Range(plan.routes)
    BY <1>2
  <2>3. QED
    BY <2>1, <2>2
<1>5. size \in Nat /\ size >= 1 /\ Len(plan.routes) \in Nat
  BY <1>2, <1>3, <1>4
<1> HIDE DEF list, T
<1>6. \A c \in T : /\ c.evaluation \in Evaluations /\ c.priority \in Nat
                   /\ c \in Range(plan.routes) \/ ~ c.evaluation.feasible
  <2>1. \A c \in {Avoidance, Hold, Fallback} :
          c.evaluation \in Evaluations /\ c.priority \in Nat /\ ~ c.evaluation.feasible
    BY DEF Avoidance, Hold, Fallback, Candidate, NotEvaluated, Infeasible, Evaluations
  <2>2. QED
    BY <1>2, <2>1 DEF T
<1>7. Range(list) \subseteq T /\ list # <<>>
  BY <1>4, <1>5 DEF Range
<1>8. /\ ranked \in Seq(T) /\ Len(ranked) = size /\ Range(ranked) = Range(list)
      /\ \A i \in 1 .. size :
           /\ SortScore(ranked[1]) >= SortScore(ranked[i])
           /\ SortScore(ranked[1]) = SortScore(ranked[i]) =>
                ranked[1].priority <= ranked[i].priority
      /\ /\ ~ list[size].evaluation.feasible
         /\ \A i \in 1 .. size - 1 : list[i].priority < list[size].priority
         => ranked[size] = list[size]
  BY <1>4, <1>6, <1>7, RankedRows
<1> HIDE DEF ranked, size
<1>9. /\ DOMAIN ranked = 1 .. size /\ Head(ranked) = ranked[1]
      /\ 1 \in 1 .. size /\ \A i \in 1 .. size : ranked[i] \in T
  BY <1>5, <1>8
<1>10. ASSUME NEW i \in 1 .. size, ranked[i].evaluation.feasible
       PROVE  /\ ranked[1].evaluation.feasible
              /\ ranked[1].evaluation.score >= ranked[i].evaluation.score
  <2>1. ranked[1].evaluation \in Evaluations /\ ranked[i].evaluation \in Evaluations
    BY <1>6, <1>9
  <2>2. SortScore(ranked[i]) = ranked[i].evaluation.score /\ SortScore(ranked[i]) >= 0
        /\ SortScore(ranked[i]) \in Int
    BY <1>10, <2>1, SortScores
  <2>3. SortScore(ranked[1]) >= SortScore(ranked[i]) /\ SortScore(ranked[1]) \in Int
    BY <1>8, <2>1, SortScores
  <2>4. SortScore(ranked[1]) # -10000
    BY <2>2, <2>3
  <2>5. ranked[1].evaluation.feasible
    BY <2>1, <2>4, SortScores
  <2>6. SortScore(ranked[1]) = ranked[1].evaluation.score
    BY <2>1, <2>5, SortScores
  <2>7. QED
    BY <2>2, <2>3, <2>5, <2>6
<1>11. ASSUME NEW i \in 1 .. size, ranked[i].kind = "direct", ranked[i].evaluation.feasible
       PROVE  /\ ranked[1] = ranked[i]
              /\ EvaluateRoute(<<Origin(world), Route[waypoint]>>)' = ranked[i].evaluation
  <2>1. PICK d \in Clearances : StillClear(d) /\ ranked[i] = RouteCandidate("direct", d)
    BY <1>2, <1>6, <1>9, <1>11
  <2>2. obstacles' \in Seq(Obstacle)
    BY <1>1, PrunedRows DEF Live, TypeOK
  <2>3. \A o \in Range(obstacles') : d # NoClearance /\ d <= o.distance /\ o \in Obstacle
    BY <1>1, <2>1, <2>2, LookingKeeps DEF StillClear, Range
  <2>4. \/ Nearest' = NoSighting
        \/ /\ Nearest' # NoSighting
           /\ \E o \in Range(obstacles') : Nearest' = Sighting(o)
    BY <2>2, NearestIsNearest DEF Nearest
  <2>5. d \in Int /\ \A o \in Obstacle : o.distance \in Int
    BY AutonomyAssumption DEF AutonomyAssumption, Obstacle, Distances, Clearances, NoClearance
  <2>6. d = NoClearance => Nearest' = NoSighting
    BY <2>3, <2>4
  <2>7. Nearest' = NoSighting
        \/ (d <= Nearest'.distance /\ d \in Int /\ Nearest'.distance \in Int)
    BY <2>3, <2>4, <2>5 DEF Sighting
  <2>8. EvaluateTrajectory(<<Origin(world), Route[waypoint]>>, EnergyOf(world.soc),
                           10 * world.nav,
                           IF Nearest' = NoSighting THEN NoClearance ELSE Nearest'.distance)
        = RouteCandidate("direct", d).evaluation
    BY <1>11, <2>1, <2>6, <2>7, RouteConfirmed
  <2>9. ranked[1] = ranked[i]
    <3> SUFFICES ASSUME ranked[1] # ranked[i] PROVE FALSE
      OBVIOUS
    <3>1. ranked[1].evaluation.feasible
      BY <1>10, <1>11
    <3>2. ranked[1] \in Range(plan.routes) /\ ranked[i] \in Range(plan.routes)
      BY <1>6, <1>9, <1>11, <3>1
    <3>3. /\ ranked[1].evaluation.score <= ranked[i].evaluation.score
          /\ ranked[i].priority < ranked[1].priority
      BY <1>2, <1>11, <3>1, <3>2
    <3>4. /\ ranked[1].evaluation \in Evaluations /\ ranked[i].evaluation \in Evaluations
          /\ ranked[1].priority \in Nat /\ ranked[i].priority \in Nat
      BY <1>6, <1>9
    <3>5. /\ SortScore(ranked[1]) = ranked[1].evaluation.score /\ SortScore(ranked[1]) \in Int
          /\ SortScore(ranked[i]) = ranked[i].evaluation.score /\ SortScore(ranked[i]) \in Int
      BY <1>11, <3>1, <3>4, SortScores
    <3>6. QED
      BY <1>8, <3>3, <3>4, <3>5
  <2>10. QED
    BY <1>1, <2>1, <2>8, <2>9 DEF EvaluateRoute
<1>12. ASSUME EnergyDecision \in {"surface", "return"}
       PROVE  \E i \in 1 .. size : ranked[i].kind = "hold"
  <2>1. world.soc \in 0 .. 100
    BY AutonomyAssumption DEF AutonomyAssumption, TypeOK
  <2>2. HoldDue(world)
    BY <1>12, <2>1, EnergyAnswers DEF EnergyDecision, HoldDue
  <2>3. PICK j \in 1 .. Len(others) : others[j] = Hold
    BY <1>3, <2>2
  <2>4. list[Len(plan.routes) + j] = Hold /\ Len(plan.routes) + j \in DOMAIN list
    BY <1>3, <1>4, <1>5, <2>3 DEF size
  <2>5. Hold \in Range(list)
    BY <2>4 DEF Range
  <2>6. PICK i \in DOMAIN ranked : ranked[i] = Hold
    BY <1>8, <2>5 DEF Range
  <2>7. QED
    BY <1>9, <2>6 DEF Hold, Candidate
<1>13. ranked[size] = Fallback
  <2>1. list[size] = Fallback
    BY <1>3, <1>4, <1>5
  <2>2. ~ list[size].evaluation.feasible /\ list[size].priority = 99
    BY <2>1 DEF Fallback, Candidate, NotEvaluated, Infeasible
  <2>3. ASSUME NEW i \in 1 .. size - 1 PROVE list[i].priority < 99
    <3>1. CASE i \in 1 .. Len(plan.routes)
      <4>1. list[i].priority \in {0, 1}
        BY <1>2, <1>4, <3>1
      <4>2. QED
        BY <4>1
    <3>2. CASE i \notin 1 .. Len(plan.routes)
      <4>1. i - Len(plan.routes) \in 1 .. Len(others) - 1
        BY <1>3, <1>4, <1>5, <3>2
      <4>2. list[i] = others[i - Len(plan.routes)]
        <5>1. i - Len(plan.routes) \in 1 .. Len(others)
              /\ Len(plan.routes) + (i - Len(plan.routes)) = i
          BY <1>3, <1>5, <4>1
        <5>2. QED
          BY <1>4, <5>1
      <4>3. list[i] \in {Avoidance, Hold}
        BY <1>3, <4>1, <4>2
      <4>4. QED
        BY <4>3 DEF Avoidance, Hold, Candidate
    <3>3. QED
      BY <3>1, <3>2
  <2>4. QED
    BY <1>8, <2>1, <2>2, <2>3
<1>14. QED
  BY <1>1, <1>8, <1>9, <1>10, <1>11, <1>12, <1>13 DEF PlanIsRanked, EnergyDecision

\* The answer of request_replan is ranked, for every route and every world.
THEOREM Ranking == Spec => []PlanIsRanked
<1>1. Init => RoutesOK /\ AnswerOK /\ RangingOK /\ PlanIsRanked
  BY DEF Init, RoutesOK, AnswerOK, RangingOK, PlanIsRanked, NoPlan, NoReply, Idle
<1>2. TypeOK /\ RoutesOK /\ AnswerOK /\ PlanIsRanked /\ [Next]_vars => PlanIsRanked'
  <2> SUFFICES ASSUME TypeOK, RoutesOK, AnswerOK, PlanIsRanked, [Next]_vars
               PROVE  PlanIsRanked'
    OBVIOUS
  <2>1. ASSUME reply'.status # "replanned" PROVE PlanIsRanked'
    BY <2>1 DEF PlanIsRanked
  <2>2. CASE Rank
    BY <2>2, RankAnswers
  <2>3. CASE UNCHANGED vars
    BY <2>3 DEF vars, PlanIsRanked, EvaluateRoute, EnergyDecision, Nearest
  <2>4. ASSUME NEW stage \in {"direct", "slow"}, See(stage) PROVE reply' = NoReply
    BY <2>4 DEF See, AnswerOK, Idle
  <2>5. ASSUME NEW stage \in {"direct", "slow"}, Measure(stage)
        PROVE  reply' = NoReply \/ reply'.status = "error"
    <3>1. ~ Idle
      BY <2>5 DEF Measure, Ranging, Idle
    <3>2. QED
      BY <2>5, <3>1 DEF Measure, Return, AnswerOK
  <2>6. NoReply.status # "replanned"
    BY DEF NoReply
  <2>7. QED
    BY <2>1, <2>2, <2>3, <2>4, <2>5, <2>6
    DEF Next, Detect, Clock, AdvanceWaypoint, Rebuild, StartPlan
<1>3. QED
  BY <1>1, <1>2, RoutesKept, RangingAnswers, TypeCorrect, PTL DEF Spec

-----------------------------------------------------------------------------
(***************************************************************************)
(* The simulation laboratory.                                              *)
(***************************************************************************)

\* On a voltage within a fifth of the charge the planner ends the mission, by either
\* formula.
LEMMA CriticalCharge ==
  ASSUME NEW v \in Int
  PROVE  /\ v <= 1092 => DecideEnergy(InLoop(v)) \in {"return", "surface"}
         /\ v <= 1052 => DecideEnergy(FromObservation(v)) \in {"return", "surface"}
<1>1. ASSUME NEW unit \in Nat, NEW soc \in Int, soc <= 20 * unit
      PROVE  DecideEnergy(EnergyIn(unit, soc)) \in {"return", "surface"}
  BY <1>1 DEF DecideEnergy, EnergyIn
<1>2. v <= 1092 => Within((v - 1050) * 10, 2100) \in Int /\ Within((v - 1050) * 10, 2100) <= 420
  BY DEF Within
<1>3. v <= 1052 => Within((v - 1000) * 5, 1300) \in Int /\ Within((v - 1000) * 5, 1300) <= 260
  BY DEF Within
<1>4. v <= 1092 => DecideEnergy(InLoop(v)) \in {"return", "surface"}
  <2> SUFFICES ASSUME v <= 1092 PROVE DecideEnergy(InLoop(v)) \in {"return", "surface"}
    OBVIOUS
  <2> DEFINE soc == Within((v - 1050) * 10, 2100)
  <2>1. soc \in Int /\ soc <= 20 * 21
    BY <1>2
  <2> HIDE DEF soc
  <2>2. DecideEnergy(EnergyIn(21, soc)) \in {"return", "surface"}
    BY <1>1, <2>1
  <2>3. QED
    BY <2>2 DEF soc, InLoop
<1>5. v <= 1052 => DecideEnergy(FromObservation(v)) \in {"return", "surface"}
  <2> SUFFICES ASSUME v <= 1052
               PROVE  DecideEnergy(FromObservation(v)) \in {"return", "surface"}
    OBVIOUS
  <2> DEFINE soc == Within((v - 1000) * 5, 1300)
  <2>1. soc \in Int /\ soc <= 20 * 13
    BY <1>3
  <2> HIDE DEF soc
  <2>2. DecideEnergy(EnergyIn(13, soc)) \in {"return", "surface"}
    BY <1>1, <2>1
  <2>3. QED
    BY <2>2 DEF soc, FromObservation
<1>6. QED
  BY <1>4, <1>5

\* The flags of the laboratory are Boolean, whatever sets or clears them.
LEMMA FlagsTyped == FlagsOK /\ [SimulationNext]_simulationVars => FlagsOK'
<1> SUFFICES ASSUME FlagsOK, [SimulationNext]_simulationVars PROVE FlagsOK'
  OBVIOUS
<1> USE DEF FlagsOK
<1>1. ASSUME Injected,
             \/ \E v : DrainBattery(v)
             \/ DvlDropout
             \/ ImuBias
             \/ \E channel : SetBias(channel) \/ SensorFreeze(channel)
             \/ WaterIngress
             \/ AddCurrent
             \/ \E m, h : ThrusterDegraded(m, h)
      PROVE  FlagsOK'
  BY <1>1, Zenon DEF Injected, DrainBattery, DvlDropout, ImuBias, SetBias, SensorFreeze,
     WaterIngress, AddCurrent, ThrusterDegraded
<1>2. CASE ScenarioEvent
  BY <1>1, <1>2 DEF ScenarioEvent, Happens
<1>3. CASE Inject
  BY <1>1, <1>3 DEF Inject
<1>4. CASE ClearAll
  BY <1>4, Zenon DEF ClearAll
<1>5. CASE Read
  BY <1>5, Zenon DEF Read
<1>6. CASE DynamicsStep
  BY <1>6, Zenon DEF DynamicsStep
<1>7. CASE UNCHANGED driverVars
  BY <1>7, Zenon DEF driverVars
<1>8. QED
  BY <1>2, <1>3, <1>4, <1>5, <1>6, <1>7 DEF SimulationNext, DriverNext, simulationVars

\* What a reading shows: the battery up to the noise unless its channel is frozen,
\* the depth up to the noise unless something disturbs that channel.
LEMMA ReadShows ==
  ASSUME SimulationTypeOK, Read
  PROVE  \E d \in Int \cup {NoValue}, b \in Int :
           /\ reading' = [depth |-> OrTruth(d, depth), battery |-> b, ingress |-> ingress]
           /\ last' = [depth |-> Remember("depth", d, last.depth),
                       battery |-> Remember("battery", b, last.battery)]
           /\ battery' \in Nat
           /\ "battery" \notin frozen => b - battery' \in BatteryErrors
           /\ "depth" \notin frozen \cup biased /\ ~ dropout =>
                d \in Int /\ d - depth \in DepthErrors
<1> DEFINE bias == IF "depth" \in biased THEN 400 ELSE 0
<1>1. battery' \in Nat
  <2>1. battery' \in {v \in Adjacent(battery, Levels) : v <= battery}
    BY DEF Read
  <2>2. QED
    BY <2>1, SimulationAssumption DEF Adjacent, SimulationAssumption
<1>2. /\ depth \in Nat /\ dropout \in BOOLEAN
      /\ last.depth \in Int \cup {NoValue} /\ last.battery \in Int \cup {NoValue}
  BY SimulationAssumption DEF SimulationTypeOK, FlagsOK, ReadingsOK, SimulationAssumption
<1>3. NoValue \notin Int
  BY SimulationAssumption DEF SimulationAssumption
<1>4. PICK depthError \in DepthErrors, batteryError \in BatteryErrors :
        LET d == Sample("depth", depth, bias, depthError, dropout, last.depth)
            b == Sample("battery", battery', 0, batteryError, FALSE, last.battery)
        IN  /\ reading' = [depth |-> OrTruth(d, depth),
                           battery |-> OrTruth(b, battery'), ingress |-> ingress]
            /\ last' = [depth |-> Remember("depth", d, last.depth),
                        battery |-> Remember("battery", b, last.battery)]
  BY DEF Read
<1> DEFINE d == Sample("depth", depth, bias, depthError, dropout, last.depth)
           b == Sample("battery", battery', 0, batteryError, FALSE, last.battery)
<1>5. /\ reading' = [depth |-> OrTruth(d, depth), battery |-> OrTruth(b, battery'),
                     ingress |-> ingress]
      /\ last' = [depth |-> Remember("depth", d, last.depth),
                  battery |-> Remember("battery", b, last.battery)]
  BY <1>4
<1>6. depthError \in Int /\ batteryError \in Int
  BY SimulationAssumption DEF SimulationAssumption
<1>7. b \in Int /\ ("battery" \notin frozen => b - battery' \in BatteryErrors)
  <2>1. CASE "battery" \in frozen
    BY <1>1, <1>2, <2>1 DEF Sample
  <2>2. CASE "battery" \notin frozen
    <3> DEFINE w == battery'
    <3>1. b = w + 0 + batteryError
      BY <2>2 DEF Sample
    <3>2. w \in Int
      BY <1>1
    <3> HIDE DEF b, w
    <3>3. b \in Int /\ b - w = batteryError
      BY <1>6, <3>1, <3>2
    <3>4. b \in Int /\ b - battery' = batteryError
      BY <3>3 DEF w
    <3>5. QED
      BY <3>4
  <2>3. QED
    BY <2>1, <2>2
<1>8. bias \in Int /\ ("depth" \notin biased => bias = 0)
  OBVIOUS
<1> HIDE DEF b, bias
<1>9. /\ d \in Int \cup {NoValue}
      /\ "depth" \notin frozen \cup biased /\ ~ dropout =>
           d \in Int /\ d - depth \in DepthErrors
  <2>1. CASE "depth" \in frozen
    BY <1>2, <2>1 DEF Sample
  <2>2. CASE "depth" \notin frozen /\ dropout
    BY <2>2 DEF Sample
  <2>3. CASE "depth" \notin frozen /\ ~ dropout
    <3>1. d = depth + bias + depthError
      BY <2>3 DEF Sample
    <3> HIDE DEF d
    <3>2. d \in Int /\ (bias = 0 => d - depth = depthError)
      BY <1>2, <1>6, <1>8, <3>1
    <3>3. QED
      BY <1>8, <3>2
  <2>4. QED
    BY <2>1, <2>2, <2>3
<1> HIDE DEF d
<1>10. OrTruth(b, battery') = b
  BY <1>3, <1>7 DEF OrTruth
<1>11. QED
  BY <1>1, <1>5, <1>7, <1>9, <1>10

\* Every reachable state of the laboratory is well typed.
THEOREM SimulationTypeCorrect == SimulationSpec => []SimulationTypeOK
<1>1. SimulationInit => SimulationTypeOK
  <2> SUFFICES ASSUME SimulationInit PROVE SimulationTypeOK
    OBVIOUS
  <2>1. PICK scenario \in Scenarios : current = scenario.current /\ pending = scenario.events
    BY DEF SimulationInit
  <2>2. \/ \E e \in Events : scenario = [current |-> FALSE, events |-> {e}]
        \/ \E c \in BOOLEAN : scenario = [current |-> c, events |-> {}]
    BY DEF Scenarios
  <2>3. pending \subseteq Events
    BY <2>1, <2>2
  <2>4. current \in BOOLEAN
    <3>1. ASSUME NEW e, scenario = [current |-> FALSE, events |-> {e}] PROVE current \in BOOLEAN
      BY <2>1, <3>1, Zenon
    <3>2. ASSUME NEW c \in BOOLEAN, scenario = [current |-> c, events |-> {}]
          PROVE  current \in BOOLEAN
      BY <2>1, <3>2, Zenon
    <3>3. QED
      BY <2>2, <3>1, <3>2
  <2>5. FlagsOK
    <3>1. /\ turning = FALSE /\ dropout = FALSE
          /\ ingress = FALSE /\ cleared = TRUE
      BY DEF SimulationInit
    <3>2. turning \in BOOLEAN /\ dropout \in BOOLEAN /\ ingress \in BOOLEAN
      BY <3>1, Zenon
    <3>3. cleared \in BOOLEAN
      BY <3>1, Zenon
    <3>4. QED
      BY <2>4, <3>2, <3>3 DEF FlagsOK
  <2>6. ReadingsOK
    BY DEF SimulationInit, ReadingsOK
  <2>7. QED
    BY <2>3, <2>5, <2>6, SimulationAssumption
    DEF SimulationInit, SimulationTypeOK, SimulationAssumption
<1>2. SimulationTypeOK /\ [SimulationNext]_simulationVars => SimulationTypeOK'
  <2> SUFFICES ASSUME SimulationTypeOK, [SimulationNext]_simulationVars PROVE SimulationTypeOK'
    OBVIOUS
  <2> USE SimulationAssumption DEF SimulationAssumption
  <2>1. FlagsOK'
    BY FlagsTyped DEF SimulationTypeOK
  <2>2. ASSUME Injected, pending' \subseteq Events, extra' \in 0 .. MaxExtra,
               \/ \E v \in Nat : DrainBattery(v)
               \/ DvlDropout
               \/ ImuBias
               \/ \E channel \in Channels : SetBias(channel) \/ SensorFreeze(channel)
               \/ WaterIngress
               \/ AddCurrent
               \/ \E m \in Motors, h \in 0 .. 100 : ThrusterDegraded(m, h)
        PROVE  SimulationTypeOK'
    <3> USE DEF DrainBattery, DvlDropout, ImuBias, SetBias, SensorFreeze, WaterIngress,
        AddCurrent
    <3>1. ReadingsOK'
      BY <2>2 DEF Injected, ReadingsOK, SimulationTypeOK
    <3>2. ASSUME NEW m \in Motors, NEW h \in 0 .. 100, ThrusterDegraded(m, h)
          PROVE  health' \in [Motors -> 0 .. 100]
      BY <3>2 DEF ThrusterDegraded, SimulationTypeOK
    <3>3. health' \in [Motors -> 0 .. 100]
      BY <2>2, <3>2 DEF SimulationTypeOK
    <3>4. battery' \in Nat /\ frozen' \subseteq Channels /\ biased' \subseteq Channels
      BY <2>2 DEF ThrusterDegraded, SimulationTypeOK
    <3>5. QED
      BY <2>1, <2>2, <3>1, <3>3, <3>4 DEF Injected, SimulationTypeOK
  <2>3. CASE ScenarioEvent
    <3>1. PICK event \in pending : pending' = pending \ {event} /\ Happens(event)
      BY <2>3 DEF ScenarioEvent
    <3>2. Injected /\ pending' \subseteq Events /\ extra' \in 0 .. MaxExtra
      BY <2>3, <3>1 DEF ScenarioEvent, SimulationTypeOK
    <3>3. (CHOOSE m \in Motors : TRUE) \in Motors
      OBVIOUS
    <3>4. QED
      BY <2>2, <3>1, <3>2, <3>3 DEF Happens, Channels
  <2>4. CASE Inject
    <3>1. Injected /\ pending' \subseteq Events /\ extra' \in 0 .. MaxExtra
      BY <2>4 DEF Inject, SimulationTypeOK
    <3>2. QED
      BY <2>2, <2>4, <3>1 DEF Inject, Channels
  <2>5. CASE ClearAll
    <3>1. health' \in [Motors -> 0 .. 100]
      BY <2>5 DEF ClearAll
    <3>2. QED
      BY <2>1, <2>5, <3>1 DEF ClearAll, SimulationTypeOK, ReadingsOK
  <2>6. CASE Read
    <3>1. PICK d \in Int \cup {NoValue}, b \in Int :
            /\ reading' = [depth |-> OrTruth(d, depth), battery |-> b, ingress |-> ingress]
            /\ last' = [depth |-> Remember("depth", d, last.depth),
                        battery |-> Remember("battery", b, last.battery)]
            /\ battery' \in Nat
      BY <2>6, ReadShows
    <3>2. /\ depth \in Nat /\ ingress \in BOOLEAN
          /\ last.depth \in Int \cup {NoValue} /\ last.battery \in Int \cup {NoValue}
      BY DEF SimulationTypeOK, FlagsOK, ReadingsOK
    <3>3. OrTruth(d, depth) \in Int
      BY <3>2 DEF OrTruth
    <3>4. /\ Remember("depth", d, last.depth) \in Int \cup {NoValue}
          /\ Remember("battery", b, last.battery) \in Int \cup {NoValue}
      BY <3>2 DEF Remember
    <3>5. ReadingsOK'
      BY <3>1, <3>2, <3>3, <3>4 DEF ReadingsOK
    <3>6. QED
      BY <2>1, <2>6, <3>1, <3>5 DEF Read, SimulationTypeOK
  <2>7. CASE DynamicsStep
    BY <2>1, <2>7 DEF DynamicsStep, Adjacent, SimulationTypeOK, ReadingsOK
  <2>8. CASE UNCHANGED driverVars
    BY <2>1, <2>8 DEF driverVars, SimulationTypeOK, ReadingsOK
  <2>9. QED
    BY <2>3, <2>4, <2>5, <2>6, <2>7, <2>8 DEF SimulationNext, DriverNext, simulationVars
<1>3. QED
  BY <1>1, <1>2, PTL DEF SimulationSpec

\* Whatever was injected before, the readings after clear_all show no ingress and the
\* depth up to the noise; also the voltage the battery was drained to, unless its
\* channel was frozen.
THEOREM ClearRestores == SimulationSpec => []ClearRestoresReadings
<1> DEFINE Inv == ClearedIsClear /\ ClearRestoresReadings /\ BatteryReadTrue
<1>1. SimulationInit => Inv
  BY DEF SimulationInit, ClearedIsClear, ClearRestoresReadings, BatteryReadTrue
<1>2. SimulationTypeOK /\ Inv /\ [SimulationNext]_simulationVars => Inv'
  <2> SUFFICES ASSUME SimulationTypeOK, Inv, [SimulationNext]_simulationVars PROVE Inv'
    OBVIOUS
  <2>1. CASE Injected
    BY <2>1 DEF Injected, ClearedIsClear, ClearRestoresReadings, BatteryReadTrue
  <2>2. CASE ClearAll
    BY <2>2 DEF ClearAll, ClearedIsClear, ClearRestoresReadings, BatteryReadTrue
  <2>3. CASE Read
    <3>1. "battery" \notin frozen => reading'.battery - battery' \in BatteryErrors
      BY <2>3, ReadShows
    <3>2. cleared => reading'.depth - depth \in DepthErrors /\ ~ reading'.ingress
      <4>1. NoValue \notin Int
        BY SimulationAssumption DEF SimulationAssumption
      <4>2. QED
        BY <2>3, <4>1, ReadShows DEF OrTruth, ClearedIsClear
    <3>3. ClearedIsClear'
      BY <2>3 DEF Read, ClearedIsClear
    <3>4. UNCHANGED <<cleared, depth, frozen>>
      BY <2>3 DEF Read
    <3>5. QED
      BY <3>1, <3>2, <3>3, <3>4 DEF ClearRestoresReadings, BatteryReadTrue
  <2>4. CASE DynamicsStep
    BY <2>4 DEF DynamicsStep, ClearedIsClear, ClearRestoresReadings, BatteryReadTrue
  <2>5. CASE UNCHANGED driverVars
    BY <2>5 DEF driverVars, ClearedIsClear, ClearRestoresReadings, BatteryReadTrue
  <2>6. QED
    BY <2>1, <2>2, <2>3, <2>4, <2>5
    DEF SimulationNext, DriverNext, simulationVars, ScenarioEvent, Inject
<1>3. QED
  BY <1>1, <1>2, SimulationTypeCorrect, PTL DEF SimulationSpec

\* However the battery fell and whatever else was injected, a reading of a critical
\* battery ends the mission, unless its channel is frozen: by the loop's formula for
\* every noise below 0.42 V, by from_observation's for one of at most 0.02 V.
THEOREM CriticalBatteryEndsMission == SimulationSpec => []CriticalBatteryReturns
<1>1. SimulationInit => BatteryReadTrue
  BY DEF SimulationInit, BatteryReadTrue
<1>2. SimulationTypeOK /\ BatteryReadTrue /\ [SimulationNext]_simulationVars => BatteryReadTrue'
  <2> SUFFICES ASSUME SimulationTypeOK, BatteryReadTrue, [SimulationNext]_simulationVars
               PROVE  BatteryReadTrue'
    OBVIOUS
  <2>1. CASE Injected \/ ClearAll \/ DynamicsStep
    BY <2>1 DEF Injected, ClearAll, DynamicsStep, BatteryReadTrue
  <2>2. CASE Read
    <3>1. PICK b \in Int : /\ reading'.battery = b
                           /\ "battery" \notin frozen => b - battery' \in BatteryErrors
      BY <2>2, ReadShows
    <3>2. frozen' = frozen
      BY <2>2 DEF Read
    <3>3. QED
      BY <3>1, <3>2 DEF BatteryReadTrue
  <2>3. CASE UNCHANGED driverVars
    BY <2>3 DEF driverVars, BatteryReadTrue
  <2>4. QED
    BY <2>1, <2>2, <2>3
    DEF SimulationNext, DriverNext, simulationVars, ScenarioEvent, Inject
<1>3. SimulationTypeOK /\ BatteryReadTrue => CriticalBatteryReturns
  <2> SUFFICES ASSUME SimulationTypeOK, BatteryReadTrue, reading # NoReading,
                      battery <= 1050, "battery" \notin frozen
               PROVE  /\ DecideEnergy(InLoop(reading.battery)) \in {"return", "surface"}
                      /\ reading.battery - battery <= 2 =>
                           DecideEnergy(FromObservation(reading.battery))
                             \in {"return", "surface"}
    BY DEF CriticalBatteryReturns
  <2>1. battery \in Nat /\ reading.battery \in Int
    BY DEF SimulationTypeOK, ReadingsOK
  <2>2. reading.battery - battery \in BatteryErrors
    BY DEF BatteryReadTrue
  <2>3. reading.battery - battery < 42
    <3>1. \A e \in BatteryErrors : e < 42
      BY SimulationAssumption DEF SimulationAssumption
    <3>2. QED
      BY <2>2, <3>1
  <2> DEFINE v == reading.battery
  <2>4. v \in Int /\ v <= 1092 /\ (v - battery <= 2 => v <= 1052)
    BY <2>1, <2>3
  <2> HIDE DEF v
  <2>5. /\ DecideEnergy(InLoop(v)) \in {"return", "surface"}
        /\ v <= 1052 => DecideEnergy(FromObservation(v)) \in {"return", "surface"}
    BY <2>4, CriticalCharge
  <2>6. QED
    BY <2>4, <2>5 DEF v
<1>4. QED
  BY <1>1, <1>2, <1>3, SimulationTypeCorrect, PTL DEF SimulationSpec

-----------------------------------------------------------------------------
(***************************************************************************)
(* The estimate of the current.                                            *)
(***************************************************************************)

\* A stored decay is worth no more than what was earned, weighed by its age.
LEMMA DecayBound ==
  ASSUME EstimateTypeOK, NeverAboveEarned, ReadEstimate
  PROVE  /\ confidence' \in Nat /\ confidence' <= confidence
         /\ confidence' * Staleness <= earned * (2 * Staleness - age)
<1> USE CurrentEstimateAssumption DEF CurrentEstimateAssumption
<1>1. Weight \in 0 .. Staleness /\ Weight <= 2 * Staleness - age
  BY DEF Weight, EstimateTypeOK
<1>2. confidence \in Nat /\ earned \in Nat /\ confidence <= earned /\ Staleness \in Nat \ {0}
  BY DEF EstimateTypeOK, NeverAboveEarned
<1>3. confidence * Weight \in Nat
  BY <1>1, <1>2
<1>4. confidence' \in Nat /\ confidence' * Staleness <= confidence * Weight
  BY <1>2, <1>3, Quotient DEF ReadEstimate
<1>5. confidence * Weight <= confidence * Staleness
  BY <1>1, <1>2
<1>6. confidence' <= confidence
  <2>1. confidence * Staleness \in Nat /\ confidence' * Staleness \in Nat
    BY <1>2, <1>4, Product
  <2>2. confidence' * Staleness <= confidence * Staleness
    BY <1>3, <1>4, <1>5, <2>1
  <2>3. \A a, b \in Nat, n \in Nat \ {0} : a * n <= b * n => a <= b
    OBVIOUS
  <2>4. QED
    BY <1>2, <1>4, <2>2, <2>3
<1>7. confidence * Weight <= earned * (2 * Staleness - age)
  <2>1. confidence * Weight <= earned * Weight
    BY <1>1, <1>2
  <2>2. age \in Int /\ 2 * Staleness - age \in Nat
    BY <1>1, <1>2 DEF EstimateTypeOK
  <2>3. earned * Weight <= earned * (2 * Staleness - age)
    BY <1>1, <1>2, <2>2
  <2>4. earned * Weight \in Nat /\ earned * (2 * Staleness - age) \in Nat
    BY <1>1, <1>2, <2>2
  <2>5. QED
    BY <1>3, <2>1, <2>3, <2>4
<1>8. confidence' * Staleness \in Nat /\ earned * (2 * Staleness - age) \in Nat
  BY <1>1, <1>2, <1>4, Product, 2 * Staleness - age \in Nat DEF EstimateTypeOK
<1>9. confidence' * Staleness <= earned * (2 * Staleness - age)
  BY <1>3, <1>4, <1>7, <1>8
<1>10. QED
  BY <1>4, <1>6, <1>9

\* The estimate is well typed, and its stored confidence is never above what was
\* earned by measuring.
THEOREM EstimateTypeCorrect == SimulationSpec => [](EstimateTypeOK /\ NeverAboveEarned)
<1> USE CurrentEstimateAssumption DEF CurrentEstimateAssumption
<1> DEFINE Inv == EstimateTypeOK /\ NeverAboveEarned
<1>1. SimulationInit => Inv
  BY DEF SimulationInit, EstimateInit, EstimateTypeOK, NeverAboveEarned
<1>2. Inv /\ [SimulationNext]_simulationVars => Inv'
  <2> SUFFICES ASSUME Inv, [SimulationNext]_simulationVars PROVE Inv'
    OBVIOUS
  <2> USE DEF EstimateTypeOK, NeverAboveEarned
  <2>1. CASE UpdateFromDrift
    BY <2>1 DEF UpdateFromDrift, SmallerOf
  <2>2. CASE ReadEstimate
    <3>1. confidence' \in Nat /\ confidence' <= confidence
      BY <2>2, DecayBound
    <3>2. UNCHANGED <<samples, age, earned>>
      BY <2>2 DEF ReadEstimate
    <3>3. QED
      BY <3>1, <3>2
  <2>3. CASE ResetEstimate
    BY <2>3 DEF ResetEstimate
  <2>4. CASE EstimateAges
    BY <2>4 DEF EstimateAges, SmallerOf
  <2>5. CASE UNCHANGED estimateVars
    BY <2>5 DEF estimateVars
  <2>6. QED
    BY <2>1, <2>2, <2>3, <2>4, <2>5 DEF SimulationNext, EstimateNext, simulationVars
<1>3. QED
  BY <1>1, <1>2, PTL DEF SimulationSpec

\* However often the estimate is read, it is worth no more than its last
\* measurement under the decay of its age.
THEOREM NotOverrated == SimulationSpec => EstimateNotOverrated
<1>1. EstimateTypeOK /\ NeverAboveEarned /\ [SimulationNext]_simulationVars =>
        [ReadEstimate => /\ confidence' <= earned
                         /\ confidence' * Staleness <= earned * (2 * Staleness - age)]_estimateVars
  BY DecayBound DEF EstimateTypeOK, NeverAboveEarned
<1>2. QED
  BY <1>1, EstimateTypeCorrect, PTL DEF SimulationSpec, EstimateNotOverrated

=============================================================================
