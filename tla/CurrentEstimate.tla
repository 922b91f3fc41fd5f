---------------------------- MODULE CurrentEstimate ----------------------------
(***************************************************************************)
(* The confidence of CurrentModel (world/environment.py), in hundredths.   *)
(* It is earned by measurements of the drift, and falls with age; but the  *)
(* fall is applied by reading it, and stored, so it depends on the reads.  *)
(* The vector itself, a moving average, is left out.                       *)
(***************************************************************************)
EXTENDS Integers

CONSTANTS
  Staleness,   \* staleness_s, in clock units
  FullAfter,   \* measurements for full confidence: 10 in the code
  MaxHistory   \* _MAX_HISTORY

ASSUME CurrentEstimateAssumption ==
  Staleness \in Nat \ {0} /\ FullAfter \in Nat \ {0} /\ MaxHistory \in Nat \ {0}

VARIABLES
  samples,     \* length of _drift_history
  confidence,  \* _current.confidence
  age,         \* time since _last_update_ts, saturating at 2 Staleness
  earned       \* history: the confidence the last measurement or reset left

estimateVars == <<samples, confidence, age, earned>>

EstimateInit == samples = 0 /\ confidence = 50 /\ age = 0 /\ earned = 50

SmallerOf(a, b) == IF a < b THEN a ELSE b

\* update_from_drift with dt > 0.
UpdateFromDrift ==
  /\ samples' = SmallerOf(samples + 1, MaxHistory)
  /\ confidence' = SmallerOf(100, (100 * samples') \div FullAfter)
  /\ age' = 0
  /\ earned' = confidence'

\* The weight _decay_confidence multiplies with, in Staleness-ths.
WeightOfYoung == IF age >= Staleness THEN Staleness ELSE 2 * Staleness - age
Weight == IF age > Staleness THEN 2 * Staleness - age ELSE Staleness

\* The property `current`: decay, store, return.
ReadEstimate ==
  /\ confidence' = (confidence * Weight) \div Staleness
  /\ UNCHANGED <<samples, age, earned>>

\* reset makes a new vector but keeps the time of the last measurement.
ResetEstimate ==
  /\ confidence' = 50
  /\ samples' = 0
  /\ earned' = 50
  /\ UNCHANGED age

EstimateAges ==
  /\ age' = SmallerOf(age + 1, 2 * Staleness)
  /\ UNCHANGED <<samples, confidence, earned>>

EstimateNext == UpdateFromDrift \/ ReadEstimate \/ ResetEstimate \/ EstimateAges

EstimateTypeOK ==
  /\ samples \in 0 .. MaxHistory
  /\ confidence \in 0 .. 100 /\ earned \in 0 .. 100
  /\ age \in 0 .. 2 * Staleness

\* A decay that is stored takes from the confidence and never adds to it.
NeverAboveEarned == confidence <= earned

\* However often it is read, the estimate is never worth more than its last
\* measurement under a linear decay that begins at Staleness and ends at twice
\* that, when it is worth nothing until the next measurement.
EstimateNotOverrated ==
  [][ReadEstimate => /\ confidence' <= earned
                     /\ confidence' * Staleness <= earned * (2 * Staleness - age)]_estimateVars

=============================================================================
