------------------------------ MODULE RateLimiter ------------------------------
(***************************************************************************)
(* The token bucket of one client address (api/limiter.py).  FastAPI runs  *)
(* enforce_rate_limit, a plain function, on threads of a pool: each request *)
(* reads the time first and takes the lock of the bucket after it, so the  *)
(* times at which the bucket is refilled need not increase.                *)
(*                                                                         *)
(* Tokens are counted in units refilled per clock unit, so that a request  *)
(* costs 1/rate clock units.  A rate of 0 disables the limiter and is not  *)
(* modelled.                                                               *)
(***************************************************************************)
EXTENDS Integers

CONSTANTS
  Threads,  \* requests of the client that can be in progress at once
  Cost,     \* the price of a request, in units
  Burst,    \* max(1, burst) requests, in units
  MaxTime   \* the last instant of the clock (a bound)

ASSUME RateLimiterAssumption ==
  /\ Cost \in Nat \ {0}
  /\ Burst \in Nat /\ Burst >= Cost
  /\ MaxTime \in Nat

NotArrived == -1

VARIABLES
  clock,   \* time.monotonic()
  now,     \* the time each request read, or NotArrived
  known,   \* the client has a bucket
  tokens,  \* bucket[0]
  last,    \* bucket[1]
  \* History variables, read by no action.
  window,  \* an interval of time, fixed at the start
  spent    \* the price of the requests of that interval that were allowed

bucketVars == <<known, tokens, last>>
histVars   == <<window, spent>>
vars       == <<clock, now, bucketVars, histVars>>

Least(a, b) == IF a < b THEN a ELSE b

-----------------------------------------------------------------------------
Init ==
  /\ clock = 0
  /\ now = [t \in Threads |-> NotArrived]
  /\ known = FALSE /\ tokens = Burst /\ last = 0
  /\ window \in {w \in [from : 0 .. MaxTime, to : 0 .. MaxTime] : w.from <= w.to}
  /\ spent = 0

Arrive(t) ==
  /\ now[t] = NotArrived
  /\ now' = [now EXCEPT ![t] = clock]
  /\ UNCHANGED <<clock, bucketVars, histVars>>

\* The bucket refilled up to s.  The first request makes the bucket, full at the
\* time of its making, which is later than the time the request read.
RefilledUncapped(s) == IF known THEN tokens + (s - last) ELSE Burst + (s - clock)
Refilled(s) ==
  LET level == IF known THEN tokens + (s - last) ELSE Burst + (s - clock)
  IN  Least(Burst, level)

AllowsAny(level) == level > 0
Allows(level) == level >= Cost

\* check() under the lock.
Check(t) ==
  LET s     == now[t]
      level == Refilled(s)
  IN  /\ s # NotArrived
      /\ known' = TRUE
      /\ last' = s
      /\ \/ /\ Allows(level)
            /\ tokens' = level - Cost
            /\ spent' = IF s \in window.from .. window.to THEN spent + Cost ELSE spent
         \/ /\ ~ Allows(level)
            /\ tokens' = level
            /\ UNCHANGED spent
      /\ now' = [now EXCEPT ![t] = NotArrived]
      /\ UNCHANGED <<clock, window>>

Clock ==
  /\ clock < MaxTime
  /\ clock' = clock + 1
  /\ UNCHANGED <<now, bucketVars, histVars>>

Next ==
  \/ \E t \in Threads : Arrive(t) \/ Check(t)
  \/ Clock

Spec == Init /\ [][Next]_vars

-----------------------------------------------------------------------------
(***************************************************************************)
(* Properties                                                              *)
(***************************************************************************)

\* Requests carry times of the past; the bucket never holds more than its
\* capacity, and is overdrawn by no more than stale times can take from it.
TypeOK ==
  /\ clock \in 0 .. MaxTime
  /\ now \in [Threads -> {NotArrived} \cup 0 .. clock]
  /\ known \in BOOLEAN
  /\ tokens \in -MaxTime .. Burst
  /\ last \in 0 .. clock
  /\ window \in [from : 0 .. MaxTime, to : 0 .. MaxTime] /\ window.from <= window.to
  /\ spent \in Nat

\* The limit the class promises: of the requests that arrived in an interval of
\* time, no more are allowed than the burst and what the rate refills in that
\* interval, in whatever order the threads reach the lock.
WithinQuota == spent <= Burst + (window.to - window.from)

-----------------------------------------------------------------------------
\* What is left in the bucket, extrapolated to the end of the interval, and what
\* the interval has spent, never exceed together what the interval may spend.
QuotaInv ==
  /\ spent > 0 => known
  /\ spent > 0 =>
       spent + (tokens + (window.to - last)) <= Burst + (window.to - window.from)
  /\ WithinQuota

\* An overdrawn bucket is refilled by the present time.
OverdraftInv == tokens + (clock - last) >= 0

=============================================================================
