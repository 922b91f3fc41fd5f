-------------------------- MODULE RateLimiter_proofs --------------------------
(***************************************************************************)
(* Proofs about RateLimiter, for every price, burst and number of threads. *)
(***************************************************************************)
EXTENDS RateLimiter, TLAPS

\* What the bucket holds is an integer, and refilling never overfills it.
LEMMA RefillBounded ==
  ASSUME TypeOK, NEW s \in 0 .. clock
  PROVE  /\ Refilled(s) \in Int
         /\ Refilled(s) <= Burst
         /\ known => Refilled(s) <= tokens + (s - last)
BY RateLimiterAssumption DEF TypeOK, Refilled, Least, RateLimiterAssumption

\* Every reachable state is well typed, and a bucket overdrawn by stale times is
\* refilled by the present time.
THEOREM TypeCorrect == Spec => [](TypeOK /\ OverdraftInv)
<1>1. Init => TypeOK /\ OverdraftInv
  <2> SUFFICES ASSUME Init PROVE TypeOK /\ OverdraftInv
    OBVIOUS
  <2>1. MaxTime \in Nat /\ Burst \in Nat
    BY RateLimiterAssumption DEF RateLimiterAssumption
  <2>2. window \in [from : 0 .. MaxTime, to : 0 .. MaxTime] /\ window.from <= window.to
    BY DEF Init
  <2>3. now \in [Threads -> {NotArrived} \cup 0 .. clock]
    BY DEF Init
  <2>4. clock = 0 /\ known = FALSE /\ tokens = Burst /\ last = 0
        /\ spent = 0
    BY DEF Init
  <2>5. clock \in 0 .. MaxTime /\ tokens \in -MaxTime .. Burst /\ last \in 0 .. clock
    BY <2>1, <2>4
  <2>6. spent \in Nat /\ tokens + (clock - last) >= 0
    BY <2>1, <2>4
  <2>7. QED
    BY <2>2, <2>3, <2>4, <2>5, <2>6 DEF TypeOK, OverdraftInv
<1>2. TypeOK /\ OverdraftInv /\ [Next]_vars => TypeOK' /\ OverdraftInv'
  <2> SUFFICES ASSUME TypeOK, OverdraftInv, [Next]_vars PROVE TypeOK' /\ OverdraftInv'
    OBVIOUS
  <2>1. ASSUME NEW t \in Threads, Arrive(t) PROVE TypeOK' /\ OverdraftInv'
    <3>1. UNCHANGED <<clock, known, tokens, last, window, spent>>
      BY <2>1 DEF Arrive, bucketVars, histVars
    <3>2. clock \in 0 .. clock
      BY DEF TypeOK
    <3>3. now' \in [Threads -> {NotArrived} \cup 0 .. clock]
      BY <2>1, <3>2 DEF Arrive, TypeOK
    <3>4. QED
      BY <3>1, <3>3 DEF TypeOK, OverdraftInv
  <2>2. ASSUME NEW t \in Threads, Check(t) PROVE TypeOK' /\ OverdraftInv'
    <3> DEFINE s == now[t]
    <3>1. s \in 0 .. clock
      BY <2>2 DEF Check, TypeOK
    <3>2. Refilled(s) \in Int /\ Refilled(s) <= Burst
      BY <3>1, RefillBounded
    <3>3. Refilled(s) + (clock - s) >= 0
      BY <3>1, RateLimiterAssumption
      DEF Refilled, Least, TypeOK, OverdraftInv, RateLimiterAssumption
    <3>4. tokens' \in Int /\ tokens' <= Burst /\ tokens' + (clock - s) >= 0
      BY <2>2, <3>1, <3>2, <3>3, RateLimiterAssumption
      DEF Check, Allows, TypeOK, RateLimiterAssumption
    <3>5. last' = s /\ clock' = clock /\ window' = window /\ known' = TRUE
      BY <2>2 DEF Check
    <3>6. now' \in [Threads -> {NotArrived} \cup 0 .. clock']
      <4>1. now' = [now EXCEPT ![t] = NotArrived]
        BY <2>2 DEF Check
      <4>2. QED
        BY <3>5, <4>1 DEF TypeOK
    <3>7. spent' \in Nat
      <4>1. spent \in Nat /\ Cost \in Nat
        BY RateLimiterAssumption DEF TypeOK, RateLimiterAssumption
      <4>2. spent' \in {spent, spent + Cost}
        BY <2>2 DEF Check
      <4>3. QED
        BY <4>1, <4>2
    <3>8. tokens' \in -MaxTime .. Burst
      BY <3>1, <3>4, RateLimiterAssumption DEF TypeOK, RateLimiterAssumption
    <3>9. OverdraftInv'
      BY <3>4, <3>5 DEF OverdraftInv
    <3>10. QED
      BY <3>1, <3>5, <3>6, <3>7, <3>8, <3>9 DEF TypeOK
  <2>3. CASE Clock
    BY <2>3, RateLimiterAssumption
    DEF Clock, TypeOK, OverdraftInv, bucketVars, histVars, RateLimiterAssumption
  <2>4. CASE UNCHANGED vars
    BY <2>4 DEF vars, bucketVars, histVars, TypeOK, OverdraftInv
  <2>5. QED
    BY <2>1, <2>2, <2>3, <2>4 DEF Next
<1>3. QED
  BY <1>1, <1>2, PTL DEF Spec

\* In no interval of time are more requests allowed than the burst and the refill
\* of that interval, in whatever order the threads take the lock.
THEOREM QuotaHolds == Spec => []WithinQuota
<1>1. Init => QuotaInv
  BY RateLimiterAssumption DEF Init, QuotaInv, WithinQuota, RateLimiterAssumption
<1>2. TypeOK /\ QuotaInv /\ [Next]_vars => QuotaInv'
  <2> SUFFICES ASSUME TypeOK, QuotaInv, [Next]_vars PROVE QuotaInv'
    OBVIOUS
  <2>1. ASSUME NEW t \in Threads, Arrive(t) PROVE QuotaInv'
    BY <2>1 DEF Arrive, QuotaInv, WithinQuota, bucketVars, histVars
  <2>2. ASSUME NEW t \in Threads, Check(t) PROVE QuotaInv'
    <3> DEFINE s == now[t]
               quota == Burst + (window.to - window.from)
    <3>1. s \in 0 .. clock
      BY <2>2 DEF Check, TypeOK
    <3>2. /\ Refilled(s) \in Int /\ Refilled(s) <= Burst
          /\ known => Refilled(s) <= tokens + (s - last)
      BY <3>1, RefillBounded
    <3>3. /\ known' = TRUE /\ last' = s /\ window' = window
          /\ window.from \in Int /\ window.to \in Int /\ tokens \in Int /\ last \in Int
          /\ window.from <= window.to /\ spent \in Nat /\ s \in Int
          /\ Cost \in Nat /\ Burst \in Nat
      BY <2>2, <3>1, RateLimiterAssumption DEF Check, TypeOK, RateLimiterAssumption
    <3>4. spent > 0 =>
            /\ spent + (Refilled(s) + (window.to - s)) <= quota
            /\ spent <= quota
      BY <3>2, <3>3 DEF QuotaInv, WithinQuota
    <3>5. CASE Refilled(s) >= Cost /\ s \in window.from .. window.to
      <4>1. tokens' = Refilled(s) - Cost /\ spent' = spent + Cost
        BY <2>2, <3>5 DEF Check, Allows
      <4>2. spent' + (tokens' + (window.to - s)) <= quota
        BY <3>2, <3>3, <3>4, <3>5, <4>1
      <4>3. spent' <= quota
        BY <3>2, <3>3, <3>5, <4>1, <4>2
      <4>4. QED
        BY <3>3, <4>2, <4>3 DEF QuotaInv, WithinQuota
    <3>6. CASE ~ (Refilled(s) >= Cost /\ s \in window.from .. window.to)
      <4>1. spent' = spent /\ tokens' \in Int /\ tokens' <= Refilled(s)
        BY <2>2, <3>2, <3>3, <3>6 DEF Check, Allows
      <4>2. spent' > 0 => spent' + (tokens' + (window.to - s)) <= quota
        BY <3>2, <3>3, <3>4, <4>1
      <4>3. spent' <= quota
        BY <3>3, <3>4, <4>1
      <4>4. QED
        BY <3>3, <4>1, <4>2, <4>3 DEF QuotaInv, WithinQuota
    <3>7. QED
      BY <3>5, <3>6
  <2>3. CASE Clock
    BY <2>3 DEF Clock, QuotaInv, WithinQuota, bucketVars, histVars
  <2>4. CASE UNCHANGED vars
    BY <2>4 DEF vars, bucketVars, histVars, QuotaInv, WithinQuota
  <2>5. QED
    BY <2>1, <2>2, <2>3, <2>4 DEF Next
<1>3. QuotaInv => WithinQuota
  BY DEF QuotaInv
<1>4. QED
  BY <1>1, <1>2, <1>3, TypeCorrect, PTL DEF Spec

=============================================================================
