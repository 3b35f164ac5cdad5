------------------------ MODULE CircuitBreakerProofs -------------------------
(***************************************************************************)
(* The circuit breaker, whatever the thresholds, the window, the failures  *)
(* and the operator's commands: it always has a deadline while it is open, *)
(* it waits longer each time, and a half-open breaker never refuses every  *)
(* call, provided that the limit on trial calls of each configuration is   *)
(* no lower than the success threshold of any: update_config may change    *)
(* both while trials are counted.                                          *)
(***************************************************************************)
EXTENDS CircuitBreaker, WellFoundedInduction, TLAPS

\* What the program's own configuration lacks: three successes, two trial calls.
LimitsReachable ==
  \A c, d \in Config : c.maxRequests = 0 \/ d.successes <= c.maxRequests

\* The numbers the argument is about, which need no bound on times and delays.
CountsOK ==
  config \in Config /\ successCount \in 0..MaxCount /\ requests \in Nat

(***************************************************************************)
(* Each trial call that has succeeded is counted in both counters, and the *)
(* breaker would have closed at the threshold under which it was counted.  *)
(* While it is half-open the counters start from 0 (call_with_key) and     *)
(* only _on_success moves them.                                            *)
(***************************************************************************)
TrialsCounted ==
  state = "HALF_OPEN" =>
    /\ requests <= successCount
    /\ \E c \in Config : successCount < c.successes

BreakerInv == CountsOK /\ TrialsCounted

-----------------------------------------------------------------------------
\* A configuration of the program has natural thresholds that the counters reach.
LEMMA ConfigFacts ==
  ASSUME NEW c \in Config
  PROVE  /\ c.successes \in Nat /\ c.successes > 0 /\ c.successes <= MaxCount
         /\ c.maxRequests \in Nat
BY ConfigAssumption, CapAssumption DEF ConfigType

\* _on_success in a half-open breaker: the trial is counted, or the breaker closes.
LEMMA SuccessCounts ==
  ASSUME BreakerInv, OnSuccess, UNCHANGED config
  PROVE  BreakerInv'
<1> DEFINE count == Smaller(successCount + 1, MaxCount)
<1>1. MaxCount \in Nat
  BY BoundAssumption
<1>2. count \in 0..MaxCount /\ (count < MaxCount => count = successCount + 1)
  BY <1>1 DEF BreakerInv, CountsOK, Smaller
<1>3. successCount' = count /\ requests' \in {requests, requests + 1}
  BY DEF OnSuccess
<1>4. CountsOK'
  BY <1>2, <1>3 DEF BreakerInv, CountsOK
<1>5. ASSUME state' = "HALF_OPEN"
      PROVE  state = "HALF_OPEN" /\ count < config.successes /\ requests' = requests + 1
  <2>1. state = "HALF_OPEN" /\ ~ClosesAt(count) /\ requests' = requests + 1
    BY <1>5 DEF OnSuccess
  <2> QED
    BY <2>1, <1>1, <1>2, ConfigFacts DEF ClosesAt, BreakerInv, CountsOK
<1>6. TrialsCounted'
  <2> SUFFICES ASSUME state' = "HALF_OPEN"
               PROVE  /\ requests' <= successCount'
                      /\ \E c \in Config : successCount' < c.successes
    BY DEF TrialsCounted
  <2>1. requests <= successCount /\ config \in Config
    BY <1>5 DEF BreakerInv, CountsOK, TrialsCounted
  <2>2. count = successCount + 1
    BY <1>1, <1>2, <1>5, <2>1, ConfigFacts
  <2> QED
    BY <1>3, <1>5, <2>1, <2>2 DEF BreakerInv, CountsOK
<1> QED
  BY <1>4, <1>6 DEF BreakerInv

\* _on_failure counts nothing here, and leaves no breaker half-open.
LEMMA FailureOpens ==
  ASSUME BreakerInv, OnFailure, UNCHANGED config
  PROVE  BreakerInv'
<1>1. successCount' = successCount /\ requests' = requests
  BY DEF OnFailure
<1>2. state' # "HALF_OPEN"
  BY DEF OnFailure, ToOpen
<1> QED
  BY <1>1, <1>2 DEF BreakerInv, CountsOK, TrialsCounted

\* Every step keeps the two counters together.
LEMMA BreakerStep ==
  ASSUME BreakerInv, [Next]_vars
  PROVE  BreakerInv'
<1>1. CASE StartCall
  <2>1. CASE state = "OPEN"
    <3>1. successCount' = 0 /\ requests' = 0 /\ config' = config
      BY <1>1, <2>1 DEF StartCall
    <3>2. 0 < config.successes /\ MaxCount \in Nat
      BY ConfigFacts, BoundAssumption DEF BreakerInv, CountsOK
    <3> QED
      BY <3>1, <3>2 DEF BreakerInv, CountsOK, TrialsCounted
  <2>2. CASE state # "OPEN"
    BY <1>1, <2>2 DEF StartCall, BreakerInv, CountsOK, TrialsCounted
  <2> QED
    BY <2>1, <2>2
<1>2. CASE FinishCall
  BY <1>2, SuccessCounts, FailureOpens DEF FinishCall
<1>3. CASE Reset
  BY <1>3, BoundAssumption DEF Reset, BreakerInv, CountsOK, TrialsCounted
<1>4. CASE ForceOpen
  BY <1>4 DEF ForceOpen, ToOpen, BreakerInv, CountsOK, TrialsCounted
<1>5. CASE UpdateConfig
  BY <1>5 DEF UpdateConfig, countVars, BreakerInv, CountsOK, TrialsCounted
<1>6. CASE Tick
  BY <1>6 DEF Tick, countVars, BreakerInv, CountsOK, TrialsCounted
<1>7. CASE Turn
  BY <1>7 DEF Turn, countVars, BreakerInv, CountsOK, TrialsCounted
<1>8. CASE UNCHANGED vars
  BY <1>8 DEF vars, countVars, BreakerInv, CountsOK, TrialsCounted
<1> QED
  BY <1>1, <1>2, <1>3, <1>4, <1>5, <1>6, <1>7, <1>8 DEF Next

\* Counters that agree leave room for a trial when the limits can be reached.
LEMMA CountedAdmits ==
  ASSUME LimitsReachable, BreakerInv
  PROVE  HalfOpenAdmits
<1> SUFFICES ASSUME state = "HALF_OPEN" PROVE Admits
  BY DEF HalfOpenAdmits
<1>1. PICK c \in Config : successCount < c.successes
  BY DEF BreakerInv, TrialsCounted
<1>2. config.maxRequests = 0 \/ c.successes <= config.maxRequests
  BY DEF LimitsReachable, BreakerInv, CountsOK
<1>3. requests <= successCount /\ requests \in Nat /\ successCount \in Nat
  BY BoundAssumption DEF BreakerInv, CountsOK, TrialsCounted
<1> QED
  BY <1>1, <1>2, <1>3, ConfigFacts DEF Admits, BreakerInv, CountsOK

(***************************************************************************)
(* A half-open breaker always lets the next trial call through: with       *)
(* limits that can be reached, neither successes nor failures, time, the   *)
(* operator's commands or a change of configuration in the middle of the   *)
(* trials wedge it (_should_attempt_call).                                 *)
(***************************************************************************)
THEOREM NeverWedged ==
  ASSUME LimitsReachable
  PROVE  Spec => []HalfOpenAdmits
<1>1. Init => BreakerInv
  BY BoundAssumption DEF Init, BreakerInv, CountsOK, TrialsCounted
<1>2. BreakerInv /\ [Next]_vars => BreakerInv'
  BY BreakerStep
<1>3. BreakerInv => HalfOpenAdmits
  BY CountedAdmits
<1> QED
  BY <1>1, <1>2, <1>3, PTL DEF Spec

-----------------------------------------------------------------------------
(***************************************************************************)
(* The delays.                                                             *)
(***************************************************************************)
\* A set of natural numbers has a least element.
LEMMA LeastNumber ==
  ASSUME NEW T \in SUBSET Nat, NEW y \in T
  PROVE  \E x \in T : \A z \in T : x <= z
<1>1. IsWellFoundedOn(OpToRel(<, Nat), Nat)
  BY NatLessThanWellFounded
<1>2. PICK x \in T : \A z \in T : ~(<<z, x>> \in OpToRel(<, Nat))
  BY <1>1, WFMin
<1>3. \A z \in T : ~(z < x)
  BY <1>2 DEF OpToRel
<1> QED
  BY <1>3

\* Natural numbers are multiplied to natural numbers, and by a positive one to larger ones.
LEMMA Products ==
  ASSUME NEW a \in Nat, NEW b \in Nat
  PROVE  a * b \in Nat /\ (a > 0 => a * b >= b)
OBVIOUS

IsPowers(p, base, m) == p[0] = 1 /\ \A n \in 1..m : p[n] = base * p[n - 1]

\* The powers up to the bound exist.
LEMMA PowersExist ==
  ASSUME NEW base \in Nat
  PROVE  \E p \in [0..MaxOpens -> Nat] : IsPowers(p, base, MaxOpens)
<1> DEFINE Good(m) == \E p \in [0..m -> Nat] : IsPowers(p, base, m)
           T == {m \in 0..MaxOpens : ~Good(m)}
<1>1. Good(0)
  <2> DEFINE f == [n \in 0..0 |-> 1]
  <2>1. f \in [0..0 -> Nat] /\ IsPowers(f, base, 0)
    BY DEF IsPowers
  <2> QED
    BY <2>1
<1>2. ASSUME NEW m \in 1..MaxOpens, Good(m - 1)
      PROVE  Good(m)
  <2>1. PICK f \in [0..(m - 1) -> Nat] : IsPowers(f, base, m - 1)
    BY <1>2
  <2>2. m - 1 \in 0..(m - 1) /\ m \in Nat /\ m # 0
    BY <1>2, BoundAssumption
  <2>3. base * f[m - 1] \in Nat
    BY <2>2, Products
  <2> DEFINE g == [n \in 0..m |-> IF n = m THEN base * f[m - 1] ELSE f[n]]
  <2>4. g \in [0..m -> Nat] /\ g[0] = 1
    BY <2>1, <2>2, <2>3 DEF IsPowers
  <2>5. g[m] = base * g[m - 1] /\ \A n \in 0..(m - 1) : g[n] = f[n]
    BY <2>2
  <2> HIDE DEF g
  <2>6. \A n \in 1..m : n = m \/ (n \in 1..(m - 1) /\ n \in 0..(m - 1) /\ n - 1 \in 0..(m - 1))
    BY <2>2
  <2>7. IsPowers(g, base, m)
    BY <2>1, <2>4, <2>5, <2>6 DEF IsPowers
  <2> QED
    BY <2>4, <2>7
<1> HIDE DEF Good
<1>3. T = {}
  <2>1. SUFFICES ASSUME NEW y \in T
                 PROVE  FALSE
    OBVIOUS
  <2>2. T \in SUBSET Nat
    BY BoundAssumption
  <2>3. PICK x \in T : \A z \in T : x <= z
    BY <2>2, LeastNumber
  <2>4. x \in 1..MaxOpens /\ x - 1 \in 0..MaxOpens
    BY <1>1, <2>3, BoundAssumption
  <2>5. x - 1 \notin T
    BY <2>3, <2>4
  <2>6. Good(x - 1)
    BY <2>4, <2>5
  <2> QED
    BY <1>2, <2>3, <2>4, <2>6
<1>4. MaxOpens \in 0..MaxOpens
  BY BoundAssumption
<1>5. Good(MaxOpens)
  BY <1>3, <1>4
<1> QED
  BY <1>5 DEF Good

\* What the recursive definition of the powers computes.
LEMMA PowersRecur ==
  ASSUME NEW base \in Nat
  PROVE  IsPowers(Powers(base), base, MaxOpens)
<1> DEFINE P(f) == f = [n \in 0..MaxOpens |-> IF n = 0 THEN 1 ELSE base * f[n - 1]]
<1>1. Powers(base) = CHOOSE f : P(f)
  BY DEF Powers
<1>2. PICK g \in [0..MaxOpens -> Nat] : IsPowers(g, base, MaxOpens)
  BY PowersExist
<1>3. P(g)
  <2>1. \A n \in 0..MaxOpens : n = 0 \/ n \in 1..MaxOpens
    BY BoundAssumption
  <2>2. \A n \in 0..MaxOpens : g[n] = IF n = 0 THEN 1 ELSE base * g[n - 1]
    BY <1>2, <2>1 DEF IsPowers
  <2> QED
    BY <2>2
<1>4. P(CHOOSE f : P(f))
  <2> HIDE DEF P
  <2> QED
    BY <1>3
<1>5. P(Powers(base))
  <2> HIDE DEF P
  <2> QED
    BY <1>1, <1>4
<1> DEFINE power == Powers(base)
<1>6. power = [n \in 0..MaxOpens |-> IF n = 0 THEN 1 ELSE base * power[n - 1]]
  BY <1>5
<1> HIDE DEF power
<1>7. \A n \in 0..MaxOpens : power[n] = IF n = 0 THEN 1 ELSE base * power[n - 1]
  BY <1>6, Zenon
<1>8. 0 \in 0..MaxOpens /\ \A n \in 1..MaxOpens : n \in 0..MaxOpens /\ n # 0
  BY BoundAssumption
<1>9. IsPowers(power, base, MaxOpens)
  BY <1>7, <1>8 DEF IsPowers
<1> QED
  BY <1>9 DEF power

\* Powers are natural numbers, and those of a positive base do not decrease.
LEMMA PowersGrow ==
  ASSUME NEW base \in Nat \ {0}
  PROVE  /\ \A n \in 0..MaxOpens : Powers(base)[n] \in Nat
         /\ \A n \in 1..MaxOpens : Powers(base)[n - 1] <= Powers(base)[n]
<1> DEFINE power == Powers(base)
           T == {n \in 0..MaxOpens : power[n] \notin Nat}
<1>1. power[0] = 1 /\ \A n \in 1..MaxOpens : power[n] = base * power[n - 1]
  BY PowersRecur DEF IsPowers
<1> HIDE DEF power
<1>2. T = {}
  <2>1. SUFFICES ASSUME NEW y \in T
                 PROVE  FALSE
    OBVIOUS
  <2>2. T \in SUBSET Nat
    BY BoundAssumption
  <2>3. PICK x \in T : \A z \in T : x <= z
    BY <2>2, LeastNumber
  <2>4. x \in 1..MaxOpens /\ x - 1 \in 0..MaxOpens
    BY <1>1, <2>3, BoundAssumption
  <2>5. x - 1 \notin T
    BY <2>3, <2>4
  <2>6. power[x - 1] \in Nat /\ power[x] = base * power[x - 1]
    BY <1>1, <2>4, <2>5
  <2> QED
    BY <2>3, <2>6, Products
<1>3. ASSUME NEW n \in 1..MaxOpens
      PROVE  power[n - 1] <= power[n]
  <2>1. n - 1 \in 0..MaxOpens
    BY BoundAssumption
  <2>2. power[n - 1] \in Nat
    BY <1>2, <2>1
  <2>3. base * power[n - 1] >= power[n - 1] /\ base * power[n - 1] \in Nat
    BY <2>2, Products
  <2> QED
    BY <1>1, <2>2, <2>3
<1>4. \A n \in 0..MaxOpens : power[n] \in Nat
  BY <1>2
<1> QED
  BY <1>3, <1>4 DEF power

\* A delay is a number of ticks up to the cap, and the next one is no shorter.
LEMMA DelayFacts ==
  ASSUME config \in Config
  PROVE  /\ \A n \in 1..MaxOpens : Delay(n) \in 0..MaxDelay
         /\ \A n \in 1..MaxOpens : n + 1 \in 1..MaxOpens => Delay(n) <= Delay(n + 1)
<1> DEFINE t == config.timeout
           power == Powers(config.base)
<1>1. t \in Nat /\ config.base \in Nat \ {0} /\ MaxDelay \in Nat /\ MaxOpens \in Nat
  BY ConfigAssumption, BoundAssumption DEF ConfigType
<1>2. /\ \A n \in 0..MaxOpens : power[n] \in Nat
      /\ \A n \in 1..MaxOpens : power[n - 1] <= power[n]
  BY <1>1, PowersGrow
<1>3. \A n : Delay(n) = Smaller(t * power[n - 1], MaxDelay)
  BY DEF Delay, Uncapped
<1> HIDE DEF t, power
<1>4. ASSUME NEW n \in 1..MaxOpens
      PROVE  t * power[n - 1] \in Nat
  <2>1. n - 1 \in 0..MaxOpens
    BY <1>1
  <2> QED
    BY <1>1, <1>2, <2>1, Products
<1>5. ASSUME NEW n \in 1..MaxOpens, n + 1 \in 1..MaxOpens
      PROVE  Delay(n) <= Delay(n + 1)
  <2>1. /\ power[n - 1] \in Nat /\ power[n] \in Nat /\ power[n - 1] <= power[n]
        /\ (n + 1) - 1 = n
    <3>1. n - 1 \in 0..MaxOpens /\ n \in 0..MaxOpens
      BY <1>1
    <3> QED
      BY <1>2, <3>1
  <2>2. t * power[n - 1] <= t * power[n]
    <3>1. PICK d \in Nat : power[n] = power[n - 1] + d
      <4>1. power[n] - power[n - 1] \in Nat /\ power[n] = power[n - 1] + (power[n] - power[n - 1])
        BY <2>1
      <4> QED
        BY <4>1
    <3>2. t * (power[n - 1] + d) = t * power[n - 1] + t * d
      BY <1>1, <2>1
    <3>3. t * d \in Nat /\ t * power[n - 1] \in Nat
      BY <1>1, <2>1, Products
    <3> QED
      BY <3>1, <3>2, <3>3
  <2>3. t * power[n - 1] \in Nat /\ t * power[n] \in Nat
    BY <1>1, <2>1, Products
  <2>4. Delay(n) = Smaller(t * power[n - 1], MaxDelay) /\ Delay(n + 1) = Smaller(t * power[n], MaxDelay)
    BY <1>3, <2>1
  <2> QED
    BY <1>1, <2>2, <2>3, <2>4 DEF Smaller
<1>6. \A n \in 1..MaxOpens : Delay(n) \in 0..MaxDelay
  BY <1>1, <1>3, <1>4 DEF Smaller
<1> QED
  BY <1>5, <1>6

-----------------------------------------------------------------------------
(***************************************************************************)
(* The breaker's fields.                                                   *)
(***************************************************************************)
\* Opening sets the attempt time and counts the opening.
LEMMA OpenFacts ==
  ASSUME TypeOK, ToOpen
  PROVE  /\ state' = "OPEN" /\ opens' \in 1..MaxOpens
         /\ nextAttempt' = Delay(opens') /\ lastDelay' = Delay(opens')
         /\ Delay(opens') \in 0..MaxDelay
         /\ opens' = opens \/ opens' = opens + 1
<1>1. opens' \in 1..MaxOpens /\ (opens' = opens \/ opens' = opens + 1)
  BY BoundAssumption DEF ToOpen, TypeOK, Smaller
<1>2. \A n \in 1..MaxOpens : Delay(n) \in 0..MaxDelay
  BY DelayFacts DEF TypeOK
<1> QED
  BY <1>1, <1>2 DEF ToOpen

\* A timestamp that is recorded, and the passing of time, leave counts at every age.
LEMMA WindowTypes ==
  ASSUME TypeOK, NEW times \in [Age -> Nat]
  PROVE  Recorded(times) \in [Age -> Nat] /\ Older(times) \in [Age -> Nat]
<1>1. MaxWindow \in Nat /\ config.window \in Nat
  BY ConfigAssumption, BoundAssumption DEF TypeOK, ConfigType
<1>2. 0 \in Age /\ \A a \in Age : a # 0 => a - 1 \in Age
  BY <1>1 DEF Age
<1>3. Recorded(times) \in [Age -> Nat]
  BY <1>1, <1>2 DEF Recorded
<1>4. Older(times) \in [Age -> Nat]
  BY <1>2 DEF Older
<1> QED
  BY <1>3, <1>4

FieldInv == TypeOK /\ OpenHasAttempt

\* The outcome of a call keeps the fields together.
LEMMA FinishFields ==
  ASSUME FieldInv, FinishCall
  PROVE  FieldInv'
<1>1. TypeOK /\ OpenHasAttempt /\ MaxCount \in Nat /\ MaxOpens \in Nat /\ MaxDelay \in Nat
  BY BoundAssumption DEF FieldInv
<1>2. /\ Recorded(failuresAt) \in [Age -> Nat] /\ Recorded(successesAt) \in [Age -> Nat]
      /\ calling' \in BOOLEAN /\ down' \in BOOLEAN /\ config' \in Config /\ ops' \in 0..MaxOps
  BY <1>1, WindowTypes DEF TypeOK, FinishCall
<1>3. CASE OnSuccess
  <2>1. successCount' \in 0..MaxCount /\ failureCount' \in 0..MaxCount /\ requests' \in Nat
    BY <1>1, <1>3 DEF OnSuccess, Smaller, TypeOK
  <2>2. failuresAt' \in [Age -> Nat] /\ successesAt' \in [Age -> Nat]
    BY <1>1, <1>2, <1>3 DEF OnSuccess, TypeOK
  <2>3. \/ state' = "CLOSED" /\ nextAttempt' = NoAttempt /\ opens' = 0 /\ lastDelay' = 0
        \/ UNCHANGED <<state, nextAttempt, opens, lastDelay>>
    BY <1>3 DEF OnSuccess
  <2>4. CASE state' = "CLOSED" /\ nextAttempt' = NoAttempt /\ opens' = 0 /\ lastDelay' = 0
    <3>1. opens' \in 0..MaxOpens /\ lastDelay' \in 0..MaxDelay
      BY <1>1, <2>4
    <3> QED
      BY <1>2, <2>1, <2>2, <2>4, <3>1 DEF FieldInv, TypeOK, OpenHasAttempt
  <2>5. CASE UNCHANGED <<state, nextAttempt, opens, lastDelay>>
    BY <1>1, <1>2, <2>1, <2>2, <2>5 DEF FieldInv, TypeOK, OpenHasAttempt
  <2> QED
    BY <2>3, <2>4, <2>5
<1>4. CASE OnFailure
  <2>1. failureCount' \in 0..MaxCount /\ successCount' = successCount /\ requests' = requests
    BY <1>1, <1>4 DEF OnFailure, Smaller, TypeOK
  <2>2. failuresAt' \in [Age -> Nat] /\ successesAt' = successesAt
    BY <1>2, <1>4 DEF OnFailure
  <2>3. ToOpen \/ UNCHANGED <<state, opens, nextAttempt, lastDelay>>
    BY <1>4 DEF OnFailure
  <2>4. CASE ToOpen
    <3>1. /\ state' = "OPEN" /\ opens' \in 0..MaxOpens /\ opens' > 0 /\ lastDelay' \in 0..MaxDelay
          /\ nextAttempt' \in 0..MaxDelay /\ nextAttempt' # NoAttempt
      BY <1>1, <2>4, OpenFacts DEF NoAttempt
    <3> QED
      BY <1>1, <1>2, <2>1, <2>2, <3>1 DEF FieldInv, TypeOK, OpenHasAttempt
  <2>5. CASE UNCHANGED <<state, opens, nextAttempt, lastDelay>>
    BY <1>1, <1>2, <2>1, <2>2, <2>5 DEF FieldInv, TypeOK, OpenHasAttempt
  <2> QED
    BY <2>3, <2>4, <2>5
<1> QED
  BY <1>3, <1>4 DEF FinishCall

\* Every step keeps the fields together.
LEMMA FieldStep ==
  ASSUME FieldInv, [Next]_vars
  PROVE  FieldInv'
<1>1. /\ TypeOK /\ OpenHasAttempt
      /\ MaxCount \in Nat /\ MaxOpens \in Nat /\ MaxDelay \in Nat /\ MaxOps \in Nat
  BY BoundAssumption DEF FieldInv
<1>2. CASE StartCall
  BY <1>1, <1>2 DEF StartCall, FieldInv, TypeOK, OpenHasAttempt, windowVars
<1>3. CASE FinishCall
  BY <1>3, FinishFields
<1>4. CASE Reset
  <2>1. NothingRecorded \in [Age -> Nat]
    BY DEF NothingRecorded
  <2> QED
    BY <1>1, <1>4, <2>1 DEF Reset, FieldInv, TypeOK, OpenHasAttempt
<1>5. CASE ForceOpen
  BY <1>1, <1>5, OpenFacts DEF ForceOpen, FieldInv, TypeOK, OpenHasAttempt, windowVars, NoAttempt
<1>6. CASE UpdateConfig
  BY <1>1, <1>6 DEF UpdateConfig, FieldInv, TypeOK, OpenHasAttempt, countVars, windowVars
<1>7. CASE Tick
  <2>1. failuresAt' \in [Age -> Nat] /\ successesAt' \in [Age -> Nat]
    BY <1>1, <1>7, WindowTypes DEF Tick, TypeOK
  <2>2. /\ nextAttempt' \in {NoAttempt} \cup 0..MaxDelay
        /\ nextAttempt' = NoAttempt <=> nextAttempt = NoAttempt
    BY <1>1, <1>7 DEF Tick, TypeOK, NoAttempt
  <2> QED
    BY <1>1, <1>7, <2>1, <2>2 DEF Tick, FieldInv, TypeOK, OpenHasAttempt, countVars
<1>8. CASE Turn
  BY <1>1, <1>8 DEF Turn, FieldInv, TypeOK, OpenHasAttempt, countVars, windowVars
<1>9. CASE UNCHANGED vars
  BY <1>1, <1>9 DEF vars, FieldInv, TypeOK, OpenHasAttempt, countVars, windowVars
<1> QED
  BY <1>2, <1>3, <1>4, <1>5, <1>6, <1>7, <1>8, <1>9 DEF Next

\* Types and the state's fields, for any configurations and bounds.
LEMMA FieldInvariant == Spec => []FieldInv
<1>1. Init => FieldInv
  <2> SUFFICES ASSUME Init
               PROVE  FieldInv
    OBVIOUS
  <2>1. /\ 0 \in 0..MaxCount /\ 0 \in 0..MaxOpens /\ 0 \in 0..MaxDelay /\ 0 \in 0..MaxOps
        /\ NothingRecorded \in [Age -> Nat]
    BY BoundAssumption DEF NothingRecorded
  <2>2. TypeOK
    BY <2>1 DEF Init, TypeOK
  <2>3. OpenHasAttempt
    BY DEF Init, OpenHasAttempt
  <2> QED
    BY <2>2, <2>3 DEF FieldInv
<1>2. FieldInv /\ [Next]_vars => FieldInv'
  BY FieldStep
<1> QED
  BY <1>1, <1>2, PTL DEF Spec

\* Type correctness: no wait is longer than the cap, whatever the powers of the base grow to.
THEOREM BreakerTypeCorrect == Spec => []TypeOK
<1>1. FieldInv => TypeOK
  BY DEF FieldInv
<1> QED
  BY <1>1, FieldInvariant, PTL

\* An open breaker always has an attempt time to wait for, and a closed one has none.
THEOREM OpenHasDeadline == Spec => []OpenHasAttempt
<1>1. FieldInv => OpenHasAttempt
  BY DEF FieldInv
<1> QED
  BY <1>1, FieldInvariant, PTL

-----------------------------------------------------------------------------
(***************************************************************************)
(* The back-off.                                                           *)
(***************************************************************************)
\* update_config leaves the back-off alone.
SameBackoff == \A c, d \in Config : c.timeout = d.timeout /\ c.base = d.base

\* The last delay is the one of the counted openings.
LastCounted ==
  /\ opens = 0 => lastDelay = 0
  /\ opens > 0 => lastDelay = Delay(opens)

\* Opening again waits no shorter.
LEMMA OpenGrows ==
  ASSUME TypeOK, LastCounted, ToOpen, UNCHANGED config
  PROVE  LastCounted' /\ lastDelay <= lastDelay'
<1>1. /\ opens' \in 1..MaxOpens /\ lastDelay' = Delay(opens') /\ Delay(opens') \in 0..MaxDelay
      /\ opens' = opens \/ opens' = opens + 1
  BY OpenFacts
<1>2. opens \in 0..MaxOpens /\ MaxOpens \in Nat /\ MaxDelay \in Nat /\ lastDelay \in 0..MaxDelay
  BY BoundAssumption DEF TypeOK
<1>3. LastCounted'
  <2>1. lastDelay' = Delay(opens)'
    BY <1>1 DEF Delay, Uncapped
  <2> QED
    BY <1>1, <1>2, <2>1 DEF LastCounted
<1>4. lastDelay <= lastDelay'
  <2>1. CASE opens = 0
    BY <1>1, <1>2, <2>1 DEF LastCounted
  <2>2. CASE opens > 0
    <3>1. opens \in 1..MaxOpens /\ lastDelay = Delay(opens)
      BY <1>2, <2>2 DEF LastCounted
    <3>2. opens' = opens + 1 => Delay(opens) <= Delay(opens')
      BY <1>1, <3>1, DelayFacts DEF TypeOK
    <3> QED
      BY <1>1, <1>2, <3>1, <3>2
  <2> QED
    BY <1>2, <2>1, <2>2
<1> QED
  BY <1>3, <1>4

\* Each step counts the delay, and shortens it only by closing.
LEMMA BackoffStep ==
  ASSUME SameBackoff, TypeOK, LastCounted, [Next]_vars
  PROVE  LastCounted' /\ (lastDelay' < lastDelay => state' = "CLOSED")
<1> DEFINE Goal == LastCounted' /\ (lastDelay' < lastDelay => state' = "CLOSED")
<1>1. lastDelay \in Nat
  BY BoundAssumption DEF TypeOK
<1>2. ASSUME UNCHANGED <<config, opens, lastDelay>>
      PROVE  Goal
  <2>1. Delay(opens)' = Delay(opens)
    BY <1>2 DEF Delay, Uncapped
  <2> QED
    BY <1>1, <1>2, <2>1 DEF LastCounted
<1>3. ASSUME ToOpen, UNCHANGED config
      PROVE  Goal
  <2>1. lastDelay' \in Nat
    BY <1>3, OpenFacts, BoundAssumption
  <2> QED
    BY <1>1, <1>3, <2>1, OpenGrows
<1>4. ASSUME state' = "CLOSED", opens' = 0, lastDelay' = 0
      PROVE  Goal
  BY <1>4 DEF LastCounted
<1>5. ASSUME UpdateConfig
      PROVE  Goal
  <2>1. config \in Config /\ config' \in Config /\ UNCHANGED <<opens, lastDelay>>
    BY <1>5 DEF UpdateConfig, TypeOK, countVars
  <2>2. config'.timeout = config.timeout /\ config'.base = config.base
    BY <2>1 DEF SameBackoff
  <2>3. Delay(opens)' = Delay(opens)
    BY <2>1, <2>2 DEF Delay, Uncapped
  <2> QED
    BY <1>1, <2>1, <2>3 DEF LastCounted
<1> HIDE DEF Goal
<1>6. ASSUME FinishCall
      PROVE  Goal
  BY <1>2, <1>3, <1>4, <1>6 DEF FinishCall, OnSuccess, OnFailure
<1>7. ASSUME ForceOpen
      PROVE  Goal
  BY <1>3, <1>7 DEF ForceOpen
<1>8. ASSUME Reset
      PROVE  Goal
  BY <1>4, <1>8 DEF Reset
<1>9. ASSUME StartCall \/ Tick \/ Turn \/ UNCHANGED vars
      PROVE  Goal
  BY <1>2, <1>9 DEF StartCall, Tick, Turn, vars, countVars
<1>10. Goal
  BY <1>5, <1>6, <1>7, <1>8, <1>9 DEF Next
<1> QED
  BY <1>10 DEF Goal

(***************************************************************************)
(* Until the breaker closes no wait is shorter than the one before it, as  *)
(* long as update_config leaves the timeout and the base of the back-off   *)
(* alone (_compute_timeout): at the cap the delay stays, and neither       *)
(* forced openings nor successes of a trial that fails later shorten it.   *)
(***************************************************************************)
THEOREM WaitsGrow ==
  ASSUME SameBackoff
  PROVE  Spec => BackoffGrows
<1>1. Init => LastCounted
  BY DEF Init, LastCounted
<1>2. FieldInv /\ LastCounted /\ [Next]_vars => LastCounted'
  BY BackoffStep DEF FieldInv
<1>3. FieldInv /\ LastCounted /\ [Next]_vars => [lastDelay' < lastDelay => state' = "CLOSED"]_vars
  BY BackoffStep DEF FieldInv
<1> QED
  BY <1>1, <1>2, <1>3, FieldInvariant, PTL DEF Spec, BackoffGrows
=============================================================================
