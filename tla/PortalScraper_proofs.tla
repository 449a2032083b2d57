------------------------ MODULE PortalScraper_proofs ------------------------
(* Proofs about PortalScraper, for any number of workers and any threshold, *)
(* cooldown, attempt limit, burst and rate.                                 *)
EXTENDS PortalScraper, FiniteSetTheorems, TLAPS

-----------------------------------------------------------------------------
LEMMA Distributes ==
  ASSUME NEW m \in Int, NEW n \in Int
  PROVE  (m + 1) * n = m * n + n /\ (m - 1) * n = m * n - n
  BY SMT

LEMMA FullType == Full \in Nat /\ Full >= Period
<1>1. Burst - 1 \in Nat
  BY BucketAssumption
<1>2. (Burst - 1) * Period = Burst * Period - Period
  BY Distributes, BucketAssumption
<1>3. (Burst - 1) * Period \in Nat /\ Burst * Period \in Nat
  BY <1>1, BucketAssumption, SMT
<1> QED
  BY <1>2, <1>3, BucketAssumption DEF Full

LEMMA RefilledType ==
  ASSUME TypeOK
  PROVE  Refilled \in 0..Full
  BY FullType DEF TypeOK, Refilled, Least

(* The breaker and its counter move together; the bucket stays in bounds. *)
LEMMA TypeStep == TypeOK /\ [Next]_vars => TypeOK'
<1> SUFFICES ASSUME TypeOK, [Next]_vars PROVE TypeOK'
  OBVIOUS
<1> USE BreakerAssumption, BucketAssumption, FetchAssumption, WorkersAssumption,
        FullType, RefilledType
<1>1. ASSUME NEW w \in Workers, Admit(w) PROVE TypeOK'
  BY <1>1 DEF TypeOK, Admit, State, Busy, bucket, window
<1>2. ASSUME NEW w \in Workers, TakeToken(w) PROVE TypeOK'
  BY <1>2 DEF TypeOK, TakeToken, Busy, circuit, window
<1>3. ASSUME NEW w \in Workers, Sleep(w) PROVE TypeOK'
  BY <1>3 DEF TypeOK, Sleep, Busy, circuit, window
<1>4. ASSUME NEW w \in Workers, Wake(w) PROVE TypeOK'
  BY <1>4 DEF TypeOK, Wake, Refilled, Least, Busy, circuit, window
<1>5. ASSUME NEW w \in Workers, Request(w) PROVE TypeOK'
  BY <1>5 DEF TypeOK, Request, AfterRequest, Least, Busy, circuit, bucket
<1>6. ASSUME NEW w \in Workers, RecordSuccess(w) PROVE TypeOK'
  BY <1>6 DEF TypeOK, RecordSuccess, Busy, bucket, window
<1>7. ASSUME NEW w \in Workers, RecordFailure(w) PROVE TypeOK'
  <2>1. Least(failures + 1, Threshold) \in 0..Threshold
    BY DEF TypeOK, Least
  <2> QED
    BY <1>7, <2>1 DEF TypeOK, RecordFailure, Busy, bucket, window
<1>8. ASSUME Tick PROVE TypeOK'
  BY <1>8 DEF TypeOK, Tick, Least
<1>9. ASSUME PortalChanges PROVE TypeOK'
  BY <1>9 DEF TypeOK, PortalChanges, circuit, bucket, window
<1>10. CASE UNCHANGED vars
  BY <1>10 DEF TypeOK, vars, circuit, bucket, window
<1> QED
  BY <1>1, <1>2, <1>3, <1>4, <1>5, <1>6, <1>7, <1>8, <1>9, <1>10 DEF Next, Fetching

LEMMA TypeInit == Init => TypeOK
  BY BreakerAssumption, BucketAssumption, FetchAssumption, FullType DEF Init, TypeOK, Busy

(* TypeOK: the breaker's counter, the bucket and the threads stay in their  *)
(* ranges (circuit_breaker.py, rate_limiter.py).                            *)
THEOREM TypeCorrect == Spec => []TypeOK
  BY TypeInit, TypeStep, PTL DEF Spec

-----------------------------------------------------------------------------
LEMMA ClosedStep ==
  TypeOK /\ ClosedBelowThreshold /\ [Next]_vars => ClosedBelowThreshold'
<1> SUFFICES ASSUME TypeOK, ClosedBelowThreshold, [Next]_vars PROVE ClosedBelowThreshold'
  OBVIOUS
<1> USE BreakerAssumption
<1>1. ASSUME NEW w \in Workers, Admit(w) PROVE ClosedBelowThreshold'
  BY <1>1 DEF ClosedBelowThreshold, Admit, State
<1>2. ASSUME NEW w \in Workers, TakeToken(w) \/ Sleep(w) \/ Wake(w) \/ Request(w)
      PROVE  ClosedBelowThreshold'
  BY <1>2 DEF ClosedBelowThreshold, TakeToken, Sleep, Wake, Request, circuit
<1>3. ASSUME NEW w \in Workers, RecordSuccess(w) PROVE ClosedBelowThreshold'
  BY <1>3 DEF ClosedBelowThreshold, RecordSuccess
<1>4. ASSUME NEW w \in Workers, RecordFailure(w) PROVE ClosedBelowThreshold'
  BY <1>4 DEF TypeOK, ClosedBelowThreshold, RecordFailure, Least
<1>5. CASE Tick \/ PortalChanges \/ UNCHANGED vars
  BY <1>5 DEF ClosedBelowThreshold, Tick, PortalChanges, vars, circuit
<1> QED
  BY <1>1, <1>2, <1>3, <1>4, <1>5 DEF Next, Fetching

(* ClosedBelowThreshold: the circuit is closed exactly while the failures   *)
(* in a row are fewer than the threshold, for any interleaving of the       *)
(* workers' results (CircuitBreaker.record_success and record_failure).     *)
THEOREM BreakerCounts == Spec => []ClosedBelowThreshold
<1>1. Init => ClosedBelowThreshold
  BY BreakerAssumption DEF Init, ClosedBelowThreshold
<1> QED
  BY <1>1, ClosedStep, TypeCorrect, PTL DEF Spec

-----------------------------------------------------------------------------
LEMMA InFlightBound ==
  ASSUME TypeOK
  PROVE  /\ IsFiniteSet(InFlight)
         /\ Cardinality(InFlight) \in Nat
         /\ Cardinality(Workers) \in Nat
         /\ Cardinality(InFlight) <= Cardinality(Workers)
<1>1. InFlight \subseteq Workers
  BY DEF InFlight
<1> QED
  BY <1>1, WorkersAssumption, FS_Subset, FS_CardinalityType

(* A worker that gets a token joins the requests in flight. *)
LEMMA TokenSpent ==
  ASSUME TypeOK, BudgetInv, NEW w \in Workers, pc[w] # "request",
         pc' = [pc EXCEPT ![w] = "request"],
         Refilled >= Period, tokens' = Refilled - Period, since' = 0,
         UNCHANGED window
  PROVE  BudgetInv'
<1> DEFINE c == Cardinality(InFlight)
<1> USE BucketAssumption, FullType, RefilledType, InFlightBound
<1>1. InFlight' = InFlight \union {w} /\ w \notin InFlight
  BY DEF TypeOK, InFlight
<1>2. Cardinality(InFlight') = c + 1
  BY <1>1, FS_AddElement
<1>3. Refilled' = Refilled - Period
  BY DEF Refilled, Least
<1>4. (c + 1) * Period = c * Period + Period /\ c * Period \in Int
  BY Distributes, SMT
<1>5. sent * Period \in Int /\ (Burst + Cardinality(Workers)) * Period \in Int
  BY SMT DEF TypeOK
<1> QED
  BY <1>2, <1>3, <1>4, <1>5 DEF BudgetInv, TypeOK, window

LEMMA BudgetStep == TypeOK /\ BudgetInv /\ [Next]_vars => BudgetInv'
<1> SUFFICES ASSUME TypeOK, BudgetInv, [Next]_vars PROVE BudgetInv'
  OBVIOUS
<1> USE BucketAssumption, FullType, RefilledType, InFlightBound
<1> DEFINE c == Cardinality(InFlight)
           others == Cardinality(Workers)
<1>1. sent * Period \in Int /\ c * Period \in Int /\ (Burst + others) * Period \in Int
  BY SMT DEF TypeOK
<1>2. ASSUME NEW w \in Workers, TakeToken(w) \/ Wake(w) PROVE BudgetInv'
  <2>1. Refilled >= Period
    BY <1>2 DEF TypeOK, TakeToken, Wake, Refilled, Least
  <2> QED
    BY <1>2, <2>1, TokenSpent DEF TakeToken, Wake
<1>3. ASSUME NEW w \in Workers, Request(w) PROVE BudgetInv'
  <2>1. InFlight' = InFlight \ {w} /\ w \in InFlight
    BY <1>3 DEF TypeOK, InFlight, Request, AfterRequest
  <2>2. Cardinality(InFlight') = c - 1
    BY <2>1, FS_RemoveElement
  <2>3. (c - 1) * Period = c * Period - Period /\ (sent + 1) * Period = sent * Period + Period
    BY Distributes DEF TypeOK
  <2>4. Refilled' = Refilled
    BY <1>3 DEF Request, bucket, Refilled
  <2> QED
    BY <1>1, <1>3, <2>2, <2>3, <2>4 DEF BudgetInv, Request, TypeOK
<1>4. ASSUME NEW w \in Workers, Sleep(w) PROVE BudgetInv'
  <2>1. InFlight' = InFlight
    BY <1>4 DEF TypeOK, InFlight, Sleep
  <2>2. Refilled' = Refilled
    BY <1>4 DEF Sleep, Refilled, Least
  <2> QED
    BY <1>4, <2>1, <2>2 DEF BudgetInv, Sleep, window
<1>5. ASSUME NEW w \in Workers, Admit(w) \/ RecordSuccess(w) \/ RecordFailure(w) PROVE BudgetInv'
  <2>1. InFlight' = InFlight
    BY <1>5 DEF TypeOK, InFlight, Admit, RecordSuccess, RecordFailure
  <2>2. Refilled' = Refilled
    BY <1>5 DEF Admit, RecordSuccess, RecordFailure, bucket, Refilled
  <2> QED
    BY <1>5, <2>1, <2>2 DEF BudgetInv, Admit, RecordSuccess, RecordFailure, window
<1>6. CASE Tick
  <2>1. InFlight' = InFlight
    BY <1>6 DEF InFlight, Tick
  <2>2. Refilled' <= Refilled + 1 /\ Refilled' \in 0..Full
    BY <1>6 DEF TypeOK, Tick, Refilled, Least
  <2>3. CASE elapsed' = elapsed + 1 /\ sent' = sent
    BY <1>1, <2>1, <2>2, <2>3 DEF BudgetInv, TypeOK
  <2>4. CASE elapsed' = 0 /\ sent' = 0
    <3>1. (Burst + others) * Period = Full + others * Period
      BY SMT DEF Full
    <3>2. c * Period <= others * Period
      BY SMT
    <3>3. sent' * Period = 0 /\ others * Period \in Int
      BY <2>4, SMT
    <3> QED
      BY <1>1, <2>1, <2>2, <2>4, <3>1, <3>2, <3>3 DEF BudgetInv
  <2> QED
    BY <1>6, <2>3, <2>4 DEF Tick
<1>7. CASE PortalChanges \/ UNCHANGED vars
  BY <1>7 DEF BudgetInv, InFlight, Refilled, PortalChanges, vars, bucket, window
<1> QED
  BY <1>2, <1>3, <1>4, <1>5, <1>6, <1>7 DEF Next, Fetching

(* RateBudget: in any window, of whatever length, the portal receives no    *)
(* more requests than the burst, the rate and the workers in flight allow,  *)
(* retries included (TokenBucketRateLimiter.acquire under BaseScraper._get).*)
THEOREM Polite == Spec => []RateBudget
<1>1. Init => BudgetInv
  <2> SUFFICES ASSUME Init PROVE BudgetInv
    OBVIOUS
  <2> USE BucketAssumption, FullType
  <2>1. InFlight = {}
    BY DEF Init, InFlight
  <2>2. Cardinality(InFlight) = 0 /\ Cardinality(Workers) \in Nat
    BY <2>1, FS_EmptySet, FS_CardinalityType, WorkersAssumption
  <2>3. Refilled = Full /\ sent * Period = 0 /\ 0 * Period = 0
    BY SMT DEF Init, Refilled, Least
  <2>4. (Burst + Cardinality(Workers)) * Period = Full + Cardinality(Workers) * Period
    BY <2>2, SMT DEF Full
  <2>5. Cardinality(Workers) * Period \in Nat
    BY <2>2, SMT
  <2> QED
    BY <2>2, <2>3, <2>4, <2>5 DEF BudgetInv, Init
<1>2. TypeOK /\ BudgetInv => RateBudget
  <2> SUFFICES ASSUME TypeOK, BudgetInv PROVE RateBudget
    OBVIOUS
  <2> USE BucketAssumption, RefilledType, InFlightBound
  <2>1. Cardinality(InFlight) * Period \in Nat
    BY SMT
  <2>2. sent * Period \in Int /\ (Burst + Cardinality(Workers)) * Period \in Int
    BY SMT DEF TypeOK
  <2> QED
    BY <2>1, <2>2, FullType DEF BudgetInv, RateBudget, TypeOK
<1> QED
  BY <1>1, <1>2, BudgetStep, TypeCorrect, PTL DEF Spec

-----------------------------------------------------------------------------
(* What the others may still send when the circuit opens *)
Late == (Cardinality(Workers) - 1) * MaxAttempts

LEMMA AttemptsBound ==
  ASSUME NEW S, S \subseteq Workers
  PROVE  /\ IsFiniteSet(S \X (1..MaxAttempts))
         /\ Cardinality(S \X (1..MaxAttempts)) = Cardinality(S) * MaxAttempts
<1>1. IsFiniteSet(S)
  BY WorkersAssumption, FS_Subset
<1>2. IsFiniteSet(1..MaxAttempts) /\ Cardinality(1..MaxAttempts) = MaxAttempts
  BY FetchAssumption, FS_Interval
<1> QED
  BY <1>1, <1>2, FS_Product

LEMMA SomeAttempts ==
  ASSUME NEW A, A \subseteq Workers \X (1..MaxAttempts)
  PROVE  IsFiniteSet(A) /\ Cardinality(A) \in Nat
  BY AttemptsBound, FS_Subset, FS_CardinalityType

LEMMA AttemptsLeftFinite ==
  /\ IsFiniteSet(AttemptsLeft) /\ Cardinality(AttemptsLeft) \in Nat
  /\ Cardinality(Workers) \in Nat /\ Late \in Nat
<1>1. AttemptsLeft \subseteq Workers \X (1..MaxAttempts)
  BY DEF AttemptsLeft
<1>2. IsFiniteSet(AttemptsLeft) /\ Cardinality(AttemptsLeft) \in Nat
  BY <1>1, SomeAttempts
<1>3. Cardinality(Workers) \in Nat /\ Cardinality(Workers) # 0
  BY WorkersAssumption, FS_CardinalityType, FS_EmptySet
<1>4. Cardinality(Workers) - 1 \in Nat
  BY <1>3
<1>5. Late \in Nat
  BY <1>4, FetchAssumption, SMT DEF Late
<1> QED
  BY <1>2, <1>3, <1>5

(* A request uses up an attempt. *)
LEMMA RequestSpends ==
  ASSUME TypeOK, QuietInv, NEW w \in Workers, Request(w)
  PROVE  Cardinality(AttemptsLeft') <= Cardinality(AttemptsLeft) - 1
<1> DEFINE this == <<w, tries[w] + 1>>
<1>1. tries[w] \in 0..MaxAttempts /\ tries[w] < MaxAttempts /\ pc[w] = "request"
  BY DEF QuietInv, Request, Pending, TypeOK
<1>2. this \in AttemptsLeft
  BY <1>1, FetchAssumption DEF AttemptsLeft, Pending
<1>3. /\ tries' = [tries EXCEPT ![w] = tries[w] + 1]
      /\ \A v \in Workers : v # w => pc'[v] = pc[v]
  <2>1. Least(tries[w] + 1, MaxAttempts) = tries[w] + 1
    BY <1>1, FetchAssumption DEF Least
  <2> QED
    BY <2>1 DEF Request, TypeOK
<1>4. ASSUME NEW a \in AttemptsLeft' PROVE a \in AttemptsLeft /\ a # this
  <2>1. a \in Workers \X (1..MaxAttempts) /\ pc'[a[1]] \in Pending /\ a[2] > tries'[a[1]]
    BY <1>4 DEF AttemptsLeft
  <2>2. CASE a[1] = w
    <3>1. a[2] > tries[w] + 1
      BY <1>3, <2>1, <2>2 DEF TypeOK
    <3>2. a[2] > tries[w]
      BY <1>1, <2>1, <3>1
    <3> QED
      BY <1>1, <2>1, <2>2, <3>1, <3>2 DEF AttemptsLeft, Pending
  <2>3. CASE a[1] # w
    <3>1. pc'[a[1]] = pc[a[1]] /\ tries'[a[1]] = tries[a[1]]
      BY <1>3, <2>1, <2>3 DEF TypeOK
    <3> QED
      BY <2>1, <2>3, <3>1 DEF AttemptsLeft
  <2> QED
    BY <2>2, <2>3
<1>5. AttemptsLeft' \in SUBSET (AttemptsLeft \ {this})
  BY <1>4
<1>6. /\ IsFiniteSet(AttemptsLeft \ {this})
      /\ Cardinality(AttemptsLeft \ {this}) = Cardinality(AttemptsLeft) - 1
  BY <1>2, AttemptsLeftFinite, FS_RemoveElement
<1> QED
  BY <1>5, <1>6, FS_Subset

(* The worker whose failure opens the circuit has no attempt left. *)
LEMMA OpenerIsDone ==
  ASSUME TypeOK, NEW w \in Workers, RecordFailure(w)
  PROVE  Cardinality(AttemptsLeft') <= Late
<1>1. pc' = [pc EXCEPT ![w] = "idle"]
  BY DEF RecordFailure
<1>2. AttemptsLeft' \in SUBSET ((Workers \ {w}) \X (1..MaxAttempts))
  BY <1>1 DEF AttemptsLeft, Pending, TypeOK
<1>3. Cardinality(Workers \ {w}) = Cardinality(Workers) - 1
  BY WorkersAssumption, FS_RemoveElement
<1>4. /\ IsFiniteSet((Workers \ {w}) \X (1..MaxAttempts))
      /\ Cardinality((Workers \ {w}) \X (1..MaxAttempts)) = Late
  BY <1>3, AttemptsBound DEF Late
<1> QED
  BY <1>2, <1>4, FS_Subset

LEMMA QuietStep == TypeOK /\ QuietInv /\ [Next]_vars => QuietInv'
<1> SUFFICES ASSUME TypeOK, QuietInv, [Next]_vars PROVE QuietInv'
  OBVIOUS
<1> USE FetchAssumption, BreakerAssumption
<1>0. /\ Cardinality(AttemptsLeft) \in Nat /\ Cardinality(AttemptsLeft') \in Nat
      /\ Late \in Nat /\ straggling \in Nat
  <2>1. AttemptsLeft' \subseteq Workers \X (1..MaxAttempts)
    BY DEF AttemptsLeft
  <2>2. Cardinality(AttemptsLeft') \in Nat
    BY <2>1, SomeAttempts
  <2> QED
    BY <2>2, AttemptsLeftFinite DEF TypeOK
<1>1. ASSUME NEW w \in Workers, Admit(w) PROVE QuietInv'
  <2>1. State # "OPEN" /\ breaker' = State /\ straggling' = straggling
    BY <1>1 DEF Admit
  <2>2. \A v \in Workers : pc'[v] \in Pending => tries'[v] < MaxAttempts
    BY <1>1 DEF Admit, QuietInv, TypeOK
  <2> QED
    BY <2>1, <2>2 DEF QuietInv
<1>2. ASSUME NEW w \in Workers, TakeToken(w) \/ Sleep(w) \/ Wake(w) PROVE QuietInv'
  <2>1. /\ UNCHANGED <<breaker, tries, straggling>>
        /\ \A v \in Workers : pc'[v] \in Pending <=> pc[v] \in Pending
    BY <1>2 DEF TakeToken, Sleep, Wake, circuit, TypeOK, Pending
  <2>2. AttemptsLeft' = AttemptsLeft
    BY <2>1 DEF AttemptsLeft
  <2> QED
    BY <2>1, <2>2 DEF QuietInv
<1>3. ASSUME NEW w \in Workers, Request(w) PROVE QuietInv'
  <2>1. \A v \in Workers : pc'[v] \in Pending => tries'[v] < MaxAttempts
    <3>1. tries[w] \in 0..MaxAttempts /\ tries[w] < MaxAttempts
      BY <1>3 DEF QuietInv, Request, Pending, TypeOK
    <3>2. tries' = [tries EXCEPT ![w] = tries[w] + 1]
      <4>1. Least(tries[w] + 1, MaxAttempts) = tries[w] + 1
        BY <3>1 DEF Least
      <4> QED
        BY <1>3, <4>1 DEF Request
    <3>3. pc'[w] \in Pending => tries[w] + 1 < MaxAttempts
      BY <1>3 DEF Request, AfterRequest, Pending, TypeOK
    <3> QED
      BY <1>3, <3>2, <3>3 DEF Request, QuietInv, TypeOK
  <2>2. breaker' = breaker
    BY <1>3 DEF Request, circuit
  <2>3. CASE breaker = "OPEN"
    <3>1. straggling' <= straggling + 1 /\ straggling' \in Nat
      BY <1>0, <1>3 DEF Request
    <3> QED
      BY <1>0, <1>3, <2>1, <2>3, <3>1, RequestSpends DEF QuietInv, Late
  <2>4. CASE breaker # "OPEN"
    <3>1. straggling' = straggling
      BY <1>3, <2>4 DEF Request, State
    <3> QED
      BY <2>1, <2>2, <2>4, <3>1 DEF QuietInv
  <2> QED
    BY <2>3, <2>4
<1>4. ASSUME NEW w \in Workers, RecordSuccess(w) PROVE QuietInv'
  BY <1>4 DEF RecordSuccess, QuietInv, TypeOK, Pending
<1>5. ASSUME NEW w \in Workers, RecordFailure(w) PROVE QuietInv'
  <2>1. \A v \in Workers : pc'[v] \in Pending => tries'[v] < MaxAttempts
    BY <1>5 DEF RecordFailure, QuietInv, TypeOK, Pending
  <2>2. CASE breaker = "OPEN"
    <3>1. straggling' = straggling /\ tries' = tries
      BY <1>5, <2>2 DEF RecordFailure
    <3>2. AttemptsLeft' = AttemptsLeft
      BY <1>5, <3>1 DEF RecordFailure, AttemptsLeft, Pending, TypeOK
    <3> QED
      BY <2>1, <2>2, <3>1, <3>2 DEF QuietInv
  <2>3. CASE breaker # "OPEN"
    <3>1. straggling' = 0 \/ (straggling' = straggling /\ breaker' = breaker)
      <4>1. CASE Least(failures + 1, Threshold) >= Threshold
        BY <1>5, <2>3, <4>1 DEF RecordFailure
      <4>2. CASE ~(Least(failures + 1, Threshold) >= Threshold)
        BY <1>5, <4>2 DEF RecordFailure
      <4> QED
        BY <4>1, <4>2
    <3>2. Cardinality(AttemptsLeft') <= Late
      BY <1>5, OpenerIsDone
    <3> QED
      BY <1>0, <2>1, <2>3, <3>1, <3>2 DEF QuietInv, Late
  <2> QED
    BY <2>2, <2>3
<1>6. CASE Tick \/ PortalChanges \/ UNCHANGED vars
  <2>1. UNCHANGED <<breaker, pc, tries, straggling>>
    BY <1>6 DEF Tick, PortalChanges, vars, circuit
  <2> QED
    BY <2>1 DEF QuietInv, AttemptsLeft
<1> QED
  BY <1>1, <1>2, <1>3, <1>4, <1>5, <1>6 DEF Next, Fetching

(* OpenIsQuiet: while the circuit is open the portal receives at most the   *)
(* attempts left to the other workers, for any number of them and of        *)
(* attempts (CircuitBreaker.allow before BaseScraper._get).                 *)
THEOREM QuietWhenOpen == Spec => []OpenIsQuiet
<1>1. Init => QuietInv
  BY AttemptsLeftFinite DEF Init, QuietInv, Pending, Late
<1>2. QuietInv => OpenIsQuiet
  BY DEF QuietInv, OpenIsQuiet
<1> QED
  BY <1>1, <1>2, QuietStep, TypeCorrect, PTL DEF Spec
=============================================================================
