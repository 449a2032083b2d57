--------------------------- MODULE PortalScraper ---------------------------
(***************************************************************************)
(* BaseScraper.fetch: the worker threads of a process that scrape one      *)
(* portal through its circuit breaker, its retries and its token bucket.   *)
(* Breaker and bucket are shared by the workers, each behind its own lock. *)
(*                                                                         *)
(* Time goes in ticks.  A token takes Period ticks to fill; tokens are     *)
(* counted in ticks.  A request, a backoff or a thread's delay takes any   *)
(* number of ticks.  A fetch that finds the circuit open (CircuitOpenError)*)
(* changes nothing and is no step.                                         *)
(***************************************************************************)
EXTENDS Integers, FiniteSets

CONSTANTS
  Workers,      \* at most max_concurrency of them
  Threshold,    \* failure_threshold
  Cooldown,     \* cooldown_seconds
  MaxAttempts,
  Burst, Period,
  MaxWindow,    \* bound: length of the observed window
  NoOne         \* no worker

Full == Burst * Period

ASSUME BreakerAssumption == Threshold \in Nat \ {0} /\ Cooldown \in Nat \ {0}
ASSUME BucketAssumption == Burst \in Nat \ {0} /\ Period \in Nat \ {0}
ASSUME FetchAssumption == MaxAttempts \in Nat \ {0} /\ MaxWindow \in Nat
ASSUME WorkersAssumption == IsFiniteSet(Workers) /\ Workers # {} /\ NoOne \notin Workers

VARIABLES
  breaker,        \* the CircuitState as stored
  failures,       \* consecutive failures, counted up to Threshold
  age,            \* ticks since opened_at, counted up to Cooldown
  tokens,         \* after the last refill
  since,          \* ticks since then, counted up to Full
  bucketLock,
  pc, tries,      \* tries: requests made by the fetch
  up,             \* the portal answers and nothing else fails (external)
  elapsed, sent,  \* an observed window: its length and its requests
  straggling      \* requests sent since the circuit opened

circuit == <<breaker, failures, age>>
bucket == <<tokens, since, bucketLock>>
window == <<elapsed, sent>>
vars == <<circuit, bucket, pc, tries, up, window, straggling>>

Least(m, n) == IF m < n THEN m ELSE n
Busy == {"acquire", "sleeping", "request", "answered", "failed"}

Init ==
  /\ breaker = "CLOSED" /\ failures = 0 /\ age = 0
  /\ tokens = Full /\ since = 0 /\ bucketLock = NoOne
  /\ pc = [w \in Workers |-> "idle"]
  /\ tries = [w \in Workers |-> 0]
  /\ up \in BOOLEAN
  /\ elapsed = 0 /\ sent = 0 /\ straggling = 0

-----------------------------------------------------------------------------
(* CircuitBreaker *)

(* _state_locked *)
State == IF breaker = "OPEN" /\ age >= Cooldown THEN "HALF_OPEN" ELSE breaker

(* Mutation: fetch does not ask the breaker *)
AdmitAlways(w) ==
  /\ pc[w] = "idle"
  /\ breaker' = State
  /\ pc' = [pc EXCEPT ![w] = "acquire"]
  /\ tries' = [tries EXCEPT ![w] = 0]
  /\ UNCHANGED <<failures, age, bucket, up, window, straggling>>

(* allow *)
Admit(w) ==
  /\ pc[w] = "idle"
  /\ State # "OPEN"
  /\ breaker' = State
  /\ pc' = [pc EXCEPT ![w] = "acquire"]
  /\ tries' = [tries EXCEPT ![w] = 0]
  /\ UNCHANGED <<failures, age, bucket, up, window, straggling>>

(* Mutation: the circuit closes, the failures are not forgotten *)
ClosesOnly(w) ==
  /\ pc[w] = "answered"
  /\ breaker' = "CLOSED"
  /\ pc' = [pc EXCEPT ![w] = "idle"]
  /\ UNCHANGED <<failures, age, bucket, tries, up, window, straggling>>

(* Mutation: only a half-open circuit is closed *)
ClosesHalfOpen(w) ==
  /\ pc[w] = "answered"
  /\ failures' = 0
  /\ breaker' = IF breaker = "HALF_OPEN" THEN breaker ELSE "CLOSED"
  /\ pc' = [pc EXCEPT ![w] = "idle"]
  /\ UNCHANGED <<age, bucket, tries, up, window, straggling>>

RecordSuccess(w) ==
  /\ pc[w] = "answered"
  /\ failures' = 0
  /\ breaker' = "CLOSED"
  /\ pc' = [pc EXCEPT ![w] = "idle"]
  /\ UNCHANGED <<age, bucket, tries, up, window, straggling>>

RecordFailure(w) ==
  LET count == Least(failures + 1, Threshold) IN
  /\ pc[w] = "failed"
  /\ failures' = count
  /\ IF count >= Threshold
       THEN /\ breaker' = "OPEN" /\ age' = 0
            /\ straggling' = IF breaker = "OPEN" THEN straggling ELSE 0
       ELSE UNCHANGED <<breaker, age, straggling>>
  /\ pc' = [pc EXCEPT ![w] = "idle"]
  /\ UNCHANGED <<bucket, tries, up, window>>

-----------------------------------------------------------------------------
(* TokenBucketRateLimiter.acquire *)

(* _refill *)
Refilled == Least(Full, tokens + since)

TakeToken(w) ==
  /\ pc[w] = "acquire"
  /\ bucketLock = NoOne
  /\ Refilled >= Period
  /\ tokens' = Refilled - Period
  /\ since' = 0
  /\ pc' = [pc EXCEPT ![w] = "request"]
  /\ UNCHANGED <<circuit, bucketLock, tries, up, window, straggling>>

(* It sleeps with the lock held *)
Sleep(w) ==
  /\ pc[w] = "acquire"
  /\ bucketLock = NoOne
  /\ Refilled < Period
  /\ bucketLock' = w
  /\ tokens' = Refilled
  /\ since' = 0
  /\ pc' = [pc EXCEPT ![w] = "sleeping"]
  /\ UNCHANGED <<circuit, tries, up, window, straggling>>

(* Mutation: it does not wait for the token *)
WakeEarly(w) ==
  /\ pc[w] = "sleeping"
  /\ bucketLock' = NoOne
  /\ tokens' = Refilled - Period
  /\ since' = 0
  /\ pc' = [pc EXCEPT ![w] = "request"]
  /\ UNCHANGED <<circuit, tries, up, window, straggling>>

Wake(w) ==
  /\ pc[w] = "sleeping"
  /\ tokens + since >= Period
  /\ bucketLock' = NoOne
  /\ tokens' = Refilled - Period
  /\ since' = 0
  /\ pc' = [pc EXCEPT ![w] = "request"]
  /\ UNCHANGED <<circuit, tries, up, window, straggling>>

-----------------------------------------------------------------------------
(* _get: every attempt takes a token; one that failed with an httpx.HTTPError *)
(* is retried, any other exception ends the fetch                            *)

(* Mutations: only the first attempt takes a token; retries without a limit *)
RetriesAtOnce(w) ==
  IF up THEN {"answered"} ELSE {"failed"} \union (IF tries[w] + 1 < MaxAttempts THEN {"request"} ELSE {})
RetriesForever(w) == IF up THEN {"answered"} ELSE {"acquire"}

AfterRequest(w) ==
  IF up THEN {"answered"} ELSE {"failed"} \union (IF tries[w] + 1 < MaxAttempts THEN {"acquire"} ELSE {})

Request(w) ==
  /\ pc[w] = "request"
  /\ tries' = [tries EXCEPT ![w] = Least(@ + 1, MaxAttempts)]
  /\ \E outcome \in AfterRequest(w) : pc' = [pc EXCEPT ![w] = outcome]
  /\ sent' = sent + 1
  /\ straggling' = IF State = "OPEN" THEN straggling + 1 ELSE straggling
  /\ UNCHANGED <<circuit, bucket, up, elapsed>>

-----------------------------------------------------------------------------
(* A tick ends the observed window or makes it longer *)
Tick ==
  /\ age' = Least(age + 1, Cooldown)
  /\ since' = Least(since + 1, Full)
  /\ \/ elapsed < MaxWindow /\ elapsed' = elapsed + 1 /\ sent' = sent
     \/ elapsed' = 0 /\ sent' = 0
  /\ UNCHANGED <<breaker, failures, tokens, bucketLock, pc, tries, up, straggling>>

PortalChanges ==
  /\ up' = ~up
  /\ UNCHANGED <<circuit, bucket, pc, tries, window, straggling>>

Fetching(w) ==
  \/ TakeToken(w) \/ Sleep(w) \/ Wake(w) \/ Request(w)
  \/ RecordSuccess(w) \/ RecordFailure(w)

Next ==
  \/ \E w \in Workers : Admit(w) \/ Fetching(w)
  \/ Tick \/ PortalChanges

Spec == Init /\ [][Next]_vars

(* Time passes, cycles go on fetching, a thread that can run does run and   *)
(* one that waits for the bucket's lock gets it some time.                  *)
Fairness ==
  /\ WF_vars(Tick)
  /\ \A w \in Workers : WF_vars(Admit(w)) /\ SF_vars(Fetching(w))

FairSpec == Spec /\ Fairness

-----------------------------------------------------------------------------
TypeOK ==
  /\ breaker \in {"CLOSED", "OPEN", "HALF_OPEN"}
  /\ failures \in 0..Threshold /\ age \in 0..Cooldown
  /\ tokens \in 0..Full /\ since \in 0..Full
  /\ bucketLock \in Workers \union {NoOne}
  /\ pc \in [Workers -> Busy \union {"idle"}]
  /\ tries \in [Workers -> 0..MaxAttempts]
  /\ up \in BOOLEAN
  /\ elapsed \in 0..MaxWindow /\ sent \in Nat /\ straggling \in Nat

(* The circuit is closed exactly while fewer than Threshold fetches failed  *)
(* in a row, however the workers' results interleave: one failed probe of a *)
(* half-open circuit opens it again, one success always closes it.          *)
ClosedBelowThreshold == breaker = "CLOSED" <=> failures < Threshold

(* In any window the portal gets no more requests, retries included, than   *)
(* the burst, what the rate allows and the workers that had taken their     *)
(* token before ("enforces a per-portal requests/second budget").           *)
RateBudget == sent * Period <= (Burst + Cardinality(Workers)) * Period + elapsed

(* The requests in flight and the tokens at hand are part of the budget. *)
InFlight == {w \in Workers : pc[w] = "request"}
BudgetInv ==
  sent * Period + Cardinality(InFlight) * Period + Refilled
    <= (Burst + Cardinality(Workers)) * Period + elapsed

(* The attempts the admitted fetches may still make.  While the stored      *)
(* state is OPEN nobody is admitted, so requests sent since it opened were  *)
(* attempts left then, and the worker that opened it had none.              *)
Pending == {"acquire", "sleeping", "request"}
AttemptsLeft == {a \in Workers \X (1..MaxAttempts) : pc[a[1]] \in Pending /\ a[2] > tries[a[1]]}
QuietInv ==
  /\ \A w \in Workers : pc[w] \in Pending => tries[w] < MaxAttempts
  /\ straggling <= (Cardinality(Workers) - 1) * MaxAttempts
  /\ breaker = "OPEN" =>
       straggling + Cardinality(AttemptsLeft) <= (Cardinality(Workers) - 1) * MaxAttempts

(* While the circuit is open only workers admitted before it opened still   *)
(* send their attempts: with one worker the portal is left alone.           *)
OpenIsQuiet == straggling <= (Cardinality(Workers) - 1) * MaxAttempts

(* A fetch ends even if the portal never answers. *)
FetchEnds == \A w \in Workers : pc[w] # "idle" ~> pc[w] = "idle"

(* A portal that answers again is scraped again: the circuit closes for     *)
(* good although late failures may open it once more.                       *)
Recovers == <>[]up => <>[](breaker = "CLOSED")
=============================================================================
