--------------------------- MODULE AlertSchedule ---------------------------
(***************************************************************************)
(* The timing of the alert cycle: the planner job's interval, the alerts'  *)
(* frequencies, the time-to-live of the search cache, the portal semaphore *)
(* and the length of a scrape.  The question is how long a listing that    *)
(* appears on a portal can stay unseen by an alert it satisfies.           *)
(*                                                                         *)
(* Time is discrete.  A moment of the past is kept as its age and an age   *)
(* stops growing where nothing tells it from an older one.  Only scrapes   *)
(* last; every transaction takes less than a tick (RunAlertCycle has their *)
(* interleavings) and work that can be done is done before the next tick.  *)
(* A runner's worker for query q is <<r, q>>; Planner is the scheduled job,*)
(* the other runners are invocations of the CLI's run-cycle.               *)
(***************************************************************************)
EXTENDS Naturals, FiniteSets

CONSTANTS
  Runners, Planner, Alerts, Queries,
  PlanOf,      \* alert -> its queries
  PortalOf,    \* query -> its portal
  Frequency,   \* alert -> frequency_seconds, in ticks
  Ttl,         \* cache_ttl_seconds
  Interval,    \* planner_interval_seconds
  MaxScrape,   \* the longest a scrape lasts (timeouts, retries, rate limit)
  Longest,     \* the longest the searches of one portal last, one by one
  At           \* the query the listing answers to

Workers == Runners \X Queries

ASSUME ScheduleAssumption ==
  /\ Planner \in Runners
  /\ PlanOf \in [Alerts -> (SUBSET Queries) \ {{}}]
  /\ Frequency \in [Alerts -> Nat \ {0}]
  /\ Ttl \in Nat \ {0} /\ Interval \in Nat \ {0}
  /\ At \in Queries
ASSUME QueueAssumption ==
  /\ IsFiniteSet(Queries) /\ MaxScrape \in Nat /\ Longest \in Nat
  /\ \A q \in Queries :
       MaxScrape * Cardinality({o \in Queries : PortalOf[o] = PortalOf[q]}) <= Longest

VARIABLES
  age,     \* alert -> now - last_run_at, up to its frequency
  entry,   \* query -> its search_cache row: age of fetched_at, the listing found?
  timer,   \* time since the planner job last fired
  pc, todo,
  began,   \* worker -> age of the moment it read the clock
  scraped, \* worker -> age of the moment its scrape began
  posted,  \* 0 before the listing appears, then 1 + its age, up to MaxScrape + 2
  matched, \* the alerts it has been reported to
  unseen   \* alert -> how long it has waited for it, not counting failed searches

cycle == <<pc, todo, began, scraped>>
listing == <<posted, matched, unseen>>
vars == <<age, entry, timer, cycle, listing>>

Grown(x, limit) == IF x < limit THEN x + 1 ELSE limit
UpTo(x, limit) == IF x < limit THEN x ELSE limit

EntryLimit == Ttl + Longest   \* older entries are expired for every worker
Unseen(a) == Ttl + Frequency[a] + Interval + 2 * Longest   \* longer than it ever waits

Init ==
  /\ age = [a \in Alerts |-> Frequency[a]]     \* never run
  /\ entry = [q \in Queries |-> [age |-> EntryLimit, seen |-> FALSE]]
  /\ timer \in 0..Interval
  /\ pc = [w \in Workers |-> "idle"]
  /\ todo = [w \in Workers |-> {}]
  /\ began = [w \in Workers |-> 0]
  /\ scraped = [w \in Workers |-> 0]
  /\ posted = 0
  /\ matched = {}
  /\ unseen = [a \in Alerts |-> 0]

-----------------------------------------------------------------------------
(* list_due, then a worker per planned query, all started at once *)

Due == {a \in Alerts : age[a] >= Frequency[a]}
Planned(q) == {a \in Due : q \in PlanOf[a]}
Idle(r) == \A q \in Queries : pc[<<r, q>>] = "idle"

Cycle(r) ==
  /\ pc' = [w \in Workers |-> IF w[1] = r /\ Planned(w[2]) # {} THEN "waiting" ELSE pc[w]]
  /\ todo' = [w \in Workers |-> IF w[1] = r THEN Planned(w[2]) ELSE todo[w]]
  /\ UNCHANGED <<age, entry, began, scraped, listing>>

(* Mutation: a skipped firing is not consumed *)
FireLater ==
  /\ timer >= Interval
  /\ timer' = IF Idle(Planner) THEN 0 ELSE timer + 1
  /\ IF Idle(Planner) THEN Cycle(Planner) ELSE UNCHANGED <<age, entry, cycle, listing>>

(* max_instances = 1: the job that finds the previous run at work is skipped *)
Fire ==
  /\ timer = Interval
  /\ timer' = 0
  /\ IF Idle(Planner) THEN Cycle(Planner) ELSE UNCHANGED <<age, entry, cycle, listing>>

RunCycleCommand(r) ==
  /\ r # Planner
  /\ Idle(r)
  /\ Due # {}
  /\ Cycle(r)
  /\ UNCHANGED timer

-----------------------------------------------------------------------------
(* A worker inside the portal's semaphore: cache.get, or scrape and cache.put *)

HasSlot(w) ==
  \A q \in Queries : PortalOf[q] = PortalOf[w[2]] => pc[<<w[1], q>>] # "scraping"

(* expires_at > now, now being the worker's start *)
Fresh(w) == entry[w[2]].age < Ttl + began[w]

Ended(w) ==
  /\ pc' = [pc EXCEPT ![w] = "idle"]
  /\ todo' = [todo EXCEPT ![w] = {}]
  /\ began' = [began EXCEPT ![w] = 0]
  /\ scraped' = [scraped EXCEPT ![w] = 0]

(* mark_run(now = the worker's start); the last commit wins *)
Marked(w) ==
  [a \in Alerts |-> IF a \in todo[w] THEN UpTo(began[w], Frequency[a]) ELSE age[a]]

(* The alerts are evaluated on a result, matches and last_run_at committed *)
Evaluate(w, found) ==
  /\ age' = Marked(w)
  /\ matched' = IF w[2] = At /\ found THEN matched \union todo[w] ELSE matched
  /\ unseen' = [a \in Alerts |-> IF a \in matched' THEN 0 ELSE unseen[a]]
  /\ Ended(w)
  /\ UNCHANGED <<timer, posted>>

(* Mutation: a hit renews the entry's time-to-live *)
HitRenews(w) ==
  /\ pc[w] = "waiting"
  /\ HasSlot(w)
  /\ Fresh(w)
  /\ Evaluate(w, entry[w[2]].seen)
  /\ entry' = [entry EXCEPT ![w[2]].age = began[w]]

Hit(w) ==
  /\ pc[w] = "waiting"
  /\ HasSlot(w)
  /\ Fresh(w)
  /\ Evaluate(w, entry[w[2]].seen)
  /\ UNCHANGED entry

Miss(w) ==
  /\ pc[w] = "waiting"
  /\ HasSlot(w)
  /\ ~Fresh(w)
  /\ pc' = [pc EXCEPT ![w] = "scraping"]
  /\ UNCHANGED <<age, entry, timer, todo, began, scraped, listing>>

(* The page is read at some moment of the scrape *)
Finds(w) ==
  IF w[2] # At \/ posted = 0 THEN {FALSE}
  ELSE IF posted > scraped[w] + 1 THEN {TRUE} ELSE BOOLEAN

(* Mutation: fetched_at is the time of the put *)
PutNow(w, found) == [entry EXCEPT ![w[2]] = [age |-> 0, seen |-> found]]

(* fetched_at is the worker's start *)
Put(w, found) == [entry EXCEPT ![w[2]] = [age |-> began[w], seen |-> found]]

Returns(w) ==
  /\ pc[w] = "scraping"
  /\ \E found \in Finds(w) :
       /\ Evaluate(w, found)
       /\ entry' = Put(w, found)

(* A failed search, or an exception: nothing is stored, nothing marked *)
Fails(w) ==
  /\ pc[w] \in {"waiting", "scraping"}
  /\ HasSlot(w) \/ pc[w] = "scraping"
  /\ Ended(w)
  /\ unseen' = [a \in Alerts |-> IF w[2] = At /\ a \in todo[w] THEN 0 ELSE unseen[a]]
  /\ UNCHANGED <<age, entry, timer, posted, matched>>

-----------------------------------------------------------------------------
Appears ==
  /\ posted = 0
  /\ posted' = 1
  /\ UNCHANGED <<age, entry, timer, cycle, matched, unseen>>

(* Nothing is left to do now *)
Tick ==
  /\ timer < Interval
  /\ \A w \in Workers : /\ ~ (pc[w] = "waiting" /\ HasSlot(w))
                        /\ pc[w] = "scraping" => scraped[w] < MaxScrape
  /\ age' = [a \in Alerts |-> Grown(age[a], Frequency[a])]
  /\ entry' = [q \in Queries |-> [entry[q] EXCEPT !.age = Grown(@, EntryLimit)]]
  /\ timer' = timer + 1
  /\ began' = [w \in Workers |-> IF pc[w] = "idle" THEN 0 ELSE began[w] + 1]
  /\ scraped' = [w \in Workers |-> IF pc[w] = "scraping" THEN scraped[w] + 1 ELSE 0]
  /\ posted' = IF posted = 0 THEN 0 ELSE Grown(posted, MaxScrape + 2)
  /\ unseen' = [a \in Alerts |->
       IF posted = 0 \/ a \in matched \/ At \notin PlanOf[a] THEN 0
       ELSE Grown(unseen[a], Unseen(a))]
  /\ UNCHANGED <<pc, todo, matched>>

Next ==
  \/ Fire \/ Appears \/ Tick
  \/ \E r \in Runners : RunCycleCommand(r)
  \/ \E w \in Workers : Hit(w) \/ Miss(w) \/ Returns(w) \/ Fails(w)

Spec == Init /\ [][Next]_vars

-----------------------------------------------------------------------------
(* Every field keeps its type, the timer below the interval of the job.     *)
TypeOK ==
  /\ age \in [Alerts -> Nat]
  /\ entry \in [Queries -> [age : Nat, seen : BOOLEAN]]
  /\ timer \in 0..Interval
  /\ pc \in [Workers -> {"idle", "waiting", "scraping"}]
  /\ todo \in [Workers -> SUBSET Alerts]
  /\ began \in [Workers -> Nat] /\ scraped \in [Workers -> Nat]
  /\ posted \in Nat
  /\ matched \subseteq Alerts
  /\ unseen \in [Alerts -> Nat]

(* However the planner's runs, the CLI's, the queue before the semaphore    *)
(* and the cache fall together, a listing is reported to every alert it     *)
(* satisfies within this bound of its appearance, or of the last search of  *)
(* its query that failed: the last stale run starts just before the entry   *)
(* expires, the alert is due a frequency later, a run that has just missed  *)
(* it goes first, the job fires an interval after that run.                 *)
Bound(a) == Ttl + Frequency[a] + Interval + 2 * Longest - 2
DetectedInTime == \A a \in Alerts : unseen[a] <= Bound(a)

(* A run that starts a time-to-live after the listing appeared reports it,  *)
(* however long it waits and whoever filled the cache meanwhile: counted    *)
(* from the worker's start, the entry expires before its page is that old.  *)
NoStaleRun ==
  [][\A w \in Workers : \A a \in todo[w] :
       w[2] = At /\ todo'[w] = {} /\ unseen[a] >= Ttl + began[w] => unseen'[a] = 0]_vars

-----------------------------------------------------------------------------
(* The inductive strengthening *)

(* A worker's fields while it works; an alert asks for what it plans. *)
Shape ==
  /\ \A a \in Alerts : age[a] <= Frequency[a] /\ (At \notin PlanOf[a] => unseen[a] = 0)
  /\ \A w \in Workers :
       /\ pc[w] = "idle" => began[w] = 0 /\ todo[w] = {}
       /\ pc[w] # "scraping" => scraped[w] = 0
       /\ scraped[w] <= began[w] /\ scraped[w] <= MaxScrape
       /\ \A a \in todo[w] : w[2] \in PlanOf[a]

(* The workers of a cycle started together. *)
SameStart ==
  \A w, v \in Workers :
    w[1] = v[1] /\ pc[w] # "idle" /\ pc[v] # "idle" => began[w] = began[v]

(* The searches of a portal go one by one: what a worker has waited and     *)
(* what is still before it fit in Longest.                                  *)
Waiting(r, portal) == {q \in Queries : PortalOf[q] = portal /\ pc[<<r, q>>] = "waiting"}
QueueMoves ==
  \A w \in Workers : pc[w] # "idle" =>
    LET ahead == began[w] + MaxScrape * Cardinality(Waiting(w[1], PortalOf[w[2]]))
    IN /\ ahead <= Longest
       /\ \A v \in Workers :
            v[1] = w[1] /\ PortalOf[v[2]] = PortalOf[w[2]] /\ pc[v] = "scraping" =>
              /\ ahead + MaxScrape <= Longest + scraped[v]
              /\ pc[w] = "scraping" => v = w

(* An entry without the listing is older than the wait for it. *)
EntryIsOld ==
  /\ posted <= MaxScrape + 1 => \A a \in Alerts : unseen[a] = 0 \/ unseen[a] < posted
  /\ ~entry[At].seen => \A a \in Alerts : entry[At].age >= UpTo(unseen[a], EntryLimit)

Searching(r, a) == a \in todo[<<r, At>>]

(* A cycle whose search has ended without the listing started too early.    *)
StaleStart ==
  \A w \in Workers : \A a \in todo[w] :
    unseen[a] < Ttl + began[w] \/ Searching(w[1], a)

(* An alert not due was run too early to see it, or its search is still on. *)
RunTooEarly ==
  \A a \in Alerts : age[a] < Frequency[a] =>
    \/ unseen[a] < Ttl + age[a]
    \/ \E r \in Runners : Searching(r, a) /\ began[<<r, At>>] = age[a]

(* A due alert is searched for, or waits for the planner's next free firing. *)
DueSoon ==
  \A a \in Alerts : age[a] = Frequency[a] =>
    IF Idle(Planner)
      THEN \/ unseen[a] + 2 <= Ttl + Frequency[a] + Longest + timer
           \/ \E r \in Runners : Searching(r, a)
      ELSE \/ \A q \in Queries : pc[<<Planner, q>>] # "idle" =>
                unseen[a] + 2 <= Ttl + Frequency[a] + began[<<Planner, q>>]
           \/ \E r \in Runners : /\ Searching(r, a)
                                 /\ \A q \in Queries : pc[<<Planner, q>>] # "idle" =>
                                      began[<<r, At>>] < Frequency[a] + began[<<Planner, q>>]

(* Beyond the last moment a search can start, one is on. *)
SearchedInTime ==
  \A a \in Alerts :
    \/ unseen[a] + 2 <= Ttl + Frequency[a] + Longest + Interval
    \/ \E r \in Runners :
         /\ Searching(r, a)
         /\ unseen[a] + 2 <= Ttl + Frequency[a] + Longest + Interval + began[<<r, At>>]

IInv ==
  /\ TypeOK /\ Shape /\ SameStart /\ QueueMoves /\ EntryIsOld /\ StaleStart
  /\ RunTooEarly /\ DueSoon /\ SearchedInTime
=============================================================================
