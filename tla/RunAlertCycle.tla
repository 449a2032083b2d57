--------------------------- MODULE RunAlertCycle ---------------------------
(***************************************************************************)
(* The alert cycle of real_estate: PlannerTick lists the due alerts, plans *)
(* one query per deduplicated search and RunAlertCycle serves each query   *)
(* by a worker thread (cache or scrape, persist listings, evaluate alerts, *)
(* persist matches and their notifications, mark the alerts run, commit).  *)
(*                                                                         *)
(* A runner is a process that runs cycles: the scheduled planner job, the  *)
(* CLI's run-cycle.  Runners share the SQLite database and nothing else.   *)
(* A worker <<r, q>> is runner r's thread for query q.  A worker's writes  *)
(* are private until it commits; its first write takes the database's      *)
(* single write lock, held to the end of the transaction; every read       *)
(* before that sees the last committed state.                              *)
(*                                                                         *)
(* Time is abstract: an alert becomes due again, and a cache entry         *)
(* expires, at any moment.                                                 *)
(***************************************************************************)
EXTENDS Naturals, FiniteSets

CONSTANTS
  Runners, Alerts, Queries, Portals, Properties, Channels,
  PlanOf,          \* alert -> the queries SearchPlanner reduces it to
  PortalOf,        \* query -> its portal
  MaxConcurrency,  \* portal -> PortalCapabilities.max_concurrency
  Listed,          \* query -> the properties its portal search can return
  Satisfies,       \* the <<alert, property>> pairs whose Specification holds
  Faults,          \* which of FaultKinds the environment produces
  NoOne            \* no worker, no alert

FaultKinds == {"scraper_error", "raise", "slow_writer", "crash"}
Workers == Runners \X Queries
MatchRows == Alerts \X Properties \X Workers

ASSUME PlanAssumption == PlanOf \in [Alerts -> (SUBSET Queries) \ {{}}]
ASSUME PortalAssumption == /\ PortalOf \in [Queries -> Portals]
                           /\ MaxConcurrency \in [Portals -> Nat \ {0}]
                           /\ \A a \in Alerts : \A q, o \in PlanOf[a] :
                                PortalOf[q] = PortalOf[o] => q = o
ASSUME MarketAssumption == /\ Listed \in [Queries -> SUBSET Properties]
                           /\ \A q, o \in Queries : PortalOf[q] # PortalOf[o] =>
                                Listed[q] \intersect Listed[o] = {}
                           /\ Satisfies \subseteq Alerts \X Properties
                           /\ Faults \subseteq FaultKinds
ASSUME NoOneAssumption == NoOne \notin Workers /\ NoOne \notin Alerts
ASSUME RowsAssumption == Queries \cap Properties = {}

VARIABLES
  \* committed database
  due,        \* active alerts whose last_run_at + frequency has elapsed
  known,      \* properties (and their portal_listings)
  cached,     \* queries with a search_cache row
  cacheIds,   \* the property ids of that row
  live,       \* runners whose worker for the query finds the row unexpired
  matches,    \* alert_matches rows <<alert, property, worker>>
  outbox,     \* notifications rows <<match row, channel>>
  channels,   \* enabled notification channels
  \* locks
  dbWriter,   \* the transaction that holds SQLite's write lock
  alertLock,  \* runner -> holder of its alert_mutation_lock
  \* worker threads
  pc, todo, doing, marked, ids,
  absent,     \* the row the worker read as missing and is about to insert
  staged, queued,  \* its uncommitted match and notification rows
  audit       \* what search_executions knows of its scrape attempt

db == <<due, known, cached, cacheIds, live, matches, outbox, channels>>
locks == <<dbWriter, alertLock>>
session == <<pc, todo, doing, marked, ids, absent, staged, queued, audit>>
vars == <<db, locks, session>>

Ended == {"idle", "done", "failed", "aborted"}
Resolving == {"fetching", "ingesting"}     \* inside the portal semaphore
NeedsDb == {"ingesting", "recording", "locked"}
PCs == Ended \union Resolving \union NeedsDb \union {"waiting", "evaluating"}

Pairs(rows) == {<<m[1], m[2]>> : m \in rows}

Init ==
  /\ due \in SUBSET Alerts  \* the others are yet to be created
  /\ known = {} /\ cached = {} /\ matches = {} /\ outbox = {}
  /\ cacheIds = [q \in Queries |-> {}]
  /\ live = [q \in Queries |-> {}]
  /\ channels = {}
  /\ dbWriter = NoOne
  /\ alertLock = [r \in Runners |-> NoOne]
  /\ pc = [w \in Workers |-> "idle"]
  /\ todo = [w \in Workers |-> {}]
  /\ doing = [w \in Workers |-> NoOne]
  /\ marked = [w \in Workers |-> {}]
  /\ ids = [w \in Workers |-> {}]
  /\ absent = [w \in Workers |-> {}]
  /\ staged = [w \in Workers |-> {}]
  /\ queued = [w \in Workers |-> {}]
  /\ audit = [w \in Workers |-> "none"]

-----------------------------------------------------------------------------
(* PlannerTick.run and RunAlertCycle.run: the previous run's pool has been  *)
(* joined; list_due's session is closed before the workers start.           *)

(* Mutation: an alert that monitors several portals is not planned *)
PlannedOnePortal(q) == {a \in due : PlanOf[a] = {q}}

Planned(q) == {a \in due : q \in PlanOf[a]}

PlannerTick(r) ==
  /\ due # {}
  /\ \A q \in Queries : pc[<<r, q>>] \in Ended
  /\ todo' = [w \in Workers |-> IF w[1] = r THEN Planned(w[2]) ELSE todo[w]]
  /\ pc' = [w \in Workers |-> IF w[1] # r THEN pc[w]
                              ELSE IF Planned(w[2]) = {} THEN "idle" ELSE "waiting"]
  /\ marked' = [w \in Workers |-> IF w[1] = r THEN {} ELSE marked[w]]
  /\ ids' = [w \in Workers |-> IF w[1] = r THEN {} ELSE ids[w]]
  /\ audit' = [w \in Workers |-> IF w[1] = r THEN "none" ELSE audit[w]]
  /\ UNCHANGED <<db, locks, doing, absent, staged, queued>>

-----------------------------------------------------------------------------
(* _resolve_candidates, under the portal semaphore *)

Inside(r, portal) == {q \in Queries : PortalOf[q] = portal /\ pc[<<r, q>>] \in Resolving}

HasSlot(w) ==
  Cardinality(Inside(w[1], PortalOf[w[2]])) < MaxConcurrency[PortalOf[w[2]]]

CacheHit(w) ==
  /\ pc[w] = "waiting"
  /\ HasSlot(w)
  /\ w[1] \in live[w[2]]
  /\ ids' = [ids EXCEPT ![w] = cacheIds[w[2]] \intersect known]
  /\ pc' = [pc EXCEPT ![w] = "evaluating"]
  /\ UNCHANGED <<db, locks, todo, doing, marked, absent, staged, queued, audit>>

CacheMiss(w) ==
  /\ pc[w] = "waiting"
  /\ HasSlot(w)
  /\ w[1] \notin live[w[2]]
  /\ pc' = [pc EXCEPT ![w] = "fetching"]
  /\ audit' = [audit EXCEPT ![w] = "attempted"]
  /\ UNCHANGED <<db, locks, todo, doing, marked, ids, absent, staged, queued>>

(* The row whose absence a worker's merge reads before its first INSERT: a  *)
(* listing nobody has stored, or its cache row when no listing changed.     *)
(* The set is empty when the first write is an UPDATE.                      *)
FirstInserts(q, found) ==
  IF found \subseteq known
    THEN (IF q \in cached THEN {{}} ELSE {{q}})
           \union (IF found = {} THEN {} ELSE {{}})
    ELSE {{p} : p \in found \ known} \union (IF found \subseteq found \ known THEN {} ELSE {{}})

FetchReturns(w) ==
  /\ pc[w] = "fetching"
  /\ \E found \in SUBSET Listed[w[2]] :
       /\ ids' = [ids EXCEPT ![w] = found]
       /\ \E row \in FirstInserts(w[2], found) : absent' = [absent EXCEPT ![w] = row]
  /\ pc' = [pc EXCEPT ![w] = "ingesting"]
  /\ UNCHANGED <<db, locks, todo, doing, marked, staged, queued, audit>>

FetchFails(w) ==
  /\ "scraper_error" \in Faults
  /\ pc[w] = "fetching"
  /\ pc' = [pc EXCEPT ![w] = "recording"]
  /\ UNCHANGED <<db, locks, todo, doing, marked, ids, absent, staged, queued, audit>>

(* Mutation: a database that lets transactions write side by side *)
AnyoneWrites(w) == TRUE

CanWrite(w) == dbWriter \in {NoOne, w}

(* Mutation: the cache row is committed before the listings it refers to *)
IngestCommitsCache(w) ==
  /\ pc[w] = "ingesting"
  /\ CanWrite(w)
  /\ absent[w] \intersect (known \union cached) = {}
  /\ dbWriter' = w
  /\ pc' = [pc EXCEPT ![w] = "evaluating"]
  /\ absent' = [absent EXCEPT ![w] = {}]
  /\ cacheIds' = [cacheIds EXCEPT ![w[2]] = ids[w]]
  /\ UNCHANGED <<due, known, cached, live, matches, outbox, channels>>
  /\ UNCHANGED <<alertLock, todo, doing, marked, ids, staged, queued, audit>>

(* Mutation: the scrape is committed before its alerts are evaluated *)
IngestCommits(w) ==
  /\ pc[w] = "ingesting"
  /\ CanWrite(w)
  /\ absent[w] \intersect (known \union cached) = {}
  /\ known' = known \union ids[w]
  /\ cached' = cached \union {w[2]}
  /\ cacheIds' = [cacheIds EXCEPT ![w[2]] = ids[w]]
  /\ live' = [live EXCEPT ![w[2]] = Runners]
  /\ audit' = [audit EXCEPT ![w] = "recorded"]
  /\ pc' = [pc EXCEPT ![w] = "evaluating"]
  /\ absent' = [absent EXCEPT ![w] = {}]
  /\ UNCHANGED <<due, matches, outbox, channels, locks, todo, doing, marked, ids, staged, queued>>

Ingest(w) ==
  /\ pc[w] = "ingesting"
  /\ CanWrite(w)
  /\ absent[w] \intersect (known \union cached) = {}
  /\ dbWriter' = w
  /\ pc' = [pc EXCEPT ![w] = "evaluating"]
  /\ absent' = [absent EXCEPT ![w] = {}]
  /\ UNCHANGED <<db, alertLock, todo, doing, marked, ids, staged, queued, audit>>

-----------------------------------------------------------------------------
(* _evaluate_and_persist: one alert_mutation_lock section per alert *)

(* Mutation: only the listings new since the last scrape are evaluated *)
UnmatchedNew(w, a) ==
  {p \in ids[w] \ known : <<a, p>> \in Satisfies /\ <<a, p>> \notin Pairs(matches)}

Unmatched(w, a) ==
  {p \in ids[w] : <<a, p>> \in Satisfies /\ <<a, p>> \notin Pairs(matches)}

LockAlert(w, a) ==
  /\ pc[w] = "evaluating"
  /\ a \in todo[w]
  /\ alertLock[w[1]] = NoOne
  /\ alertLock' = [alertLock EXCEPT ![w[1]] = w]
  /\ pc' = [pc EXCEPT ![w] = "locked"]
  /\ doing' = [doing EXCEPT ![w] = a]
  /\ \E row \in (IF Unmatched(w, a) = {} THEN {{}} ELSE {{p} : p \in Unmatched(w, a)}) :
       absent' = [absent EXCEPT ![w] = row]
  /\ UNCHANGED <<db, dbWriter, todo, marked, ids, staged, queued, audit>>

(* add_if_new for every match (the reads after the first INSERT hold the    *)
(* write lock), enqueue per new match and channel, mark_run, alerts.add.    *)
Rows(w, a) == {<<a, p, w>> : p \in absent[w] \union Unmatched(w, a)}
(* Mutations: enqueue's arguments swapped; its SELECT forgets match_id *)
NoticesSwapped(w, a) == channels \X Rows(w, a)
NoticesOncePerChannel(w, a) == Rows(w, a) \X {c \in channels : \A n \in outbox : n[2] # c}

Notices(w, a) == Rows(w, a) \X channels

(* Mutation: alert_matches has no UNIQUE constraint *)
NoUniqueConstraint(w, a) == TRUE

UniqueHolds(w, a) == {<<a, p>> : p \in absent[w]} \intersect Pairs(matches) = {}

(* Mutation: every alert is committed as it is saved *)
PersistAndCommit(w) ==
  LET a == doing[w] IN
  /\ pc[w] = "locked"
  /\ CanWrite(w)
  /\ UniqueHolds(w, a)
  /\ matches' = matches \union Rows(w, a)
  /\ outbox' = outbox \union Notices(w, a)
  /\ marked' = [marked EXCEPT ![w] = @ \union {a}]
  /\ todo' = [todo EXCEPT ![w] = @ \ {a}]
  /\ doing' = [doing EXCEPT ![w] = NoOne]
  /\ absent' = [absent EXCEPT ![w] = {}]
  /\ alertLock' = [alertLock EXCEPT ![w[1]] = NoOne]
  /\ pc' = [pc EXCEPT ![w] = "evaluating"]
  /\ UNCHANGED <<due, known, cached, cacheIds, live, channels, dbWriter, ids, staged, queued, audit>>

PersistAlert(w) ==
  LET a == doing[w] IN
  /\ pc[w] = "locked"
  /\ CanWrite(w)
  /\ UniqueHolds(w, a)
  /\ dbWriter' = w
  /\ staged' = [staged EXCEPT ![w] = @ \union Rows(w, a)]
  /\ queued' = [queued EXCEPT ![w] = @ \union Notices(w, a)]
  /\ marked' = [marked EXCEPT ![w] = @ \union {a}]
  /\ todo' = [todo EXCEPT ![w] = @ \ {a}]
  /\ doing' = [doing EXCEPT ![w] = NoOne]
  /\ absent' = [absent EXCEPT ![w] = {}]
  /\ alertLock' = [alertLock EXCEPT ![w[1]] = NoOne]
  /\ pc' = [pc EXCEPT ![w] = "evaluating"]
  /\ UNCHANGED <<db, ids, audit>>

(* uow.commit: everything the worker wrote becomes visible at once *)
Commit(w) ==
  /\ pc[w] = "evaluating"
  /\ todo[w] = {}
  /\ due' = due \ marked[w]
  /\ matches' = matches \union staged[w]
  /\ outbox' = outbox \union queued[w]
  /\ IF audit[w] = "attempted"
       THEN /\ known' = known \union ids[w]
            /\ cached' = cached \union {w[2]}
            /\ cacheIds' = [cacheIds EXCEPT ![w[2]] = ids[w]]
            /\ live' = [live EXCEPT ![w[2]] = Runners]
            /\ audit' = [audit EXCEPT ![w] = "recorded"]
       ELSE UNCHANGED <<known, cached, cacheIds, live, audit>>
  /\ staged' = [staged EXCEPT ![w] = {}]
  /\ queued' = [queued EXCEPT ![w] = {}]
  /\ dbWriter' = NoOne
  /\ pc' = [pc EXCEPT ![w] = "done"]
  /\ UNCHANGED <<channels, alertLock, todo, doing, marked, ids, absent>>

(* A ScraperError is recorded in a transaction of its own *)
RecordFailure(w) ==
  /\ pc[w] = "recording"
  /\ CanWrite(w)
  /\ pc' = [pc EXCEPT ![w] = "failed"]
  /\ audit' = [audit EXCEPT ![w] = "recorded"]
  /\ UNCHANGED <<db, locks, todo, doing, marked, ids, absent, staged, queued>>

-----------------------------------------------------------------------------
(* Any other exception leaves the unit of work, which rolls back *)

(* Mutation: an exception leaves alert_mutation_lock held *)
RollBackKeepsLock(gone, end) ==
  /\ pc' = [w \in Workers |-> IF w \in gone THEN end ELSE pc[w]]
  /\ todo' = [w \in Workers |-> IF w \in gone THEN {} ELSE todo[w]]
  /\ doing' = [w \in Workers |-> IF w \in gone THEN NoOne ELSE doing[w]]
  /\ marked' = [w \in Workers |-> IF w \in gone THEN {} ELSE marked[w]]
  /\ ids' = [w \in Workers |-> IF w \in gone THEN {} ELSE ids[w]]
  /\ absent' = [w \in Workers |-> IF w \in gone THEN {} ELSE absent[w]]
  /\ staged' = [w \in Workers |-> IF w \in gone THEN {} ELSE staged[w]]
  /\ queued' = [w \in Workers |-> IF w \in gone THEN {} ELSE queued[w]]
  /\ dbWriter' = IF dbWriter \in gone THEN NoOne ELSE dbWriter
  /\ UNCHANGED <<db, alertLock>>

RollBack(gone, end) ==
  /\ pc' = [w \in Workers |-> IF w \in gone THEN end ELSE pc[w]]
  /\ todo' = [w \in Workers |-> IF w \in gone THEN {} ELSE todo[w]]
  /\ doing' = [w \in Workers |-> IF w \in gone THEN NoOne ELSE doing[w]]
  /\ marked' = [w \in Workers |-> IF w \in gone THEN {} ELSE marked[w]]
  /\ ids' = [w \in Workers |-> IF w \in gone THEN {} ELSE ids[w]]
  /\ absent' = [w \in Workers |-> IF w \in gone THEN {} ELSE absent[w]]
  /\ staged' = [w \in Workers |-> IF w \in gone THEN {} ELSE staged[w]]
  /\ queued' = [w \in Workers |-> IF w \in gone THEN {} ELSE queued[w]]
  /\ dbWriter' = IF dbWriter \in gone THEN NoOne ELSE dbWriter
  /\ alertLock' = [r \in Runners |-> IF alertLock[r] \in gone THEN NoOne ELSE alertLock[r]]
  /\ UNCHANGED db

(* The registry's UnknownPortalError, a parser error outside fetch's try, a *)
(* row or a channel secret that cannot be read back                         *)
Raises(w) ==
  /\ "raise" \in Faults
  /\ pc[w] \in {"fetching", "evaluating", "locked"}
  /\ RollBack({w}, "aborted")
  /\ UNCHANGED audit

(* The INSERT meets a row that another worker committed since the read *)
IntegrityError(w) ==
  /\ CanWrite(w)
  /\ \/ pc[w] = "ingesting" /\ absent[w] \intersect (known \union cached) # {}
     \/ pc[w] = "locked" /\ ~UniqueHolds(w, doing[w])
  /\ RollBack({w}, "aborted")
  /\ UNCHANGED audit

(* Mutation: nothing breaks the lock inversion *)
NeverStalled == FALSE

(* The write-lock holder waits for an alert_mutation_lock whose holder      *)
(* waits for the write lock: only SQLite's busy timeout ends it.            *)
Stalled ==
  \E h, b \in Workers : /\ dbWriter = h /\ pc[h] = "evaluating" /\ todo[h] # {}
                        /\ alertLock[h[1]] = b /\ b # h

(* "database is locked" after busy_timeout *)
BusyTimeout(w) ==
  /\ pc[w] \in NeedsDb
  /\ ~CanWrite(w)
  /\ "slow_writer" \in Faults \/ Stalled
  /\ RollBack({w}, "aborted")
  /\ UNCHANGED audit

(* The process dies: SQLite drops its uncommitted transactions *)
Crash(r) ==
  /\ "crash" \in Faults
  /\ \E q \in Queries : pc[<<r, q>>] \notin Ended
  /\ RollBack({r} \X Queries, "idle")
  /\ audit' = [w \in Workers |-> IF w[1] = r THEN "none" ELSE audit[w]]

-----------------------------------------------------------------------------
(* Environment *)

CreateChannel(c) ==
  /\ dbWriter = NoOne
  /\ c \notin channels
  /\ channels' = channels \union {c}
  /\ UNCHANGED <<due, known, cached, cacheIds, live, matches, outbox, locks, session>>

BecomesDue(a) ==
  /\ a \notin due
  /\ due' = due \union {a}
  /\ UNCHANGED <<known, cached, cacheIds, live, matches, outbox, channels, locks, session>>

(* A worker's clock is the one it read when it started: a worker already    *)
(* waiting still finds the entry unexpired.                                 *)
CacheExpires(q) ==
  LET still == {r \in live[q] : pc[<<r, q>>] = "waiting"} IN
  /\ live[q] # still
  /\ live' = [live EXCEPT ![q] = still]
  /\ UNCHANGED <<due, known, cached, cacheIds, matches, outbox, channels, locks, session>>

-----------------------------------------------------------------------------
WorkerStep(w) ==
  \/ CacheHit(w) \/ CacheMiss(w) \/ FetchReturns(w) \/ Ingest(w)
  \/ \E a \in Alerts : LockAlert(w, a)
  \/ PersistAlert(w) \/ Commit(w) \/ RecordFailure(w)
  \/ IntegrityError(w) \/ BusyTimeout(w)

Next ==
  \/ \E w \in Workers : WorkerStep(w) \/ FetchFails(w) \/ Raises(w)
  \/ \E r \in Runners : PlannerTick(r) \/ Crash(r)
  \/ \E c \in Channels : CreateChannel(c)
  \/ \E a \in Alerts : BecomesDue(a)
  \/ \E q \in Queries : CacheExpires(q)

Spec == Init /\ [][Next]_vars

(* A thread that can run does run; the scheduler keeps ticking; entries     *)
(* expire.  Faults, new channels and alerts falling due are not promised.   *)
Fairness ==
  /\ \A w \in Workers : WF_vars(WorkerStep(w))
  /\ \A r \in Runners : WF_vars(PlannerTick(r))
  /\ \A q \in Queries : SF_vars(CacheExpires(q))

FairSpec == Spec /\ Fairness

-----------------------------------------------------------------------------
(* Properties *)

TypeOK ==
  /\ due \subseteq Alerts /\ known \subseteq Properties /\ cached \subseteq Queries
  /\ cacheIds \in [Queries -> SUBSET Properties]
  /\ live \in [Queries -> SUBSET Runners]
  /\ matches \subseteq MatchRows
  /\ outbox \subseteq MatchRows \X Channels
  /\ channels \subseteq Channels
  /\ dbWriter \in Workers \union {NoOne}
  /\ alertLock \in [Runners -> Workers \union {NoOne}]
  /\ pc \in [Workers -> PCs]
  /\ todo \in [Workers -> SUBSET Alerts]
  /\ doing \in [Workers -> Alerts \union {NoOne}]
  /\ marked \in [Workers -> SUBSET Alerts]
  /\ ids \in [Workers -> SUBSET Properties]
  /\ absent \in [Workers -> SUBSET (Properties \union Queries)]
  /\ staged \in [Workers -> SUBSET MatchRows]
  /\ queued \in [Workers -> SUBSET (MatchRows \X Channels)]
  /\ audit \in [Workers -> {"none", "attempted", "recorded"}]

(* A property is reported to an alert at most once, whatever workers and    *)
(* processes race to record it (AlertMatch's natural key, ADR-012): no two  *)
(* alert_matches rows name the same alert and property.                     *)
UniqueMatch == \A m, n \in matches : m[1] = n[1] /\ m[2] = n[2] => m = n

(* A cache entry only refers to stored properties, so a hit evaluates every *)
(* candidate of the scrape it stands for (search_cache.put commits with     *)
(* properties.add).                                                         *)
CacheRefersToKnown == \A q \in Queries : cacheIds[q] \subseteq known

(* An alert stops being due only together with a match row for every        *)
(* property, among those some worker resolved for it, that satisfies it:    *)
(* last_run_at never runs ahead of the matches (mark_run and add_if_new     *)
(* commit together).                                                        *)
RunMeansMatched ==
  [][\A a \in due \ due' :
       \E w \in Workers : /\ a \in marked[w] /\ pc'[w] = "done" /\ pc[w] # "done"
                         /\ \A p \in ids[w] : <<a, p>> \in Satisfies => <<a, p>> \in Pairs(matches')]_vars

(* What a worker waits for while it can take no step of its own: a place in *)
(* its portal's semaphore, the write lock, its process's alert_mutation_lock *)
AwaitsSlot(w) == pc[w] = "waiting" /\ ~HasSlot(w)
AwaitsWriter(w) == pc[w] \in NeedsDb /\ ~CanWrite(w) /\ ~Stalled
AwaitsAlertLock(w) == pc[w] = "evaluating" /\ todo[w] # {} /\ alertLock[w[1]] # NoOne
Awaits(w) == AwaitsSlot(w) \/ AwaitsWriter(w) \/ AwaitsAlertLock(w)

(* The semaphores, alert_mutation_lock and SQLite's write lock, which       *)
(* workers take in any order, never leave every worker waiting for another, *)
(* in this process or across processes: the one inversion there is, Stalled, *)
(* is the one the busy timeout ends.  A stuck worker would also keep the    *)
(* planner job from ever firing again (max_instances).                      *)
NobodyStuck ==
  (\E w \in Workers : pc[w] \notin Ended) =>
    \E w \in Workers : pc[w] \notin Ended /\ ~Awaits(w)

(* The cycle publishes matches and notifications as MatchOutbox promises,   *)
(* although it reads the channels long before it commits.                   *)
Outbox == INSTANCE MatchOutbox WITH
  matched <- Pairs(matches),
  notices <- {<<<<n[1][1], n[1][2]>>, n[2]>> : n \in outbox},
  enabled <- channels
PublishesOutbox == Outbox!Spec

(* Without portal failures every due alert is eventually run, although a    *)
(* cache hit can lose a run to the busy timeout.                            *)
DueAlertsRun == \A a \in Alerts : a \in due ~> a \notin due

-----------------------------------------------------------------------------
(* The inductive strengthening *)

(* Inside an alert_mutation_lock section there is an alert to process.      *)
LockedShape ==
  \A w \in Workers : pc[w] = "locked" => doing[w] \in Alerts /\ absent[w] \subseteq Properties

(* A worker has an alert left to save or already holds the write lock: it   *)
(* never commits without it.                                                *)
HasWork ==
  \A w \in Workers :
    /\ pc[w] \in {"waiting", "fetching", "ingesting"} => todo[w] # {}
    /\ pc[w] = "evaluating" => todo[w] # {} \/ dbWriter = w

(* Only the write lock's holder has uncommitted rows. *)
WritesUnderLock ==
  \A w \in Workers : staged[w] # {} \/ queued[w] # {} => dbWriter = w

(* Uncommitted matches are the worker's own and not yet reported. *)
StagedFresh ==
  \A w \in Workers : \A m \in staged[w] : m[3] = w /\ <<m[1], m[2]>> \notin Pairs(matches)

(* Uncommitted notifications are those of the uncommitted matches, for the  *)
(* channels that will be enabled when the worker commits.                   *)
StagedQueued == \A w \in Workers : queued[w] = staged[w] \X channels

(* Whatever satisfies an alert the worker has marked is reported, or will   *)
(* be when it commits.                                                      *)
MarkedMatched ==
  \A w \in Workers :
    /\ pc[w] \in {"waiting", "fetching"} => marked[w] = {}
    /\ \A a \in marked[w], p \in ids[w] :
         <<a, p>> \in Satisfies => <<a, p>> \in Pairs(matches) \union Pairs(staged[w])

(* A lock is held by a worker that is inside its section: alert_mutation_lock *)
(* by one saving an alert, the write lock by one between its first flush and *)
(* its commit.                                                              *)
LocksHeld ==
  /\ \A r \in Runners : alertLock[r] # NoOne =>
       alertLock[r][1] = r /\ pc[alertLock[r]] = "locked"
  /\ \A w \in Workers : pc[w] = "locked" => alertLock[w[1]] = w
  /\ dbWriter # NoOne => pc[dbWriter] \in {"evaluating", "locked"}

(* A worker evaluates, for alerts its query is planned for, properties that *)
(* its search lists, and a scrape is the only one to bring unknown ones.    *)
Resolved ==
  /\ \A q \in Queries : cacheIds[q] \subseteq Listed[q]
  /\ \A w \in Workers :
       /\ todo[w] \union marked[w] \subseteq {a \in Alerts : w[2] \in PlanOf[a]}
       /\ pc[w] = "evaluating" => todo[w] \union marked[w] # {}
       /\ pc[w] \in Resolving => audit[w] = "attempted"
       /\ ids[w] \subseteq Listed[w[2]]

(* What a worker stages, or is about to insert, satisfies the alert it is   *)
(* staged for: no false match.                                              *)
StagedDeserved ==
  \A w \in Workers :
    /\ pc[w] = "locked" => /\ doing[w] \in todo[w]
                           /\ \A p \in absent[w] : p \in ids[w] /\ <<doing[w], p>> \in Satisfies
    /\ Pairs(staged[w]) \subseteq (marked[w] \X ids[w]) \intersect Satisfies

IInv ==
  /\ TypeOK /\ LockedShape /\ HasWork /\ MarkedMatched /\ WritesUnderLock
  /\ StagedFresh /\ StagedQueued /\ UniqueMatch /\ CacheRefersToKnown
  /\ LocksHeld /\ Resolved /\ StagedDeserved
=============================================================================
