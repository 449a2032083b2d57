# A specification of the alert cycle of `real_estate_tracker`

TLA+ modules, TLC configurations and TLAPS proofs for the real-estate alert
platform in `src/src/real_estate`. Paths below are relative to that directory,
or are found under `src/docs` and `src/tests`.

## 1. The system

A person defines *alerts*: a tree of conditions, a set of portals, a frequency.
A scheduler (or the command line) runs *cycles*: the due alerts are reduced to
portal searches, each search is served from a cache or scraped, the listings
are stored, the alerts evaluated, new matches recorded with one *notification*
per channel. A second job dispatches the notifications.

| Component | State | Operations |
|---|---|---|
| `application/use_cases/run_alert_cycle.py` | one unit of work per worker; portal semaphores, `alert_mutation_lock` per run | `run`, `_run_one` (thread per query), `_resolve_candidates`, `_evaluate_and_persist` |
| `planner_tick.py`, `services/search_planner.py` | none | list the due set, reduce each alert to one query per portal, group equal queries |
| repositories, `unit_of_work.py`, `database.py` | the SQLite tables | reads, `add_if_new`, `upsert`, `merge`; commit or roll back together |
| `dispatch_notifications.py`, `notification_repository.py` | `notifications` rows | `list_pending`, send, `mark_sent`, `mark_failed` |
| `infrastructure/scrapers/` | breaker state, token bucket, both per portal and process | `fetch` with retries, `allow`, `record_*`, `acquire` |
| `update_alert.py`, `create_alert.py`, `create_channel.py` | alerts, channels | one unit of work per call |
| normalizers, vocabularies, rule engine | none | pure functions |
| scheduler, CLI, dashboard, composition root | job schedule | start cycles, dispatches, edits |

How they interact. Worker threads of one run share the aggregates that
`list_due` loaded, the portal's scraper and two kinds of locks; processes share
only the database. SQLite has a single write lock, taken by a session's first
write and held to its commit; reads before that are not isolated from other
sessions' commits. So nearly every decision is taken on a row read before the
lock under which it is acted on. Cycles and dispatchers meet in the
`notifications` table and in that lock; the scheduler, the command line and the
dashboard start cycles and dispatches independently of each other.

What is hard here, and what makes each part correct:

- *the cycle*: match insertion races between portals and processes, two locks
  taken in opposite orders, workers that die between flush and commit. Correct:
  a pair is matched once, `last_run_at` never runs ahead of the matches, a match
  and its notifications appear together, workers end, due alerts are run.
- *the alert aggregate*: every save rewrites the condition tree from a stale
  copy, and the dashboard's form sends fields nobody touched. Correct: exactly
  one tree and other people's edits kept; in fact at least one tree, and an
  exact save when nobody interfered.
- *timing*: a job interval, per-alert frequencies, a cache counted from the
  start of a worker that then queues, runs started by hand in between. Correct:
  a listing reaches the alerts it satisfies within a bound.
- *listings*: dirty columns and price comparisons against a stale row, a content
  hash that suppresses later work. Correct: the price series ends at the price,
  a hash stands for what is stored.
- *the dispatcher*: send before commit, retries with a limit, head-of-line
  notifications. Correct: SENT means delivered, settled is final, sendable ones
  settle.
- *the service as a whole*: a match and what the user hears of it are decided in
  different transactions of different processes. Correct: a match is reported
  once, owed to the channels of that instant, and settled.
- *from conditions to matches*: what an alert asks for is reduced to a URL, and
  what a listing is comes back from that URL, not from the listing. Correct:
  reducing loses no listing, labels, prices and sizes survive scraper and
  normalizer, a match satisfies its alert.
- *the scraper*: results of old fetches reach a breaker that has moved on;
  sleeping under a lock. Correct: state and count agree, the request budget
  holds, an open circuit is quiet, it closes again.

`PROJECT.json` lists every component with its status, and every hazard at its
line with the properties aimed at it.

## 2. Modules

**`RunAlertCycle`** is the core: `RunAlertCycle.run`, `_run_one` and what they
call, for any number of processes (*runners*). A worker is a pair of runner and
query with a program counter:

| `pc` | code |
|---|---|
| `waiting` | `_run_one` before the portal semaphore |
| `fetching`, `ingesting` | inside `_resolve_candidates`: the scrape; the listing loop, cache and audit |
| `evaluating` | `_evaluate_and_persist` between two alerts |
| `locked` | inside `alert_mutation_lock` |
| `recording` | the `except ScraperError` branch |
| `done`, `failed`, `aborted` | committed; failure recorded; rolled back by another exception |

A session's writes (`staged`, `queued`, `marked`, and for a scrape `ids`) stay
private until `Commit`. `dbWriter` is SQLite's write lock. `absent` is a row
the worker read as missing and is about to insert: if somebody commits it first
the INSERT is an `IntegrityError`. Every way of leaving the unit of work by
an exception is `RollBack`. Where the busy timeout (5 s) can strike is
`BusyTimeout`: a blocked writer, when the environment has slow writers, or when
the holder cannot move (`Stalled`).

**`MatchOutbox`** is the abstract promise of the cycle to the dispatcher: a
match appears once, and with it, atomically, a notification for every channel
enabled at that moment. `RunAlertCycle` implements it (`PublishesOutbox`, by
`INSTANCE` with a refinement mapping).

**`AtomicCycle`** is the abstract specification of the whole: a query is served
in one instant, for some of the alerts it is planned for, with one answer, which
is stored in that instant or was stored by an earlier scrape of the query.
**`ServedCycle`** adds to `RunAlertCycle` a history of the answers its scrapes
have committed, and states with it that every interleaving of workers, with
every way they end, implements `AtomicCycle` (`ServesAtomically`): a committed
worker has done at its commit all that its code does over many statements, any
other worker has done nothing.

**`ListingIngest`** opens up the step `Ingest`: `find_unchanged_property_id`,
`normalize`, `properties.add` (get, merge, flush, price history) and
`portal_listings.upsert`, with the tables as every session sees them.
`session.get` reads the property's row (`ReadProperty`, into `existing`). If
there is one, `merge` finds it in the identity map; if there is none, `merge`
selects it again (`MergeReads`), so the row it compares columns with (`merged`)
can be one that the price comparison never saw. Only a row that comes after the
second read makes the INSERT fail (`Clashes`).

**`AlertRepository`** is one alert created, loaded, changed, merged and flushed
by cycle workers (`MergeRun`) and by `UpdateAlert` with what the dashboard's
edit form submits (`MergeUpdate`). The `search_alerts` row has its columns
(name, frequency, active, last run); a root condition row carries the session
that inserted it, standing for its fresh id. `merge` compares each column with
what it read (`ColumnsAfter`) and deletes the roots it read (`RootsAfter`).

**`AlertSchedule`** is the timing of the cycles, with a clock: the planner job
(`Fire`: skipped while its previous run is at work), `run-cycle` from the
command line at any moment, the due set by frequency, the portal's semaphore
(capacity one, as registered), the time-to-live counted from the worker's
start, scrapes that last. Moments of the past are ages. A listing appears once,
and `unseen` is how long each alert it satisfies has waited for it.

**`DispatchNotifications`** is the dispatcher over the `notifications` table,
with the channel's deliveries and refusals counted beside it. `Enqueue(new)` is
what a cycle's commit does to that table.

**`AlertService`** composes the two over one database: it extends
`RunAlertCycle`, instantiates `DispatchNotifications`, and lets every cycle step
that enlarges the outbox enqueue those notifications in the same step
(`Publish`), while a dispatcher's mark needs the write lock (`Mark`).

**`MatchNotifier`** is the abstract specification of the composition, what the
platform promises its user: report a pair once, owe a notification to each
channel enabled at that moment, deliver before `SENT`, settle for good. Its constant
`OneSender` tells the promise of one dispatcher from what remains of it when
several race: one that listed a notification before another settled it may send
it again and settle it anew, never reopen it. `AlertService` implements it
(`KeepsPromise`, `INSTANCE ... WITH`).

**`PortalScraper`** is `BaseScraper.fetch` for the workers of one process and
portal: circuit breaker, retries, token bucket, over a clock of ticks.

**`RuleEngine`** is what a condition tree means: the shapes of leaves the fields
allow, the operator strategies over a value that may be absent, groups. The
derived `price_per_m2` is absent without a price or a size, and is compared by
multiplying with the size instead of dividing by it. Trees have two levels,
which is what `_pushable_params` tells apart. It has no state.

**`PortalSearch`** follows an alert from its conditions to its matches:
`SearchPlanner` (`PushableParams`, `Plan`), `IdealistaScraper` (`Url`,
`RawListing`), `BaseNormalizer` with the vocabularies (`Normalized`), the stored
property, the evaluation at a scrape or a cache hit, and the form from which the
dashboard builds a tree (`FormTree`). A text is its letters and whether it has
capitals or accents, so that folding does something. The portal is external:
`Truth` is what a listing really is, `OnPage` what a URL lists, `NumberText` how
a card writes a price or a size. A listing for 0 euros with a size is not
`Storable`: deriving its price per square metre raises. The vocabulary of a
result page is `viviendas` for six types of dwelling.

`MC*` modules give constants to TLC; `*_proofs` hold the theorems.

## 3. Runs

All runs finish within a minute and a half with two workers, most in seconds.

| Run | Instance | Checks |
|---|---|---|
| `Cycle_processes` | 2 processes, 1 query, 2 alerts, 1 property, 1 channel, all faults | `TypeOK`, `UniqueMatch`, `CacheRefersToKnown`, `ServedInv`, `OnlyJustified`, `RunMeansMatched`, `PublishesOutbox`, `ServesAtomically` |
| `Service` | 1 process, 1 alert of 2 portals, 1 property, an enabled and a disabled channel, 1 dispatcher, refused deliveries; fair | `AttemptsExhausted`, `NobodyStuck`, `KeepsPromise`, `DueAlertsRun`, `ResolvedIsSettled` |
| `Schedule` | the planner and the command line, 2 alerts (frequency 2 and 3) on 2 queries of one portal, time-to-live 2, interval 1, scrapes of at most 1 tick | `TypeOK`, `DetectedInTime`, `NoStaleRun` |
| `Alert_saves` | 2 workers of one process, 2 updates, 2 names, trees and frequencies | `TypeOK`, `RootPresent`, `UndisturbedSaveIsExact` |
| `Alert_roots` | the same with 1 update and 1 name | violates `SingleRoot` |
| `Alert_edits` | the same with 1 update and 1 name | violates `CycleOnlyMarksRun` |
| `Ingest_store` | 2 processes, 2 listings, 2 prices or none, 2 labels, 1 price change | `TypeOK`, `PriceIsRecorded`, `PartsOnlyByMissedRow`, `FreshStoreIsExact` |
| `Dispatch_two` | 2 dispatchers, 4 notifications, one disabled, one unreadable, all faults | `TypeOK`, `SentWasDelivered`, `GivenUpAfterRefusals`, `NeverReopened` |
| `Dispatch_poison` | 1 dispatcher, the first of 2 unreadable; fair | violates `FailureIsolated` |
| `Search_plan` | 2 alerts over 13 trees, 4 listings, 4 provinces | `TypeOK`, `PushdownSound`, `PreciseFindsAll`, `UnknownNeverHelps` |
| `Search_labels` | the same with the 5 trees the form makes | violates `MatchesDeserved` |
| `Scraper_shared` | 2 workers, threshold 2, cooldown 2, 2 attempts, burst 1, token every 2 ticks, window 2; fair | `TypeOK`, `ClosedBelowThreshold`, `RateBudget`, `OpenIsQuiet`, `FetchEnds`, `Recovers` |

What the less obvious properties say: `RunMeansMatched`, an alert marked run has
every match its search resolved; `PublishesOutbox`, the cycle implements
`MatchOutbox`; `ServesAtomically`, it implements `AtomicCycle`, cache hits that
commit after the row they read was replaced included; `OnlyJustified`, a
reported pair satisfies, is stored, and was returned by a search planned for
that alert, although workers share candidates through the cache; `NobodyStuck`,
while a worker has not ended some worker can move: semaphores,
`alert_mutation_lock` and the write lock never close a cycle of waits but the
one (`Stalled`) the busy timeout ends; `GivenUpAfterRefusals`, a FAILED
notification was refused as often as `max_attempts` says, also when two
dispatchers overwrite each other's counts and never for a disabled channel;
`UnknownNeverHelps`, an alert with a page of its own that guesses nothing (no
NOT_EXISTS on, and no negation over, fields no card states) matches only what
satisfies it in full: a field the page leaves out never makes it true;
`ResolvedIsSettled`, what a worker resolved for an alert is
eventually SENT or FAILED on every channel enabled then, unless the worker
aborts; `DetectedInTime`, a listing waits at most
`Ttl + Frequency + Interval + 2 * Longest - 2` ticks for an alert it satisfies,
failed searches not counted; `NoStaleRun`, a run that starts a time-to-live
after the listing appeared reports it, whoever filled the cache;
`UndisturbedSaveIsExact`, a save that met no other leaves the alert as the
session has it; `PriceIsRecorded`, every price a property shows is in its
`price_history`, however stale the rows that the sessions compared with;
`PartsOnlyByMissedRow`, the history also ends at that price until some store's
`merge` finds a row that its own `get` had missed (TLC reaches such stores, and
states in which history and price differ after one).

*Why the bounds are enough.* Every race here is between two writers of one row,
so two sessions and one or two rows show it; a second alert makes the order of
alerts within a worker and the shared lock matter; a second portal is needed
for two workers of one process to share an alert (only `idealista` is
registered today: the code is written for more, and two processes show the same
races). In `Service` the two portals' workers share the alert and compete for
the write lock with the dispatcher; the disabled channel occupies half of a
batch of 2 and never fills it, a batch full of disabled notifications being the
hazard `dispatch_notifications.py:69`. In `Schedule` the second query of the
portal makes a search queue behind another, frequencies on both sides of the
time-to-live make runs that hit the cache and runs that do not, and a second
runner can take the due alerts just before the planner does; an interval of 1
is the shortest, the theorem has every other. In `Ingest_store` a listing
starts with a price or without and one price changes between two fetches, so
that sessions hold different prices, or a price and none, of one listing, beside
the different labels of their queries. A batch of two with
four notifications (`Dispatch_two`) makes a batch leave something behind, with a
disabled and an unreadable one among them. The
trees of `Search_plan` are one of each kind the planner treats differently (EQ
and other operators, two bounds, an overwritten bound, nested groups, a
top-level OR and NOT, a type or operation outside the tables), one that asks for
a field no card states (rooms; for the plot, any unstated field), besides those of
the form, and two alerts with every pair of them share or do not share a
search; one listing sits on the bounds for price, size and price per square
metre, one has no price, one costs 0 euros. Bounded counters: `MaxChanges`
(price changes), `Many` (deliveries are counted up to 2), `MaxAttempts` (refusals
are), `MaxWindow` (length
of the observed window), `Longest` (a portal's searches one after the other),
and counters that saturate where nothing tells values apart any more
(`failures` at the threshold, `age` at the cooldown or the frequency, `entry`
past its expiry, `since` at a full bucket). `sent` is bounded by the window
through the rate itself.

Two of a run's properties reach further than its instance and only the proofs
show it: `KeepsPromise` with several dispatchers (the run has one), `NobodyStuck`
with several processes (the run has one, with two workers).

Symmetry is used only in runs without liveness. `CHECK_DEADLOCK FALSE` stands
where the system may come to rest: sessions that save once, and notifications
that are all settled.

*Fairness.* Cycle: weak fairness of a worker's steps (a runnable thread runs),
of `PlannerTick` (the interval job), strong fairness of `CacheExpires` (time
passes, while entries are renewed in between). Portal failures, crashes,
channels and alerts falling due are not fair. `Service` has the same with no
worker failing for an outside reason, so what is shown is that contention alone
starves nobody, and for the dispatcher weak fairness of what only reads or
sends (the interval job, a started run) and strong fairness of marks: SQLite's
busy handler polls for the write lock, which cycles take and release in
between. Scraper: weak fairness of ticks and of admissions, strong fairness of a
fetch's steps (a thread queueing for the bucket's lock gets it eventually);
the portal's going up and down is free. `Schedule` needs no fairness: its
bounds are safety properties of a clock that does not pass over work to do.

## 4. What disagrees with the documentation

1. `SingleRoot`: two concurrent saves leave two root condition rows, which
   `orm.py:86` and `test_repositories.py:118` exclude; `_rebuild_tree` then
   raises for the whole `list_due`, that is for every alert.
2. `CycleOnlyMarksRun`: `alert_repository.py:150` says a cycle persists the
   updated `last_run_at`; it writes back the whole aggregate it loaded at its
   start (`run_alert_cycle.py:253`), so it undoes a rename, a change of
   frequency or a deactivation committed meanwhile.
3. `FailureIsolated`: `dispatch_notifications.py:22` isolates one delivery
   failure from the rest; a channel or alert that cannot be loaded stops all
   younger notifications for good.
4. `MatchesDeserved`: `search_planner.py:7` says that pushing conditions "only
   narrows what gets downloaded, never what counts as a match". The scraper
   labels every listing of a page with the type that was searched, so on
   `viviendas` an alert for flats matches penthouses, and the next search for
   penthouses relabels the flats.

Not checked, worth knowing:

- a message whose mark cannot be committed is sent again, although
  `01-architecture.md:177` and `08-sequence-diagrams.md:86` say that re-runs
  "never double-notify" (true of matches: `MatchNotifier` promises at least one
  message per notification);
- `06-search-scheduler.md:86` derives the time-to-live from the tightest
  frequency and line 105 coalesces searches in flight; the code has one
  constant, and two processes scrape the same page at the same time;
- a listing for 0 euros with a size raises after `normalize`
  (`property_repository.py:36`), outside the `try` that `run_alert_cycle.py:189`
  describes as "skip this listing only": the worker rolls back, at every scrape
  while the listing is on the page;
- the dashboard's edit form always sends a frequency, of those its slider
  offers, and `is_active`, although `update_alert.py:1` speaks of the fields
  that changed: submitting an old page undoes both;
- a search without a province on the same page relabels the listings of a
  precise one to province `"00"`, which the precise alert then misses in the
  cache until the next scrape;
- a scrape whose transaction fails for another reason than a `ScraperError`
  leaves no `search_executions` row (it is rolled back with the rest, see
  `RollBack` of `RunAlertCycle`), although `search_execution_repository.py:18`
  says "one row per attempt, success or failure"; no run checks it;
- overlapping searches of one process log the same price twice, although
  `03-database.md:227` says a price row means a change: the price is compared
  with a row read before the write lock (`Stored` of `ListingIngest`);
- a property's `price_history` can end at another price than the property's
  own: a worker's `get` finds no row, another stores the listing at P, the
  worker's `merge` reads P, a third stores it at Q, and the worker, whose page
  says P, leaves the column at Q and appends P (`PartsOnlyByMissedRow` says this
  is the only way). In the same case `first_seen_at`, kept by
  `property_repository.py:133` only when `get` found the row, is set to now;
- a store over a stale row may leave the property with another price or label
  than the payload whose hash it stores, and that payload is then skipped as
  unchanged (`FreshStoreIsExact` excludes it for rows that are current);
- a match created while no channel exists is never notified (this is what
  `MatchOutbox` states);
- with two portals `last_run_at` may go back, and an alert is marked run
  although one of its searches failed;
- price bounds are part of a search's signature and not of its URL, so alerts
  that differ in price alone scrape the same page twice;
- an alert with a top-level OR or NOT, or without a type, is searched on the
  page of dwellings for sale only; auctions and transfers are searched as sales,
  and stored as such; a property found by a search without a province gets
  province `"00"`, which satisfies every `NEQ`;
- cards state no rooms, bathrooms or features, so a condition on them, but for
  `NOT_EXISTS` and under a NOT, is never satisfied.

## 5. Proofs

Each component has an inductive invariant in its own module, and each proof
module shows `Init => IInv`, `IInv /\ [Next]_vars => IInv'` (one lemma or step
per action) and then the theorems, for every value of the constants that the
module's assumptions allow.

- **Cycle** (`RunAlertCycle_proofs`). `UniqueMatch` alone is not inductive. It
  needs that uncommitted rows belong to the holder of the write lock
  (`WritesUnderLock`) and are new (`StagedFresh`); for the second, that nobody
  else can commit meanwhile, and that a worker with nothing left to do holds the
  lock (`HasWork`). `MarkedMatched` carries `RunMeansMatched`: what satisfies an
  alert marked run is committed or staged. `StagedQueued` carries the
  refinement: what is queued is staged matches times the channels *now*, which
  is true because the channels cannot change while a writer holds the lock, and
  only false reads before it could break it. `LocksHeld` (a lock is held by a
  worker inside its section) gives `DeadlockFree`: follow the holder of the
  write lock to the holder of the alert lock it waits for, which by `Stalled` is
  the case the busy timeout ends.
- **The cycle is atomic** (same module). `CycleIsAtomic` maps every step of
  `RunAlertCycle` to a step of `AtomicCycle` or a stutter; the only one that is
  no stutter beside events of the environment is `Commit`. It needs
  `ServedInv`: a row that can be hit, and the candidates of a worker that hit
  one, are a whole answer of a committed scrape of that query (`HitsAnswered`),
  candidates are what the search lists (`Resolved`), and what is staged is
  deserved (`StagedDeserved`) and, by `MarkedMatched`, complete. What a commit
  publishes is therefore exactly the deserved pairs not reported before.
  `AtomicPublishes` puts `AtomicCycle` above `MatchOutbox`.
- **AlertService_proofs**: the composition keeps `MatchNotifier`'s promise and
  gives up only exhausted notifications, from the invariants of both components
  (`IInv` of the cycle, those of `DispatchNotifications_proofs` by `INSTANCE`)
  and one fact about both: a notification exists exactly for what is in the
  outbox, whose pairs are matched. `ServiceKeepsPromise` has no assumption on the
  number of dispatchers: with several, a mark may settle what another settled
  before, which is `Open` of `MatchNotifier`. `ServiceDeadlockFree` carries the
  cycle's freedom from deadlock over to the composition.
- **AlertSchedule_proofs**: `Detection` and `Freshness` for any alerts, queries,
  frequencies and runners. The induction follows a wait backwards: an entry
  without the listing is older than the wait (`EntryIsOld`), so a run that ended
  without it started within the time-to-live (`StaleStart`), so an alert not due
  was run too early or is being searched (`RunTooEarly`), so a due one waits for
  the planner's next free firing or is being searched (`DueSoon`,
  `SearchedInTime`); what a search waits for the semaphore is bounded by
  `QueueMoves`.
- **AlertRepository_proofs**: `RootPresent` from the commit inserting what it
  replaces; `UndisturbedSaves` from `NothingMissed`, which needs that a root
  once replaced never comes back (`RootsOfDone`): while the loaded root is
  there, nobody has saved.
- **DispatchNotifications_proofs**: `SentWasDelivered`, `NeverReopened`,
  `GivenUpAfterRefusals` for any number of dispatchers from `IInv` (a mark has a
  notification, and a successful one was delivered; a count is never ahead of
  the refusals, and the one a dispatcher is about to write is not either:
  `CountedWasRefused`); `FailedIsExhausted` and `SettledStays` under the
  assumption of one dispatcher, from `OneInv` (what it listed and read is still
  so).
- **ListingIngest_proofs**: `PriceIsRecorded` holds in the committed tables
  and in the writer's (`IInv`); the keys are that a row once read is never
  deleted (`ReadRowStays`) and that `merge` compares with the row `get` returned
  or `get` returned none (`HasListing`): then whoever writes a price records it,
  and whoever leaves the column alone leaves a recorded price.
  `SeriesPartsOnlyWhenMissed`: when both reads agree, column and history row are
  decided by the same comparison, even when it is stale.
  `FreshStoresAreExact`: a merge over a row that still is what it read writes
  every column that differs.
- **PortalSearch_proofs**: `PushdownSound` needs no invariant but that trees do
  not change. Its heart is `PushedIsImplied`: a parameter that is set comes from
  the last leaf of an AND that sets it, and that leaf holds of every property
  the tree accepts; that there is a last leaf is well-foundedness. `FindsAll`
  adds that labels and vocabularies are inverse (`TypeRoundTrip`,
  `ProvinceRoundTrip`, `MoneyRoundTrip`, `AreaRoundTrip`) and that a tree cannot
  tell apart two properties that agree on what a card states (`SameVerdict`).
  `MatchesSafe` needs `StoredFromPage`: a stored property is a listing of a page
  under the labels of its search, whichever search that was. Then the card and
  the full listing agree but for what the card leaves out, and a tree that
  guesses nothing holds of the fuller one when it holds of the other, leaf by
  leaf (`LeafFuller`), group by group (`GroupFuller`), `FullerVerdict`.
  `PlanPartitions` shows of `Plan` what the cycle assumes of its constant
  `PlanOf` on one portal (`PortalAssumption`: no alert in two queries) and that
  no two queries of a run share a signature, hence a cache row.
  `FormsArePrecise` says that every alert made with the dashboard's form is one
  of those these theorems speak of.
- **PortalScraper_proofs**: `ClosedBelowThreshold` directly; `RateBudget` from
  `BudgetInv`, which adds the requests in flight and the tokens at hand to the
  requests sent; `QuietWhenOpen` from `QuietInv`, which counts the attempts the
  fetches admitted before the opening have left, as a set of pairs.

Assumed: the named `ASSUME`s of the modules (TLC evaluates them in the runs),
and for `GivesUpInTime` and `SettledForGood` that there is one dispatcher (with
two both fail: one may overwrite the other's mark). Only model-checked: all liveness (`DueAlertsRun`,
`ResolvedIsSettled`, `FetchEnds`, `Recovers`). Liveness under fairness, and what
recursive definitions compute, are out of the prover's reach.

## 6. Abstractions and what is not modelled

- External behaviour, modelled as the code uses it: SQLite (reads outside a
  write transaction see the last commit, one writer, busy timeout), the ORM's
  `merge` (dirty columns, orphans deleted), the portal, the Telegram channel.
- In the cycle a rule verdict is a constant relation `Satisfies`; a search's
  result is any subset of what its portal can list. Conditions and listings that
  change during a run are seen in `AlertRepository` and `ListingIngest`, not in
  the cycle. The order of alerts in a worker is free. A run is shorter than the
  cache's time-to-live; `AlertSchedule` has the clock, and there a transaction
  takes no time.
- In `AlertService` a dispatcher's mark gets the lock within the busy timeout
  and every row can be loaded; `DispatchNotifications` has the marks that time
  out, the crashes and the unreadable rows.
- In `AlertRepository` a load reads the alert's row and its condition rows in
  one step, and so does a merge; the ORM loads the conditions by a second
  SELECT, so a save committed just between the two is not seen torn there.
- In `PortalScraper` `up` also stands for nothing else failing: while it is
  false an attempt may fail with an `httpx.HTTPError`, which is retried, or with
  any other exception, which ends the fetch.
- The `portals` row exists (creating an alert creates it); the subscriptions of
  an alert do not change; a price's currency is part of it.
- In `PortalSearch` serving a query is one step, one portal is registered, the
  hash of a signature has no collisions, a URL always lists the same listings (a
  scrape sees any part of them), and the provinces of TLC's instance are four of
  the 52 (the proofs hold for any, under `NamesAssumption`, which says that
  folded names tell provinces apart). Text and flag conditions are left out.
- Not modelled: HTML selection and text formatting (what they yield is external
  here), encryption and settings, the listings and the navigation of the user
  interfaces, migrations, read-only lists, the parsers of counts and flags and
  the issues the normalizer counts (only the log and a dashboard table show
  them), text and flag conditions, the `Decimal` context. They are pure
  functions or glue with no state of their own that another part decides on.

## 7. Plan

Done: the cycle with its refinement, the dispatcher, their composition with its
abstract specification, the cycle as one atomic step per query, the schedule
with its bound, ingestion, the alert aggregate, the scraper, the way from
conditions to matches with the form, and the proofs of all of them. What could
be proved next:

- for `ListingIngest`, what a stale hash can still get wrong;
- what the end of an alert's creation and of an edit leave in the tables when no
  cycle is at work.

What could be modelled next:

1. Text and flag conditions in `RuleEngine`; the counts, issues and fatal
   failures of `BaseNormalizer.normalize` once a scraper states fields that can
   cause them (no card of `idealista` does).
2. `RunAlertCycle` with `PlanOf` and `Satisfies` taken from `PortalSearch`, so
   that edits change plans between runs.
3. Failed searches in the schedule's bound: an alert of several portals is
   marked run by the portal that succeeded.
