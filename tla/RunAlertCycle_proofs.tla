----------------------- MODULE RunAlertCycle_proofs -----------------------
(* Proofs about RunAlertCycle, for any runners, alerts, queries, portals,   *)
(* properties, channels, plans and faults.                                  *)
EXTENDS ServedCycle, FiniteSetTheorems, TLAPS

-----------------------------------------------------------------------------
LEMMA WorkerFields ==
  ASSUME NEW w \in Workers
  PROVE  w[1] \in Runners /\ w[2] \in Queries
  BY DEF Workers

LEMMA FirstInsertsType ==
  ASSUME TypeOK, NEW q \in Queries, NEW found \in SUBSET Properties,
         NEW row \in FirstInserts(q, found)
  PROVE  row \subseteq Properties \union Queries
  BY DEF FirstInserts, TypeOK

LEMMA UnmatchedType ==
  ASSUME TypeOK, NEW w \in Workers, NEW a
  PROVE  Unmatched(w, a) \subseteq Properties
  BY DEF Unmatched, TypeOK

(* Every action leaves every variable in its type. *)
LEMMA RollBackType ==
  ASSUME TypeOK, NEW gone, NEW end \in PCs, RollBack(gone, end),
         audit' \in [Workers -> {"none", "attempted", "recorded"}]
  PROVE  TypeOK'
  BY DEF TypeOK, RollBack, db

LEMMA TypeStep == TypeOK /\ LockedShape /\ [Next]_vars => TypeOK'
<1> SUFFICES ASSUME TypeOK, LockedShape, [Next]_vars PROVE TypeOK'
  OBVIOUS
<1> USE MarketAssumption, NoOneAssumption
<1>1. ASSUME NEW w \in Workers, WorkerStep(w) PROVE TypeOK'
  <2> w[1] \in Runners /\ w[2] \in Queries
    BY WorkerFields
  <2>1. CASE CacheHit(w)
    BY <2>1 DEF CacheHit, TypeOK, PCs, Ended, db, locks
  <2>2. CASE CacheMiss(w)
    BY <2>2 DEF CacheMiss, TypeOK, PCs, Resolving, db, locks
  <2>3. CASE FetchReturns(w)
    <3>1. PICK found \in SUBSET Listed[w[2]] :
            /\ ids' = [ids EXCEPT ![w] = found]
            /\ \E row \in FirstInserts(w[2], found) : absent' = [absent EXCEPT ![w] = row]
      BY <2>3 DEF FetchReturns
    <3>2. PICK row \in FirstInserts(w[2], found) : absent' = [absent EXCEPT ![w] = row]
      BY <3>1
    <3>3. found \in SUBSET Properties
      OBVIOUS
    <3>4. row \subseteq Properties \union Queries
      BY <3>3, <3>2, FirstInsertsType
    <3> QED
      BY <2>3, <3>1, <3>2, <3>3, <3>4 DEF FetchReturns, TypeOK, PCs, Resolving, db, locks
  <2>4. CASE Ingest(w)
    BY <2>4 DEF Ingest, TypeOK, PCs, db
  <2>5. ASSUME NEW a \in Alerts, LockAlert(w, a) PROVE TypeOK'
    <3>1. PICK row \in SUBSET Properties : absent' = [absent EXCEPT ![w] = row]
      <4>1. Unmatched(w, a) \subseteq Properties
        BY UnmatchedType
      <4>2. \A row \in (IF Unmatched(w, a) = {} THEN {{}} ELSE {{p} : p \in Unmatched(w, a)}) :
              row \in SUBSET Properties
        BY <4>1
      <4> QED
        BY <2>5, <4>2 DEF LockAlert
    <3> QED
      BY <2>5, <3>1 DEF LockAlert, TypeOK, PCs, NeedsDb, db
  <2>6. CASE PersistAlert(w)
    <3>1. doing[w] \in Alerts /\ absent[w] \subseteq Properties
      BY <2>6 DEF PersistAlert, LockedShape
    <3>2. Rows(w, doing[w]) \subseteq MatchRows
      BY <3>1, UnmatchedType DEF Rows, MatchRows
    <3>3. Notices(w, doing[w]) \subseteq MatchRows \X Channels
      BY <3>2 DEF Notices, TypeOK
    <3> QED
      BY <2>6, <3>1, <3>2, <3>3 DEF PersistAlert, TypeOK, PCs, db
  <2>7. CASE Commit(w)
    <3>1. CASE audit[w] = "attempted"
      <4>1. known' \subseteq Properties /\ cached' \subseteq Queries
        BY <2>7, <3>1 DEF Commit, TypeOK
      <4>2. cacheIds' = [cacheIds EXCEPT ![w[2]] = ids[w]]
        BY <2>7, <3>1 DEF Commit
      <4>3. live' = [live EXCEPT ![w[2]] = Runners]
        BY <2>7, <3>1 DEF Commit
      <4>4. cacheIds' \in [Queries -> SUBSET Properties] /\ live' \in [Queries -> SUBSET Runners]
        BY <4>2, <4>3 DEF TypeOK
      <4>5. audit' \in [Workers -> {"none", "attempted", "recorded"}]
        BY <2>7, <3>1 DEF Commit, TypeOK
      <4>6. matches' \subseteq MatchRows /\ outbox' \subseteq MatchRows \X Channels
        BY <2>7 DEF Commit, TypeOK
      <4> QED
        BY <2>7, <4>1, <4>4, <4>5, <4>6 DEF Commit, TypeOK, PCs, Ended
    <3>2. CASE audit[w] # "attempted"
      BY <2>7, <3>2 DEF Commit, TypeOK, PCs, Ended
    <3> QED
      BY <3>1, <3>2
  <2>8. CASE RecordFailure(w)
    BY <2>8 DEF RecordFailure, TypeOK, PCs, Ended, db, locks
  <2>9. CASE IntegrityError(w) \/ BusyTimeout(w)
    BY <2>9, RollBackType DEF IntegrityError, BusyTimeout, TypeOK, PCs, Ended
  <2> QED
    BY <1>1, <2>1, <2>2, <2>3, <2>4, <2>5, <2>6, <2>7, <2>8, <2>9 DEF WorkerStep
<1>2. ASSUME NEW w \in Workers, FetchFails(w) \/ Raises(w) PROVE TypeOK'
  <2>1. CASE FetchFails(w)
    BY <2>1 DEF FetchFails, TypeOK, PCs, NeedsDb, db, locks
  <2>2. CASE Raises(w)
    BY <2>2, RollBackType DEF Raises, TypeOK, PCs, Ended
  <2> QED
    BY <1>2, <2>1, <2>2
<1>3. ASSUME NEW r \in Runners, PlannerTick(r) PROVE TypeOK'
  <2>1. \A q : Planned(q) \subseteq Alerts
    BY DEF Planned, TypeOK
  <2> QED
    BY <1>3, <2>1 DEF PlannerTick, TypeOK, PCs, Ended, db, locks
<1>4. ASSUME NEW r \in Runners, Crash(r) PROVE TypeOK'
  BY <1>4, RollBackType DEF Crash, TypeOK, PCs, Ended
<1>5. ASSUME NEW c \in Channels, CreateChannel(c) PROVE TypeOK'
  BY <1>5 DEF CreateChannel, TypeOK, locks, session
<1>6. ASSUME NEW a \in Alerts, BecomesDue(a) PROVE TypeOK'
  BY <1>6 DEF BecomesDue, TypeOK, locks, session
<1>7. ASSUME NEW q \in Queries, CacheExpires(q) PROVE TypeOK'
  BY <1>7 DEF CacheExpires, TypeOK, locks, session
<1>8. CASE UNCHANGED vars
  BY <1>8 DEF TypeOK, vars, db, locks, session
<1> QED
  BY <1>1, <1>2, <1>3, <1>4, <1>5, <1>6, <1>7, <1>8 DEF Next

-----------------------------------------------------------------------------
Strengthening == LockedShape /\ HasWork /\ MarkedMatched /\ WritesUnderLock /\ StagedFresh
                   /\ StagedQueued /\ UniqueMatch /\ CacheRefersToKnown

LEMMA PairsUnion == \A A, B : Pairs(A \union B) = Pairs(A) \union Pairs(B)
  BY DEF Pairs

LEMMA PairsMember ==
  ASSUME NEW rows, NEW a, NEW p, NEW w, <<a, p, w>> \in rows
  PROVE  <<a, p>> \in Pairs(rows)
<1>1. <<a, p>> = <<<<a, p, w>>[1], <<a, p, w>>[2]>>
  OBVIOUS
<1> QED
  BY <1>1 DEF Pairs

(* A rolled-back worker leaves nothing behind that another one relies on. *)
LEMMA RollBackStep ==
  ASSUME IInv, NEW gone, NEW end \in {"idle", "aborted"}, RollBack(gone, end)
  PROVE  Strengthening'
<1> USE DEF IInv, TypeOK
<1>1. LockedShape'
  BY DEF RollBack, LockedShape
<1>2. HasWork'
  BY DEF RollBack, HasWork
<1>3. WritesUnderLock'
  BY DEF RollBack, WritesUnderLock
<1>4. StagedFresh' /\ StagedQueued'
  BY DEF RollBack, StagedFresh, StagedQueued, db, Pairs
<1>5. UniqueMatch' /\ CacheRefersToKnown'
  BY DEF RollBack, UniqueMatch, CacheRefersToKnown, db
<1>6. MarkedMatched'
  BY DEF RollBack, MarkedMatched, db, Pairs
<1> QED
  BY <1>1, <1>2, <1>3, <1>4, <1>5, <1>6 DEF Strengthening

(* Steps that write no row of a match, notification, channel or listing. *)
LEMMA QuietStep ==
  ASSUME IInv, UNCHANGED <<matches, channels, known, cacheIds, staged, queued>>,
         dbWriter' = dbWriter \/ dbWriter = NoOne
  PROVE  WritesUnderLock' /\ StagedFresh' /\ StagedQueued' /\ UniqueMatch' /\ CacheRefersToKnown'
  BY NoOneAssumption
  DEF IInv, WritesUnderLock, StagedFresh, StagedQueued, UniqueMatch, CacheRefersToKnown, Pairs

LEMMA PersistStep ==
  ASSUME IInv, NEW w \in Workers, PersistAlert(w)
  PROVE  Strengthening'
<1> USE NoOneAssumption DEF IInv
<1> DEFINE new == Rows(w, doing[w])
<1>1. /\ UNCHANGED <<matches, channels, known, cacheIds>>
      /\ dbWriter' = w /\ dbWriter \in {NoOne, w}
      /\ staged' = [staged EXCEPT ![w] = @ \union new]
      /\ queued' = [queued EXCEPT ![w] = @ \union (new \X channels)]
  BY DEF PersistAlert, CanWrite, Notices, db
<1>2. \A m \in new : m[3] = w /\ <<m[1], m[2]>> \notin Pairs(matches)
  <2>1. \A p \in absent[w] : <<doing[w], p>> \notin Pairs(matches)
    BY DEF PersistAlert, UniqueHolds
  <2>2. \A p \in Unmatched(w, doing[w]) : <<doing[w], p>> \notin Pairs(matches)
    BY DEF Unmatched
  <2> QED
    BY <2>1, <2>2 DEF Rows
<1>3. LockedShape' /\ HasWork'
  BY <1>1 DEF PersistAlert, LockedShape, HasWork, TypeOK
<1>4. WritesUnderLock'
  BY <1>1 DEF WritesUnderLock, TypeOK
<1>5. StagedFresh'
  BY <1>1, <1>2 DEF StagedFresh, TypeOK, Pairs
<1>6. StagedQueued'
  BY <1>1 DEF StagedQueued, TypeOK
<1>7. UniqueMatch' /\ CacheRefersToKnown'
  BY <1>1 DEF UniqueMatch, CacheRefersToKnown
<1>8. MarkedMatched'
  <2>1. \A p \in ids[w] : <<doing[w], p>> \in Satisfies =>
          <<doing[w], p>> \in Pairs(matches) \union Pairs(new)
    <3>1. \A p \in Unmatched(w, doing[w]) : <<doing[w], p, w>> \in new
      BY DEF Rows
    <3>2. \A p \in Unmatched(w, doing[w]) : <<doing[w], p>> \in Pairs(new)
      BY <3>1, PairsMember
    <3> QED
      BY <3>2 DEF Unmatched
  <2>2. \A v \in Workers : Pairs(staged[v]) \subseteq Pairs(staged'[v])
    BY <1>1 DEF TypeOK, Pairs
  <2>3. Pairs(new) \subseteq Pairs(staged'[w])
    BY <1>1 DEF TypeOK, Pairs
  <2>4. /\ marked' = [marked EXCEPT ![w] = @ \union {doing[w]}]
        /\ ids' = ids /\ pc' = [pc EXCEPT ![w] = "evaluating"]
    BY DEF PersistAlert
  <2> QED
    BY <1>1, <2>1, <2>2, <2>3, <2>4 DEF MarkedMatched, TypeOK
<1> QED
  BY <1>3, <1>4, <1>5, <1>6, <1>7, <1>8 DEF Strengthening

LEMMA CommitStep ==
  ASSUME IInv, NEW w \in Workers, Commit(w)
  PROVE  Strengthening'
<1> USE NoOneAssumption DEF IInv
<1>1. dbWriter = w
  BY DEF Commit, HasWork
<1>2. \A v \in Workers : v # w => staged[v] = {} /\ queued[v] = {}
  BY <1>1 DEF WritesUnderLock
<1>3. \A v \in Workers : staged'[v] = {} /\ queued'[v] = {}
  BY <1>2 DEF Commit, TypeOK
<1>4. LockedShape' /\ HasWork'
  BY <1>1 DEF Commit, LockedShape, HasWork, TypeOK
<1>5. WritesUnderLock' /\ StagedFresh' /\ StagedQueued'
  BY <1>3 DEF WritesUnderLock, StagedFresh, StagedQueued
<1>6. UniqueMatch'
  <2>1. \A m \in matches, n \in staged[w] : ~(m[1] = n[1] /\ m[2] = n[2])
    BY DEF StagedFresh, Pairs
  <2>2. \A m, n \in staged[w] : m[1] = n[1] /\ m[2] = n[2] => m = n
    <3>1. \A m, n \in MatchRows : m[1] = n[1] /\ m[2] = n[2] /\ m[3] = n[3] => m = n
      BY DEF MatchRows
    <3> QED
      BY <3>1 DEF StagedFresh, TypeOK
  <2>3. matches' = matches \union staged[w]
    BY DEF Commit
  <2> QED
    BY <2>1, <2>2, <2>3 DEF UniqueMatch
<1>7. CacheRefersToKnown'
  <2>1. CASE audit[w] = "attempted"
    BY <2>1 DEF Commit, CacheRefersToKnown, TypeOK
  <2>2. CASE audit[w] # "attempted"
    BY <2>2 DEF Commit, CacheRefersToKnown
  <2> QED
    BY <2>1, <2>2
<1>8. MarkedMatched'
  <2>1. Pairs(matches') = Pairs(matches) \union Pairs(staged[w])
    BY PairsUnion DEF Commit
  <2>2. \A v \in Workers : v # w => Pairs(staged[v]) = {}
    BY <1>2 DEF Pairs
  <2>3. marked' = marked /\ ids' = ids /\ pc' = [pc EXCEPT ![w] = "done"]
    BY DEF Commit
  <2> QED
    BY <2>1, <2>2, <2>3 DEF MarkedMatched, TypeOK
<1> QED
  BY <1>4, <1>5, <1>6, <1>7, <1>8 DEF Strengthening

LEMMA StrengtheningStep == IInv /\ [Next]_vars => Strengthening'
<1> SUFFICES ASSUME IInv, [Next]_vars PROVE Strengthening'
  OBVIOUS
<1> USE NoOneAssumption
<1>0. TypeOK /\ LockedShape /\ HasWork /\ MarkedMatched
  BY DEF IInv
<1>1. ASSUME NEW w \in Workers, WorkerStep(w) PROVE Strengthening'
  <2>1. CASE CacheHit(w) \/ CacheMiss(w) \/ RecordFailure(w)
    <3>1. LockedShape' /\ HasWork' /\ MarkedMatched'
      BY <2>1, <1>0 DEF CacheHit, CacheMiss, RecordFailure, LockedShape, HasWork, MarkedMatched, TypeOK, db, locks
    <3> QED
      BY <2>1, <3>1, QuietStep DEF CacheHit, CacheMiss, RecordFailure, db, locks, Strengthening
  <2>2. CASE FetchReturns(w)
    <3>1. LockedShape' /\ HasWork' /\ MarkedMatched'
      BY <2>2, <1>0 DEF FetchReturns, LockedShape, HasWork, MarkedMatched, TypeOK, db, locks
    <3> QED
      BY <2>2, <3>1, QuietStep DEF FetchReturns, db, locks, Strengthening
  <2>3. CASE Ingest(w)
    <3>1. LockedShape' /\ HasWork' /\ MarkedMatched'
      BY <2>3, <1>0 DEF Ingest, CanWrite, LockedShape, HasWork, MarkedMatched, TypeOK, db
    <3>2. dbWriter' = dbWriter \/ dbWriter = NoOne
      BY <2>3 DEF Ingest, CanWrite
    <3> QED
      BY <2>3, <3>1, <3>2, QuietStep DEF Ingest, db, Strengthening
  <2>4. ASSUME NEW a \in Alerts, LockAlert(w, a) PROVE Strengthening'
    <3>1. absent' \in [Workers -> SUBSET (Properties \union Queries)] /\ absent'[w] \subseteq Properties
      <4>1. Unmatched(w, a) \subseteq Properties
        BY <1>0, UnmatchedType
      <4>2. \A row \in (IF Unmatched(w, a) = {} THEN {{}} ELSE {{p} : p \in Unmatched(w, a)}) :
              row \in SUBSET Properties
        BY <4>1
      <4> QED
        BY <2>4, <4>2, <1>0 DEF LockAlert, TypeOK
    <3>2. LockedShape' /\ HasWork' /\ MarkedMatched'
      BY <2>4, <3>1, <1>0 DEF LockAlert, LockedShape, HasWork, MarkedMatched, TypeOK, db
    <3> QED
      BY <2>4, <3>2, QuietStep DEF LockAlert, db, Strengthening
  <2>5. CASE PersistAlert(w)
    BY <2>5, PersistStep
  <2>6. CASE Commit(w)
    BY <2>6, CommitStep
  <2>7. CASE IntegrityError(w) \/ BusyTimeout(w)
    BY <2>7, RollBackStep DEF IntegrityError, BusyTimeout
  <2> QED
    BY <1>1, <2>1, <2>2, <2>3, <2>4, <2>5, <2>6, <2>7 DEF WorkerStep
<1>2. ASSUME NEW w \in Workers, FetchFails(w) \/ Raises(w) PROVE Strengthening'
  <2>1. CASE FetchFails(w)
    <3>1. LockedShape' /\ HasWork' /\ MarkedMatched'
      BY <2>1, <1>0 DEF FetchFails, LockedShape, HasWork, MarkedMatched, TypeOK, db, locks
    <3> QED
      BY <2>1, <3>1, QuietStep DEF FetchFails, db, locks, Strengthening
  <2>2. CASE Raises(w)
    BY <2>2, RollBackStep DEF Raises
  <2> QED
    BY <1>2, <2>1, <2>2
<1>3. ASSUME NEW r \in Runners, PlannerTick(r) PROVE Strengthening'
  <2>1. LockedShape' /\ HasWork' /\ MarkedMatched'
    BY <1>3, <1>0 DEF PlannerTick, LockedShape, HasWork, MarkedMatched, TypeOK, db, locks
  <2> QED
    BY <1>3, <2>1, QuietStep DEF PlannerTick, db, locks, Strengthening
<1>4. ASSUME NEW r \in Runners, Crash(r) PROVE Strengthening'
  BY <1>4, RollBackStep DEF Crash
<1>5. ASSUME NEW c \in Channels, CreateChannel(c) PROVE Strengthening'
  <2>1. \A w \in Workers : staged'[w] = {} /\ queued'[w] = {}
    BY <1>5 DEF CreateChannel, session, IInv, WritesUnderLock
  <2>2. StagedQueued' /\ StagedFresh' /\ WritesUnderLock'
    BY <2>1 DEF StagedQueued, StagedFresh, WritesUnderLock
  <2> QED
    BY <1>5, <2>2
    DEF CreateChannel, IInv, LockedShape, HasWork, MarkedMatched, UniqueMatch, CacheRefersToKnown,
        locks, session, Strengthening
<1>6. ASSUME NEW a \in Alerts, BecomesDue(a) PROVE Strengthening'
  BY <1>6, QuietStep, <1>0 DEF BecomesDue, LockedShape, HasWork, MarkedMatched, locks, session, Strengthening
<1>7. ASSUME NEW q \in Queries, CacheExpires(q) PROVE Strengthening'
  BY <1>7, QuietStep, <1>0 DEF CacheExpires, LockedShape, HasWork, MarkedMatched, locks, session, Strengthening
<1>8. CASE UNCHANGED vars
  BY <1>8, QuietStep, <1>0 DEF LockedShape, HasWork, MarkedMatched, vars, db, locks, session, Strengthening
<1> QED
  BY <1>1, <1>2, <1>3, <1>4, <1>5, <1>6, <1>7, <1>8 DEF Next

-----------------------------------------------------------------------------
(* The locks: who holds one is inside its section. *)

LEMMA RollBackReleases ==
  ASSUME IInv, NEW gone, NEW end \in Ended, RollBack(gone, end)
  PROVE  LocksHeld'
<1> USE NoOneAssumption
<1>0. TypeOK /\ LocksHeld
  BY DEF IInv
<1>1. /\ \A v \in Workers : pc'[v] = IF v \in gone THEN end ELSE pc[v]
      /\ \A r \in Runners : alertLock'[r] = IF alertLock[r] \in gone THEN NoOne ELSE alertLock[r]
      /\ dbWriter' = IF dbWriter \in gone THEN NoOne ELSE dbWriter
  BY DEF RollBack
<1>2. \A r \in Runners : alertLock'[r] # NoOne =>
        alertLock'[r][1] = r /\ pc'[alertLock'[r]] = "locked"
  BY <1>0, <1>1 DEF LocksHeld, TypeOK
<1>3. \A w \in Workers : pc'[w] = "locked" => alertLock'[w[1]] = w
  BY <1>0, <1>1, WorkerFields DEF LocksHeld, Ended
<1>4. dbWriter' # NoOne => pc'[dbWriter'] \in {"evaluating", "locked"}
  BY <1>0, <1>1 DEF LocksHeld, TypeOK
<1> QED
  BY <1>2, <1>3, <1>4 DEF LocksHeld

LEMMA LocksHeldStep == IInv /\ [Next]_vars => LocksHeld'
<1> SUFFICES ASSUME IInv, [Next]_vars PROVE LocksHeld'
  OBVIOUS
<1> USE NoOneAssumption
<1>0. TypeOK /\ LocksHeld
  BY DEF IInv
<1>1. ASSUME NEW w \in Workers, WorkerStep(w) PROVE LocksHeld'
  <2> w[1] \in Runners /\ w[2] \in Queries
    BY WorkerFields
  <2>1. CASE CacheHit(w) \/ CacheMiss(w) \/ FetchReturns(w) \/ RecordFailure(w)
    BY <2>1, <1>0 DEF CacheHit, CacheMiss, FetchReturns, RecordFailure, LocksHeld, TypeOK, locks
  <2>2. CASE Ingest(w)
    BY <2>2, <1>0 DEF Ingest, LocksHeld, TypeOK
  <2>3. ASSUME NEW a \in Alerts, LockAlert(w, a) PROVE LocksHeld'
    <3>1. /\ pc[w] = "evaluating" /\ alertLock[w[1]] = NoOne /\ dbWriter' = dbWriter
          /\ alertLock' = [alertLock EXCEPT ![w[1]] = w]
          /\ pc' = [pc EXCEPT ![w] = "locked"]
      BY <2>3 DEF LockAlert
    <3> QED
      BY <3>1, <1>0 DEF LocksHeld, TypeOK
  <2>4. CASE PersistAlert(w)
    <3>1. /\ pc[w] = "locked" /\ dbWriter' = w
          /\ alertLock' = [alertLock EXCEPT ![w[1]] = NoOne]
          /\ pc' = [pc EXCEPT ![w] = "evaluating"]
      BY <2>4 DEF PersistAlert
    <3> QED
      BY <3>1, <1>0 DEF LocksHeld, TypeOK
  <2>5. CASE Commit(w)
    <3>1. /\ pc[w] = "evaluating" /\ dbWriter' = NoOne /\ alertLock' = alertLock
          /\ pc' = [pc EXCEPT ![w] = "done"]
      BY <2>5 DEF Commit
    <3> QED
      BY <3>1, <1>0 DEF LocksHeld, TypeOK
  <2>6. CASE IntegrityError(w) \/ BusyTimeout(w)
    BY <2>6, RollBackReleases DEF IntegrityError, BusyTimeout, Ended
  <2> QED
    BY <1>1, <2>1, <2>2, <2>3, <2>4, <2>5, <2>6 DEF WorkerStep
<1>2. ASSUME NEW w \in Workers, FetchFails(w) \/ Raises(w) PROVE LocksHeld'
  <2>1. CASE FetchFails(w)
    BY <2>1, <1>0 DEF FetchFails, LocksHeld, TypeOK, locks
  <2>2. CASE Raises(w)
    BY <2>2, RollBackReleases DEF Raises, Ended
  <2> QED
    BY <1>2, <2>1, <2>2
<1>3. ASSUME NEW r \in Runners, PlannerTick(r) PROVE LocksHeld'
  <2>1. \A v \in Workers : v[1] = r => pc[v] \in Ended
    BY <1>3 DEF PlannerTick, Workers
  <2>2. \A v \in Workers : pc[v] \in {"evaluating", "locked"} => pc'[v] = pc[v]
    BY <1>3, <2>1 DEF PlannerTick, Ended
  <2>3. \A v \in Workers : pc'[v] = "locked" => pc[v] = "locked"
    BY <1>3 DEF PlannerTick
  <2>4. UNCHANGED <<alertLock, dbWriter>>
    BY <1>3 DEF PlannerTick, locks
  <2>5. dbWriter # NoOne => pc'[dbWriter] \in {"evaluating", "locked"}
    BY <1>0, <2>2 DEF LocksHeld, TypeOK
  <2>6. \A s \in Runners : alertLock[s] # NoOne => pc'[alertLock[s]] = "locked"
    BY <1>0, <2>2 DEF LocksHeld, TypeOK
  <2> QED
    BY <1>0, <2>3, <2>4, <2>5, <2>6 DEF LocksHeld
<1>4. ASSUME NEW r \in Runners, Crash(r) PROVE LocksHeld'
  BY <1>4, RollBackReleases DEF Crash, Ended
<1>5. CASE UNCHANGED <<locks, pc>>
  BY <1>5, <1>0 DEF locks, LocksHeld
<1> QED
  BY <1>1, <1>2, <1>3, <1>4, <1>5 DEF Next, CreateChannel, BecomesDue, CacheExpires, session, vars

(* What a worker resolves and stages belongs to its query and its alerts. *)
LEMMA ResolvedStep == IInv /\ [Next]_vars => Resolved'
<1> SUFFICES ASSUME IInv, [Next]_vars PROVE Resolved'
  OBVIOUS
<1>0. TypeOK /\ Resolved /\ HasWork
  BY DEF IInv
<1>1. ASSUME NEW gone, NEW end \in Ended, RollBack(gone, end),
             \A v \in Workers : v \notin gone => audit'[v] = audit[v]
      PROVE  Resolved'
  BY <1>1, <1>0 DEF RollBack, Resolved, Resolving, TypeOK, Ended, db
<1>2. ASSUME NEW w \in Workers, WorkerStep(w) PROVE Resolved'
  <2> w[1] \in Runners /\ w[2] \in Queries
    BY WorkerFields
  <2>1. CASE CacheHit(w)
    BY <2>1, <1>0 DEF CacheHit, Resolved, Resolving, HasWork, TypeOK, db
  <2>2. CASE FetchReturns(w)
    <3>1. PICK found \in SUBSET Listed[w[2]] : ids' = [ids EXCEPT ![w] = found]
      BY <2>2 DEF FetchReturns
    <3> QED
      BY <2>2, <3>1, <1>0 DEF FetchReturns, Resolved, Resolving, TypeOK, db
  <2>3. CASE CacheMiss(w) \/ Ingest(w) \/ RecordFailure(w)
    BY <2>3, <1>0 DEF CacheMiss, Ingest, RecordFailure, Resolved, Resolving, HasWork, TypeOK, db
  <2>4. ASSUME NEW a \in Alerts, LockAlert(w, a) PROVE Resolved'
    BY <2>4, <1>0 DEF LockAlert, Resolved, Resolving, TypeOK, db
  <2>5. CASE PersistAlert(w)
    <3>1. doing[w] \in todo[w]
      BY <2>5 DEF PersistAlert, IInv, StagedDeserved
    <3>2. /\ marked' = [marked EXCEPT ![w] = @ \union {doing[w]}]
          /\ todo' = [todo EXCEPT ![w] = @ \ {doing[w]}]
          /\ pc' = [pc EXCEPT ![w] = "evaluating"]
          /\ UNCHANGED <<cacheIds, ids, audit>>
      BY <2>5 DEF PersistAlert, db
    <3> QED
      BY <3>1, <3>2, <1>0 DEF Resolved, Resolving, TypeOK
  <2>6. CASE Commit(w)
    <3>1. \A q \in Queries : cacheIds'[q] \subseteq Listed[q]
      BY <2>6, <1>0 DEF Commit, Resolved, TypeOK
    <3>2. /\ pc' = [pc EXCEPT ![w] = "done"]
          /\ \A v \in Workers : v # w => audit'[v] = audit[v]
          /\ UNCHANGED <<todo, marked, ids>>
      BY <2>6, <1>0 DEF Commit, TypeOK
    <3> QED
      BY <3>1, <3>2, <1>0 DEF Resolved, Resolving, TypeOK
  <2>7. CASE IntegrityError(w) \/ BusyTimeout(w)
    BY <2>7, <1>1 DEF IntegrityError, BusyTimeout, Ended
  <2> QED
    BY <1>2, <2>1, <2>2, <2>3, <2>4, <2>5, <2>6, <2>7 DEF WorkerStep
<1>3. ASSUME NEW w \in Workers, FetchFails(w) \/ Raises(w) PROVE Resolved'
  BY <1>3, <1>1, <1>0 DEF FetchFails, Raises, Resolved, Resolving, TypeOK, Ended, db
<1>4. ASSUME NEW r \in Runners, PlannerTick(r) PROVE Resolved'
  <2>1. \A q \in Queries : Planned(q) \subseteq {a \in Alerts : q \in PlanOf[a]}
    BY <1>0 DEF Planned, TypeOK
  <2>2. \A v \in Workers : pc'[v] \in Resolving \union {"evaluating"} => pc'[v] = pc[v] /\ v[1] # r
    BY <1>4 DEF PlannerTick, Resolving
  <2> QED
    BY <1>4, <1>0, <2>1, <2>2, WorkerFields DEF PlannerTick, Resolved, TypeOK, db
<1>5. ASSUME NEW r \in Runners, Crash(r) PROVE Resolved'
  <2>1. \A v \in Workers : v \notin {r} \X Queries => audit'[v] = audit[v]
    BY <1>5 DEF Crash, Workers
  <2> QED
    BY <1>5, <1>1, <2>1 DEF Crash, Ended
<1>6. CASE UNCHANGED <<cacheIds, session>>
  BY <1>6, <1>0 DEF Resolved, session
<1> QED
  BY <1>2, <1>3, <1>4, <1>5, <1>6 DEF Next, CreateChannel, BecomesDue, CacheExpires, vars, db

LEMMA StagedDeservedStep == IInv /\ [Next]_vars => StagedDeserved'
<1> SUFFICES ASSUME IInv, [Next]_vars PROVE StagedDeserved'
  OBVIOUS
<1>0. TypeOK /\ StagedDeserved
  BY DEF IInv
<1>1. ASSUME NEW gone, NEW end \in Ended, RollBack(gone, end) PROVE StagedDeserved'
  BY <1>1, <1>0 DEF RollBack, StagedDeserved, TypeOK, Ended, Pairs
<1>2. \A v \in Workers : pc[v] \notin {"evaluating", "locked"} => staged[v] = {}
  BY NoOneAssumption DEF IInv, WritesUnderLock, LocksHeld
<1>3. ASSUME NEW w \in Workers, WorkerStep(w) PROVE StagedDeserved'
  <2>1. CASE CacheHit(w) \/ CacheMiss(w) \/ FetchReturns(w) \/ Ingest(w) \/ RecordFailure(w)
    <3>1. /\ staged[w] = {} /\ staged' = staged
          /\ UNCHANGED <<doing, todo, marked>>
          /\ pc'[w] # "locked"
          /\ \A v \in Workers : v # w => pc'[v] = pc[v] /\ ids'[v] = ids[v] /\ absent'[v] = absent[v]
      BY <2>1, <1>0, <1>2
      DEF CacheHit, CacheMiss, FetchReturns, Ingest, RecordFailure, TypeOK
    <3> QED
      BY <3>1, <1>0 DEF StagedDeserved, Pairs
  <2>2. ASSUME NEW a \in Alerts, LockAlert(w, a) PROVE StagedDeserved'
    <3>1. PICK row \in SUBSET Unmatched(w, a) : absent' = [absent EXCEPT ![w] = row]
      BY <2>2 DEF LockAlert
    <3>2. \A p \in row : p \in ids[w] /\ <<a, p>> \in Satisfies
      BY DEF Unmatched
    <3> QED
      BY <2>2, <3>1, <3>2, <1>0 DEF LockAlert, StagedDeserved, TypeOK
  <2>3. CASE PersistAlert(w)
    <3>1. /\ staged' = [staged EXCEPT ![w] = @ \union Rows(w, doing[w])]
          /\ marked' = [marked EXCEPT ![w] = @ \union {doing[w]}]
          /\ pc' = [pc EXCEPT ![w] = "evaluating"]
          /\ \A v \in Workers : v # w =>
               todo'[v] = todo[v] /\ doing'[v] = doing[v] /\ absent'[v] = absent[v]
          /\ ids' = ids
      BY <2>3, <1>0 DEF PersistAlert, TypeOK
    <3>2. \A p \in absent[w] \union Unmatched(w, doing[w]) : p \in ids[w] /\ <<doing[w], p>> \in Satisfies
      BY <2>3, <1>0 DEF PersistAlert, StagedDeserved, Unmatched
    <3>3. Pairs(Rows(w, doing[w])) \subseteq ({doing[w]} \X ids[w]) \intersect Satisfies
      BY <3>2 DEF Rows, Pairs
    <3>4. Pairs(staged'[w]) = Pairs(staged[w]) \union Pairs(Rows(w, doing[w]))
      BY <3>1, <1>0, PairsUnion DEF TypeOK
    <3>5. Pairs(staged[w]) \subseteq (marked[w] \X ids[w]) \intersect Satisfies
      BY <1>0 DEF StagedDeserved
    <3>6. marked'[w] = marked[w] \union {doing[w]}
      BY <3>1, <1>0 DEF TypeOK
    <3>7. Pairs(staged'[w]) \subseteq (marked'[w] \X ids'[w]) \intersect Satisfies
      BY <3>1, <3>3, <3>4, <3>5, <3>6
    <3>8. \A v \in Workers : v # w => staged'[v] = staged[v] /\ marked'[v] = marked[v] /\ pc'[v] = pc[v]
      BY <3>1, <1>0 DEF TypeOK
    <3>9. pc'[w] # "locked"
      BY <3>1, <1>0 DEF TypeOK
    <3> QED
      BY <3>1, <3>7, <3>8, <3>9, <1>0 DEF StagedDeserved, Pairs
  <2>4. CASE Commit(w)
    BY <2>4, <1>0 DEF Commit, StagedDeserved, TypeOK, Pairs
  <2>5. CASE IntegrityError(w) \/ BusyTimeout(w)
    BY <2>5, <1>1 DEF IntegrityError, BusyTimeout, Ended
  <2> QED
    BY <1>3, <2>1, <2>2, <2>3, <2>4, <2>5 DEF WorkerStep
<1>4. ASSUME NEW w \in Workers, FetchFails(w) \/ Raises(w) PROVE StagedDeserved'
  BY <1>4, <1>1, <1>0 DEF FetchFails, Raises, StagedDeserved, TypeOK, Ended, Pairs
<1>5. ASSUME NEW r \in Runners, PlannerTick(r) PROVE StagedDeserved'
  <2>1. \A v \in Workers : v[1] = r => staged[v] = {}
    BY <1>5, <1>2 DEF PlannerTick, Workers, Ended
  <2>2. \A v \in Workers : pc'[v] = "locked" => pc[v] = "locked" /\ v[1] # r
    BY <1>5 DEF PlannerTick
  <2>3. UNCHANGED <<doing, absent, staged>>
    BY <1>5 DEF PlannerTick
  <2>4. \A v \in Workers : v[1] # r => todo'[v] = todo[v] /\ marked'[v] = marked[v] /\ ids'[v] = ids[v]
    BY <1>5 DEF PlannerTick
  <2> QED
    BY <1>0, <2>1, <2>2, <2>3, <2>4 DEF StagedDeserved, Pairs
<1>6. ASSUME NEW r \in Runners, Crash(r) PROVE StagedDeserved'
  BY <1>6, <1>1 DEF Crash, Ended
<1>7. CASE UNCHANGED session
  BY <1>7, <1>0 DEF StagedDeserved, Pairs, session
<1> QED
  BY <1>3, <1>4, <1>5, <1>6, <1>7 DEF Next, CreateChannel, BecomesDue, CacheExpires, vars

LEMMA Inductive == IInv /\ [Next]_vars => IInv'
  BY TypeStep, StrengtheningStep, LocksHeldStep, ResolvedStep, StagedDeservedStep
  DEF IInv, Strengthening

LEMMA InitIInv == Init => IInv
<1> SUFFICES ASSUME Init PROVE IInv
  OBVIOUS
<1>1. TypeOK
  BY DEF Init, TypeOK, PCs, Ended
<1>2. LockedShape /\ HasWork /\ WritesUnderLock /\ CacheRefersToKnown /\ UniqueMatch
  BY DEF Init, LockedShape, HasWork, WritesUnderLock, CacheRefersToKnown, UniqueMatch
<1>4. MarkedMatched
  BY DEF Init, MarkedMatched
<1>3. StagedFresh /\ StagedQueued
  BY DEF Init, StagedFresh, StagedQueued
<1>5. LocksHeld /\ Resolved /\ StagedDeserved
  BY DEF Init, LocksHeld, Resolved, Resolving, StagedDeserved, Pairs
<1> QED
  BY <1>1, <1>2, <1>3, <1>4, <1>5 DEF IInv

(* The inductive invariant holds: uncommitted rows belong to the holder of  *)
(* the write lock and are new, what is queued is what the channels will be  *)
(* when it commits, and what satisfies an alert marked run is staged.       *)
THEOREM Invariance == Spec => []IInv
  BY InitIInv, Inductive, PTL DEF Spec

(* Every variable keeps its type. *)
THEOREM TypeCorrect == Spec => []TypeOK
  BY Invariance, PTL DEF IInv

(* No two alert_matches rows name the same alert and property: the          *)
(* select-then-insert of add_if_new is safe under any interleaving of       *)
(* workers, processes, crashes and timeouts, given the UNIQUE constraint.   *)
THEOREM MatchesUnique == Spec => []UniqueMatch
  BY Invariance, PTL DEF IInv

(* Every cached property id refers to a committed property. *)
THEOREM CacheSound == Spec => []CacheRefersToKnown
  BY Invariance, PTL DEF IInv

-----------------------------------------------------------------------------
(* Deadlock freedom.  Whoever holds the write lock can move, or is Stalled  *)
(* and then nobody waits for the write lock alone; whoever holds an         *)
(* alert_mutation_lock only ever waits for the write lock; whoever has a    *)
(* place in a semaphore too.                                                *)

LEMMA SlotHolder ==
  ASSUME NEW w \in Workers, ~HasSlot(w)
  PROVE  \E q \in Queries : pc[<<w[1], q>>] \in Resolving
<1>1. MaxConcurrency[PortalOf[w[2]]] \in Nat \ {0}
  BY PortalAssumption, WorkerFields
<1>2. Inside(w[1], PortalOf[w[2]]) # {}
  BY <1>1, FS_EmptySet DEF HasSlot
<1> QED
  BY <1>2 DEF Inside

LEMMA IInvUnstuck == IInv => NobodyStuck
<1> SUFFICES ASSUME IInv, NEW v \in Workers, pc[v] \notin Ended,
                    \A w \in Workers : pc[w] \notin Ended => Awaits(w)
             PROVE  FALSE
  BY DEF NobodyStuck
<1>0. TypeOK /\ LocksHeld
  BY DEF IInv
<1>1. ASSUME NEW w \in Workers, AwaitsWriter(w) PROVE FALSE
  <2>1. PICK h \in Workers : dbWriter = h /\ h # NoOne
    BY <1>0, <1>1, NoOneAssumption DEF AwaitsWriter, CanWrite, TypeOK
  <2>2. pc[h] \in {"evaluating", "locked"}
    BY <1>0, <2>1 DEF LocksHeld
  <2>3. AwaitsAlertLock(h)
    BY <2>1, <2>2 DEF Awaits, AwaitsSlot, AwaitsWriter, CanWrite, Ended
  <2>4. PICK b \in Workers : alertLock[h[1]] = b /\ pc[b] = "locked"
    BY <1>0, <2>3, WorkerFields DEF AwaitsAlertLock, TypeOK, LocksHeld
  <2>5. Stalled
    BY <2>1, <2>3, <2>4 DEF AwaitsAlertLock, Stalled
  <2> QED
    BY <1>1, <2>5 DEF AwaitsWriter
<1>2. ASSUME NEW w \in Workers, AwaitsAlertLock(w) PROVE FALSE
  <2>1. PICK b \in Workers : pc[b] = "locked"
    BY <1>0, <1>2, WorkerFields DEF AwaitsAlertLock, TypeOK, LocksHeld
  <2> QED
    BY <1>1, <2>1 DEF Awaits, AwaitsSlot, AwaitsAlertLock, Ended
<1>3. ASSUME NEW w \in Workers, AwaitsSlot(w) PROVE FALSE
  <2>1. PICK q \in Queries : pc[<<w[1], q>>] \in Resolving
    BY <1>3, SlotHolder DEF AwaitsSlot
  <2>2. <<w[1], q>> \in Workers
    BY WorkerFields DEF Workers
  <2> QED
    BY <1>1, <2>1, <2>2 DEF Awaits, AwaitsSlot, AwaitsAlertLock, Resolving, Ended
<1> QED
  BY <1>1, <1>2, <1>3 DEF Awaits

(* Workers never all wait for one another, whatever order the semaphores,   *)
(* alert_mutation_lock and the write lock are taken in, for any number of   *)
(* processes, portals and alerts: as long as some worker has not ended, one *)
(* of them can take a step of its own, be it the busy timeout of the one    *)
(* inversion the code has.                                                  *)
THEOREM DeadlockFree == Spec => []NobodyStuck
  BY Invariance, IInvUnstuck, PTL

-----------------------------------------------------------------------------
(* An alert stops being due only in a commit that reports every property    *)
(* resolved for it: no property is lost between mark_run and add_if_new.    *)
LEMMA DueStep ==
  ASSUME IInv, [Next]_vars, NEW a \in due \ due'
  PROVE  \E w \in Workers : a \in marked[w] /\ Commit(w)
<1>1. \A gone, end : RollBack(gone, end) => due' = due
  BY DEF RollBack, db
<1>2. ASSUME NEW w \in Workers, WorkerStep(w) PROVE a \in marked[w] /\ Commit(w)
  BY <1>1, <1>2
  DEF WorkerStep, CacheHit, CacheMiss, FetchReturns, Ingest, LockAlert, PersistAlert,
      Commit, RecordFailure, IntegrityError, BusyTimeout, db
<1>3. \A w \in Workers : ~FetchFails(w) /\ ~Raises(w)
  BY <1>1 DEF FetchFails, Raises, db
<1>4. \A r \in Runners : ~PlannerTick(r) /\ ~Crash(r)
  BY <1>1 DEF PlannerTick, Crash, db
<1>5. /\ \A c \in Channels : ~CreateChannel(c)
      /\ \A b \in Alerts : ~BecomesDue(b)
      /\ \A q \in Queries : ~CacheExpires(q)
  BY DEF CreateChannel, BecomesDue, CacheExpires
<1> QED
  BY <1>2, <1>3, <1>4, <1>5 DEF Next, vars, db

THEOREM NothingSkipped == Spec => RunMeansMatched
<1> DEFINE Reported ==
      \A a \in due \ due' :
        \E w \in Workers : /\ a \in marked[w] /\ pc'[w] = "done" /\ pc[w] # "done"
                          /\ \A p \in ids[w] : <<a, p>> \in Satisfies => <<a, p>> \in Pairs(matches')
<1>1. IInv /\ [Next]_vars => Reported
  <2> SUFFICES ASSUME IInv, [Next]_vars, NEW a \in due \ due'
               PROVE  \E w \in Workers :
                        /\ a \in marked[w] /\ pc'[w] = "done" /\ pc[w] # "done"
                        /\ \A p \in ids[w] : <<a, p>> \in Satisfies => <<a, p>> \in Pairs(matches')
    OBVIOUS
  <2>1. PICK w \in Workers : a \in marked[w] /\ Commit(w)
    BY DueStep
  <2>2. Pairs(matches') = Pairs(matches) \union Pairs(staged[w])
    BY <2>1, PairsUnion DEF Commit
  <2>3. pc'[w] = "done" /\ pc[w] # "done"
    BY <2>1 DEF Commit, IInv, TypeOK
  <2> QED
    BY <2>1, <2>2, <2>3 DEF IInv, MarkedMatched
<1> QED
  BY <1>1, Invariance, PTL DEF Spec, RunMeansMatched

-----------------------------------------------------------------------------
(* The cycle implements MatchOutbox. *)

PairNotices(rows) == {<<<<n[1][1], n[1][2]>>, n[2]>> : n \in rows}

LEMMA PairNoticesUnion == \A A, B : PairNotices(A \union B) = PairNotices(A) \union PairNotices(B)
  BY DEF PairNotices

LEMMA PairNoticesProduct == \A rows, chans : PairNotices(rows \X chans) = Pairs(rows) \X chans
<1> TAKE rows, chans
<1>1. PairNotices(rows \X chans) \subseteq Pairs(rows) \X chans
  BY DEF PairNotices, Pairs
<1>2. ASSUME NEW x \in Pairs(rows) \X chans PROVE x \in PairNotices(rows \X chans)
  <2>1. PICK m \in rows, c \in chans : x = <<<<m[1], m[2]>>, c>>
    BY DEF Pairs
  <2>2. <<m, c>> \in rows \X chans
    OBVIOUS
  <2> QED
    BY <2>1, <2>2 DEF PairNotices
<1> QED
  BY <1>1, <1>2

LEMMA CommitRecords ==
  ASSUME IInv, NEW w \in Workers, Commit(w)
  PROVE  Outbox!Next
<1> DEFINE new == Pairs(staged[w])
<1>1. new \intersect Pairs(matches) = {}
  BY DEF IInv, StagedFresh, Pairs
<1>2. Pairs(matches') = Pairs(matches) \union new
  BY PairsUnion DEF Commit
<1>3. PairNotices(outbox') = PairNotices(outbox) \union (new \X channels)
  <2>1. queued[w] = staged[w] \X channels
    BY DEF IInv, StagedQueued
  <2>2. outbox' = outbox \union queued[w]
    BY DEF Commit
  <2>3. PairNotices(outbox') = PairNotices(outbox) \union PairNotices(queued[w])
    BY <2>2, PairNoticesUnion
  <2>4. PairNotices(staged[w] \X channels) = new \X channels
    BY PairNoticesProduct
  <2> QED
    BY <2>3, <2>4, <2>1
<1>4. channels' = channels
  BY DEF Commit
<1>5. new \in SUBSET (Alerts \X Properties)
  BY DEF IInv, TypeOK, MatchRows, Pairs
<1>6. \E rows \in SUBSET (Alerts \X Properties) :
        /\ rows \intersect Pairs(matches) = {}
        /\ Pairs(matches') = Pairs(matches) \union rows
        /\ PairNotices(outbox') = PairNotices(outbox) \union (rows \X channels)
        /\ channels' = channels
  <2> HIDE DEF new
  <2> QED
    BY <1>1, <1>2, <1>3, <1>4, <1>5
<1> QED
  BY <1>6 DEF Outbox!Next, Outbox!Record, PairNotices

LEMMA OutboxStep ==
  IInv /\ [Next]_vars => [Outbox!Next]_<<Pairs(matches), PairNotices(outbox), channels>>
<1> SUFFICES ASSUME IInv, [Next]_vars
             PROVE  Outbox!Next \/ UNCHANGED <<matches, outbox, channels>>
  BY DEF PairNotices, Pairs
<1>1. \A gone, end : RollBack(gone, end) => UNCHANGED <<matches, outbox, channels>>
  BY DEF RollBack, db
<1>2. ASSUME NEW w \in Workers, WorkerStep(w), ~Commit(w) PROVE UNCHANGED <<matches, outbox, channels>>
  BY <1>1, <1>2
  DEF WorkerStep, CacheHit, CacheMiss, FetchReturns, Ingest, LockAlert, PersistAlert,
      RecordFailure, IntegrityError, BusyTimeout, db
<1>3. ASSUME NEW w \in Workers, FetchFails(w) \/ Raises(w)
      PROVE  UNCHANGED <<matches, outbox, channels>>
  BY <1>1, <1>3 DEF FetchFails, Raises, db
<1>4. ASSUME NEW r \in Runners, PlannerTick(r) \/ Crash(r)
      PROVE  UNCHANGED <<matches, outbox, channels>>
  BY <1>1, <1>4 DEF PlannerTick, Crash, db
<1>5. ASSUME NEW c \in Channels, CreateChannel(c) PROVE Outbox!Next
  <2>1. Outbox!Enable(c)
    BY <1>5 DEF CreateChannel, Outbox!Enable, Pairs
  <2> QED
    BY <2>1 DEF Outbox!Next
<1>6. ASSUME (\E a \in Alerts : BecomesDue(a)) \/ (\E q \in Queries : CacheExpires(q))
      PROVE  UNCHANGED <<matches, outbox, channels>>
  BY <1>6 DEF BecomesDue, CacheExpires
<1> QED
  BY <1>2, <1>3, <1>4, <1>5, <1>6, CommitRecords DEF Next, vars, db

(* A match is published once and together with one notification per channel *)
(* enabled at that moment, for every interleaving, crash and timeout.       *)
THEOREM CyclePublishesOutbox == Spec => PublishesOutbox
<1>1. Init => Outbox!Init
  BY DEF Init, Outbox!Init, Pairs
<1>2. IInv /\ [Next]_vars => [Outbox!Next]_<<Pairs(matches), PairNotices(outbox), channels>>
  BY OutboxStep
<1> QED
  BY <1>1, <1>2, Invariance, PTL DEF Spec, PublishesOutbox, Outbox!Spec, PairNotices

-----------------------------------------------------------------------------
(* The cycle implements AtomicCycle. *)

LEMMA ServedType ==
  ASSUME IInv, AnswersType, Remember
  PROVE  AnswersType'
  BY DEF Remember, AnswersType, IInv, TypeOK, Workers

(* Nothing but a commit stores an answer. *)
LEMMA NothingRemembered ==
  ASSUME AnswersType, Remember, \A w \in Workers : ~CommitsScrape(w)
  PROVE  answers' = answers
  BY DEF Remember, AnswersType

LEMMA CommitRemembers ==
  ASSUME IInv, AnswersType, Remember, NEW w \in Workers, Commit(w)
  PROVE  answers' = IF audit[w] = "attempted"
                      THEN [answers EXCEPT ![w[2]] = @ \union {ids[w]}]
                      ELSE answers
<1>1. \A v \in Workers : CommitsScrape(v) <=> v = w /\ audit[w] = "attempted"
  <2>1. \A v \in Workers : v # w => audit'[v] = audit[v]
    BY DEF Commit, IInv, TypeOK
  <2>2. audit[w] # "attempted" => audit' = audit
    BY DEF Commit
  <2>3. audit[w] = "attempted" => audit'[w] = "recorded"
    BY DEF Commit, IInv, TypeOK
  <2>4. pc'[w] = "done"
    BY DEF Commit, IInv, TypeOK
  <2> QED
    BY <2>1, <2>2, <2>3, <2>4 DEF CommitsScrape
<1> DEFINE new(q) == {ids[v] : v \in {u \in Workers : u[2] = q /\ CommitsScrape(u)}}
<1>2. \A q \in Queries : answers'[q] = answers[q] \union new(q)
  BY DEF Remember
<1>3. answers' = [q \in Queries |-> answers'[q]] /\ answers = [q \in Queries |-> answers[q]]
  BY DEF Remember, AnswersType
<1>4. CASE audit[w] # "attempted"
  <2>1. \A q \in Queries : new(q) = {}
    BY <1>1, <1>4
  <2> QED
    BY <1>2, <1>3, <1>4, <2>1
<1>5. CASE audit[w] = "attempted"
  <2>1. {u \in Workers : u[2] = w[2] /\ CommitsScrape(u)} = {w}
    BY <1>1, <1>5
  <2>2. new(w[2]) = {ids[w]}
    BY <2>1
  <2>3. \A q \in Queries : q # w[2] => new(q) = {}
    BY <1>1
  <2>4. \A q \in Queries : answers'[q] = IF q = w[2] THEN answers[q] \union {ids[w]} ELSE answers[q]
    <3> HIDE DEF new
    <3> QED
      BY <1>2, <2>2, <2>3
  <2> QED
    BY <1>3, <1>5, <2>4, WorkerFields
<1> QED
  BY <1>4, <1>5

(* Only BecomesDue, CreateChannel and a commit write what AtomicCycle sees. *)
LEMMA QuietUnlessCommit ==
  ASSUME [Next]_vars, TypeOK, \A w \in Workers : ~Commit(w)
  PROVE  /\ \A w \in Workers : ~CommitsScrape(w)
         /\ UNCHANGED <<known, matches, outbox, cacheIds>>
         /\ \/ UNCHANGED <<due, channels>>
            \/ \E a \in Alerts : due' = due \union {a} /\ channels' = channels
            \/ \E c \in Channels : channels' = channels \union {c} /\ due' = due
<1>1. ASSUME NEW gone, NEW end \in {"idle", "aborted"}, RollBack(gone, end)
      PROVE  /\ \A v \in Workers : ~CommitsScrape(v) \/ pc[v] = "done"
             /\ UNCHANGED <<known, matches, outbox, cacheIds, due, channels>>
  BY <1>1 DEF RollBack, db, CommitsScrape
<1>2. ASSUME NEW w \in Workers, WorkerStep(w) \/ FetchFails(w) \/ Raises(w)
      PROVE  /\ \A v \in Workers : ~CommitsScrape(v)
             /\ UNCHANGED <<known, matches, outbox, cacheIds, due, channels>>
  <2>1. CASE CacheHit(w) \/ CacheMiss(w) \/ FetchReturns(w) \/ Ingest(w) \/ RecordFailure(w) \/ FetchFails(w)
    BY <2>1 DEF CacheHit, CacheMiss, FetchReturns, Ingest, RecordFailure, FetchFails, TypeOK, CommitsScrape, db
  <2>2. CASE (\E a \in Alerts : LockAlert(w, a)) \/ PersistAlert(w)
    BY <2>2 DEF LockAlert, PersistAlert, CommitsScrape, db
  <2>3. CASE IntegrityError(w) \/ BusyTimeout(w) \/ Raises(w)
    BY <2>3, <1>1 DEF IntegrityError, BusyTimeout, Raises, CommitsScrape
  <2> QED
    BY <1>2, <2>1, <2>2, <2>3 DEF WorkerStep
<1>3. ASSUME NEW r \in Runners, PlannerTick(r) \/ Crash(r)
      PROVE  /\ \A v \in Workers : ~CommitsScrape(v)
             /\ UNCHANGED <<known, matches, outbox, cacheIds, due, channels>>
  BY <1>3, <1>1 DEF PlannerTick, Crash, CommitsScrape, db
<1>4. ASSUME UNCHANGED session PROVE \A v \in Workers : ~CommitsScrape(v)
  BY <1>4 DEF session, CommitsScrape
<1> QED
  BY <1>2, <1>3, <1>4 DEF Next, CreateChannel, BecomesDue, CacheExpires, vars, db

(* A commit is one whole step of AtomicCycle: what is staged is exactly what *)
(* its alerts deserve of its answer and was not reported yet.               *)
LEMMA StagedIsNew ==
  ASSUME IInv, NEW w \in Workers, Commit(w)
  PROVE  Pairs(staged[w]) = ((marked[w] \X ids[w]) \intersect Satisfies) \ Pairs(matches)
<1>1. Pairs(staged[w]) \subseteq (marked[w] \X ids[w]) \intersect Satisfies
  BY DEF IInv, StagedDeserved
<1>2. Pairs(staged[w]) \intersect Pairs(matches) = {}
  BY DEF IInv, StagedFresh, Pairs
<1>3. \A x \in (marked[w] \X ids[w]) \intersect Satisfies : x \in Pairs(matches) \union Pairs(staged[w])
  BY DEF IInv, MarkedMatched
<1> QED
  BY <1>1, <1>2, <1>3

LEMMA CommitServes ==
  ASSUME ServedInv, Remember, NEW w \in Workers, Commit(w)
  PROVE  Atomic!Next
<1> DEFINE deserved == (marked[w] \X ids[w]) \intersect Satisfies
<1> USE DEF ServedInv
<1>1. Pairs(staged[w]) = deserved \ Pairs(matches)
  BY StagedIsNew
<1>2. Pairs(matches') = Pairs(matches) \union deserved
  <2>1. Pairs(matches') = Pairs(matches) \union Pairs(staged[w])
    BY PairsUnion DEF Commit
  <2> QED
    BY <1>1, <2>1
<1>3. PairNotices(outbox') = PairNotices(outbox) \union ((deserved \ Pairs(matches)) \X channels)
  <2>1. queued[w] = staged[w] \X channels
    BY DEF IInv, StagedQueued
  <2>2. PairNotices(outbox') = PairNotices(outbox) \union PairNotices(queued[w])
    BY PairNoticesUnion DEF Commit
  <2>3. PairNotices(staged[w] \X channels) = Pairs(staged[w]) \X channels
    BY PairNoticesProduct
  <2> QED
    BY <1>1, <2>1, <2>2, <2>3
<1>4. due' = due \ marked[w] /\ channels' = channels
  BY DEF Commit
<1>5. PICK q, served, found : q = w[2] /\ served = marked[w] /\ found = ids[w]
  OBVIOUS
<1>6. Atomic!Report(served, found)
  BY <1>2, <1>3, <1>4, <1>5 DEF Atomic!Report, PairNotices
<1>7. Atomic!Serve(q, served)
  <2>1. CASE audit[w] = "attempted"
    <3>1. known' = known \union ids[w]
      BY <2>1 DEF Commit
    <3>2. answers' = [answers EXCEPT ![w[2]] = @ \union {ids[w]}]
      BY <2>1, CommitRemembers
    <3>3. ids[w] \in SUBSET Listed[w[2]]
      BY DEF IInv, Resolved
    <3> QED
      BY <1>5, <1>6, <3>1, <3>2, <3>3 DEF Atomic!Serve
  <2>2. CASE audit[w] # "attempted"
    <3>1. known' = known
      BY <2>2 DEF Commit
    <3>2. answers' = answers
      BY <2>2, CommitRemembers
    <3>3. ids[w] \in answers[w[2]]
      BY <2>2 DEF HitsAnswered, Commit
    <3> QED
      BY <1>5, <1>6, <3>1, <3>2, <3>3 DEF Atomic!Serve
  <2> QED
    BY <2>1, <2>2
<1>8. q \in Queries /\ served \in SUBSET {a \in Alerts : q \in PlanOf[a]} /\ served # {}
  BY <1>5, WorkerFields DEF IInv, Resolved, Commit
<1> QED
  BY <1>7, <1>8 DEF Atomic!Next

atomicVars == <<due, known, answers, Pairs(matches), PairNotices(outbox), channels>>

LEMMA AtomicStep == ServedInv /\ [Next /\ Remember]_servedVars => [Atomic!Next]_atomicVars
<1> SUFFICES ASSUME ServedInv, [Next /\ Remember]_servedVars
             PROVE  Atomic!Next \/ UNCHANGED atomicVars
  OBVIOUS
<1>0. TypeOK /\ AnswersType
  BY DEF ServedInv, IInv
<1>1. CASE \E w \in Workers : Commit(w) /\ Next /\ Remember
  BY <1>1, CommitServes
<1>2. CASE (\A w \in Workers : ~Commit(w)) /\ Next /\ Remember
  <2>1. UNCHANGED <<known, matches, outbox, answers>>
    BY <1>0, <1>2, QuietUnlessCommit, NothingRemembered
  <2>2. UNCHANGED <<known, answers, Pairs(matches), PairNotices(outbox)>>
    BY <2>1 DEF Pairs, PairNotices
  <2>3. CASE UNCHANGED <<due, channels>>
    BY <2>2, <2>3 DEF atomicVars
  <2>4. ASSUME NEW a \in Alerts, due' = due \union {a}, channels' = channels PROVE Atomic!Next
    <3>1. Atomic!FallDue(a)
      BY <2>2, <2>4 DEF Atomic!FallDue, PairNotices
    <3> QED
      BY <3>1 DEF Atomic!Next
  <2>5. ASSUME NEW c \in Channels, channels' = channels \union {c}, due' = due PROVE Atomic!Next
    <3>1. Atomic!Enable(c)
      BY <2>2, <2>5 DEF Atomic!Enable, PairNotices
    <3> QED
      BY <3>1 DEF Atomic!Next
  <2> QED
    BY <1>0, <1>2, <2>3, <2>4, <2>5, QuietUnlessCommit
<1>3. CASE UNCHANGED servedVars
  BY <1>3 DEF servedVars, vars, db, atomicVars, Pairs, PairNotices
<1> QED
  BY <1>1, <1>2, <1>3

(* Whatever a step of AtomicCycle reports is justified. *)
LEMMA AtomicJustified ==
  ASSUME Atomic!Next, OnlyJustified, AnswersType, TypeOK,
         \A q \in Queries : \A found \in answers[q] : found \subseteq known
  PROVE  OnlyJustified'
<1>1. ASSUME NEW q \in Queries, NEW served \in SUBSET {a \in Alerts : q \in PlanOf[a]},
             NEW found, Atomic!Report(served, found), found \subseteq known',
             known \subseteq known', found \in answers'[q],
             \A o \in Queries : answers[o] \subseteq answers'[o]
      PROVE  OnlyJustified'
  <2>1. \A o \in Queries : \A x \in answers[o] : x \in answers'[o]
    BY <1>1
  <2>2. Pairs(matches') = Pairs(matches) \union ((served \X found) \intersect Satisfies)
    BY <1>1 DEF Atomic!Report
  <2>3. ASSUME NEW pair \in Pairs(matches)
        PROVE  /\ pair \in Satisfies /\ pair[2] \in known'
               /\ \E o \in PlanOf[pair[1]] : \E x \in answers'[o] : pair[2] \in x
    <3>1. PICK o \in PlanOf[pair[1]] : \E x \in answers[o] : pair[2] \in x
      BY DEF OnlyJustified, Atomic!Justified
    <3>2. pair \in Satisfies /\ pair[2] \in known
      BY DEF OnlyJustified, Atomic!Justified
    <3>3. o \in Queries
      BY <3>2, PlanAssumption, MarketAssumption
    <3> QED
      BY <1>1, <2>1, <3>1, <3>2, <3>3
  <2>4. ASSUME NEW pair \in (served \X found) \intersect Satisfies
        PROVE  /\ pair \in Satisfies /\ pair[2] \in known'
               /\ \E o \in PlanOf[pair[1]] : \E x \in answers'[o] : pair[2] \in x
    BY <1>1
  <2> QED
    BY <2>2, <2>3, <2>4 DEF OnlyJustified, Atomic!Justified
<1>2. ASSUME UNCHANGED <<known, answers, Pairs(matches)>> PROVE OnlyJustified'
  BY <1>2 DEF OnlyJustified, Atomic!Justified
<1>3. ASSUME NEW q \in Queries, NEW served \in SUBSET {a \in Alerts : q \in PlanOf[a]},
             Atomic!Serve(q, served)
      PROVE  OnlyJustified'
  <2>1. ASSUME NEW found \in SUBSET Listed[q], Atomic!Report(served, found),
               known' = known \union found,
               answers' = [answers EXCEPT ![q] = @ \union {found}]
        PROVE  OnlyJustified'
    BY <1>1, <2>1 DEF AnswersType
  <2>2. ASSUME NEW found \in answers[q], Atomic!Report(served, found), UNCHANGED <<known, answers>>
        PROVE  OnlyJustified'
    BY <1>1, <2>2
  <2> QED
    BY <1>3, <2>1, <2>2 DEF Atomic!Serve
<1>4. ASSUME (\E a \in Alerts : Atomic!FallDue(a)) \/ (\E c \in Channels : Atomic!Enable(c))
      PROVE  OnlyJustified'
  BY <1>2, <1>4 DEF Atomic!FallDue, Atomic!Enable
<1> QED
  BY <1>3, <1>4 DEF Atomic!Next

LEMMA HitsAnsweredStep ==
  ServedInv /\ [Next /\ Remember]_servedVars => HitsAnswered'
<1> SUFFICES ASSUME ServedInv, [Next /\ Remember]_servedVars PROVE HitsAnswered'
  OBVIOUS
<1>0. TypeOK /\ AnswersType /\ HitsAnswered
  BY DEF ServedInv, IInv
<1>1. ASSUME NEW w \in Workers, Commit(w), Remember PROVE HitsAnswered'
  <2>1. answers' = IF audit[w] = "attempted"
                     THEN [answers EXCEPT ![w[2]] = @ \union {ids[w]}] ELSE answers
    BY <1>1, CommitRemembers DEF ServedInv
  <2>2. \A q \in Queries : answers[q] \subseteq answers'[q]
    BY <1>0, <2>1 DEF AnswersType
  <2>3. \A q \in Queries : \A found \in answers'[q] : found \subseteq known'
    <3>1. CASE audit[w] = "attempted"
      BY <1>0, <1>1, <2>1, <3>1 DEF Commit, HitsAnswered, AnswersType
    <3>2. CASE audit[w] # "attempted"
      BY <1>0, <1>1, <2>1, <3>2 DEF Commit, HitsAnswered
    <3> QED
      BY <3>1, <3>2
  <2>4. \A q \in Queries : live'[q] # {} => cacheIds'[q] \in answers'[q]
    <3>1. CASE audit[w] = "attempted"
      BY <1>0, <1>1, <2>1, <3>1, WorkerFields DEF Commit, HitsAnswered, AnswersType, TypeOK
    <3>2. CASE audit[w] # "attempted"
      BY <1>0, <1>1, <2>1, <3>2 DEF Commit, HitsAnswered
    <3> QED
      BY <3>1, <3>2
  <2>5. ASSUME NEW v \in Workers, pc'[v] \in {"evaluating", "locked"}, audit'[v] # "attempted"
        PROVE  ids'[v] \in answers'[v[2]]
    <3>1. v # w /\ pc'[v] = pc[v] /\ ids' = ids
      BY <1>0, <1>1, <2>5 DEF Commit, TypeOK
    <3>2. audit'[v] = audit[v]
      BY <1>0, <1>1, <3>1 DEF Commit, TypeOK
    <3> QED
      BY <1>0, <2>2, <2>5, <3>1, <3>2, WorkerFields DEF HitsAnswered
  <2> QED
    BY <2>3, <2>4, <2>5 DEF HitsAnswered
<1>2. ASSUME NEW w \in Workers, CacheHit(w), answers' = answers PROVE HitsAnswered'
  <2>1. ids'[w] = cacheIds[w[2]] /\ live[w[2]] # {}
    BY <1>0, <1>2, WorkerFields DEF CacheHit, ServedInv, IInv, CacheRefersToKnown, TypeOK
  <2> QED
    BY <1>0, <1>2, <2>1, WorkerFields DEF CacheHit, HitsAnswered, TypeOK, db
<1>3. ASSUME answers' = answers, UNCHANGED <<known, cacheIds>>,
             \A q \in Queries : live'[q] \subseteq live[q],
             \A v \in Workers : pc'[v] \in {"evaluating", "locked"} /\ audit'[v] # "attempted" =>
               pc[v] \in {"evaluating", "locked"} /\ audit[v] # "attempted" /\ ids'[v] = ids[v]
      PROVE  HitsAnswered'
  BY <1>0, <1>3 DEF HitsAnswered
<1>4. ASSUME NEW w \in Workers, answers' = answers,
             WorkerStep(w) \/ FetchFails(w) \/ Raises(w), ~Commit(w)
      PROVE  HitsAnswered'
  <2>1. CASE CacheMiss(w) \/ FetchReturns(w) \/ RecordFailure(w) \/ FetchFails(w)
    BY <1>0, <1>3, <1>4, <2>1 DEF CacheMiss, FetchReturns, RecordFailure, FetchFails, TypeOK, db
  <2>2. CASE Ingest(w)
    <3>1. audit[w] = "attempted"
      BY <2>2 DEF Ingest, ServedInv, IInv, Resolved, Resolving
    <3> QED
      BY <1>0, <1>3, <1>4, <2>2, <3>1 DEF Ingest, TypeOK, db
  <2>3. CASE (\E a \in Alerts : LockAlert(w, a)) \/ PersistAlert(w)
    BY <1>0, <1>3, <1>4, <2>3 DEF LockAlert, PersistAlert, TypeOK, db
  <2>4. CASE IntegrityError(w) \/ BusyTimeout(w) \/ Raises(w)
    BY <1>0, <1>3, <1>4, <2>4 DEF IntegrityError, BusyTimeout, Raises, RollBack, db
  <2> QED
    BY <1>2, <1>4, <2>1, <2>2, <2>3, <2>4 DEF WorkerStep
<1>5. ASSUME NEW r \in Runners, answers' = answers, PlannerTick(r) PROVE HitsAnswered'
  <2>1. \A v \in Workers : pc'[v] \in {"evaluating", "locked"} => v[1] # r /\ pc'[v] = pc[v]
    BY <1>5 DEF PlannerTick
  <2> QED
    BY <1>3, <1>5, <2>1 DEF PlannerTick, db
<1>6. ASSUME NEW r \in Runners, answers' = answers, Crash(r) PROVE HitsAnswered'
  <2>1. \A v \in Workers : v[1] = r <=> v \in {r} \X Queries
    BY DEF Workers
  <2> QED
    BY <1>3, <1>6, <2>1 DEF Crash, RollBack, db
<1>7. CASE (\E c \in Channels : CreateChannel(c)) \/ (\E a \in Alerts : BecomesDue(a)) \/ (\E q \in Queries : CacheExpires(q))
  <2>1. answers' = answers => HitsAnswered'
    BY <1>0, <1>3, <1>7 DEF CreateChannel, BecomesDue, CacheExpires, session, TypeOK
  <2>2. \A v \in Workers : ~CommitsScrape(v)
    BY <1>7 DEF CreateChannel, BecomesDue, CacheExpires, session, CommitsScrape
  <2> QED
    BY <1>0, <1>7, <2>1, <2>2, NothingRemembered DEF servedVars
<1>8. CASE UNCHANGED servedVars
  BY <1>0, <1>8 DEF servedVars, vars, db, session, HitsAnswered
<1>9. CASE Next /\ Remember /\ \A w \in Workers : ~Commit(w)
  <2>1. answers' = answers
    BY <1>0, <1>9, QuietUnlessCommit, NothingRemembered
  <2> QED
    BY <1>4, <1>5, <1>6, <1>7, <1>9, <2>1 DEF Next
<1>10. CASE Next /\ Remember /\ \E w \in Workers : Commit(w)
  BY <1>1, <1>10
<1> QED
  BY <1>8, <1>9, <1>10

LEMMA ServedInductive == ServedInv /\ [Next /\ Remember]_servedVars => ServedInv'
<1> SUFFICES ASSUME ServedInv, [Next /\ Remember]_servedVars PROVE ServedInv'
  OBVIOUS
<1> USE DEF ServedInv
<1>1. IInv'
  BY Inductive DEF servedVars
<1>2. AnswersType'
  BY ServedType DEF servedVars, AnswersType
<1>3. HitsAnswered'
  BY HitsAnsweredStep
<1>4. OnlyJustified'
  <2>1. CASE Atomic!Next
    BY <2>1, AtomicJustified DEF IInv, HitsAnswered
  <2>2. CASE UNCHANGED atomicVars
    BY <2>2 DEF atomicVars, OnlyJustified, Atomic!Justified
  <2> QED
    BY <2>1, <2>2, AtomicStep
<1> QED
  BY <1>1, <1>2, <1>3, <1>4

LEMMA InitServedInv == ServedInit => ServedInv
<1> SUFFICES ASSUME ServedInit PROVE ServedInv
  OBVIOUS
<1>1. IInv
  BY InitIInv DEF ServedInit
<1>2. AnswersType /\ HitsAnswered
  BY DEF ServedInit, Init, AnswersType, HitsAnswered
<1>3. OnlyJustified
  BY DEF ServedInit, Init, OnlyJustified, Atomic!Justified, Pairs
<1> QED
  BY <1>1, <1>2, <1>3 DEF ServedInv

(* The strengthened invariant of the cycle with its history: a hit holds a  *)
(* whole answer of an earlier scrape, and nothing unjustified is reported.  *)
THEOREM ServedInvariance == ServedSpec => []ServedInv
  BY InitServedInv, ServedInductive, PTL DEF ServedSpec

(* The cycle is atomic: to whoever reads the committed tables every worker  *)
(* either serves its query in one instant or never ran, for any number of   *)
(* processes, portals, alerts and listings, and any failures.               *)
THEOREM CycleIsAtomic == ServedSpec => ServesAtomically
<1>1. ServedInit => Atomic!Init
  BY DEF ServedInit, Init, Atomic!Init, Pairs
<1> QED
  BY <1>1, AtomicStep, ServedInvariance, PTL
  DEF ServedSpec, ServesAtomically, Atomic!Spec, atomicVars, PairNotices

(* The abstractions are in line: serving queries in one instant is a way to *)
(* publish matches and notifications as the dispatcher is promised.         *)
LEMMA ReportRecords ==
  ASSUME NEW served, NEW found, Atomic!Report(served, found)
  PROVE  Outbox!Next
<1> DEFINE new == ((served \X found) \intersect Satisfies) \ Pairs(matches)
<1>1. new \in SUBSET (Alerts \X Properties)
  BY MarketAssumption
<1>2. Outbox!Record(new)
  BY DEF Atomic!Report, Outbox!Record
<1> HIDE DEF new
<1> QED
  BY <1>1, <1>2 DEF Outbox!Next, Outbox!Record

THEOREM AtomicPublishes == ServesAtomically => PublishesOutbox
<1>1. Atomic!Init => Outbox!Init
  BY DEF Atomic!Init, Outbox!Init
<1>2. [Atomic!Next]_atomicVars => [Outbox!Next]_<<Pairs(matches), PairNotices(outbox), channels>>
  <2>1. CASE Atomic!Next
    <3>1. ASSUME NEW q \in Queries, NEW served, Atomic!Serve(q, served) PROVE Outbox!Next
      BY <3>1, ReportRecords DEF Atomic!Serve
    <3>2. ASSUME NEW c \in Channels, Atomic!Enable(c) PROVE Outbox!Next
      BY <3>2 DEF Atomic!Enable, Outbox!Enable, Outbox!Next
    <3>3. ASSUME NEW a \in Alerts, Atomic!FallDue(a)
          PROVE  UNCHANGED <<Pairs(matches), PairNotices(outbox), channels>>
      BY <3>3 DEF Atomic!FallDue, PairNotices
    <3> QED
      BY <2>1, <3>1, <3>2, <3>3 DEF Atomic!Next
  <2>2. CASE UNCHANGED atomicVars
    BY <2>2 DEF atomicVars
  <2> QED
    BY <2>1, <2>2
<1> QED
  BY <1>1, <1>2, PTL DEF ServesAtomically, Atomic!Spec, PublishesOutbox, Outbox!Spec, atomicVars, PairNotices

(* No false match: what is reported satisfies the alert, is stored, and was *)
(* returned by a search that is planned for that alert.                     *)
THEOREM MatchesJustified == ServedSpec => []OnlyJustified
  BY ServedInvariance, PTL DEF ServedInv

=============================================================================
