------------------------ MODULE AlertService_proofs ------------------------
(* Proofs about the whole service, for any runners, alerts, portals,        *)
(* properties and channels, and any number of notifications and dispatchers *)
(* (the scheduler's job, the command line).  They compose the proofs of its *)
(* parts.                                                                   *)
EXTENDS AlertService, RunAlertCycle_proofs

D == INSTANCE DispatchNotifications_proofs WITH
  pc <- dpc,
  Faults <- DispatchFaults,
  Disabled <- {n \in 1..N : NoteOf[n][2] \in DisabledChannels},
  Unreadable <- {}

-----------------------------------------------------------------------------
(* The service is both of its parts.                                        *)

LEMMA PartAssumptions == D!SizesAssumption /\ D!NotesAssumption /\ D!FaultsAssumption
  BY DispatcherAssumption
  DEF D!SizesAssumption, D!NotesAssumption, D!FaultsAssumption, D!Notes, D!FaultKinds

(* The dispatcher of the service and the one of the proofs are the same.    *)
LEMMA PublishIsEnqueue == Publish => \E new \in SUBSET (1..N) : D!Enqueue(new)
<1> SUFFICES ASSUME Publish PROVE \E new \in SUBSET (1..N) : D!Enqueue(new)
  OBVIOUS
<1> DEFINE new == {n \in 1..N : NoteOf[n] \in Notified(outbox' \ outbox)}
<1>1. D!Enqueue(new)
  BY DEF Publish, Dispatcher!Enqueue, D!Enqueue, Dispatcher!Notes, D!Notes,
         Dispatcher!channel, D!channel
<1>2. new \in SUBSET (1..N)
  OBVIOUS
<1> QED
  BY <1>1, <1>2

LEMMA DispatcherActs ==
  ASSUME NEW d
  PROVE  /\ Dispatcher!List(d) <=> D!List(d)
         /\ Dispatcher!SkipDisabled(d) <=> D!SkipDisabled(d)
         /\ Dispatcher!Finish(d) <=> D!Finish(d)
         /\ \A outcome : Dispatcher!Send(d, outcome) <=> D!Send(d, outcome)
         /\ Dispatcher!MarkSent(d) <=> D!MarkSent(d)
         /\ Dispatcher!MarkFailed(d) <=> D!MarkFailed(d)
<1> USE DEF Dispatcher!Head, D!Head, Dispatcher!Rest, D!Rest, Dispatcher!rows, D!rows,
        Dispatcher!channel, D!channel
<1>1. Dispatcher!List(d) <=> D!List(d)
  BY DEF Dispatcher!List, D!List, Dispatcher!Oldest, D!Oldest, Dispatcher!Pending, D!Pending,
         Dispatcher!Notes, D!Notes, Dispatcher!Cardinality, D!Cardinality
<1>2. Dispatcher!SkipDisabled(d) <=> D!SkipDisabled(d)
  BY DEF Dispatcher!SkipDisabled, D!SkipDisabled
<1>3. Dispatcher!Finish(d) <=> D!Finish(d)
  BY DEF Dispatcher!Finish, D!Finish
<1>4. ASSUME NEW outcome PROVE Dispatcher!Send(d, outcome) <=> D!Send(d, outcome)
  BY DEF Dispatcher!Send, D!Send, Dispatcher!Received, D!Received, Dispatcher!Many, D!Many,
         Dispatcher!Refused, D!Refused
<1>5. Dispatcher!MarkSent(d) <=> D!MarkSent(d)
  BY DEF Dispatcher!MarkSent, D!MarkSent
<1>6. Dispatcher!MarkFailed(d) <=> D!MarkFailed(d)
  BY DEF Dispatcher!MarkFailed, D!MarkFailed, Dispatcher!AfterFailure, D!AfterFailure,
         Dispatcher!GivesUp, D!GivesUp
<1> QED
  BY <1>1, <1>2, <1>3, <1>4, <1>5, <1>6

(* Every step of the service is a step of each part, or leaves it alone.    *)
LEMMA PartSteps == [ServiceNext]_serviceVars => [Next]_vars /\ [D!Next]_(D!vars)
<1> SUFFICES ASSUME [ServiceNext]_serviceVars PROVE [Next]_vars /\ [D!Next]_(D!vars)
  OBVIOUS
<1>1. CASE Next /\ Publish
  BY <1>1, PublishIsEnqueue DEF D!Next, D!Notes
<1>2. ASSUME NEW d \in Dispatchers, Deliver(d) \/ Mark(d) PROVE D!Next
  BY <1>2, DispatcherActs DEF Deliver, Send, Mark, D!Next, D!Deliver
<1>3. CASE UNCHANGED serviceVars
  BY <1>3 DEF serviceVars, dispatchVars, D!vars, D!rows, D!channel
<1> QED
  BY <1>1, <1>2, <1>3 DEF ServiceNext

LEMMA PartInits == ServiceInit => Init /\ D!Init
  BY DEF ServiceInit, Dispatcher!Init, D!Init, Dispatcher!Notes, D!Notes

LEMMA CycleInvariance == ServiceSpec => []IInv
<1>1. ServiceSpec => Spec
  BY PartInits, PartSteps, PTL DEF ServiceSpec, Spec
<1> QED
  BY <1>1, Invariance, PTL

(* Beside the dispatchers too, some unended worker can always move: a       *)
(* dispatcher's mark only uses the write lock while nobody holds it.        *)
THEOREM ServiceDeadlockFree == ServiceSpec => []NobodyStuck
<1>1. IInv => NobodyStuck
  BY IInvUnstuck
<1> QED
  BY <1>1, CycleInvariance, PTL

LEMMA DispatchRuns == ServiceSpec => D!Spec
  BY PartInits, PartSteps, PTL DEF ServiceSpec, D!Spec

LEMMA DispatchInvariance ==
  ASSUME OneDispatcher
  PROVE  ServiceSpec => []D!OneInv
<1>1. D!OneDispatcher
  BY OneDispatcher DEF OneDispatcher, D!OneDispatcher
<1>2. D!Spec => []D!OneInv
  BY <1>1, D!OneInvariant, PartAssumptions
<1> QED
  BY <1>2, DispatchRuns, PTL

(* What holds of the dispatchers, however many they are                     *)
DispatchInv == D!IInv /\ (OneDispatcher => D!OneInv)

LEMMA DispatchersInvariance == ServiceSpec => []DispatchInv
<1>1. CASE OneDispatcher
  <2>1. D!OneInv => DispatchInv
    BY DEF DispatchInv, D!OneInv
  <2> QED
    BY <1>1, <2>1, DispatchInvariance, PTL
<1>2. CASE ~OneDispatcher
  <2>1. D!Spec => []D!IInv
    BY D!Invariant, PartAssumptions
  <2>2. D!IInv => DispatchInv
    BY <1>2 DEF DispatchInv
  <2> QED
    BY <2>1, <2>2, DispatchRuns, PTL
<1> QED
  BY <1>1, <1>2

(* One dispatcher gives a notification up exactly when its attempts are     *)
(* used up, whatever the cycles publish meanwhile.                          *)
THEOREM GivesUpInTime ==
  ASSUME OneDispatcher
  PROVE  ServiceSpec => []AttemptsExhausted
<1>1. D!OneInv => AttemptsExhausted
  BY DEF D!OneInv, D!FailedIsExhausted, AttemptsExhausted, Dispatcher!FailedIsExhausted,
         D!Notes, Dispatcher!Notes
<1> QED
  BY <1>1, DispatchInvariance, OneDispatcher, PTL

-----------------------------------------------------------------------------
(* The refinement.  A notification is published only with its match, so one *)
(* that a commit adds was not in the outbox before.                         *)

OutboxHasMatch == \A n \in outbox : n[1] \in matches

LEMMA OutboxUnchanged ==
  ASSUME IInv, [Next]_vars, \A w \in Workers : ~Commit(w)
  PROVE  /\ UNCHANGED <<matches, outbox>>
         /\ channels' = channels \/ \E c \in Channels : channels' = channels \union {c}
<1>1. \A gone, end : RollBack(gone, end) => UNCHANGED <<matches, outbox, channels>>
  BY DEF RollBack, db
<1>2. ASSUME NEW w \in Workers, WorkerStep(w) \/ FetchFails(w) \/ Raises(w)
      PROVE  UNCHANGED <<matches, outbox, channels>>
  BY <1>1, <1>2
  DEF WorkerStep, CacheHit, CacheMiss, FetchReturns, Ingest, LockAlert, PersistAlert,
      RecordFailure, IntegrityError, BusyTimeout, FetchFails, Raises, db
<1>3. ASSUME NEW r \in Runners, PlannerTick(r) \/ Crash(r)
      PROVE  UNCHANGED <<matches, outbox, channels>>
  BY <1>1, <1>3 DEF PlannerTick, Crash, db
<1>4. ASSUME (\E a \in Alerts : BecomesDue(a)) \/ (\E q \in Queries : CacheExpires(q))
      PROVE  UNCHANGED <<matches, outbox, channels>>
  BY <1>4 DEF BecomesDue, CacheExpires
<1> QED
  BY <1>2, <1>3, <1>4 DEF Next, CreateChannel, vars, db

LEMMA OutboxStays == IInv /\ OutboxHasMatch /\ [Next]_vars => OutboxHasMatch'
<1> SUFFICES ASSUME IInv, OutboxHasMatch, [Next]_vars PROVE OutboxHasMatch'
  OBVIOUS
<1>1. ASSUME NEW w \in Workers, Commit(w) PROVE OutboxHasMatch'
  <2>1. queued[w] = staged[w] \X channels
    BY DEF IInv, StagedQueued
  <2>2. outbox' = outbox \union queued[w] /\ matches' = matches \union staged[w]
    BY <1>1 DEF Commit
  <2> QED
    BY <2>1, <2>2 DEF OutboxHasMatch
<1>2. CASE \A w \in Workers : ~Commit(w)
  BY <1>2, OutboxUnchanged DEF OutboxHasMatch
<1> QED
  BY <1>1, <1>2

LEMMA OutboxInvariance == ServiceSpec => []OutboxHasMatch
<1>1. ServiceInit => OutboxHasMatch
  BY PartInits DEF Init, OutboxHasMatch
<1> QED
  BY <1>1, PartSteps, OutboxStays, CycleInvariance, PTL DEF ServiceSpec

-----------------------------------------------------------------------------
(* What MatchNotifier sees *)

Slots == (Alerts \X Properties) \X Channels
Owed == [row \in Slots |-> status[NumberOf(row)]]
Received == {NoteOf[n] : n \in {m \in 1..N : delivered[m] > 0}}

LEMMA Numbering ==
  /\ \A row \in Slots : NumberOf(row) \in 1..N /\ NoteOf[NumberOf(row)] = row
  /\ \A n \in 1..N : NoteOf[n] \in Slots /\ NumberOf(NoteOf[n]) = n
<1>1. ASSUME NEW row \in Slots PROVE NumberOf(row) \in 1..N /\ NoteOf[NumberOf(row)] = row
  BY NoteAssumption DEF NumberOf, Slots
<1>2. ASSUME NEW n \in 1..N PROVE NoteOf[n] \in Slots /\ NumberOf(NoteOf[n]) = n
  <2>1. NoteOf[n] \in Slots
    BY NoteAssumption DEF Slots
  <2>2. PICK k \in 1..N : \A m \in 1..N : NoteOf[m] = NoteOf[n] => m = k
    BY <2>1, NoteAssumption DEF Slots
  <2> QED
    BY <1>1, <2>1, <2>2
<1> QED
  BY <1>1, <1>2

(* A commit reports its matches and owes them to the channels it finds.     *)
LEMMA CommitReports ==
  ASSUME IInv, OutboxHasMatch, NEW w \in Workers, Commit(w), Publish
  PROVE  Promise!Next
<1> DEFINE new == Pairs(staged[w])
<1>1. new \intersect Pairs(matches) = {}
  BY DEF IInv, StagedFresh, Pairs
<1>2. Pairs(matches') = Pairs(matches) \union new
  BY PairsUnion DEF Commit
<1>3. channels' = channels
  BY DEF Commit
<1>4. new \in SUBSET (Alerts \X Properties)
  BY DEF IInv, TypeOK, MatchRows, Pairs
<1>5. Notified(outbox' \ outbox) = new \X channels
  <2>1. queued[w] = staged[w] \X channels /\ outbox' = outbox \union queued[w]
    BY DEF Commit, IInv, StagedQueued
  <2>2. \A m \in staged[w] : m \notin matches
    BY DEF IInv, StagedFresh, Pairs
  <2>3. outbox' \ outbox = staged[w] \X channels
    BY <2>1, <2>2 DEF OutboxHasMatch
  <2>4. Notified(staged[w] \X channels) = PairNotices(staged[w] \X channels)
    BY DEF Notified, NoticeOf, PairNotices
  <2> QED
    BY <2>3, <2>4, PairNoticesProduct
<1>6. Owed' = [row \in Slots |-> IF row \in new \X channels THEN "PENDING" ELSE Owed[row]]
  <2>1. status' = [n \in 1..N |-> IF NoteOf[n] \in new \X channels THEN "PENDING" ELSE status[n]]
    BY <1>5 DEF Publish, Dispatcher!Enqueue, Dispatcher!Notes, Dispatcher!channel
  <2> HIDE DEF new
  <2> QED
    BY <2>1, Numbering DEF Owed
<1>7. Received' = Received
  BY DEF Publish, Dispatcher!Enqueue, Dispatcher!channel, Received
<1>8. Promise!Report(new)
  <2> HIDE DEF new
  <2> QED
    BY <1>1, <1>2, <1>3, <1>6, <1>7 DEF Promise!Report, Promise!Pairs, Owed, Received, Slots
<1> QED
  BY <1>4, <1>8 DEF Promise!Next, Promise!Pairs

(* The other steps of a cycle publish nothing; a channel may be created.    *)
LEMMA QuietPublish ==
  ASSUME IInv, D!TypeOK, [Next]_vars, \A w \in Workers : ~Commit(w), Publish
  PROVE  Promise!Next \/ UNCHANGED <<Pairs(matches), channels, Owed, Received>>
<1>1. outbox' = outbox /\ Pairs(matches') = Pairs(matches)
  BY OutboxUnchanged
<1>2. Notified(outbox' \ outbox) = {}
  BY <1>1 DEF Notified
<1>3. status' = status /\ delivered' = delivered
  <2>1. status \in [1..N -> D!Statuses]
    BY DEF D!TypeOK, D!Notes
  <2>2. status' = [n \in 1..N |-> status[n]] /\ delivered' = delivered
    BY <1>2 DEF Publish, Dispatcher!Enqueue, Dispatcher!Notes, Dispatcher!channel
  <2> QED
    BY <2>1, <2>2
<1>4. Owed' = Owed /\ Received' = Received
  BY <1>3 DEF Owed, Received
<1>5. ASSUME NEW c \in Channels, channels' = channels \union {c} PROVE Promise!Next
  BY <1>1, <1>4, <1>5 DEF Promise!Next, Promise!Enable, Owed, Received, Slots
<1> QED
  BY <1>1, <1>4, <1>5, OutboxUnchanged

(* A dispatcher delivers and settles what is owed: what is still PENDING,   *)
(* if it is the only one.                                                   *)
LEMMA DispatchSettles ==
  ASSUME DispatchInv, NEW d \in Dispatchers, Deliver(d) \/ Mark(d), UNCHANGED vars
  PROVE  Promise!Next \/ UNCHANGED <<Pairs(matches), channels, Owed, Received>>
<1>0. channels' = channels /\ Pairs(matches') = Pairs(matches)
  BY DEF vars, db
<1> DEFINE h == D!Head(d)
           note == NoteOf[h]
<1>1. D!TypeOK /\ status \in [1..N -> D!Statuses] /\ delivered \in [1..N -> 0..2]
  BY DEF DispatchInv, D!IInv, D!TypeOK, D!Notes, D!Many
<1>2. ASSUME batch[d] # {}
      PROVE  /\ h \in 1..N /\ note \in Slots /\ NumberOf(note) = h
             /\ Owed[note] = "PENDING" \/ (~OneDispatcher /\ Owed[note] # "none")
  <2>1. h \in 1..N /\ h \in batch[d]
    BY <1>1, <1>2, PartAssumptions, D!HeadIsNote DEF D!Notes
  <2>2. status[h] = "PENDING" \/ (~OneDispatcher /\ status[h] # "none")
    BY <2>1 DEF DispatchInv, D!OneInv, D!IInv, D!ListedStaysPending, D!ListedEnqueued
  <2> HIDE DEF h
  <2> QED
    BY <2>1, <2>2, Numbering DEF Owed
<1>3. CASE UNCHANGED <<status, delivered>>
  BY <1>0, <1>3 DEF Owed, Received
<1>4. ASSUME NEW outcome \in {"sent", "refused"}, D!Send(d, outcome), delivered' # delivered
      PROVE  Promise!Next
  <2>1. batch[d] # {} /\ status' = status /\ delivered' = D!Received(h)
    BY <1>4 DEF D!Send, D!rows
  <2>2. delivered' = [delivered EXCEPT ![h] = IF delivered[h] < 2 THEN delivered[h] + 1 ELSE delivered[h]]
    BY <2>1 DEF D!Received, D!Many
  <2>3. \A n \in 1..N : delivered'[n] > 0 <=> n = h \/ delivered[n] > 0
    <3> HIDE DEF h
    <3> QED
      BY <1>1, <1>2, <2>1, <2>2
  <2>4. Received' = Received \union {note}
    <3> HIDE DEF h
    <3> QED
      BY <1>2, <2>1, <2>3 DEF Received
  <2>5. Owed' = Owed
    BY <2>1 DEF Owed
  <2>6. PICK n \in Promise!Pairs \X Channels : n = note
    BY <1>2, <2>1 DEF Promise!Pairs, Slots
  <2>7. Promise!Receive(n)
    <3> HIDE DEF note
    <3> QED
      BY <1>0, <1>2, <2>1, <2>4, <2>5, <2>6 DEF Promise!Receive, Promise!Open, Owed, Received, Slots
  <2> QED
    BY <2>7 DEF Promise!Next
<1>5. ASSUME NEW end \in {"SENT", "FAILED"}, batch[d] # {}, end = "SENT" => delivered[h] > 0,
             status' = [status EXCEPT ![h] = end], delivered' = delivered
      PROVE  Promise!Next
  <2>1. Owed' = [Owed EXCEPT ![note] = end]
    <3> HIDE DEF h
    <3>1. \A row \in Slots : status'[NumberOf(row)] = IF row = note THEN end ELSE status[NumberOf(row)]
      BY <1>1, <1>2, <1>5, Numbering
    <3> QED
      BY <1>2, <1>5, <3>1 DEF Owed
  <2>2. Received' = Received /\ (end = "SENT" => note \in Received)
    <3> HIDE DEF h
    <3> QED
      BY <1>2, <1>5 DEF Received
  <2>3. Promise!Settle(note, end)
    <3> HIDE DEF note
    <3> QED
      BY <1>0, <1>2, <1>5, <2>1, <2>2 DEF Promise!Settle, Promise!Open, Owed, Received, Slots
  <2>4. note \in Promise!Pairs \X Channels
    BY <1>2, <1>5 DEF Promise!Pairs, Slots
  <2> HIDE DEF note
  <2> QED
    BY <2>3, <2>4 DEF Promise!Next
<1>6. CASE D!MarkSent(d)
  <2>1. batch[d] # {} /\ delivered[h] > 0
    BY <1>6 DEF D!MarkSent, DispatchInv, D!IInv, D!MarkShape
  <2>2. /\ status' = [status EXCEPT ![h] = "SENT"] \/ status' = status
        /\ delivered' = delivered
    BY <1>6, <2>1 DEF D!MarkSent, D!channel
  <2> QED
    BY <1>3, <1>5, <2>1, <2>2
<1>7. CASE D!MarkFailed(d)
  <2>1. batch[d] # {}
    BY <1>7 DEF D!MarkFailed, DispatchInv, D!IInv, D!MarkShape
  <2>2. /\ status' = [status EXCEPT ![h] = "FAILED"] \/ status' = status
        /\ delivered' = delivered
    BY <1>7 DEF D!MarkFailed, D!AfterFailure, D!channel
  <2> QED
    BY <1>3, <1>5, <2>1, <2>2
<1> QED
  BY <1>3, <1>4, <1>6, <1>7, DispatcherActs
  DEF Deliver, Send, Mark, D!List, D!SkipDisabled, D!Finish, D!Send, D!rows, D!channel

(* From the scrape to the message, for any number of workers, alerts,       *)
(* portals, properties, channels and dispatchers: every match is reported   *)
(* once, a notification is owed for each channel enabled then, messages are *)
(* about reported matches only, and a settled notification stays settled;   *)
(* one dispatcher sends only what is owed, and settles it for good.         *)
THEOREM ServiceKeepsPromise == ServiceSpec => KeepsPromise
<1>1. ServiceInit => Promise!Init
  <2> SUFFICES ASSUME ServiceInit PROVE Promise!Init
    OBVIOUS
  <2>1. matches = {} /\ channels = {}
    BY DEF ServiceInit, Init
  <2>2. status = [n \in 1..N |-> "none"] /\ delivered = [n \in 1..N |-> 0]
    BY DEF ServiceInit, Dispatcher!Init, Dispatcher!Notes
  <2>3. Owed = [row \in Slots |-> "none"] /\ Received = {}
    BY <2>2, Numbering DEF Owed, Received
  <2> QED
    BY <2>1, <2>3 DEF Promise!Init, Promise!Pairs, Pairs, Owed, Received, Slots
<1>2. IInv /\ OutboxHasMatch /\ DispatchInv /\ [ServiceNext]_serviceVars
        => [Promise!Next]_<<Pairs(matches), channels, Owed, Received>>
  <2> SUFFICES ASSUME IInv, OutboxHasMatch, DispatchInv, [ServiceNext]_serviceVars
               PROVE  Promise!Next \/ UNCHANGED <<Pairs(matches), channels, Owed, Received>>
    OBVIOUS
  <2>0. D!TypeOK
    BY DEF DispatchInv, D!IInv
  <2>1. CASE Next /\ Publish
    BY <2>0, <2>1, CommitReports, QuietPublish
  <2>2. ASSUME NEW d \in Dispatchers, Deliver(d) \/ Mark(d), UNCHANGED vars
        PROVE  Promise!Next \/ UNCHANGED <<Pairs(matches), channels, Owed, Received>>
    BY <2>2, DispatchSettles
  <2>3. CASE UNCHANGED serviceVars
    BY <2>3 DEF serviceVars, dispatchVars, vars, db, Pairs, Owed, Received
  <2> QED
    BY <2>1, <2>2, <2>3 DEF ServiceNext
<1> QED
  BY <1>1, <1>2, CycleInvariance, OutboxInvariance, DispatchersInvariance, PTL
  DEF ServiceSpec, KeepsPromise, Promise!Spec, Owed, Received, Slots
=============================================================================
