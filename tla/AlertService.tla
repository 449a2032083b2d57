---------------------------- MODULE AlertService ----------------------------
(***************************************************************************)
(* The whole service over one database: the alert cycles of RunAlertCycle  *)
(* and the dispatchers of DispatchNotifications, which meet in the         *)
(* notifications table and in SQLite's write lock.  A worker's commit      *)
(* enqueues, in the same transaction as its matches, the notifications the *)
(* dispatchers list; a mark commits only while no worker is writing.       *)
(***************************************************************************)
EXTENDS RunAlertCycle

CONSTANTS
  NoteOf,           \* number by created_at -> <<<<alert, property>>, channel>>
  N,                \* how many there can be
  Dispatchers, BatchSize, MaxAttempts,
  DisabledChannels,
  DispatchFaults    \* the dispatcher faults the environment produces

ASSUME NoteAssumption ==
  /\ NoteOf \in [1..N -> (Alerts \X Properties) \X Channels]
  /\ \A row \in (Alerts \X Properties) \X Channels :
       \E n \in 1..N : NoteOf[n] = row /\ \A m \in 1..N : NoteOf[m] = row => m = n
ASSUME DispatcherAssumption ==
  /\ N \in Nat /\ BatchSize \in Nat \ {0} /\ MaxAttempts \in Nat \ {0}
  /\ DispatchFaults \subseteq {"refused", "late_error", "slow_writer", "crash"}

VARIABLES status, attempts, delivered, refusals, dpc, batch, read

dispatchVars == <<status, attempts, delivered, refusals, dpc, batch, read>>
serviceVars == <<vars, dispatchVars>>

Dispatcher == INSTANCE DispatchNotifications WITH
  pc <- dpc,
  Faults <- DispatchFaults,
  Disabled <- {n \in 1..N : NoteOf[n][2] \in DisabledChannels},
  Unreadable <- {}

NoticeOf(n) == <<<<n[1][1], n[1][2]>>, n[2]>>
Notified(rows) == {NoticeOf(n) : n \in rows}
NumberOf(row) == CHOOSE n \in 1..N : NoteOf[n] = row

ServiceInit == Init /\ Dispatcher!Init

(* Mutation: another session publishes the notifications before the commit *)
PublishStaged ==
  Dispatcher!Enqueue({n \in 1..N : /\ \E w \in Workers : NoteOf[n] \in Notified(queued'[w])
                                   /\ status[n] = "none"})

(* What a cycle's step commits to the outbox appears in the dispatcher's list *)
Publish == Dispatcher!Enqueue({n \in 1..N : NoteOf[n] \in Notified(outbox' \ outbox)})

(* mark_sent and mark_failed wait for the write lock; here it comes within  *)
(* the busy timeout (DispatchNotifications has the mark that times out).    *)
Mark(d) ==
  (Dispatcher!MarkSent(d) \/ Dispatcher!MarkFailed(d)) /\ dbWriter = NoOne

Send(d) == \E outcome \in {"sent", "refused"} : Dispatcher!Send(d, outcome)

(* Everything a run does before and after its marks only reads *)
Deliver(d) ==
  Dispatcher!List(d) \/ Dispatcher!SkipDisabled(d) \/ Dispatcher!Finish(d) \/ Send(d)

ServiceNext ==
  \/ Next /\ Publish
  \/ (\E d \in Dispatchers : Deliver(d) \/ Mark(d)) /\ UNCHANGED vars

ServiceSpec == ServiceInit /\ [][ServiceNext]_serviceVars

(* As in the two components.  A mark polls for the write lock (SQLite's     *)
(* busy handler), so a writer that comes and goes does not starve it.       *)
ServiceFairness ==
  /\ \A w \in Workers : WF_serviceVars(WorkerStep(w) /\ Publish)
  /\ \A r \in Runners : WF_serviceVars(PlannerTick(r) /\ Publish)
  /\ \A q \in Queries : SF_serviceVars(CacheExpires(q) /\ Publish)
  /\ \A d \in Dispatchers :
       /\ WF_serviceVars(Deliver(d) /\ UNCHANGED vars)
       /\ SF_serviceVars(Mark(d) /\ UNCHANGED vars)

FairServiceSpec == ServiceSpec /\ ServiceFairness

-----------------------------------------------------------------------------
(* From the scrape to the message, the service does what MatchNotifier      *)
(* says: it reports a pair once, owes its notification to exactly the       *)
(* channels enabled when the worker commits, sends none for a match that    *)
(* was rolled back, and never reopens one it has settled; one dispatcher    *)
(* does not resend it either.                                               *)
OneDispatcher == \A d, e \in Dispatchers : d = e

Promise == INSTANCE MatchNotifier WITH
  OneSender <- OneDispatcher,
  matched <- Pairs(matches),
  enabled <- channels,
  owed <- [row \in (Alerts \X Properties) \X Channels |-> status[NumberOf(row)]],
  received <- {NoteOf[n] : n \in {m \in 1..N : delivered[m] > 0}}
KeepsPromise == Promise!Spec

(* A notification is given up exactly when its attempts are used up, while  *)
(* cycles keep adding notifications to the table.                           *)
AttemptsExhausted == Dispatcher!FailedIsExhausted

(* A worker that has resolved a property satisfying an alert it still has   *)
(* to evaluate aborts, or the user hears of it on every channel that was    *)
(* enabled then: the notification ends SENT, or FAILED after its attempts.  *)
ResolvedIsSettled ==
  \A w \in Workers, n \in 1..N :
    LET a == NoteOf[n][1][1]
        p == NoteOf[n][1][2]
        c == NoteOf[n][2]
    IN c \notin DisabledChannels /\ <<a, p>> \in Satisfies =>
         (pc[w] = "evaluating" /\ a \in todo[w] /\ p \in ids[w] /\ c \in channels
            /\ <<a, p>> \notin Pairs(matches))
           ~> (status[n] \in {"SENT", "FAILED"} \/ pc[w] = "aborted")
=============================================================================
