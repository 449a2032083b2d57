----------------------- MODULE DispatchNotifications -----------------------
(***************************************************************************)
(* The dispatcher: list a batch of PENDING notifications, oldest first,    *)
(* send each, mark it SENT or count a failed attempt, one transaction per  *)
(* notification.  The scheduler's job and the CLI's dispatch command are   *)
(* dispatchers of different processes.                                     *)
(*                                                                         *)
(* Notifications are numbered by created_at.  A mark reads the row when it *)
(* is made and writes it, dirty columns only, at the commit.               *)
(***************************************************************************)
EXTENDS Naturals, FiniteSets

CONSTANTS
  Dispatchers,
  N,            \* number of notifications
  BatchSize, MaxAttempts,
  Disabled,     \* notifications whose channel is disabled
  Unreadable,   \* notifications whose channel or alert the repository cannot load
  Faults        \* which of FaultKinds the environment produces

FaultKinds == {"refused", "late_error", "slow_writer", "crash"}
Notes == 1..N
Many == 2  \* deliveries are counted up to Many

ASSUME SizesAssumption == N \in Nat /\ BatchSize \in Nat \ {0} /\ MaxAttempts \in Nat \ {0}
ASSUME NotesAssumption == Disabled \subseteq Notes /\ Unreadable \subseteq Notes
ASSUME FaultsAssumption == Faults \subseteq FaultKinds

VARIABLES
  status, attempts,  \* the notifications rows; "none" is not yet enqueued
  delivered,         \* messages the channel has received (external)
  refusals,          \* sends that ended in an error, up to MaxAttempts (external)
  pc, batch,         \* the dispatcher's remaining list
  read               \* the row its mark read

rows == <<status, attempts>>
channel == <<delivered, refusals>>
vars == <<rows, channel, pc, batch, read>>

Statuses == {"none", "PENDING", "SENT", "FAILED"}
Terminal == {"SENT", "FAILED"}

Init ==
  /\ status = [n \in Notes |-> "none"]
  /\ attempts = [n \in Notes |-> 0]
  /\ delivered = [n \in Notes |-> 0]
  /\ refusals = [n \in Notes |-> 0]
  /\ pc = [d \in Dispatchers |-> "idle"]
  /\ batch = [d \in Dispatchers |-> {}]
  /\ read = [d \in Dispatchers |-> [status |-> "none", attempts |-> 0]]

Pending == {n \in Notes : status[n] = "PENDING"}

(* A cycle commits its matches.  created_at is the cycle worker's start, so *)
(* a notification may become visible after younger ones.                    *)
Enqueue(new) ==
  /\ \A n \in new : status[n] = "none"
  /\ status' = [n \in Notes |-> IF n \in new THEN "PENDING" ELSE status[n]]
  /\ UNCHANGED <<attempts, channel, pc, batch, read>>

(* Mutation: list_pending forgets the status filter *)
OldestOfAll == {n \in Notes : status[n] # "none" /\ Cardinality({m \in 1..n : status[m] # "none"}) <= BatchSize}

(* list_pending: the BatchSize oldest *)
Oldest == {n \in Pending : Cardinality({m \in Pending : m <= n}) <= BatchSize}

List(d) ==
  /\ pc[d] = "idle"
  /\ Pending # {}
  /\ batch' = [batch EXCEPT ![d] = Oldest]
  /\ pc' = [pc EXCEPT ![d] = "next"]
  /\ UNCHANGED <<rows, channel, read>>

Head(d) == CHOOSE n \in batch[d] : \A m \in batch[d] : n <= m
Rest(d) == [batch EXCEPT ![d] = @ \ {Head(d)}]

Finish(d) ==
  /\ pc[d] = "next"
  /\ batch[d] = {}
  /\ pc' = [pc EXCEPT ![d] = "idle"]
  /\ UNCHANGED <<rows, channel, batch, read>>

(* The run ends with an exception: the rest of the batch is dropped *)
Abandon(d) ==
  /\ pc' = [pc EXCEPT ![d] = "idle"]
  /\ batch' = [batch EXCEPT ![d] = {}]
  /\ UNCHANGED <<rows, channel, read>>

(* _deliver loads the channel, match, property and alert *)
LoadRaises(d) ==
  /\ pc[d] = "next"
  /\ batch[d] # {}
  /\ Head(d) \in Unreadable
  /\ Abandon(d)

(* Mutation: whatever was not delivered counts as a failed attempt *)
SkipCounted(d) ==
  /\ pc[d] = "next"
  /\ batch[d] # {}
  /\ Head(d) \in Disabled \ Unreadable
  /\ attempts' = [attempts EXCEPT ![Head(d)] = @ + 1]
  /\ status' = IF attempts[Head(d)] + 1 >= MaxAttempts
                 THEN [status EXCEPT ![Head(d)] = "FAILED"] ELSE status
  /\ batch' = Rest(d)
  /\ UNCHANGED <<channel, pc, read>>

SkipDisabled(d) ==
  /\ pc[d] = "next"
  /\ batch[d] # {}
  /\ Head(d) \in Disabled \ Unreadable
  /\ batch' = Rest(d)
  /\ UNCHANGED <<rows, channel, pc, read>>

(* notifier.send and its outcome; the mark then reads the row *)
Received(n) == [delivered EXCEPT ![n] = IF @ < Many THEN @ + 1 ELSE @]

Refused(n) == [refusals EXCEPT ![n] = IF @ < MaxAttempts THEN @ + 1 ELSE @]

Send(d, outcome) ==
  /\ pc[d] = "next"
  /\ batch[d] # {}
  /\ Head(d) \notin Disabled \union Unreadable
  /\ \/ outcome = "sent" /\ delivered' = Received(Head(d))
     \/ "late_error" \in Faults /\ outcome = "refused" /\ delivered' = Received(Head(d))
     \/ "refused" \in Faults /\ outcome = "refused" /\ UNCHANGED delivered
  /\ refusals' = IF outcome = "refused" THEN Refused(Head(d)) ELSE refusals
  /\ read' = [read EXCEPT ![d] = [status |-> status[Head(d)], attempts |-> attempts[Head(d)]]]
  /\ pc' = [pc EXCEPT ![d] = outcome]
  /\ UNCHANGED <<rows, batch>>

(* mark_sent, committed: the status column is written when it differs from  *)
(* the one read                                                             *)
MarkSent(d) ==
  /\ pc[d] = "sent"
  /\ status' = IF read[d].status # "SENT" THEN [status EXCEPT ![Head(d)] = "SENT"] ELSE status
  /\ batch' = Rest(d)
  /\ pc' = [pc EXCEPT ![d] = "next"]
  /\ UNCHANGED <<attempts, channel, read>>

(* Mutation of mark_failed's test: off by one *)
GivesUpLate(d) == read[d].attempts >= MaxAttempts

GivesUp(d) == read[d].attempts + 1 >= MaxAttempts

(* Mutations: the commit writes the whole row as read; a status of its own  *)
WholeRow(d) == [status EXCEPT ![Head(d)] = IF GivesUp(d) THEN "FAILED" ELSE read[d].status]
Retrying(d) == [status EXCEPT ![Head(d)] = IF GivesUp(d) THEN "FAILED" ELSE "RETRYING"]

AfterFailure(d) ==
  IF GivesUp(d) /\ read[d].status # "FAILED"
    THEN [status EXCEPT ![Head(d)] = "FAILED"] ELSE status

(* Mutation: a NotifierError is swallowed and the notification marked SENT  *)
MarkFailedAsSent(d) ==
  /\ pc[d] = "refused"
  /\ status' = [status EXCEPT ![Head(d)] = "SENT"]
  /\ batch' = Rest(d)
  /\ pc' = [pc EXCEPT ![d] = "next"]
  /\ UNCHANGED <<attempts, channel, read>>

(* Mutation: the attempt is not counted *)
MarkFailedUncounted(d) ==
  /\ pc[d] = "refused"
  /\ batch' = Rest(d)
  /\ pc' = [pc EXCEPT ![d] = "next"]
  /\ UNCHANGED <<rows, channel, read>>

(* mark_failed, committed *)
MarkFailed(d) ==
  /\ pc[d] = "refused"
  /\ attempts' = [attempts EXCEPT ![Head(d)] = read[d].attempts + 1]
  /\ status' = AfterFailure(d)
  /\ batch' = Rest(d)
  /\ pc' = [pc EXCEPT ![d] = "next"]
  /\ UNCHANGED <<channel, read>>

(* "database is locked" at the commit: a cycle's worker writes for longer   *)
(* than the busy timeout                                                    *)
MarkTimesOut(d) ==
  /\ "slow_writer" \in Faults
  /\ pc[d] \in {"sent", "refused"}
  /\ Abandon(d)

Crash(d) ==
  /\ "crash" \in Faults
  /\ pc[d] # "idle"
  /\ Abandon(d)

Deliver(d) ==
  \/ LoadRaises(d) \/ SkipDisabled(d) \/ Finish(d) \/ MarkSent(d) \/ MarkFailed(d)
  \/ \E outcome \in {"sent", "refused"} : Send(d, outcome)

Next ==
  \/ \E new \in SUBSET Notes : Enqueue(new)
  \/ \E d \in Dispatchers : List(d) \/ Deliver(d) \/ MarkTimesOut(d) \/ Crash(d)

Spec == Init /\ [][Next]_vars

(* The job fires again and again and a started run goes on. *)
Fairness == \A d \in Dispatchers : WF_vars(List(d)) /\ WF_vars(Deliver(d))
FairSpec == Spec /\ Fairness

-----------------------------------------------------------------------------
TypeOK ==
  /\ status \in [Notes -> Statuses]
  /\ attempts \in [Notes -> Nat]
  /\ delivered \in [Notes -> 0..Many]
  /\ refusals \in [Notes -> 0..MaxAttempts]
  /\ pc \in [Dispatchers -> {"idle", "next", "sent", "refused"}]
  /\ batch \in [Dispatchers -> SUBSET Notes]
  /\ read \in [Dispatchers -> [status : Statuses, attempts : Nat]]

(* A notification is SENT only if the channel got it, whoever marked it and *)
(* whatever failed in between (send before mark_sent).                      *)
SentWasDelivered == \A n \in Notes : status[n] = "SENT" => delivered[n] > 0

(* A notification is given up only after max_attempts sends of it ended in  *)
(* an error, although dispatchers that race lose counts of each other, and  *)
(* marks that time out or crash are not counted: none is given up early,    *)
(* and none for a channel that is disabled or cannot be read.               *)
GivenUpAfterRefusals ==
  \A n \in Notes : status[n] = "FAILED" => refusals[n] = MaxAttempts

(* With one dispatcher a notification is given up exactly when its attempts *)
(* are used up, and attempts never exceed the limit.                        *)
FailedIsExhausted ==
  \A n \in Notes : /\ attempts[n] <= MaxAttempts
                   /\ status[n] = "FAILED" <=> attempts[n] = MaxAttempts

(* With one dispatcher SENT and FAILED are final: no later run, retry or    *)
(* recovery reopens or overwrites them.                                     *)
SettledStays == [][\A n \in Notes : status[n] \in Terminal => status'[n] = status[n]]_vars

(* Whoever runs, a settled notification is never made PENDING again. *)
NeverReopened ==
  [][\A n \in Notes : status[n] \in Terminal => status'[n] \in Terminal]_vars

(* Every notification of a working channel is eventually SENT or FAILED,    *)
(* although skipped ones stay PENDING at the head of the batch.             *)
PendingSettles ==
  \A n \in Notes \ (Disabled \union Unreadable) : status[n] = "PENDING" ~> status[n] \in Terminal

(* "Sends every PENDING notification, isolating one delivery failure from   *)
(* the rest" (dispatch_notifications.py)                                    *)
FailureIsolated ==
  \A n \in Notes \ (Disabled \union Unreadable) : status[n] = "PENDING" ~> status[n] # "PENDING"

-----------------------------------------------------------------------------
(* The inductive strengthenings *)

(* A mark has a notification to mark, and one marked SENT was received. *)
MarkShape ==
  \A d \in Dispatchers :
    /\ pc[d] \in {"sent", "refused"} => batch[d] # {}
    /\ pc[d] = "sent" => delivered[Head(d)] > 0

(* Every counted attempt, or one about to be, is a send that was refused. *)
CountedWasRefused ==
  /\ \A n \in Notes : refusals[n] < MaxAttempts => attempts[n] <= refusals[n]
  /\ \A d \in Dispatchers :
       pc[d] = "refused" /\ refusals[Head(d)] < MaxAttempts =>
         read[d].attempts < refusals[Head(d)]

(* What a dispatcher listed was enqueued.                                   *)
ListedEnqueued == \A d \in Dispatchers : \A n \in batch[d] : status[n] # "none"

IInv ==
  /\ TypeOK /\ MarkShape /\ ListedEnqueued /\ SentWasDelivered
  /\ CountedWasRefused /\ GivenUpAfterRefusals

(* What one dispatcher listed is still PENDING when it comes to it, and     *)
(* what it read of it is still so when it commits.                          *)
ListedStaysPending ==
  \A d \in Dispatchers :
    /\ \A n \in batch[d] : status[n] = "PENDING"
    /\ pc[d] \in {"sent", "refused"} =>
         read[d] = [status |-> "PENDING", attempts |-> attempts[Head(d)]]

OneInv == IInv /\ ListedStaysPending /\ FailedIsExhausted
=============================================================================
