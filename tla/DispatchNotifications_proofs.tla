-------------------- MODULE DispatchNotifications_proofs --------------------
(* Proofs about DispatchNotifications, for any number of notifications, any *)
(* batch size and attempt limit, any disabled and unreadable ones and any   *)
(* faults.                                                                  *)
EXTENDS DispatchNotifications, WellFoundedInduction, TLAPS

-----------------------------------------------------------------------------
(* A batch that is not empty has a head: the oldest notification of it. *)
LEMMA HeadInBatch ==
  ASSUME NEW d, batch[d] \subseteq Notes, batch[d] # {}
  PROVE  Head(d) \in batch[d]
<1>1. batch[d] \subseteq Nat
  BY SizesAssumption DEF Notes
<1>2. PICK n \in batch[d] : \A m \in batch[d] : ~ (<<m, n>> \in OpToRel(<, Nat))
  BY <1>1, NatLessThanWellFounded, WFMin
<1>3. \A m \in batch[d] : ~ (m < n)
  <2> TAKE m \in batch[d]
  <2>1. <<m, n>> \in Nat \X Nat
    BY <1>1
  <2> QED
    BY <1>2, <2>1 DEF OpToRel
<1>4. \A m \in batch[d] : n <= m
  BY <1>1, <1>3
<1> QED
  BY <1>4 DEF Head

(* The head depends on nothing but the dispatcher's own batch. *)
LEMMA HeadStays ==
  ASSUME NEW d, batch'[d] = batch[d]
  PROVE  Head(d)' = Head(d)
  BY DEF Head

LEMMA HeadIsNote ==
  ASSUME TypeOK, NEW d \in Dispatchers, batch[d] # {}
  PROVE  Head(d) \in Notes /\ Head(d) \in batch[d]
  BY HeadInBatch DEF TypeOK

-----------------------------------------------------------------------------
(* The part of the invariant that does not look at the refusals *)
Safe == TypeOK /\ MarkShape /\ SentWasDelivered

LEMMA AbandonSafe ==
  ASSUME Safe, NEW d \in Dispatchers, Abandon(d)
  PROVE  Safe'
<1>1. TypeOK'
  BY DEF Safe, TypeOK, Abandon, rows, channel
<1>2. ASSUME NEW e \in Dispatchers, e # d PROVE Head(e)' = Head(e)
  BY <1>2, HeadStays DEF Safe, TypeOK, Abandon
<1>3. MarkShape'
  BY <1>2 DEF Safe, TypeOK, MarkShape, Abandon, channel
<1>4. SentWasDelivered'
  BY DEF Safe, SentWasDelivered, Abandon, rows, channel
<1> QED
  BY <1>1, <1>3, <1>4 DEF Safe

(* Types, and SENT never runs ahead of the delivery, whoever acts. *)
LEMMA SafeStep == Safe /\ [Next]_vars => Safe'
<1> SUFFICES ASSUME Safe, [Next]_vars PROVE Safe'
  OBVIOUS
<1> USE SizesAssumption DEF Safe, channel
<1>1. ASSUME NEW new \in SUBSET Notes, Enqueue(new) PROVE Safe'
  <2>1. TypeOK'
    BY <1>1 DEF TypeOK, Enqueue, Statuses
  <2>2. MarkShape'
    BY <1>1 DEF MarkShape, Enqueue, Head
  <2>3. SentWasDelivered'
    BY <1>1 DEF TypeOK, SentWasDelivered, Enqueue
  <2> QED
    BY <2>1, <2>2, <2>3
<1>2. ASSUME NEW d \in Dispatchers, List(d) PROVE Safe'
  <2>1. TypeOK'
    BY <1>2 DEF TypeOK, List, Oldest, Pending, rows, channel
  <2>2. \A e \in Dispatchers : e # d => Head(e)' = Head(e)
    BY <1>2, HeadStays DEF List, TypeOK
  <2>3. MarkShape'
    BY <1>2, <2>2 DEF TypeOK, MarkShape, List
  <2>4. SentWasDelivered'
    BY <1>2 DEF SentWasDelivered, List, rows, channel
  <2> QED
    BY <2>1, <2>3, <2>4
<1>3. ASSUME NEW d \in Dispatchers, SkipDisabled(d) PROVE Safe'
  <2>1. TypeOK'
    BY <1>3 DEF TypeOK, SkipDisabled, Rest, rows, channel
  <2>2. \A e \in Dispatchers : e # d => Head(e)' = Head(e)
    BY <1>3, HeadStays DEF SkipDisabled, Rest, TypeOK
  <2>3. MarkShape'
    BY <1>3, <2>2 DEF TypeOK, MarkShape, SkipDisabled, Rest
  <2>4. SentWasDelivered'
    BY <1>3 DEF SentWasDelivered, SkipDisabled, rows, channel
  <2> QED
    BY <2>1, <2>3, <2>4
<1>4. ASSUME NEW d \in Dispatchers, Finish(d) PROVE Safe'
  <2>1. TypeOK'
    BY <1>4 DEF TypeOK, Finish, rows, channel
  <2>2. MarkShape'
    BY <1>4 DEF TypeOK, MarkShape, Finish, Head
  <2>3. SentWasDelivered'
    BY <1>4 DEF SentWasDelivered, Finish, rows, channel
  <2> QED
    BY <2>1, <2>2, <2>3
<1>5. ASSUME NEW d \in Dispatchers, NEW outcome \in {"sent", "refused"}, Send(d, outcome)
      PROVE  Safe'
  <2>1. Head(d) \in Notes
    BY <1>5, HeadIsNote DEF Send
  <2>2. /\ delivered' \in [Notes -> 0..Many]
        /\ \A n \in Notes : delivered[n] > 0 => delivered'[n] > 0
        /\ outcome = "sent" => delivered'[Head(d)] > 0
    <3>1. CASE delivered' = Received(Head(d))
      <4>1. delivered' = [delivered EXCEPT ![Head(d)] =
                            IF delivered[Head(d)] < 2 THEN delivered[Head(d)] + 1 ELSE delivered[Head(d)]]
        BY <3>1 DEF Received, Many
      <4> QED
        BY <2>1, <4>1 DEF TypeOK, Many
    <3>2. CASE outcome = "refused" /\ delivered' = delivered
      BY <3>2 DEF TypeOK
    <3> QED
      BY <1>5, <3>1, <3>2 DEF Send
  <2>3. TypeOK'
    <3>1. refusals' \in [Notes -> 0..MaxAttempts]
      <4>1. CASE refusals' = Refused(Head(d))
        <5>1. refusals' = [refusals EXCEPT ![Head(d)] =
                             IF refusals[Head(d)] < MaxAttempts THEN refusals[Head(d)] + 1
                                                                ELSE refusals[Head(d)]]
          BY <4>1 DEF Refused
        <5> QED
          BY <2>1, <5>1 DEF TypeOK
      <4> QED
        BY <1>5, <4>1 DEF TypeOK, Send
    <3> QED
      BY <1>5, <2>1, <2>2, <3>1 DEF TypeOK, Send, rows
  <2>4. \A e \in Dispatchers : Head(e)' = Head(e)
    BY <1>5, HeadStays DEF Send
  <2>5. ASSUME NEW e \in Dispatchers, pc'[e] \in {"sent", "refused"}
        PROVE  batch'[e] # {} /\ (pc'[e] = "sent" => delivered'[Head(e)] > 0)
    <3>1. CASE e = d
      BY <1>5, <2>2, <3>1 DEF Send, TypeOK
    <3>2. CASE e # d
      <4>1. pc'[e] = pc[e] /\ batch'[e] = batch[e]
        BY <1>5, <3>2 DEF Send, TypeOK
      <4>2. Head(e) \in Notes
        BY <2>5, <4>1, HeadIsNote DEF MarkShape
      <4> QED
        BY <2>2, <2>5, <4>1, <4>2 DEF MarkShape
    <3> QED
      BY <3>1, <3>2
  <2>6. MarkShape'
    BY <2>4, <2>5 DEF MarkShape
  <2>7. SentWasDelivered'
    BY <1>5, <2>2 DEF SentWasDelivered, Send, rows, channel, TypeOK
  <2> QED
    BY <2>3, <2>6, <2>7
<1>6. ASSUME NEW d \in Dispatchers, MarkSent(d) PROVE Safe'
  <2>1. Head(d) \in Notes /\ delivered[Head(d)] > 0
    BY <1>6, HeadIsNote DEF MarkSent, MarkShape
  <2>2. /\ status' \in [Notes -> Statuses]
        /\ \A n \in Notes : status'[n] = "SENT" => n = Head(d) \/ status[n] = "SENT"
    BY <1>6, <2>1 DEF MarkSent, TypeOK, Statuses
  <2>3. TypeOK'
    BY <1>6, <2>2 DEF TypeOK, MarkSent, Rest
  <2>4. \A e \in Dispatchers : e # d => Head(e)' = Head(e)
    BY <1>6, HeadStays DEF MarkSent, Rest, TypeOK
  <2>5. MarkShape'
    BY <1>6, <2>4 DEF TypeOK, MarkShape, MarkSent, Rest
  <2>6. SentWasDelivered'
    BY <1>6, <2>1, <2>2 DEF SentWasDelivered, MarkSent
  <2> QED
    BY <2>3, <2>5, <2>6
<1>7. ASSUME NEW d \in Dispatchers, MarkFailed(d) PROVE Safe'
  <2>1. Head(d) \in Notes
    BY <1>7, HeadIsNote DEF MarkFailed, MarkShape
  <2>2. /\ status' \in [Notes -> Statuses]
        /\ \A n \in Notes : status'[n] = "SENT" => status[n] = "SENT"
    BY <1>7, <2>1 DEF MarkFailed, AfterFailure, TypeOK, Statuses
  <2>3. TypeOK'
    <3>1. read[d].attempts + 1 \in Nat
      BY DEF TypeOK
    <3>2. attempts' \in [Notes -> Nat]
      BY <1>7, <3>1 DEF TypeOK, MarkFailed
    <3> QED
      BY <1>7, <2>2, <3>2 DEF TypeOK, MarkFailed, Rest
  <2>4. \A e \in Dispatchers : e # d => Head(e)' = Head(e)
    BY <1>7, HeadStays DEF MarkFailed, Rest, TypeOK
  <2>5. MarkShape'
    BY <1>7, <2>4 DEF TypeOK, MarkShape, MarkFailed, Rest
  <2>6. SentWasDelivered'
    BY <1>7, <2>2 DEF SentWasDelivered, MarkFailed
  <2> QED
    BY <2>3, <2>5, <2>6
<1>8. ASSUME NEW d \in Dispatchers, LoadRaises(d) \/ MarkTimesOut(d) \/ Crash(d) PROVE Safe'
  BY <1>8, AbandonSafe DEF LoadRaises, MarkTimesOut, Crash
<1>9. CASE UNCHANGED vars
  BY <1>9 DEF vars, rows, channel, TypeOK, MarkShape, SentWasDelivered, Head
<1> QED
  BY <1>1, <1>2, <1>3, <1>4, <1>5, <1>6, <1>7, <1>8, <1>9 DEF Next, Deliver

-----------------------------------------------------------------------------
(* A step that leaves the counts, gives nothing up and touches no mark of a *)
(* refused send keeps what the refusals say.                                *)
LEMMA RefusalsKept ==
  ASSUME CountedWasRefused, GivenUpAfterRefusals,
         attempts' = attempts, refusals' = refusals,
         \A n \in Notes : status'[n] = "FAILED" => status[n] = "FAILED",
         \A e \in Dispatchers : pc'[e] = "refused" =>
           pc[e] = "refused" /\ batch'[e] = batch[e] /\ read'[e] = read[e]
  PROVE  CountedWasRefused' /\ GivenUpAfterRefusals'
<1>1. \A e \in Dispatchers : pc'[e] = "refused" => Head(e)' = Head(e)
  BY HeadStays
<1> QED
  BY <1>1 DEF CountedWasRefused, GivenUpAfterRefusals

(* A refused send raises the count of refusals before anyone can count it. *)
LEMMA SendRefusals ==
  ASSUME IInv, NEW d \in Dispatchers, NEW outcome \in {"sent", "refused"}, Send(d, outcome)
  PROVE  CountedWasRefused' /\ GivenUpAfterRefusals'
<1> USE SizesAssumption DEF IInv
<1>1. Head(d) \in Notes
  BY HeadIsNote DEF Send
<1>2. \A e \in Dispatchers : Head(e)' = Head(e)
  BY HeadStays DEF Send
<1>3. attempts' = attempts /\ status' = status /\ refusals \in [Notes -> 0..MaxAttempts]
  BY DEF Send, rows, TypeOK
<1>4. CASE outcome = "sent"
  <2>1. refusals' = refusals /\ \A e \in Dispatchers : pc'[e] = "refused" => e # d
    BY <1>4 DEF Send, TypeOK
  <2> QED
    BY <1>3, <2>1, RefusalsKept DEF Send, TypeOK
<1>5. CASE outcome = "refused"
  <2>1. refusals' = [refusals EXCEPT ![Head(d)] =
                       IF refusals[Head(d)] < MaxAttempts THEN refusals[Head(d)] + 1
                                                          ELSE refusals[Head(d)]]
    BY <1>5 DEF Send, Refused
  <2>2. \A n \in Notes : /\ refusals'[n] \in 0..MaxAttempts
                         /\ refusals'[n] >= refusals[n]
                         /\ n = Head(d) /\ refusals'[n] < MaxAttempts => refusals'[n] = refusals[n] + 1
    BY <1>1, <1>3, <2>1
  <2>3. GivenUpAfterRefusals'
    BY <1>3, <2>2 DEF GivenUpAfterRefusals
  <2>4. \A n \in Notes : refusals'[n] < MaxAttempts => attempts'[n] <= refusals'[n]
    BY <1>3, <2>2 DEF CountedWasRefused, TypeOK
  <2>5. ASSUME NEW e \in Dispatchers, pc'[e] = "refused", refusals'[Head(e)] < MaxAttempts
        PROVE  read'[e].attempts < refusals'[Head(e)]
    <3>1. CASE e = d
      <4>1. read'[d].attempts = attempts[Head(d)]
        BY DEF Send, TypeOK
      <4>2. attempts[Head(d)] \in Nat /\ attempts[Head(d)] <= refusals[Head(d)]
        BY <1>1, <1>3, <2>2, <2>5, <3>1 DEF CountedWasRefused, TypeOK
      <4> QED
        BY <1>1, <1>3, <2>2, <2>5, <3>1, <4>1, <4>2
    <3>2. CASE e # d
      <4>1. pc[e] = "refused" /\ read'[e] = read[e] /\ Head(e) \in Notes
        BY <2>5, <3>2, HeadIsNote DEF Send, TypeOK, MarkShape
      <4>2. read[e].attempts < refusals[Head(e)] /\ read[e].attempts \in Nat
        BY <1>3, <2>2, <2>5, <4>1 DEF CountedWasRefused, TypeOK
      <4> QED
        BY <1>3, <2>2, <4>1, <4>2
    <3> QED
      BY <3>1, <3>2
  <2> QED
    BY <1>2, <2>3, <2>4, <2>5 DEF CountedWasRefused
<1> QED
  BY <1>4, <1>5

(* The attempt mark_failed counts is a send that was refused, so it gives   *)
(* up only after the last one allowed.                                      *)
LEMMA MarkFailedRefusals ==
  ASSUME IInv, NEW d \in Dispatchers, MarkFailed(d)
  PROVE  CountedWasRefused' /\ GivenUpAfterRefusals'
<1> USE SizesAssumption DEF IInv
<1>1. /\ Head(d) \in Notes /\ refusals' = refusals
      /\ refusals[Head(d)] \in 0..MaxAttempts /\ read[d].attempts \in Nat
  BY HeadIsNote DEF MarkFailed, MarkShape, channel, TypeOK
<1>2. refusals[Head(d)] < MaxAttempts => read[d].attempts + 1 <= refusals[Head(d)]
  BY <1>1 DEF MarkFailed, CountedWasRefused
<1>3. \A n \in Notes : refusals'[n] < MaxAttempts => attempts'[n] <= refusals'[n]
  BY <1>1, <1>2 DEF MarkFailed, CountedWasRefused, TypeOK
<1>4. ASSUME NEW e \in Dispatchers, pc'[e] = "refused"
      PROVE  pc[e] = "refused" /\ Head(e)' = Head(e) /\ read'[e] = read[e]
  <2>1. e # d
    BY <1>4 DEF MarkFailed, TypeOK
  <2> QED
    BY <1>4, <2>1, HeadStays DEF MarkFailed, Rest, TypeOK
<1>5. CountedWasRefused'
  BY <1>1, <1>3, <1>4 DEF CountedWasRefused
<1>6. ASSUME NEW n \in Notes, status'[n] = "FAILED" PROVE refusals'[n] = MaxAttempts
  <2>1. CASE status[n] = "FAILED"
    BY <1>1, <2>1 DEF GivenUpAfterRefusals
  <2>2. CASE status[n] # "FAILED"
    <3>1. n = Head(d) /\ read[d].attempts + 1 >= MaxAttempts
      BY <1>6, <2>2 DEF MarkFailed, AfterFailure, GivesUp, TypeOK
    <3> QED
      BY <1>1, <1>2, <3>1
  <2> QED
    BY <2>1, <2>2
<1>7. GivenUpAfterRefusals'
  BY <1>6 DEF GivenUpAfterRefusals
<1> QED
  BY <1>5, <1>7

LEMMA RefusalStep ==
  ASSUME IInv, [Next]_vars
  PROVE  CountedWasRefused' /\ GivenUpAfterRefusals'
<1> USE DEF IInv, TypeOK, channel, rows
<1>1. ASSUME NEW d \in Dispatchers, Abandon(d) PROVE CountedWasRefused' /\ GivenUpAfterRefusals'
  BY <1>1, RefusalsKept DEF Abandon
<1>2. ASSUME NEW new \in SUBSET Notes, Enqueue(new)
      PROVE  CountedWasRefused' /\ GivenUpAfterRefusals'
  BY <1>2, RefusalsKept DEF Enqueue
<1>3. ASSUME NEW d \in Dispatchers, List(d) \/ SkipDisabled(d) \/ Finish(d)
      PROVE  CountedWasRefused' /\ GivenUpAfterRefusals'
  <2>1. attempts' = attempts /\ refusals' = refusals /\ status' = status
    BY <1>3 DEF List, SkipDisabled, Finish
  <2>2. \A e \in Dispatchers : pc'[e] = "refused" =>
          pc[e] = "refused" /\ batch'[e] = batch[e] /\ read'[e] = read[e]
    BY <1>3 DEF List, SkipDisabled, Finish, Rest
  <2> QED
    BY <2>1, <2>2, RefusalsKept
<1>4. ASSUME NEW d \in Dispatchers, MarkSent(d)
      PROVE  CountedWasRefused' /\ GivenUpAfterRefusals'
  BY <1>4, RefusalsKept DEF MarkSent, Rest
<1>5. CASE UNCHANGED vars
  BY <1>5, RefusalsKept DEF vars
<1> QED
  BY <1>1, <1>2, <1>3, <1>4, <1>5, SendRefusals, MarkFailedRefusals
  DEF Next, Deliver, LoadRaises, MarkTimesOut, Crash

(* Batches take in PENDING notifications only, and no row is ever deleted.  *)
LEMMA ListedStep ==
  ASSUME IInv, [Next]_vars
  PROVE  ListedEnqueued'
<1> USE DEF IInv, TypeOK, rows
<1>1. ASSUME NEW d \in Dispatchers, Abandon(d) PROVE ListedEnqueued'
  BY <1>1 DEF Abandon, ListedEnqueued
<1>2. ASSUME NEW new \in SUBSET Notes, Enqueue(new) PROVE ListedEnqueued'
  BY <1>2 DEF Enqueue, ListedEnqueued
<1>3. ASSUME NEW d \in Dispatchers, List(d) PROVE ListedEnqueued'
  BY <1>3 DEF List, Oldest, Pending, ListedEnqueued
<1>4. ASSUME NEW d \in Dispatchers, SkipDisabled(d) PROVE ListedEnqueued'
  BY <1>4 DEF SkipDisabled, Rest, ListedEnqueued
<1>5. ASSUME NEW d \in Dispatchers, NEW outcome, Finish(d) \/ Send(d, outcome) PROVE ListedEnqueued'
  BY <1>5 DEF Finish, Send, ListedEnqueued
<1>6. ASSUME NEW d \in Dispatchers, MarkSent(d) \/ MarkFailed(d) PROVE ListedEnqueued'
  <2>1. \A n \in Notes : status'[n] = "none" => status[n] = "none"
    BY <1>6 DEF MarkSent, MarkFailed, AfterFailure
  <2>2. \A e \in Dispatchers : batch'[e] \subseteq batch[e]
    BY <1>6 DEF MarkSent, MarkFailed, Rest
  <2> QED
    BY <2>1, <2>2 DEF ListedEnqueued
<1>7. CASE UNCHANGED vars
  BY <1>7 DEF vars, ListedEnqueued
<1> QED
  BY <1>1, <1>2, <1>3, <1>4, <1>5, <1>6, <1>7
  DEF Next, Deliver, LoadRaises, MarkTimesOut, Crash

LEMMA Step == IInv /\ [Next]_vars => IInv'
  BY SafeStep, RefusalStep, ListedStep DEF IInv, Safe

LEMMA Start == Init => IInv
  BY SizesAssumption
  DEF Init, IInv, TypeOK, MarkShape, SentWasDelivered, ListedEnqueued,
      CountedWasRefused, GivenUpAfterRefusals, Statuses, Many

LEMMA Invariant == Spec => []IInv
  BY Start, Step, PTL DEF Spec

(* Every variable keeps its type, with any number of dispatchers. *)
THEOREM TypeCorrect == Spec => []TypeOK
  BY Invariant, PTL DEF IInv

(* A notification is SENT only if the channel received it, whatever fails   *)
(* between the send and the commit of its mark.                             *)
THEOREM SentMeansDelivered == Spec => []SentWasDelivered
  BY Invariant, PTL DEF IInv

(* However many dispatchers race, and whatever marks they lose, none gives  *)
(* a notification up before max_attempts sends of it ended in an error.     *)
THEOREM NotGivenUpEarly == Spec => []GivenUpAfterRefusals
  BY Invariant, PTL DEF IInv

-----------------------------------------------------------------------------
(* With any number of dispatchers a settled notification never becomes      *)
(* PENDING again: marks write SENT or FAILED, enqueue only inserts.         *)
THEOREM NothingReopened == Spec => NeverReopened
<1>1. ASSUME TypeOK, [Next]_vars, NEW n \in Notes, status[n] \in Terminal
      PROVE  status'[n] \in Terminal
  <2> USE <1>1 DEF Terminal, TypeOK
  <2>1. CASE UNCHANGED status
    BY <2>1
  <2>2. ASSUME NEW new \in SUBSET Notes, Enqueue(new) PROVE status'[n] \in Terminal
    BY <2>2 DEF Enqueue
  <2>3. ASSUME NEW d \in Dispatchers, MarkSent(d) PROVE status'[n] \in Terminal
    BY <2>3 DEF MarkSent
  <2>4. ASSUME NEW d \in Dispatchers, MarkFailed(d) PROVE status'[n] \in Terminal
    BY <2>4 DEF MarkFailed, AfterFailure
  <2> QED
    BY <1>1, <2>1, <2>2, <2>3, <2>4
    DEF Next, Deliver, List, LoadRaises, SkipDisabled, Finish, Send, Abandon,
        MarkTimesOut, Crash, rows, vars
<1>2. TypeOK /\ [Next]_vars => [\A n \in Notes : status[n] \in Terminal => status'[n] \in Terminal]_vars
  BY <1>1
<1> QED
  BY <1>2, TypeCorrect, PTL DEF Spec, NeverReopened

-----------------------------------------------------------------------------
(* What only one dispatcher guarantees *)
OneDispatcher == \A d, e \in Dispatchers : d = e

LEMMA OneStep ==
  ASSUME OneDispatcher, OneInv, IInv', [Next]_vars
  PROVE  OneInv'
<1> USE SizesAssumption DEF OneInv
<1>1. ASSUME NEW new \in SUBSET Notes, Enqueue(new) PROVE OneInv'
  <2>1. ListedStaysPending'
    BY <1>1 DEF ListedStaysPending, Enqueue, IInv, TypeOK, Head
  <2>2. FailedIsExhausted'
    BY <1>1 DEF FailedIsExhausted, Enqueue, IInv, TypeOK
  <2> QED
    BY <2>1, <2>2
<1>2. ASSUME NEW d \in Dispatchers, List(d) PROVE OneInv'
  <2>1. ListedStaysPending'
    BY <1>2 DEF OneDispatcher, ListedStaysPending, List, IInv, TypeOK, Oldest, Pending, rows
  <2>2. FailedIsExhausted'
    BY <1>2 DEF FailedIsExhausted, List, rows
  <2> QED
    BY <2>1, <2>2
<1>3. ASSUME NEW d \in Dispatchers,
             SkipDisabled(d) \/ Finish(d) \/ LoadRaises(d) \/ MarkTimesOut(d) \/ Crash(d)
      PROVE  OneInv'
  <2>1. /\ status' = status /\ attempts' = attempts
        /\ pc'[d] \in {"idle", "next"}
        /\ batch'[d] \subseteq batch[d]
    BY <1>3 DEF SkipDisabled, Finish, LoadRaises, MarkTimesOut, Crash, Abandon, Rest, rows, IInv, TypeOK
  <2>2. ListedStaysPending'
    BY <2>1 DEF OneDispatcher, ListedStaysPending
  <2>3. FailedIsExhausted'
    BY <2>1 DEF FailedIsExhausted
  <2> QED
    BY <2>2, <2>3
<1>4. ASSUME NEW d \in Dispatchers, NEW outcome \in {"sent", "refused"}, Send(d, outcome)
      PROVE  OneInv'
  <2>1. Head(d) \in batch[d]
    BY <1>4, HeadIsNote DEF Send, IInv
  <2>2. status[Head(d)] = "PENDING"
    BY <2>1 DEF ListedStaysPending
  <2>3. Head(d)' = Head(d)
    BY <1>4, HeadStays DEF Send
  <2>4. read'[d] = [status |-> "PENDING", attempts |-> attempts'[Head(d)]]
    <3>1. attempts' = attempts
      BY <1>4 DEF Send, rows
    <3>2. read'[d] = [status |-> status[Head(d)], attempts |-> attempts[Head(d)]]
      BY <1>4 DEF Send, IInv, TypeOK
    <3> QED
      BY <2>2, <3>1, <3>2
  <2>5. ListedStaysPending'
    BY <1>4, <2>3, <2>4 DEF OneDispatcher, ListedStaysPending, Send, rows
  <2>6. FailedIsExhausted'
    BY <1>4 DEF FailedIsExhausted, Send, rows
  <2> QED
    BY <2>5, <2>6
<1>5. ASSUME NEW d \in Dispatchers, MarkSent(d) PROVE OneInv'
  <2>1. Head(d) \in Notes /\ Head(d) \in batch[d]
    BY <1>5, HeadIsNote DEF MarkSent, IInv, MarkShape
  <2>2. status[Head(d)] = "PENDING" /\ read[d].status = "PENDING"
    <3>1. read[d] = [status |-> "PENDING", attempts |-> attempts[Head(d)]]
      BY <1>5 DEF ListedStaysPending, MarkSent
    <3>2. status[Head(d)] = "PENDING"
      BY <2>1 DEF ListedStaysPending
    <3> QED
      BY <3>1, <3>2
  <2>3. status' = [status EXCEPT ![Head(d)] = "SENT"]
    BY <1>5, <2>2 DEF MarkSent
  <2>4. batch'[d] = batch[d] \ {Head(d)} /\ pc'[d] = "next"
    BY <1>5 DEF MarkSent, Rest, IInv, TypeOK
  <2>5. ListedStaysPending'
    <3>1. \A n \in batch'[d] : status'[n] = "PENDING"
      BY <2>3, <2>4 DEF ListedStaysPending, IInv, TypeOK
    <3> QED
      BY <3>1, <2>4 DEF OneDispatcher, ListedStaysPending
  <2>6. FailedIsExhausted'
    BY <1>5, <2>1, <2>2, <2>3 DEF FailedIsExhausted, MarkSent, IInv, TypeOK
  <2> QED
    BY <2>5, <2>6
<1>6. ASSUME NEW d \in Dispatchers, MarkFailed(d) PROVE OneInv'
  <2>1. Head(d) \in Notes /\ Head(d) \in batch[d]
    BY <1>6, HeadIsNote DEF MarkFailed, IInv, MarkShape
  <2>2. status[Head(d)] = "PENDING" /\ read[d] = [status |-> "PENDING", attempts |-> attempts[Head(d)]]
    BY <1>6, <2>1 DEF ListedStaysPending, MarkFailed
  <2>3. /\ attempts' = [attempts EXCEPT ![Head(d)] = attempts[Head(d)] + 1]
        /\ status' = IF attempts[Head(d)] + 1 >= MaxAttempts
                       THEN [status EXCEPT ![Head(d)] = "FAILED"] ELSE status
    BY <1>6, <2>2 DEF MarkFailed, AfterFailure, GivesUp
  <2>4. batch'[d] = batch[d] \ {Head(d)} /\ pc'[d] = "next"
    BY <1>6 DEF MarkFailed, Rest, IInv, TypeOK
  <2>5. ListedStaysPending'
    <3>1. \A n \in batch'[d] : status'[n] = "PENDING"
      BY <2>3, <2>4 DEF ListedStaysPending, IInv, TypeOK
    <3> QED
      BY <3>1, <2>4 DEF OneDispatcher, ListedStaysPending
  <2>6. attempts[Head(d)] \in Nat /\ attempts[Head(d)] < MaxAttempts
    <3>1. attempts[Head(d)] \in Nat
      BY <2>1 DEF IInv, TypeOK
    <3>2. attempts[Head(d)] <= MaxAttempts /\ attempts[Head(d)] # MaxAttempts
      BY <2>1, <2>2 DEF FailedIsExhausted
    <3> QED
      BY <3>1, <3>2
  <2>7. ASSUME NEW n \in Notes
        PROVE  /\ attempts'[n] <= MaxAttempts
               /\ status'[n] = "FAILED" <=> attempts'[n] = MaxAttempts
    <3>1. CASE n = Head(d)
      <4>1. attempts'[n] = attempts[Head(d)] + 1
        BY <2>3, <3>1 DEF IInv, TypeOK
      <4>2. attempts[Head(d)] + 1 >= MaxAttempts <=> attempts[Head(d)] + 1 = MaxAttempts
        BY <2>6
      <4>3. status'[n] = IF attempts[Head(d)] + 1 >= MaxAttempts THEN "FAILED" ELSE "PENDING"
        BY <2>2, <2>3, <3>1 DEF IInv, TypeOK
      <4> QED
        BY <2>6, <4>1, <4>2, <4>3
    <3>2. CASE n # Head(d)
      <4>1. attempts'[n] = attempts[n] /\ status'[n] = status[n]
        BY <2>3, <3>2 DEF IInv, TypeOK
      <4> QED
        BY <4>1 DEF FailedIsExhausted
    <3> QED
      BY <3>1, <3>2
  <2>8. FailedIsExhausted'
    BY <2>7 DEF FailedIsExhausted
  <2> QED
    BY <2>5, <2>8
<1>7. CASE UNCHANGED vars
  BY <1>7 DEF vars, rows, ListedStaysPending, FailedIsExhausted, Head
<1> QED
  BY <1>1, <1>2, <1>3, <1>4, <1>5, <1>6, <1>7 DEF Next, Deliver

LEMMA OneStart == Init => ListedStaysPending /\ FailedIsExhausted
  BY SizesAssumption DEF Init, ListedStaysPending, FailedIsExhausted

LEMMA OneInvariant ==
  ASSUME OneDispatcher
  PROVE  Spec => []OneInv
<1>1. Init => OneInv
  BY Start, OneStart DEF OneInv
<1>2. OneInv /\ IInv' /\ [Next]_vars => OneInv'
  BY OneStep, OneDispatcher
<1> QED
  BY <1>1, <1>2, Invariant, PTL DEF Spec

(* One dispatcher gives a notification up exactly when its attempts are     *)
(* used up, whatever fails.                                                 *)
THEOREM GivesUpInTime ==
  ASSUME OneDispatcher
  PROVE  Spec => []FailedIsExhausted
  BY OneInvariant, OneDispatcher, PTL DEF OneInv

(* One dispatcher never changes a notification that is SENT or FAILED: what *)
(* it is about to mark is still PENDING.                                    *)
THEOREM SettledForGood ==
  ASSUME OneDispatcher
  PROVE  Spec => SettledStays
<1>1. ASSUME OneInv, [Next]_vars, NEW n \in Notes, status[n] \in Terminal
      PROVE  status'[n] = status[n]
  <2> USE <1>1 DEF Terminal, OneInv, IInv, TypeOK
  <2>1. CASE UNCHANGED status
    BY <2>1
  <2>2. ASSUME NEW new \in SUBSET Notes, Enqueue(new) PROVE status'[n] = status[n]
    BY <2>2 DEF Enqueue
  <2>3. ASSUME NEW d \in Dispatchers, MarkSent(d) \/ MarkFailed(d) PROVE status'[n] = status[n]
    <3>1. Head(d) # n
      BY <2>3, HeadIsNote DEF MarkSent, MarkFailed, MarkShape, ListedStaysPending
    <3> QED
      BY <2>3, <3>1 DEF MarkSent, MarkFailed, AfterFailure
  <2> QED
    BY <1>1, <2>1, <2>2, <2>3
    DEF Next, Deliver, List, LoadRaises, SkipDisabled, Finish, Send, Abandon,
        MarkTimesOut, Crash, rows, vars
<1>2. OneInv /\ [Next]_vars => [\A n \in Notes : status[n] \in Terminal => status'[n] = status[n]]_vars
  BY <1>1
<1> QED
  BY <1>2, OneInvariant, OneDispatcher, PTL DEF Spec, SettledStays
=============================================================================
