---------------------------- MODULE AtomicCycle ----------------------------
(***************************************************************************)
(* What the alert cycles amount to, however their threads and processes    *)
(* interleave, fail and crash: a query is served in one instant, for some  *)
(* of the alerts it is planned for, with one answer to its search.  The    *)
(* answer is a new one, which is stored in the same instant, or one that   *)
(* an earlier scrape of the same query stored.  Nothing else ever writes a *)
(* listing, a match, a notification or the end of an alert's run.          *)
(***************************************************************************)
CONSTANTS Alerts, Queries, Properties, Channels, PlanOf, Listed, Satisfies

VARIABLES
  due,      \* the alerts that are due
  known,    \* the stored properties
  answers,  \* query -> the answers its scrapes have stored
  matched,  \* the <<alert, property>> pairs reported
  notices,  \* the <<pair, channel>> notifications queued
  enabled   \* the channels

Init ==
  /\ due \in SUBSET Alerts
  /\ known = {} /\ matched = {} /\ notices = {} /\ enabled = {}
  /\ answers = [q \in Queries |-> {}]

(* Every deserved pair is reported that was not, to every channel. *)
Report(served, found) ==
  LET deserved == (served \X found) \intersect Satisfies IN
  /\ due' = due \ served
  /\ matched' = matched \union deserved
  /\ notices' = notices \union ((deserved \ matched) \X enabled)
  /\ UNCHANGED enabled

Serve(q, served) ==
  \/ \E found \in SUBSET Listed[q] :
       /\ Report(served, found)
       /\ known' = known \union found
       /\ answers' = [answers EXCEPT ![q] = @ \union {found}]
  \/ \E found \in answers[q] :
       /\ Report(served, found)
       /\ UNCHANGED <<known, answers>>

FallDue(a) ==
  /\ due' = due \union {a}
  /\ UNCHANGED <<known, answers, matched, notices, enabled>>

Enable(c) ==
  /\ enabled' = enabled \union {c}
  /\ UNCHANGED <<due, known, answers, matched, notices>>

Next ==
  \/ \E q \in Queries : \E served \in SUBSET {a \in Alerts : q \in PlanOf[a]} :
       served # {} /\ Serve(q, served)
  \/ \E a \in Alerts : FallDue(a)
  \/ \E c \in Channels : Enable(c)

Spec == Init /\ [][Next]_<<due, known, answers, matched, notices, enabled>>

(* What is reported satisfies the alert, is stored, and was found by one of *)
(* the alert's own searches.                                                *)
Justified ==
  \A pair \in matched :
    /\ pair \in Satisfies
    /\ pair[2] \in known
    /\ \E q \in PlanOf[pair[1]] : \E found \in answers[q] : pair[2] \in found
=============================================================================
