---------------------------- MODULE ServedCycle ----------------------------
(***************************************************************************)
(* RunAlertCycle with a history of the answers its scrapes have committed, *)
(* to say that it implements AtomicCycle: a cache hit, which may commit    *)
(* long after another process has replaced the row it read, still serves   *)
(* one whole answer of an earlier scrape of its query.                     *)
(***************************************************************************)
EXTENDS RunAlertCycle

VARIABLE answers  \* query -> the property ids of its committed scrapes

servedVars == <<vars, answers>>

CommitsScrape(w) == pc'[w] = "done" /\ audit[w] = "attempted" /\ audit'[w] = "recorded"

Remember ==
  answers' = [q \in Queries |->
                answers[q] \union {ids[w] : w \in {v \in Workers : v[2] = q /\ CommitsScrape(v)}}]

ServedInit == Init /\ answers = [q \in Queries |-> {}]
ServedSpec == ServedInit /\ [][Next /\ Remember]_servedVars

(* A committed worker has done in one instant all that its code does over   *)
(* many transactions' reads, two kinds of lock and a write transaction; one *)
(* that failed, timed out or crashed has done nothing (uow.commit is the    *)
(* last statement of _run_one).                                             *)
Atomic == INSTANCE AtomicCycle WITH
  matched <- Pairs(matches),
  notices <- {<<<<n[1][1], n[1][2]>>, n[2]>> : n \in outbox},
  enabled <- channels
ServesAtomically == Atomic!Spec

(* No false match, and none out of thin air: an alert is told of a property *)
(* that satisfies it, that is stored, and that a search planned for this    *)
(* very alert returned, though workers share candidates through the cache.  *)
OnlyJustified == Atomic!Justified

-----------------------------------------------------------------------------
(* A cache hit holds a whole answer, and so does a row that can be hit.     *)
HitsAnswered ==
  /\ \A q \in Queries : live[q] # {} => cacheIds[q] \in answers[q]
  /\ \A w \in Workers :
       pc[w] \in {"evaluating", "locked"} /\ audit[w] # "attempted" => ids[w] \in answers[w[2]]
  /\ \A q \in Queries : \A found \in answers[q] : found \subseteq known

AnswersType == answers \in [Queries -> SUBSET SUBSET Properties]

ServedInv == IInv /\ AnswersType /\ HitsAnswered /\ OnlyJustified
=============================================================================
