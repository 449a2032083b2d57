------------------------ MODULE AlertSchedule_proofs ------------------------
(* Proofs about AlertSchedule, for any alerts, searches, portals, processes,*)
(* frequencies, time-to-live, interval and length of a scrape.              *)
EXTENDS AlertSchedule, FiniteSetTheorems, TLAPS

-----------------------------------------------------------------------------
LEMMA Pair ==
  ASSUME NEW w \in Workers
  PROVE  w[1] \in Runners /\ w[2] \in Queries /\ w = <<w[1], w[2]>>
  BY DEF Workers

LEMMA Worker ==
  ASSUME NEW r \in Runners, NEW q \in Queries
  PROVE  <<r, q>> \in Workers /\ <<r, q>>[1] = r /\ <<r, q>>[2] = q
  BY DEF Workers

LEMMA Sizes ==
  /\ Ttl \in Nat /\ Ttl >= 1 /\ Interval \in Nat /\ Interval >= 1
  /\ MaxScrape \in Nat /\ Longest \in Nat
  /\ \A a \in Alerts : Frequency[a] \in Nat /\ Frequency[a] >= 1
  /\ At \in Queries /\ Planner \in Runners
  BY ScheduleAssumption, QueueAssumption

(* Scrapes in a row: with one fewer ahead the wait is shorter by one. *)
LEMMA Times ==
  ASSUME NEW m \in Nat, NEW i \in Nat, NEW j \in Nat, i <= j
  PROVE  m * i \in Nat /\ m * j \in Nat /\ m * i <= m * j /\ (i + 1 <= j => m * i + m <= m * j)
<1>1. \A k \in Nat, l \in Nat : m * k \in Nat /\ m * (k + l) = m * k + m * l
  BY SMT
<1>2. PICK k \in Nat : j = i + k
  BY SMT
<1>3. m * j = m * i + m * k /\ m * k \in Nat /\ m * i \in Nat /\ m * j \in Nat
  BY <1>1, <1>2
<1>4. ASSUME i + 1 <= j PROVE m * i + m <= m * j
  <2>1. PICK l \in Nat : k = 1 + l
    BY <1>2, <1>4
  <2>2. m * k = m * 1 + m * l /\ m * l \in Nat /\ m * 1 = m
    BY <1>1, <2>1
  <2> QED
    BY <1>3, <2>2
<1> QED
  BY <1>3, <1>4

LEMMA WaitingFinite ==
  ASSUME NEW r, NEW x
  PROVE  IsFiniteSet(Waiting(r, x)) /\ Cardinality(Waiting(r, x)) \in Nat
<1>1. Waiting(r, x) \subseteq Queries
  BY DEF Waiting
<1> QED
  BY <1>1, QueueAssumption, FS_Subset, FS_CardinalityType

-----------------------------------------------------------------------------
(* A worker ends: the portal's queue is shorter. *)
LEMMA EndQueue ==
  ASSUME TypeOK, Shape, QueueMoves, NEW w \in Workers, pc[w] # "idle", Ended(w)
  PROVE  QueueMoves'
<1> USE Sizes
<1>1. SUFFICES ASSUME NEW v \in Workers, pc'[v] # "idle"
               PROVE  LET ahead == began'[v] + MaxScrape * Cardinality(Waiting(v[1], PortalOf[v[2]])')
                      IN /\ ahead <= Longest
                         /\ \A u \in Workers :
                              u[1] = v[1] /\ PortalOf[u[2]] = PortalOf[v[2]] /\ pc'[u] = "scraping" =>
                                /\ ahead + MaxScrape <= Longest + scraped'[u]
                                /\ pc'[v] = "scraping" => u = v
  BY DEF QueueMoves
<1>2. v # w /\ pc[v] # "idle" /\ pc'[v] = pc[v] /\ began'[v] = began[v]
  BY <1>1 DEF Ended, TypeOK
<1> DEFINE W == Waiting(v[1], PortalOf[v[2]])
           W2 == Waiting(v[1], PortalOf[v[2]])'
<1>3. W2 \subseteq W
  <2>1. ASSUME NEW q \in Queries, pc'[<<v[1], q>>] = "waiting" PROVE pc[<<v[1], q>>] = "waiting"
    BY <2>1, Pair, Worker DEF Ended, TypeOK
  <2> QED
    BY <2>1 DEF Waiting
<1>4. Cardinality(W2) <= Cardinality(W) /\ Cardinality(W) \in Nat /\ Cardinality(W2) \in Nat
  BY <1>3, WaitingFinite, FS_Subset, FS_CardinalityType
<1>5. /\ MaxScrape * Cardinality(W2) <= MaxScrape * Cardinality(W)
      /\ MaxScrape * Cardinality(W) \in Nat /\ MaxScrape * Cardinality(W2) \in Nat
  BY <1>4, Times
<1>6. ASSUME NEW u \in Workers, pc'[u] = "scraping" PROVE pc[u] = "scraping" /\ scraped'[u] = scraped[u]
  BY <1>6 DEF Ended, TypeOK
<1>7. /\ began[v] + MaxScrape * Cardinality(W) <= Longest
      /\ \A u \in Workers :
           u[1] = v[1] /\ PortalOf[u[2]] = PortalOf[v[2]] /\ pc[u] = "scraping" =>
             /\ began[v] + MaxScrape * Cardinality(W) + MaxScrape <= Longest + scraped[u]
             /\ pc[v] = "scraping" => u = v
  BY <1>2 DEF QueueMoves
<1>8. began[v] \in Nat /\ \A u \in Workers : scraped[u] \in Nat
  BY DEF TypeOK
<1> QED
  BY <1>2, <1>5, <1>6, <1>7, <1>8

(* What the evaluation of a worker, or its failure, tells of its alerts.    *)
EndsRight(w) ==
  /\ pc[w] # "idle" /\ Ended(w)
  /\ timer' = timer /\ posted' = posted
  /\ \A a \in Alerts : unseen'[a] \in {0, unseen[a]}
  /\ \A a \in todo[w] : w[2] = At => unseen'[a] = 0 \/ unseen[a] < Ttl + began[w]
  /\ \/ age' = Marked(w)
     \/ age' = age /\ \A a \in todo[w] : w[2] = At => unseen'[a] = 0

LEMMA EndShape ==
  ASSUME TypeOK, Shape, SameStart, NEW w \in Workers, EndsRight(w)
  PROVE  Shape' /\ SameStart'
<1> USE Sizes
<1>1. /\ \A v \in Workers : v # w =>
           pc'[v] = pc[v] /\ todo'[v] = todo[v] /\ began'[v] = began[v] /\ scraped'[v] = scraped[v]
      /\ pc'[w] = "idle" /\ todo'[w] = {} /\ began'[w] = 0 /\ scraped'[w] = 0
  BY DEF EndsRight, Ended, TypeOK
<1>2. SameStart'
  BY <1>1 DEF SameStart
<1>3. ASSUME NEW a \in Alerts PROVE age'[a] <= Frequency[a] /\ (At \notin PlanOf[a] => unseen'[a] = 0)
  <2>1. began[w] \in Nat /\ age[a] \in Nat
    BY DEF TypeOK
  <2>2. age'[a] <= Frequency[a]
    BY <2>1 DEF EndsRight, Marked, UpTo, Shape
  <2> QED
    BY <2>2 DEF EndsRight, Shape
<1>4. Shape'
  BY <1>1, <1>3 DEF Shape
<1> QED
  BY <1>2, <1>4

(* The searches that go on, and the one that ended. *)
LEMMA EndSearches ==
  ASSUME TypeOK, Shape, NEW w \in Workers, EndsRight(w), NEW r \in Runners, NEW a \in Alerts
  PROVE  /\ <<r, At>> # w => /\ Searching(r, a)' <=> Searching(r, a)
                             /\ began'[<<r, At>>] = began[<<r, At>>]
         /\ <<r, At>> = w /\ Searching(r, a) =>
              unseen'[a] = 0 \/ (unseen[a] < Ttl + began[w] /\ age' = Marked(w))
<1> USE Sizes
<1>1. <<r, At>> \in Workers /\ <<r, At>>[2] = At
  BY Worker
<1>2. ASSUME <<r, At>> # w
      PROVE  (Searching(r, a)' <=> Searching(r, a)) /\ began'[<<r, At>>] = began[<<r, At>>]
  BY <1>1, <1>2 DEF EndsRight, Ended, TypeOK, Searching
<1>3. ASSUME <<r, At>> = w, Searching(r, a)
      PROVE  unseen'[a] = 0 \/ (unseen[a] < Ttl + began[w] /\ age' = Marked(w))
  BY <1>1, <1>3 DEF EndsRight, Searching
<1> QED
  BY <1>2, <1>3

LEMMA EndStale ==
  ASSUME TypeOK, Shape, SameStart, StaleStart, NEW w \in Workers, EndsRight(w)
  PROVE  StaleStart'
<1> USE Sizes
<1>1. SUFFICES ASSUME NEW v \in Workers, NEW a \in todo'[v]
               PROVE  unseen'[a] < Ttl + began'[v] \/ Searching(v[1], a)'
  BY DEF StaleStart
<1>2. v # w /\ todo'[v] = todo[v] /\ began'[v] = began[v] /\ a \in Alerts /\ pc[v] # "idle"
  BY <1>1 DEF EndsRight, Ended, TypeOK, Shape
<1>3. began[v] \in Nat /\ unseen[a] \in Nat /\ unseen'[a] \in {0, unseen[a]}
  BY <1>2 DEF EndsRight, TypeOK
<1>4. CASE unseen[a] < Ttl + began[v]
  BY <1>2, <1>3, <1>4
<1>5. CASE Searching(v[1], a)
  <2>1. v[1] \in Runners /\ (<<v[1], At>> = w => w[1] = v[1])
    BY Pair, Worker
  <2>2. CASE <<v[1], At>> = w
    <3>1. began[w] = began[v]
      BY <1>2, <2>1, <2>2 DEF SameStart, EndsRight
    <3> QED
      BY <1>2, <1>3, <1>5, <2>1, <2>2, <3>1, EndSearches
  <2>3. CASE <<v[1], At>> # w
    BY <1>2, <1>5, <2>1, <2>3, EndSearches
  <2> QED
    BY <2>2, <2>3
<1> QED
  BY <1>1, <1>2, <1>4, <1>5 DEF StaleStart

(* A search that ends without the listing leaves an alert just marked run.  *)
LEMMA EndRun ==
  ASSUME TypeOK, Shape, SameStart, StaleStart, RunTooEarly, NEW w \in Workers, EndsRight(w)
  PROVE  RunTooEarly'
<1> USE Sizes
<1>1. SUFFICES ASSUME NEW a \in Alerts, age'[a] < Frequency[a]
               PROVE  \/ unseen'[a] < Ttl + age'[a]
                      \/ \E r \in Runners : Searching(r, a)' /\ began'[<<r, At>>] = age'[a]
  BY DEF RunTooEarly
<1>2. began[w] \in Nat /\ age[a] \in Nat /\ unseen[a] \in Nat /\ unseen'[a] \in {0, unseen[a]}
  BY DEF EndsRight, TypeOK
<1>3. CASE age'[a] = age[a] /\ ~ (a \in todo[w] /\ age' = Marked(w))
  <2>1. CASE unseen[a] < Ttl + age[a]
    BY <1>2, <1>3, <2>1
  <2>2. ASSUME NEW r \in Runners, Searching(r, a), began[<<r, At>>] = age[a]
        PROVE  unseen'[a] = 0 \/ (Searching(r, a)' /\ began'[<<r, At>>] = age'[a])
    BY <1>3, <2>2, EndSearches DEF Searching
  <2> QED
    BY <1>1, <1>2, <1>3, <2>1, <2>2 DEF RunTooEarly
<1>4. CASE a \in todo[w] /\ age' = Marked(w)
  <2>1. age'[a] = began[w]
    BY <1>1, <1>2, <1>4 DEF Marked, UpTo
  <2>2. CASE unseen[a] < Ttl + began[w]
    BY <1>2, <2>1, <2>2
  <2>3. CASE Searching(w[1], a) /\ ~ (unseen[a] < Ttl + began[w])
    <3>1. w[1] \in Runners /\ <<w[1], At>> \in Workers /\ <<w[1], At>>[1] = w[1]
      BY Pair, Worker
    <3>2. <<w[1], At>> # w \/ unseen'[a] = 0
      BY <2>3, <3>1, EndSearches
    <3>3. began[<<w[1], At>>] = began[w]
      BY <2>3, <3>1 DEF SameStart, EndsRight, Searching, Shape
    <3> QED
      BY <1>2, <2>1, <2>3, <3>1, <3>2, <3>3, EndSearches
  <2> QED
    BY <1>4, <2>2, <2>3 DEF StaleStart
<1>5. age'[a] = age[a] \/ (a \in todo[w] /\ age' = Marked(w))
  BY DEF EndsRight, Marked
<1> QED
  BY <1>3, <1>4, <1>5

LEMMA EndInTime ==
  ASSUME TypeOK, Shape, QueueMoves, SearchedInTime, NEW w \in Workers, EndsRight(w)
  PROVE  SearchedInTime'
<1> USE Sizes
<1>1. SUFFICES ASSUME NEW a \in Alerts
               PROVE  \/ unseen'[a] + 2 <= Ttl + Frequency[a] + Longest + Interval
                      \/ \E r \in Runners :
                           /\ Searching(r, a)'
                           /\ unseen'[a] + 2 <= Ttl + Frequency[a] + Longest + Interval + began'[<<r, At>>]
  BY DEF SearchedInTime
<1>2. began[w] \in Nat /\ unseen[a] \in Nat /\ unseen'[a] \in {0, unseen[a]}
  BY DEF EndsRight, TypeOK
<1>3. began[w] <= Longest
  <2>1. MaxScrape * Cardinality(Waiting(w[1], PortalOf[w[2]])) \in Nat
    BY WaitingFinite, Times
  <2> QED
    BY <1>2, <2>1 DEF QueueMoves, EndsRight
<1>4. CASE unseen[a] + 2 <= Ttl + Frequency[a] + Longest + Interval
  BY <1>2, <1>4
<1>5. ASSUME NEW r \in Runners, Searching(r, a),
             unseen[a] + 2 <= Ttl + Frequency[a] + Longest + Interval + began[<<r, At>>]
      PROVE  \/ unseen'[a] + 2 <= Ttl + Frequency[a] + Longest + Interval
             \/ /\ Searching(r, a)'
                /\ unseen'[a] + 2 <= Ttl + Frequency[a] + Longest + Interval + began'[<<r, At>>]
  <2>1. CASE <<r, At>> = w
    BY <1>2, <1>3, <1>5, <2>1, EndSearches
  <2>2. CASE <<r, At>> # w
    <3>1. began[<<r, At>>] \in Nat
      BY Worker DEF TypeOK
    <3> QED
      BY <1>2, <1>5, <2>2, <3>1, EndSearches
  <2> QED
    BY <2>1, <2>2
<1> QED
  BY <1>4, <1>5 DEF SearchedInTime

(* An alert that a commit makes due again, its run being older than the     *)
(* last, has not waited longer than one that falls due in its time.         *)
LEMMA EndDueFree ==
  ASSUME TypeOK, Shape, QueueMoves, StaleStart, RunTooEarly, DueSoon,
         NEW w \in Workers, EndsRight(w), Idle(Planner)',
         NEW a \in Alerts, age'[a] = Frequency[a]
  PROVE  \/ unseen'[a] + 2 <= Ttl + Frequency[a] + Longest + timer'
         \/ \E r \in Runners : Searching(r, a)'
<1> USE Sizes
<1>1. /\ began[w] \in Nat /\ age[a] \in Nat /\ unseen[a] \in Nat /\ unseen'[a] \in {0, unseen[a]}
      /\ timer' = timer /\ timer \in Nat
  BY DEF EndsRight, TypeOK
<1>2. \A v \in Workers : pc[v] # "idle" => began[v] \in Nat /\ began[v] <= Longest
  <2> TAKE v \in Workers
  <2>1. MaxScrape * Cardinality(Waiting(v[1], PortalOf[v[2]])) \in Nat
    BY WaitingFinite, Times
  <2>2. began[v] \in Nat
    BY DEF TypeOK
  <2> QED
    BY <2>1, <2>2 DEF QueueMoves
<1>3. ASSUME NEW r \in Runners, Searching(r, a)
      PROVE  unseen'[a] + 2 <= Ttl + Frequency[a] + Longest \/ Searching(r, a)'
  <2>1. CASE <<r, At>> = w
    BY <1>1, <1>2, <1>3, <2>1, EndSearches DEF EndsRight
  <2>2. CASE <<r, At>> # w
    BY <1>3, <2>2, EndSearches
  <2> QED
    BY <2>1, <2>2
<1>4. CASE \E r \in Runners : Searching(r, a)
  BY <1>1, <1>3, <1>4
<1>5. CASE \A r \in Runners : ~ Searching(r, a)
  <2>1. CASE age[a] < Frequency[a]
    <3>1. unseen[a] < Ttl + age[a]
      BY <1>5, <2>1 DEF RunTooEarly
    <3>2. Frequency[a] \in Nat /\ unseen[a] + 2 <= Ttl + Frequency[a]
      BY <1>1, <2>1, <3>1
    <3>3. 2 <= Ttl + Frequency[a]
      OBVIOUS
    <3>4. unseen'[a] + 2 <= Ttl + Frequency[a]
      BY <1>1, <3>2, <3>3
    <3> QED
      BY <1>1, <3>2, <3>4
  <2>2. CASE age[a] = Frequency[a] /\ Idle(Planner)
    BY <1>1, <1>5, <2>2 DEF DueSoon
  <2>3. CASE age[a] = Frequency[a] /\ ~ Idle(Planner)
    <3>1. PICK q \in Queries : pc[<<Planner, q>>] # "idle"
      BY <2>3 DEF Idle
    <3>2. unseen[a] + 2 <= Ttl + Frequency[a] + began[<<Planner, q>>]
      BY <1>5, <2>3, <3>1 DEF DueSoon
    <3> QED
      BY <1>1, <1>2, <3>1, <3>2, Worker
  <2> QED
    BY <1>1, <2>1, <2>2, <2>3 DEF Shape
<1> QED
  BY <1>4, <1>5

LEMMA EndDueBusy ==
  ASSUME TypeOK, Shape, SameStart, StaleStart, RunTooEarly, DueSoon,
         NEW w \in Workers, EndsRight(w), ~ Idle(Planner)',
         NEW a \in Alerts, age'[a] = Frequency[a]
  PROVE  \/ \A q \in Queries : pc'[<<Planner, q>>] # "idle" =>
              unseen'[a] + 2 <= Ttl + Frequency[a] + began'[<<Planner, q>>]
         \/ \E r \in Runners : /\ Searching(r, a)'
                               /\ \A q \in Queries : pc'[<<Planner, q>>] # "idle" =>
                                    began'[<<r, At>>] < Frequency[a] + began'[<<Planner, q>>]
<1> USE Sizes
<1>1. /\ began[w] \in Nat /\ age[a] \in Nat /\ unseen[a] \in Nat /\ unseen'[a] \in {0, unseen[a]}
  BY DEF EndsRight, TypeOK
<1>2. /\ \A v \in Workers : began[v] \in Nat
      /\ \A q \in Queries : <<Planner, q>> \in Workers
  BY Worker DEF TypeOK
<1>3. \A q \in Queries : pc'[<<Planner, q>>] # "idle" =>
        /\ pc[<<Planner, q>>] # "idle"
        /\ began'[<<Planner, q>>] = began[<<Planner, q>>]
  BY <1>2 DEF EndsRight, Ended, TypeOK
<1>4. ~ Idle(Planner)
  BY <1>3 DEF Idle
<1>5. ASSUME NEW r \in Runners, Searching(r, a),
             \A q \in Queries : pc[<<Planner, q>>] # "idle" =>
               began[<<r, At>>] < Frequency[a] + began[<<Planner, q>>]
      PROVE  \/ \A q \in Queries : pc'[<<Planner, q>>] # "idle" =>
                  unseen'[a] + 2 <= Ttl + Frequency[a] + began'[<<Planner, q>>]
             \/ /\ Searching(r, a)'
                /\ \A q \in Queries : pc'[<<Planner, q>>] # "idle" =>
                     began'[<<r, At>>] < Frequency[a] + began'[<<Planner, q>>]
  <2>1. CASE <<r, At>> = w
    BY <1>1, <1>2, <1>3, <1>5, <2>1, EndSearches
  <2>2. CASE <<r, At>> # w
    <3>1. Searching(r, a)' /\ began'[<<r, At>>] = began[<<r, At>>]
      BY <1>5, <2>2, EndSearches
    <3> QED
      BY <1>3, <1>5, <3>1
  <2> QED
    BY <2>1, <2>2
<1>6. CASE age[a] < Frequency[a]
  <2>1. CASE unseen[a] < Ttl + age[a]
    BY <1>1, <1>2, <1>3, <1>6, <2>1
  <2>2. ASSUME NEW r \in Runners, Searching(r, a), began[<<r, At>>] = age[a]
        PROVE  \A q \in Queries : pc[<<Planner, q>>] # "idle" =>
                 began[<<r, At>>] < Frequency[a] + began[<<Planner, q>>]
    BY <1>1, <1>2, <1>6, <2>2
  <2> QED
    BY <1>5, <1>6, <2>1, <2>2 DEF RunTooEarly
<1>7. CASE age[a] = Frequency[a]
  <2>1. CASE \A q \in Queries : pc[<<Planner, q>>] # "idle" =>
               unseen[a] + 2 <= Ttl + Frequency[a] + began[<<Planner, q>>]
    BY <1>1, <1>2, <1>3, <2>1
  <2> QED
    BY <1>4, <1>5, <1>7, <2>1 DEF DueSoon
<1> QED
  BY <1>1, <1>6, <1>7 DEF Shape

LEMMA EndStep ==
  ASSUME IInv, NEW w \in Workers, EndsRight(w)
  PROVE  /\ Shape' /\ SameStart' /\ QueueMoves' /\ StaleStart'
         /\ RunTooEarly' /\ DueSoon' /\ SearchedInTime'
<1> USE DEF IInv
<1>1. DueSoon'
  BY EndDueFree, EndDueBusy DEF DueSoon
<1> QED
  BY <1>1, EndShape, EndQueue, EndStale, EndRun, EndInTime DEF EndsRight

-----------------------------------------------------------------------------
(* A cycle starts. *)
LEMMA CycleStep ==
  ASSUME IInv, NEW r \in Runners, Idle(r), Cycle(r), timer' \in 0..Interval,
         r # Planner => timer' = timer,
         r = Planner => timer = Interval
  PROVE  IInv'
<1> USE Sizes DEF IInv
<1>1. \A q \in Queries : <<r, q>> \in Workers /\ pc[<<r, q>>] = "idle" /\ began[<<r, q>>] = 0
  BY Worker DEF Idle, Shape
<1>2. \A v \in Workers :
        /\ v[1] = r => /\ pc'[v] = (IF Planned(v[2]) # {} THEN "waiting" ELSE "idle")
                       /\ began[v] = 0 /\ pc[v] = "idle" /\ todo'[v] = Planned(v[2])
        /\ v[1] # r => pc'[v] = pc[v] /\ todo'[v] = todo[v]
  BY <1>1, Pair DEF Cycle, TypeOK
<1>3. UNCHANGED <<age, entry, began, scraped, posted, matched, unseen>>
  BY DEF Cycle, listing
<1>4. TypeOK'
  <2>1. pc' \in [Workers -> {"idle", "waiting", "scraping"}]
    BY DEF Cycle, TypeOK
  <2>2. todo' \in [Workers -> SUBSET Alerts]
    BY DEF Cycle, TypeOK, Planned, Due
  <2> QED
    BY <1>3, <2>1, <2>2 DEF TypeOK
<1>5. Shape'
  BY <1>2, <1>3 DEF Shape, Planned
<1>6. SameStart'
  BY <1>2, <1>3 DEF SameStart
<1>7. QueueMoves'
  <2>1. SUFFICES ASSUME NEW w \in Workers, pc'[w] # "idle"
                 PROVE  LET ahead == began'[w] + MaxScrape * Cardinality(Waiting(w[1], PortalOf[w[2]])')
                        IN /\ ahead <= Longest
                           /\ \A v \in Workers :
                                v[1] = w[1] /\ PortalOf[v[2]] = PortalOf[w[2]] /\ pc'[v] = "scraping" =>
                                  /\ ahead + MaxScrape <= Longest + scraped'[v]
                                  /\ pc'[w] = "scraping" => v = w
    BY DEF QueueMoves
  <2>2. CASE w[1] = r
    <3> DEFINE W == Waiting(w[1], PortalOf[w[2]])'
               P == {o \in Queries : PortalOf[o] = PortalOf[w[2]]}
    <3>1. W \subseteq P /\ IsFiniteSet(P)
      BY QueueAssumption, FS_Subset DEF Waiting
    <3>2. Cardinality(W) <= Cardinality(P) /\ Cardinality(W) \in Nat /\ Cardinality(P) \in Nat
      BY <3>1, FS_Subset, FS_CardinalityType
    <3>3. MaxScrape * Cardinality(W) <= MaxScrape * Cardinality(P) /\ MaxScrape * Cardinality(W) \in Nat
          /\ MaxScrape * Cardinality(P) \in Nat
      BY <3>2, Times
    <3>4. MaxScrape * Cardinality(P) <= Longest
      BY QueueAssumption, Pair
    <3>5. \A v \in Workers : v[1] = w[1] => pc'[v] # "scraping"
      BY <1>2, <2>2
    <3>6. began'[w] = 0
      BY <1>2, <1>3, <2>2
    <3> QED
      BY <3>3, <3>4, <3>5, <3>6
  <2>3. CASE w[1] # r
    <3>1. Waiting(w[1], PortalOf[w[2]])' = Waiting(w[1], PortalOf[w[2]])
      BY <1>2, <2>3, Pair, Worker DEF Waiting
    <3> QED
      BY <1>2, <1>3, <2>1, <2>3, <3>1 DEF QueueMoves
  <2> QED
    BY <2>2, <2>3
<1>8. EntryIsOld'
  BY <1>3 DEF EntryIsOld, EntryLimit, UpTo
<1>9. \A s \in Runners, a \in Alerts : Searching(s, a) => Searching(s, a)'
  BY <1>2, Worker DEF Searching, Shape
<1>10. \A a \in Alerts : a \in Due => Searching(r, a)' \/ unseen[a] = 0
  BY <1>2, Worker DEF Searching, Planned, Shape
<1>11. StaleStart'
  <2> SUFFICES ASSUME NEW w \in Workers, NEW a \in todo'[w]
               PROVE  unseen'[a] < Ttl + began'[w] \/ Searching(w[1], a)'
    BY DEF StaleStart
  <2>1. CASE w[1] = r
    <3>1. a \in Due /\ a \in Alerts /\ began[w] \in Nat
      BY <1>2, <2>1 DEF Planned, Due, TypeOK
    <3> QED
      BY <1>3, <1>10, <2>1, <3>1
  <2>2. CASE w[1] # r
    <3>1. a \in todo[w] /\ a \in Alerts /\ w[1] \in Runners
      BY <1>2, <2>2, Pair DEF TypeOK
    <3> QED
      BY <1>3, <1>9, <3>1 DEF StaleStart
  <2> QED
    BY <2>1, <2>2
<1>12. RunTooEarly'
  BY <1>3, <1>9 DEF RunTooEarly
<1>13. SearchedInTime'
  BY <1>3, <1>9 DEF SearchedInTime
<1>14. DueSoon'
  <2>1. CASE r = Planner
    <3> SUFFICES ASSUME NEW a \in Alerts, age'[a] = Frequency[a]
                 PROVE  IF Idle(Planner)'
                          THEN \/ unseen'[a] + 2 <= Ttl + Frequency[a] + Longest + timer'
                               \/ \E s \in Runners : Searching(s, a)'
                          ELSE \/ \A q \in Queries : pc'[<<Planner, q>>] # "idle" =>
                                    unseen'[a] + 2 <= Ttl + Frequency[a] + began'[<<Planner, q>>]
                               \/ \E s \in Runners : /\ Searching(s, a)'
                                                     /\ \A q \in Queries : pc'[<<Planner, q>>] # "idle" =>
                                                          began'[<<s, At>>] < Frequency[a] + began'[<<Planner, q>>]
      BY DEF DueSoon
    <3>1. a \in Due
      BY <1>3 DEF Due, Shape
    <3>2. began'[<<Planner, At>>] = 0 /\ \A q \in Queries : began'[<<Planner, q>>] = 0
      BY <1>1, <1>3, <2>1
    <3>3. timer' \in Nat
      OBVIOUS
    <3> QED
      BY <1>3, <1>10, <2>1, <3>1, <3>2, <3>3
  <2>2. CASE r # Planner
    <3>1. \A q \in Queries : pc'[<<Planner, q>>] = pc[<<Planner, q>>]
      BY <1>2, <2>2, Worker
    <3>2. Idle(Planner)' <=> Idle(Planner)
      BY <3>1 DEF Idle
    <3> QED
      BY <1>3, <1>9, <2>2, <3>1, <3>2 DEF DueSoon
  <2> QED
    BY <2>1, <2>2
<1> QED
  BY <1>4, <1>5, <1>6, <1>7, <1>8, <1>11, <1>12, <1>13, <1>14

-----------------------------------------------------------------------------
(* An evaluation, whatever it found. *)
LEMMA EvaluateTypes ==
  ASSUME TypeOK, NEW w \in Workers, NEW found \in BOOLEAN, Evaluate(w, found)
  PROVE  /\ age' \in [Alerts -> Nat] /\ timer' = timer /\ posted' = posted
         /\ pc' \in [Workers -> {"idle", "waiting", "scraping"}]
         /\ todo' \in [Workers -> SUBSET Alerts]
         /\ began' \in [Workers -> Nat] /\ scraped' \in [Workers -> Nat]
         /\ matched' \subseteq Alerts /\ unseen' \in [Alerts -> Nat]
         /\ \A a \in Alerts : unseen'[a] \in {0, unseen[a]}
         /\ \A a \in todo[w] : w[2] = At /\ found => unseen'[a] = 0
<1> USE Sizes DEF TypeOK
<1>1. age' \in [Alerts -> Nat]
  <2>1. \A a \in Alerts : UpTo(began[w], Frequency[a]) \in Nat
    BY DEF UpTo
  <2> QED
    BY <2>1 DEF Evaluate, Marked
<1>2. matched' \subseteq Alerts /\ unseen' \in [Alerts -> Nat]
      /\ \A a \in Alerts : unseen'[a] \in {0, unseen[a]}
  BY DEF Evaluate
<1>3. \A a \in todo[w] : w[2] = At /\ found => unseen'[a] = 0
  BY DEF Evaluate
<1> QED
  BY <1>1, <1>2, <1>3 DEF Evaluate, Ended

LEMMA BeganBound ==
  ASSUME TypeOK, QueueMoves, NEW w \in Workers, pc[w] # "idle"
  PROVE  began[w] \in Nat /\ began[w] <= Longest
<1>1. MaxScrape * Cardinality(Waiting(w[1], PortalOf[w[2]])) \in Nat
  BY WaitingFinite, Times, Sizes
<1>2. began[w] \in Nat
  BY DEF TypeOK
<1> QED
  BY <1>1, <1>2, Sizes DEF QueueMoves

LEMMA HitStep ==
  ASSUME IInv, NEW w \in Workers, Hit(w)
  PROVE  IInv' /\ EndsRight(w)
<1> USE Sizes DEF IInv
<1>1. entry[w[2]].seen \in BOOLEAN /\ w[2] \in Queries
  BY Pair DEF TypeOK
<1> DEFINE found == entry[w[2]].seen
<1>2. Evaluate(w, found) /\ UNCHANGED entry /\ pc[w] # "idle" /\ Fresh(w)
  BY DEF Hit
<1>3. TypeOK'
  BY <1>1, <1>2, EvaluateTypes DEF TypeOK
<1>4. ASSUME NEW a \in todo[w], w[2] = At, unseen'[a] # 0
      PROVE  unseen[a] < Ttl + began[w]
  <2>1. ~ entry[At].seen /\ a \in Alerts
    BY <1>1, <1>2, <1>4, EvaluateTypes DEF TypeOK
  <2>2. began[w] \in Nat /\ began[w] <= Longest /\ entry[At].age \in Nat /\ unseen[a] \in Nat
    BY <1>2, <2>1, BeganBound DEF TypeOK
  <2>3. entry[At].age < Ttl + began[w]
    BY <1>2, <1>4 DEF Fresh
  <2>4. entry[At].age >= UpTo(unseen[a], EntryLimit)
    BY <2>1 DEF EntryIsOld
  <2> QED
    BY <2>2, <2>3, <2>4 DEF UpTo, EntryLimit
<1>5. EndsRight(w)
  BY <1>1, <1>2, <1>4, EvaluateTypes DEF EndsRight, Evaluate
<1>6. EntryIsOld'
  BY <1>1, <1>2, EvaluateTypes DEF EntryIsOld, UpTo, EntryLimit, TypeOK
<1> QED
  BY <1>3, <1>5, <1>6, EndStep

LEMMA ReturnsStep ==
  ASSUME IInv, NEW w \in Workers, Returns(w)
  PROVE  IInv' /\ EndsRight(w)
<1> USE Sizes DEF IInv
<1>1. PICK found \in Finds(w) : Evaluate(w, found) /\ entry' = Put(w, found)
  BY DEF Returns
<1>2. found \in BOOLEAN /\ w[2] \in Queries /\ pc[w] # "idle"
  BY Pair DEF Finds, Returns
<1>3. began[w] \in Nat /\ began[w] <= Longest /\ scraped[w] \in Nat /\ scraped[w] <= began[w]
      /\ scraped[w] <= MaxScrape /\ posted \in Nat
  BY <1>2, BeganBound DEF TypeOK, Shape
<1>4. entry' \in [Queries -> [age : Nat, seen : BOOLEAN]]
  BY <1>1, <1>2, <1>3 DEF Put, TypeOK
<1>5. TypeOK'
  BY <1>1, <1>2, <1>4, EvaluateTypes DEF TypeOK
<1>6. ASSUME w[2] = At, ~ found, NEW a \in Alerts
      PROVE  unseen[a] <= began[w]
  <2>1. unseen[a] \in Nat
    BY DEF TypeOK
  <2>2. posted = 0 \/ posted <= scraped[w] + 1
    <3>1. ~ (w[2] # At \/ posted = 0) => ~ (posted > scraped[w] + 1)
      BY <1>1, <1>6 DEF Finds
    <3> QED
      BY <1>3, <1>6, <3>1
  <2>3. posted <= MaxScrape + 1
    BY <1>3, <2>2
  <2>4. unseen[a] = 0 \/ unseen[a] < posted
    BY <2>3 DEF EntryIsOld
  <2> QED
    BY <1>3, <2>1, <2>2, <2>4
<1>7. EndsRight(w)
  <2>1. ASSUME NEW a \in todo[w], w[2] = At, unseen'[a] # 0
        PROVE  unseen[a] < Ttl + began[w]
    <3>1. ~ found /\ a \in Alerts /\ unseen[a] \in Nat
      BY <1>1, <1>2, <2>1, EvaluateTypes DEF TypeOK
    <3> QED
      BY <1>3, <1>6, <2>1, <3>1
  <2> QED
    BY <1>1, <1>2, <2>1, EvaluateTypes DEF EndsRight, Evaluate
<1>8. EntryIsOld'
  <2>1. posted' = posted /\ \A a \in Alerts : unseen'[a] \in {0, unseen[a]} /\ unseen[a] \in Nat
    BY <1>1, <1>2, EvaluateTypes DEF TypeOK
  <2>2. ASSUME ~ entry'[At].seen, NEW a \in Alerts
        PROVE  entry'[At].age >= UpTo(unseen'[a], EntryLimit)
    <3>1. CASE w[2] = At
      <4>1. entry'[At] = [age |-> began[w], seen |-> found]
        BY <1>1, <1>2, <3>1 DEF Put, TypeOK
      <4> QED
        BY <1>3, <1>6, <2>1, <2>2, <3>1, <4>1 DEF UpTo, EntryLimit
    <3>2. CASE w[2] # At
      <4>1. entry'[At] = entry[At] /\ entry[At].age \in Nat
        BY <1>1, <1>2, <3>2 DEF Put, TypeOK
      <4> QED
        BY <2>1, <2>2, <4>1 DEF UpTo, EntryLimit, EntryIsOld
    <3> QED
      BY <3>1, <3>2
  <2> QED
    BY <2>1, <2>2 DEF EntryIsOld, EntryLimit
<1> QED
  BY <1>5, <1>7, <1>8, EndStep

LEMMA FailsStep ==
  ASSUME IInv, NEW w \in Workers, Fails(w)
  PROVE  IInv' /\ EndsRight(w)
<1> USE Sizes DEF IInv
<1>1. TypeOK' /\ \A a \in Alerts : unseen'[a] \in {0, unseen[a]} /\ unseen[a] \in Nat
  BY DEF Fails, Ended, TypeOK
<1>2. EndsRight(w)
  BY <1>1 DEF Fails, EndsRight, TypeOK
<1>3. EntryIsOld'
  BY <1>1 DEF Fails, EntryIsOld, UpTo, EntryLimit, TypeOK
<1> QED
  BY <1>1, <1>2, <1>3, EndStep

-----------------------------------------------------------------------------
LEMMA MissStep ==
  ASSUME IInv, NEW w \in Workers, Miss(w)
  PROVE  IInv'
<1> USE Sizes DEF IInv
<1>1. /\ UNCHANGED <<age, entry, timer, todo, began, scraped, posted, matched, unseen>>
      /\ pc[w] = "waiting" /\ HasSlot(w) /\ pc' = [pc EXCEPT ![w] = "scraping"]
  BY DEF Miss, listing
<1>2. pc'[w] = "scraping" /\ \A v \in Workers : v # w => pc'[v] = pc[v]
  BY <1>1 DEF TypeOK
<1>3. TypeOK' /\ Shape' /\ SameStart'
  BY <1>1, <1>2 DEF TypeOK, Shape, SameStart
<1>4. Idle(Planner)' <=> Idle(Planner)
  BY <1>1, <1>2, Worker DEF Idle
<1>5. \A v \in Workers : pc'[v] # "idle" <=> pc[v] # "idle"
  BY <1>1, <1>2
<1>6. EntryIsOld' /\ StaleStart' /\ RunTooEarly' /\ SearchedInTime'
  BY <1>1 DEF EntryIsOld, StaleStart, RunTooEarly, SearchedInTime, Searching, EntryLimit
<1>7. DueSoon'
  BY <1>1, <1>4, <1>5, Worker DEF DueSoon, Searching
<1>8. QueueMoves'
  <2>1. SUFFICES ASSUME NEW v \in Workers, pc'[v] # "idle"
                 PROVE  LET ahead == began'[v] + MaxScrape * Cardinality(Waiting(v[1], PortalOf[v[2]])')
                        IN /\ ahead <= Longest
                           /\ \A u \in Workers :
                                u[1] = v[1] /\ PortalOf[u[2]] = PortalOf[v[2]] /\ pc'[u] = "scraping" =>
                                  /\ ahead + MaxScrape <= Longest + scraped'[u]
                                  /\ pc'[v] = "scraping" => u = v
    BY DEF QueueMoves
  <2> DEFINE W == Waiting(v[1], PortalOf[v[2]])
             W2 == Waiting(v[1], PortalOf[v[2]])'
  <2>2. pc[v] # "idle" /\ began[v] \in Nat /\ \A u \in Workers : scraped[u] \in Nat
    BY <1>5, <2>1 DEF TypeOK
  <2>3. /\ began[v] + MaxScrape * Cardinality(W) <= Longest
        /\ \A u \in Workers :
             u[1] = v[1] /\ PortalOf[u[2]] = PortalOf[v[2]] /\ pc[u] = "scraping" =>
               /\ began[v] + MaxScrape * Cardinality(W) + MaxScrape <= Longest + scraped[u]
               /\ pc[v] = "scraping" => u = v
    BY <2>2 DEF QueueMoves
  <2>4. CASE w[1] = v[1] /\ PortalOf[w[2]] = PortalOf[v[2]]
    <3>1. w[2] \in W /\ W2 = W \ {w[2]}
      BY <1>1, <1>2, <2>4, Pair, Worker DEF Waiting
    <3>2. /\ Cardinality(W2) = Cardinality(W) - 1
          /\ Cardinality(W) \in Nat /\ Cardinality(W2) \in Nat
      <4>1. IsFiniteSet(W) /\ Cardinality(W) \in Nat
        BY WaitingFinite
      <4>2. IsFiniteSet(W2) /\ Cardinality(W2) = Cardinality(W) - 1
        BY <3>1, <4>1, FS_RemoveElement
      <4> QED
        BY <4>1, <4>2, FS_CardinalityType
    <3>3. /\ MaxScrape * Cardinality(W2) + MaxScrape <= MaxScrape * Cardinality(W)
          /\ MaxScrape * Cardinality(W2) \in Nat /\ MaxScrape * Cardinality(W) \in Nat
      BY <3>2, Times
    <3>4. \A u \in Workers : u[1] = v[1] /\ PortalOf[u[2]] = PortalOf[v[2]] => pc[u] # "scraping"
      BY <1>1, <2>4, Pair DEF HasSlot
    <3>5. \A u \in Workers :
            u[1] = v[1] /\ PortalOf[u[2]] = PortalOf[v[2]] /\ pc'[u] = "scraping" => u = w
      BY <1>2, <3>4
    <3>6. scraped[w] = 0
      BY <1>1 DEF Shape
    <3> QED
      BY <1>1, <2>2, <2>3, <2>4, <3>3, <3>5, <3>6
  <2>5. CASE ~ (w[1] = v[1] /\ PortalOf[w[2]] = PortalOf[v[2]])
    <3>1. W2 = W
      BY <1>2, <2>5, Pair, Worker DEF Waiting
    <3>2. v # w /\ pc'[v] = pc[v]
      BY <1>2, <2>5
    <3> QED
      BY <1>1, <1>2, <2>3, <2>5, <3>1, <3>2
  <2> QED
    BY <2>4, <2>5
<1> QED
  BY <1>3, <1>6, <1>7, <1>8

LEMMA AppearsStep ==
  ASSUME IInv, Appears
  PROVE  IInv'
<1> USE Sizes DEF IInv
<1>1. UNCHANGED <<age, entry, timer, pc, todo, began, scraped, matched, unseen>>
      /\ posted = 0 /\ posted' = 1
  BY DEF Appears, cycle
<1>2. TypeOK' /\ Shape' /\ SameStart' /\ QueueMoves'
  <2>1. TypeOK' /\ Shape' /\ SameStart'
    BY <1>1 DEF TypeOK, Shape, SameStart
  <2>2. QueueMoves'
    BY <1>1 DEF QueueMoves, Waiting
  <2> QED
    BY <2>1, <2>2
<1>3. EntryIsOld'
  <2>1. \A a \in Alerts : unseen[a] = 0
    BY <1>1 DEF EntryIsOld, TypeOK
  <2> QED
    BY <1>1, <2>1 DEF EntryIsOld, EntryLimit
<1>4. StaleStart' /\ RunTooEarly' /\ SearchedInTime' /\ DueSoon'
  BY <1>1 DEF StaleStart, RunTooEarly, SearchedInTime, DueSoon, Searching, Idle
<1> QED
  BY <1>2, <1>3, <1>4
-----------------------------------------------------------------------------
(* Time passes: an alert that waits, the search it waits for, the age of    *)
(* its last run and of the entry all move by one; when it waits no search,  *)
(* it has not reached its limit, for the job fires or its run ends before.  *)
LEMMA TickMoves ==
  ASSUME TypeOK, Shape, Tick
  PROVE  /\ timer < Interval /\ timer' = timer + 1 /\ pc' = pc /\ todo' = todo
         /\ \A a \in Alerts : age'[a] = IF age[a] < Frequency[a] THEN age[a] + 1 ELSE Frequency[a]
         /\ \A a \in Alerts : unseen[a] \in Nat /\ unseen'[a] \in Nat /\ unseen'[a] <= unseen[a] + 1
         /\ \A w \in Workers : pc[w] # "idle" => began'[w] = began[w] + 1 /\ began[w] \in Nat
         /\ \A r \in Runners, a \in Alerts :
              /\ Searching(r, a)' <=> Searching(r, a)
              /\ Searching(r, a) => /\ began'[<<r, At>>] = began[<<r, At>>] + 1
                                    /\ began[<<r, At>>] \in Nat
<1> USE Sizes
<1>1. timer < Interval /\ timer' = timer + 1 /\ pc' = pc /\ todo' = todo
  BY DEF Tick
<1>2. \A a \in Alerts : age'[a] = IF age[a] < Frequency[a] THEN age[a] + 1 ELSE Frequency[a]
  BY DEF Tick, Grown
<1>3. ASSUME NEW a \in Alerts
      PROVE  unseen[a] \in Nat /\ unseen'[a] \in Nat /\ unseen'[a] <= unseen[a] + 1
  <2>1. unseen[a] \in Nat /\ Unseen(a) \in Nat
    BY DEF TypeOK, Unseen
  <2>2. unseen'[a] \in {0, Grown(unseen[a], Unseen(a))}
    BY DEF Tick
  <2> QED
    BY <2>1, <2>2 DEF Grown
<1>4. \A w \in Workers : pc[w] # "idle" => began'[w] = began[w] + 1 /\ began[w] \in Nat
  BY DEF Tick, TypeOK
<1>5. ASSUME NEW r \in Runners, NEW a \in Alerts, Searching(r, a)
      PROVE  began'[<<r, At>>] = began[<<r, At>>] + 1 /\ began[<<r, At>>] \in Nat
  BY <1>4, <1>5, Worker DEF Searching, Shape
<1> QED
  BY <1>1, <1>2, <1>3, <1>4, <1>5 DEF Searching

LEMMA TickTypes ==
  ASSUME TypeOK, Shape, SameStart, Tick
  PROVE  TypeOK' /\ Shape' /\ SameStart'
<1> USE Sizes
<1>1. /\ pc' = pc /\ todo' = todo /\ matched' = matched
      /\ timer' \in 0..Interval
  BY DEF Tick, TypeOK
<1>2. age' \in [Alerts -> Nat] /\ \A a \in Alerts : age'[a] <= Frequency[a]
  BY DEF Tick, TypeOK, Grown
<1>3. entry' \in [Queries -> [age : Nat, seen : BOOLEAN]]
  <2>1. \A q \in Queries : Grown(entry[q].age, EntryLimit) \in Nat
    BY DEF TypeOK, Grown, EntryLimit
  <2>2. \A q \in Queries : [entry[q] EXCEPT !.age = Grown(@, EntryLimit)] \in [age : Nat, seen : BOOLEAN]
    BY <2>1 DEF TypeOK
  <2> QED
    BY <2>2 DEF Tick
<1>4. /\ began' \in [Workers -> Nat] /\ scraped' \in [Workers -> Nat]
      /\ \A w \in Workers : /\ pc[w] = "idle" => began'[w] = 0
                            /\ pc[w] # "idle" => began'[w] = began[w] + 1
                            /\ pc[w] # "scraping" => scraped'[w] = 0
                            /\ pc[w] = "scraping" => scraped'[w] = scraped[w] + 1 /\ scraped[w] < MaxScrape
                            /\ began[w] \in Nat /\ scraped[w] \in Nat
  BY DEF Tick, TypeOK
<1>5. posted' \in Nat
  BY DEF Tick, TypeOK, Grown
<1>6. unseen' \in [Alerts -> Nat] /\ \A a \in Alerts : At \notin PlanOf[a] => unseen'[a] = 0
  <2>1. \A a \in Alerts : Grown(unseen[a], Unseen(a)) \in Nat
    BY DEF TypeOK, Grown, Unseen
  <2> QED
    BY <2>1 DEF Tick
<1>7. TypeOK'
  BY <1>1, <1>2, <1>3, <1>4, <1>5, <1>6 DEF TypeOK
<1>8. Shape'
  <2>1. ASSUME NEW w \in Workers
        PROVE  /\ pc'[w] = "idle" => began'[w] = 0 /\ todo'[w] = {}
               /\ pc'[w] # "scraping" => scraped'[w] = 0
               /\ scraped'[w] <= began'[w] /\ scraped'[w] <= MaxScrape
               /\ \A a \in todo'[w] : w[2] \in PlanOf[a]
    BY <1>1, <1>4 DEF Shape, TypeOK
  <2> QED
    BY <1>2, <1>6, <2>1 DEF Shape
<1>9. SameStart'
  BY <1>1, <1>4 DEF SameStart
<1> QED
  BY <1>7, <1>8, <1>9

LEMMA TickQueue ==
  ASSUME TypeOK, Shape, QueueMoves, Tick
  PROVE  QueueMoves'
<1> USE Sizes
<1>1. pc' = pc /\ \A w \in Workers : Waiting(w[1], PortalOf[w[2]])' = Waiting(w[1], PortalOf[w[2]])
  BY DEF Tick, Waiting
<1>2. SUFFICES ASSUME NEW w \in Workers, pc[w] # "idle"
               PROVE  LET ahead == began'[w] + MaxScrape * Cardinality(Waiting(w[1], PortalOf[w[2]]))
                      IN /\ ahead <= Longest
                         /\ \A v \in Workers :
                              v[1] = w[1] /\ PortalOf[v[2]] = PortalOf[w[2]] /\ pc[v] = "scraping" =>
                                /\ ahead + MaxScrape <= Longest + scraped'[v]
                                /\ pc[w] = "scraping" => v = w
  BY <1>1 DEF QueueMoves
<1> DEFINE queue == MaxScrape * Cardinality(Waiting(w[1], PortalOf[w[2]]))
<1>3. queue \in Nat
  BY WaitingFinite, Times
<1>4. /\ \A v \in Workers : scraped[v] \in Nat
      /\ \A v \in Workers : pc[v] = "scraping" => scraped'[v] = scraped[v] + 1 /\ scraped[v] < MaxScrape
      /\ began'[w] = began[w] + 1 /\ began[w] \in Nat
  BY <1>2 DEF Tick, TypeOK
<1>5. PICK u \in Workers : u[1] = w[1] /\ PortalOf[u[2]] = PortalOf[w[2]] /\ pc[u] = "scraping"
  <2>1. CASE pc[w] = "scraping"
    BY <2>1
  <2>2. CASE pc[w] = "waiting"
    <3>1. ~ HasSlot(w)
      BY <2>2 DEF Tick
    <3>2. PICK q \in Queries : PortalOf[q] = PortalOf[w[2]] /\ pc[<<w[1], q>>] = "scraping"
      BY <3>1 DEF HasSlot
    <3> QED
      BY <3>2, Pair, Worker
  <2> QED
    BY <1>2, <2>1, <2>2 DEF TypeOK
<1>6. \A v \in Workers :
        v[1] = w[1] /\ PortalOf[v[2]] = PortalOf[w[2]] /\ pc[v] = "scraping" =>
          /\ began[w] + queue + MaxScrape <= Longest + scraped[v]
          /\ pc[w] = "scraping" => v = w
  BY <1>2 DEF QueueMoves
<1>7. began[w] + queue + MaxScrape <= Longest + scraped[u]
  BY <1>5, <1>6
<1>8. began'[w] + queue <= Longest
  BY <1>3, <1>4, <1>5, <1>7
<1> HIDE DEF queue
<1>9. ASSUME NEW v \in Workers, began[w] + queue + MaxScrape <= Longest + scraped[v], pc[v] = "scraping"
      PROVE  began'[w] + queue + MaxScrape <= Longest + scraped'[v]
  BY <1>3, <1>4, <1>9
<1> QED
  BY <1>6, <1>8, <1>9 DEF queue

LEMMA TickEntry ==
  ASSUME TypeOK, Shape, EntryIsOld, Tick
  PROVE  EntryIsOld'
<1> USE Sizes
<1>1. posted \in Nat /\ posted' = IF posted = 0 THEN 0 ELSE Grown(posted, MaxScrape + 2)
  BY DEF TypeOK, Tick
<1>2. ASSUME NEW a \in Alerts, posted' <= MaxScrape + 1
      PROVE  unseen'[a] = 0 \/ unseen'[a] < posted'
  <2>1. CASE posted = 0
    BY <2>1 DEF Tick
  <2>2. CASE posted # 0
    <3>1. posted' = posted + 1 /\ posted <= MaxScrape + 1
      BY <1>1, <1>2, <2>2 DEF Grown
    <3>2. unseen[a] = 0 \/ unseen[a] < posted
      BY <3>1 DEF EntryIsOld
    <3> QED
      BY <1>1, <2>2, <3>1, <3>2, TickMoves
  <2> QED
    BY <2>1, <2>2
<1>3. ASSUME NEW a \in Alerts, ~ entry'[At].seen
      PROVE  entry'[At].age >= UpTo(unseen'[a], EntryLimit)
  <2>1. entry'[At].seen = entry[At].seen /\ entry'[At].age = Grown(entry[At].age, EntryLimit)
        /\ entry[At].age \in Nat
    BY DEF Tick, TypeOK
  <2>2. entry[At].age >= UpTo(unseen[a], EntryLimit)
    BY <1>3, <2>1 DEF EntryIsOld
  <2>3. EntryLimit \in Nat
    BY DEF EntryLimit
  <2> QED
    BY <2>1, <2>2, <2>3, TickMoves DEF Grown, UpTo
<1> QED
  BY <1>2, <1>3 DEF EntryIsOld, EntryLimit

LEMMA TickDue ==
  ASSUME TypeOK, Shape, RunTooEarly, DueSoon, Tick
  PROVE  DueSoon'
<1> USE Sizes
<1>1. SUFFICES ASSUME NEW a \in Alerts, age'[a] = Frequency[a]
               PROVE  IF Idle(Planner)
                        THEN \/ unseen'[a] + 2 <= Ttl + Frequency[a] + Longest + timer'
                             \/ \E r \in Runners : Searching(r, a)'
                        ELSE \/ \A q \in Queries : pc[<<Planner, q>>] # "idle" =>
                                  unseen'[a] + 2 <= Ttl + Frequency[a] + began'[<<Planner, q>>]
                             \/ \E r \in Runners : /\ Searching(r, a)'
                                                   /\ \A q \in Queries : pc[<<Planner, q>>] # "idle" =>
                                                        began'[<<r, At>>] < Frequency[a] + began'[<<Planner, q>>]
  BY TickMoves DEF DueSoon, Idle
<1>2. /\ timer \in Nat /\ timer' = timer + 1 /\ age[a] \in Nat
      /\ unseen[a] \in Nat /\ unseen'[a] \in Nat /\ unseen'[a] <= unseen[a] + 1
  BY TickMoves DEF TypeOK
<1>3. \A q \in Queries : pc[<<Planner, q>>] # "idle" =>
        began'[<<Planner, q>>] = began[<<Planner, q>>] + 1 /\ began[<<Planner, q>>] \in Nat
  BY TickMoves, Worker
<1>4. \A r \in Runners : Searching(r, a) =>
        /\ Searching(r, a)' /\ began[<<r, At>>] \in Nat
        /\ began'[<<r, At>>] = began[<<r, At>>] + 1
  BY TickMoves
<1>5. CASE age[a] < Frequency[a]
  <2>1. age[a] + 1 = Frequency[a]
    BY <1>1, <1>2, <1>5, TickMoves
  <2>2. CASE unseen[a] < Ttl + age[a]
    BY <1>2, <1>3, <2>1, <2>2
  <2>3. ASSUME NEW r \in Runners, Searching(r, a), began[<<r, At>>] = age[a]
        PROVE  /\ Searching(r, a)'
               /\ \A q \in Queries : pc[<<Planner, q>>] # "idle" =>
                    began'[<<r, At>>] < Frequency[a] + began'[<<Planner, q>>]
    BY <1>2, <1>3, <1>4, <2>1, <2>3
  <2> QED
    BY <1>5, <2>2, <2>3 DEF RunTooEarly
<1>6. CASE age[a] = Frequency[a] /\ Idle(Planner)
  <2>1. CASE unseen[a] + 2 <= Ttl + Frequency[a] + Longest + timer
    BY <1>2, <1>6, <2>1
  <2> QED
    BY <1>4, <1>6, <2>1 DEF DueSoon
<1>7. CASE age[a] = Frequency[a] /\ ~ Idle(Planner)
  <2>1. CASE \A q \in Queries : pc[<<Planner, q>>] # "idle" =>
               unseen[a] + 2 <= Ttl + Frequency[a] + began[<<Planner, q>>]
    BY <1>2, <1>3, <1>7, <2>1
  <2>2. ASSUME NEW r \in Runners, Searching(r, a),
               \A q \in Queries : pc[<<Planner, q>>] # "idle" =>
                 began[<<r, At>>] < Frequency[a] + began[<<Planner, q>>]
        PROVE  /\ Searching(r, a)'
               /\ \A q \in Queries : pc[<<Planner, q>>] # "idle" =>
                    began'[<<r, At>>] < Frequency[a] + began'[<<Planner, q>>]
    BY <1>3, <1>4, <2>2
  <2> QED
    BY <1>7, <2>1, <2>2 DEF DueSoon
<1> QED
  BY <1>2, <1>5, <1>6, <1>7 DEF Shape

LEMMA TickInTime ==
  ASSUME TypeOK, Shape, QueueMoves, RunTooEarly, DueSoon, SearchedInTime, Tick
  PROVE  SearchedInTime'
<1> USE Sizes
<1>1. SUFFICES ASSUME NEW a \in Alerts
               PROVE  \/ unseen'[a] + 2 <= Ttl + Frequency[a] + Longest + Interval
                      \/ \E r \in Runners :
                           /\ Searching(r, a)'
                           /\ unseen'[a] + 2 <= Ttl + Frequency[a] + Longest + Interval + began'[<<r, At>>]
  BY DEF SearchedInTime
<1>2. /\ timer \in Nat /\ timer < Interval /\ age[a] \in Nat
      /\ unseen[a] \in Nat /\ unseen'[a] \in Nat /\ unseen'[a] <= unseen[a] + 1
  BY TickMoves DEF TypeOK
<1>3. \A r \in Runners : Searching(r, a) =>
        /\ Searching(r, a)' /\ began[<<r, At>>] \in Nat
        /\ began'[<<r, At>>] = began[<<r, At>>] + 1
  BY TickMoves
<1>4. ASSUME NEW r \in Runners, Searching(r, a),
             unseen[a] + 2 <= Ttl + Frequency[a] + Longest + Interval + began[<<r, At>>]
      PROVE  unseen'[a] + 2 <= Ttl + Frequency[a] + Longest + Interval + began'[<<r, At>>]
  BY <1>2, <1>3, <1>4
<1>5. CASE unseen[a] + 2 <= Ttl + Frequency[a] + Longest + Interval /\ \E r \in Runners : Searching(r, a)
  <2>1. PICK r \in Runners : Searching(r, a)
    BY <1>5
  <2>2. unseen[a] + 2 <= Ttl + Frequency[a] + Longest + Interval + began[<<r, At>>]
    BY <1>2, <1>3, <1>5, <2>1
  <2> QED
    BY <1>3, <1>4, <2>1, <2>2
<1>6. CASE \A r \in Runners : ~ Searching(r, a)
  <2>1. CASE age[a] < Frequency[a]
    <3>1. unseen[a] < Ttl + age[a]
      BY <1>6, <2>1 DEF RunTooEarly
    <3> QED
      BY <1>2, <2>1, <3>1
  <2>2. CASE age[a] = Frequency[a] /\ Idle(Planner)
    <3>1. unseen[a] + 2 <= Ttl + Frequency[a] + Longest + timer
      BY <1>6, <2>2 DEF DueSoon
    <3> QED
      BY <1>2, <3>1
  <2>3. CASE age[a] = Frequency[a] /\ ~ Idle(Planner)
    <3>1. PICK q \in Queries : pc[<<Planner, q>>] # "idle"
      BY <2>3 DEF Idle
    <3>2. unseen[a] + 2 <= Ttl + Frequency[a] + began[<<Planner, q>>]
      BY <1>6, <2>3, <3>1 DEF DueSoon
    <3>3. began[<<Planner, q>>] \in Nat /\ began[<<Planner, q>>] <= Longest
      BY <3>1, BeganBound, Worker
    <3> QED
      BY <1>2, <3>2, <3>3
  <2> QED
    BY <1>2, <2>1, <2>2, <2>3 DEF Shape
<1> QED
  BY <1>3, <1>4, <1>5, <1>6 DEF SearchedInTime

LEMMA TickStep ==
  ASSUME IInv, Tick
  PROVE  IInv'
<1> USE Sizes DEF IInv
<1>1. StaleStart'
  <2> SUFFICES ASSUME NEW w \in Workers, NEW a \in todo'[w]
               PROVE  unseen'[a] < Ttl + began'[w] \/ Searching(w[1], a)'
    BY DEF StaleStart
  <2>1. a \in todo[w] /\ a \in Alerts /\ pc[w] # "idle" /\ w[1] \in Runners
    BY TickMoves, Pair DEF TypeOK, Shape
  <2>2. unseen[a] < Ttl + began[w] \/ Searching(w[1], a)
    BY <2>1 DEF StaleStart
  <2>3. /\ Searching(w[1], a)' <=> Searching(w[1], a)
        /\ unseen[a] \in Nat /\ unseen'[a] \in Nat /\ unseen'[a] <= unseen[a] + 1
        /\ began'[w] = began[w] + 1 /\ began[w] \in Nat
    BY <2>1, TickMoves
  <2> QED
    BY <2>2, <2>3
<1>2. RunTooEarly'
  <2> SUFFICES ASSUME NEW a \in Alerts, age'[a] < Frequency[a]
               PROVE  \/ unseen'[a] < Ttl + age'[a]
                      \/ \E r \in Runners : Searching(r, a)' /\ began'[<<r, At>>] = age'[a]
    BY DEF RunTooEarly
  <2>1. age[a] \in Nat /\ age[a] < Frequency[a] /\ age'[a] = age[a] + 1
    BY TickMoves DEF TypeOK
  <2>2. CASE unseen[a] < Ttl + age[a]
    BY <2>1, <2>2, TickMoves
  <2>3. ASSUME NEW r \in Runners, Searching(r, a), began[<<r, At>>] = age[a]
        PROVE  Searching(r, a)' /\ began'[<<r, At>>] = age'[a]
    BY <2>1, <2>3, TickMoves
  <2> QED
    BY <2>1, <2>2, <2>3 DEF RunTooEarly
<1> QED
  BY <1>1, <1>2, TickTypes, TickQueue, TickEntry, TickDue, TickInTime
-----------------------------------------------------------------------------
LEMMA Initially ==
  ASSUME Init
  PROVE  IInv
<1> USE Sizes DEF Init
<1>1. TypeOK
  BY DEF TypeOK, EntryLimit
<1>2. Shape /\ SameStart /\ QueueMoves /\ StaleStart
  BY DEF Shape, SameStart, QueueMoves, StaleStart
<1>3. EntryIsOld
  BY DEF EntryIsOld, UpTo, EntryLimit
<1>4. \A a \in Alerts : unseen[a] = 0 /\ age[a] = Frequency[a]
  OBVIOUS
<1>5. timer \in Nat
  OBVIOUS
<1>6. RunTooEarly /\ SearchedInTime
  BY <1>4 DEF RunTooEarly, SearchedInTime
<1>7. DueSoon
  <2>1. Idle(Planner)
    BY Worker DEF Idle
  <2>2. \A a \in Alerts : unseen[a] + 2 <= Ttl + Frequency[a] + Longest + timer
    BY <1>4, <1>5
  <2> QED
    BY <2>1, <2>2 DEF DueSoon
<1> QED
  BY <1>1, <1>2, <1>3, <1>6, <1>7 DEF IInv

LEMMA Stutter ==
  ASSUME IInv, UNCHANGED vars
  PROVE  IInv'
<1>1. UNCHANGED <<age, entry, timer, pc, todo, began, scraped, posted, matched, unseen>>
  BY DEF vars, cycle, listing
<1>2. TypeOK' /\ Shape' /\ SameStart'
  BY <1>1 DEF IInv, TypeOK, Shape, SameStart
<1>3. QueueMoves' /\ EntryIsOld'
  BY <1>1 DEF IInv, QueueMoves, Waiting, EntryIsOld, EntryLimit
<1>4. StaleStart' /\ RunTooEarly' /\ SearchedInTime' /\ DueSoon'
  BY <1>1 DEF IInv, StaleStart, RunTooEarly, SearchedInTime, DueSoon, Searching, Idle
<1> QED
  BY <1>2, <1>3, <1>4 DEF IInv

LEMMA FireStep ==
  ASSUME IInv, Fire
  PROVE  IInv' /\ \A w \in Workers : todo[w] # {} => todo'[w] = todo[w]
<1> USE Sizes DEF IInv
<1>1. timer = Interval /\ timer' = 0 /\ timer' \in 0..Interval
  BY DEF Fire
<1>2. CASE Idle(Planner)
  <2>1. Cycle(Planner)
    BY <1>2 DEF Fire
  <2>2. IInv'
    BY <1>1, <1>2, <2>1, CycleStep
  <2>3. ASSUME NEW w \in Workers, todo[w] # {} PROVE todo'[w] = todo[w]
    <3>1. w[1] # Planner
      BY <1>2, <2>3, Pair DEF Idle, Shape
    <3> QED
      BY <2>1, <3>1 DEF Cycle
  <2> QED
    BY <2>2, <2>3
<1>3. CASE ~ Idle(Planner)
  <2>1. UNCHANGED <<age, entry, pc, todo, began, scraped, posted, matched, unseen>>
    BY <1>3 DEF Fire, cycle, listing
  <2>2. TypeOK' /\ Shape' /\ SameStart'
    BY <1>1, <2>1 DEF TypeOK, Shape, SameStart
  <2>3. QueueMoves' /\ EntryIsOld'
    BY <2>1 DEF QueueMoves, Waiting, EntryIsOld, EntryLimit
  <2>4. StaleStart' /\ RunTooEarly' /\ SearchedInTime'
    BY <2>1 DEF StaleStart, RunTooEarly, SearchedInTime, Searching
  <2>5. DueSoon'
    <3>1. ~ Idle(Planner)'
      BY <1>3, <2>1 DEF Idle
    <3> QED
      BY <1>3, <2>1, <3>1 DEF DueSoon, Searching
  <2> QED
    BY <2>1, <2>2, <2>3, <2>4, <2>5
<1> QED
  BY <1>2, <1>3

(* No step but its own ends a worker. *)
LEMMA Steps ==
  ASSUME IInv, [Next]_vars
  PROVE  /\ IInv'
         /\ \A w \in Workers : EndsRight(w) \/ todo[w] = {} \/ todo'[w] = todo[w]
<1>1. CASE Fire
  BY <1>1, FireStep
<1>2. CASE Appears
  BY <1>2, AppearsStep DEF Appears, cycle
<1>3. CASE Tick
  BY <1>3, TickStep DEF Tick
<1>4. ASSUME NEW r \in Runners, RunCycleCommand(r)
      PROVE  IInv' /\ \A w \in Workers : todo[w] = {} \/ todo'[w] = todo[w]
  <2>1. r # Planner /\ Idle(r) /\ Cycle(r) /\ timer' = timer /\ timer' \in 0..Interval
    BY <1>4 DEF RunCycleCommand, IInv, TypeOK
  <2>2. IInv'
    BY <2>1, CycleStep
  <2>3. ASSUME NEW w \in Workers, todo[w] # {} PROVE todo'[w] = todo[w]
    <3>1. w[1] # r
      BY <2>1, <2>3, Pair DEF Idle, Shape, IInv
    <3> QED
      BY <2>1, <3>1 DEF Cycle
  <2> QED
    BY <2>2, <2>3
<1>5. ASSUME NEW w \in Workers, Hit(w) \/ Returns(w) \/ Fails(w)
      PROVE  IInv' /\ \A v \in Workers : EndsRight(v) \/ todo'[v] = todo[v]
  <2>1. IInv' /\ EndsRight(w)
    BY <1>5, HitStep, ReturnsStep, FailsStep
  <2>2. \A v \in Workers : v # w => todo'[v] = todo[v]
    BY <2>1 DEF EndsRight, Ended, IInv, TypeOK
  <2> QED
    BY <2>1, <2>2
<1>6. ASSUME NEW w \in Workers, Miss(w)
      PROVE  IInv' /\ \A v \in Workers : todo'[v] = todo[v]
  BY <1>6, MissStep DEF Miss
<1>7. CASE UNCHANGED vars
  BY <1>7, Stutter DEF vars, cycle
<1> QED
  BY <1>1, <1>2, <1>3, <1>4, <1>5, <1>6, <1>7 DEF Next

LEMMA Invariant == Spec => []IInv
<1>1. Init => IInv
  BY Initially
<1>2. IInv /\ [Next]_vars => IInv'
  BY Steps
<1> QED
  BY <1>1, <1>2, PTL DEF Spec

(* The state keeps its types, the timer below the job's interval.           *)
THEOREM TypeCorrect == Spec => []TypeOK
<1>1. IInv => TypeOK
  BY DEF IInv
<1> QED
  BY <1>1, Invariant, PTL

(* For any number of alerts, searches, portals and run-cycle commands, with *)
(* a cache of any time-to-live: an alert's wait for a listing it satisfies  *)
(* is bounded by the time-to-live, its own frequency, the job's interval    *)
(* and two rounds of the portal's searches.                                 *)
THEOREM Detection == Spec => []DetectedInTime
<1>1. IInv => DetectedInTime
  <2> SUFFICES ASSUME IInv, NEW a \in Alerts
               PROVE  unseen[a] <= Bound(a)
    BY DEF DetectedInTime
  <2> USE Sizes DEF IInv
  <2>1. unseen[a] \in Nat
    BY DEF TypeOK
  <2>2. CASE unseen[a] + 2 <= Ttl + Frequency[a] + Longest + Interval
    BY <2>1, <2>2 DEF Bound
  <2>3. ASSUME NEW r \in Runners, Searching(r, a),
               unseen[a] + 2 <= Ttl + Frequency[a] + Longest + Interval + began[<<r, At>>]
        PROVE  unseen[a] <= Bound(a)
    <3>1. began[<<r, At>>] \in Nat /\ began[<<r, At>>] <= Longest
      BY <2>3, Worker, BeganBound DEF Searching, Shape
    <3> QED
      BY <2>1, <2>3, <3>1 DEF Bound
  <2> QED
    BY <2>2, <2>3 DEF SearchedInTime
<1> QED
  BY <1>1, Invariant, PTL

(* A run that starts a time-to-live after a listing appeared cannot end     *)
(* without it, whoever fills the cache while it waits for the semaphore.    *)
THEOREM Freshness == Spec => NoStaleRun
<1> DEFINE Right == \A w \in Workers : \A a \in todo[w] :
                      w[2] = At /\ todo'[w] = {} /\ unseen[a] >= Ttl + began[w] => unseen'[a] = 0
<1>1. IInv /\ [Next]_vars => [Right]_vars
  <2> SUFFICES ASSUME IInv, [Next]_vars, NEW w \in Workers, NEW a \in todo[w],
                      w[2] = At, todo'[w] = {}, unseen[a] >= Ttl + began[w]
               PROVE  unseen'[a] = 0
    OBVIOUS
  <2>1. EndsRight(w)
    BY Steps
  <2>2. unseen[a] \in Nat /\ began[w] \in Nat /\ Ttl \in Nat
    BY Sizes DEF IInv, TypeOK
  <2> QED
    BY <2>1, <2>2 DEF EndsRight
<1>2. [][Right]_vars => NoStaleRun
  BY DEF NoStaleRun
<1> QED
  BY <1>1, <1>2, Invariant, PTL DEF Spec
=============================================================================
