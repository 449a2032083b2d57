-------------------------- MODULE AlertRepository --------------------------
(***************************************************************************)
(* How one SearchAlert aggregate is loaded, changed and saved again by     *)
(* SqlAlchemyAlertRepository: by the workers of alert cycles (mark_run)    *)
(* and by UpdateAlert.  Every save rewrites the whole aggregate.  It       *)
(* merges: reads the alert's row and its condition rows, updates the       *)
(* columns that differ from what it read, deletes the condition rows it    *)
(* read and inserts its own under fresh ids.  Only the flush takes         *)
(* SQLite's write lock.                                                    *)
(*                                                                         *)
(* A session is one unit of work that saves the alert once.  A cycle       *)
(* session is one worker of a run; the workers of a process share the      *)
(* aggregate that list_due loaded and the process's alert_mutation_lock.   *)
(* An update session is one UpdateAlert call, a process of its own here.   *)
(***************************************************************************)
EXTENDS Naturals, FiniteSets

CONSTANTS
  Cycles, Updates,  \* the sessions
  Processes, ProcessOf,
  Names, Frequencies,
  Offered,          \* the frequencies the dashboard's slider offers
  Trees,            \* condition trees a person may choose
  NoOne             \* no session, no row

Sessions == Cycles \union Updates

ASSUME SessionsAssumption ==
  /\ Cycles \intersect Updates = {} /\ NoOne \notin Sessions
  /\ ProcessOf \in [Sessions -> Processes]
  /\ \A s, t \in Sessions : s \in Updates /\ ProcessOf[s] = ProcessOf[t] => s = t
ASSUME OfferedAssumption == Offered \subseteq Frequencies

Columns == [name : Names, frequency : Frequencies, active : BOOLEAN,
            lastRun : Cycles \union {NoOne}]
RootRows == (Sessions \union {NoOne}) \X Trees

ASSUME RowAssumption == NoOne \notin Columns

VARIABLES
  columns,  \* the search_alerts row
  roots,    \* its root condition rows <<inserting session, tree>>
  dbWriter, \* holder of SQLite's write lock
  pc,
  agg,      \* an open session's aggregate, and the root it was built from
  seen      \* the row and root rows its merge read

row == <<columns, roots>>
vars == <<row, dbWriter, pc, agg, seen>>

Aggregates == [columns : Columns, tree : Trees, root : RootRows]
Reads == [columns : Columns, roots : SUBSET RootRows]

Current == [columns |-> columns, roots |-> roots]
Of(p) == {s \in Sessions : ProcessOf[s] = p}

Init ==
  /\ columns = NoOne /\ roots = {}
  /\ agg = [s \in Sessions |-> NoOne]
  /\ seen = [s \in Sessions |-> NoOne]
  /\ dbWriter = NoOne
  /\ pc = [s \in Sessions |-> "idle"]

(* SearchAlert.create *)
Created(name, frequency) ==
  [name |-> name, frequency |-> frequency, active |-> TRUE, lastRun |-> NoOne]

(* CreateAlert: a transaction nobody else can disturb, the id being new *)
Create ==
  /\ columns = NoOne
  /\ dbWriter = NoOne
  /\ \E name \in Names, frequency \in Frequencies, tree \in Trees :
       /\ columns' = Created(name, frequency)
       /\ roots' = {<<NoOne, tree>>}
  /\ UNCHANGED <<dbWriter, pc, agg, seen>>

(* list_due (active alerts only) or get; _rebuild_tree wants one root *)
Load(p) ==
  /\ columns # NoOne
  /\ \A s \in Of(p) : pc[s] = "idle"
  /\ \E s \in Of(p) : s \in Updates \/ columns.active
  /\ IF Cardinality(roots) = 1
       THEN \E root \in roots :
              /\ agg' = [s \in Sessions |->
                           IF s \in Of(p) THEN [columns |-> columns, tree |-> root[2], root |-> root]
                           ELSE agg[s]]
              /\ seen' = [s \in Sessions |-> IF s \in Of(p) THEN Current ELSE seen[s]]
              /\ pc' = [s \in Sessions |-> IF s \in Of(p) THEN "loaded" ELSE pc[s]]
       ELSE /\ pc' = [s \in Sessions |-> IF s \in Of(p) THEN "failed" ELSE pc[s]]
            /\ UNCHANGED <<agg, seen>>
  /\ UNCHANGED <<row, dbWriter>>

(* The worker's earlier writes: listings, search execution, new matches *)
WriteEarlier(s) ==
  /\ s \in Cycles
  /\ pc[s] = "loaded"
  /\ dbWriter = NoOne
  /\ dbWriter' = s
  /\ UNCHANGED <<row, pc, agg, seen>>

Marked(a, run) == [a EXCEPT !.columns = [a.columns EXCEPT !.lastRun = run]]

(* mark_run and merge, under the process's alert_mutation_lock *)
MergeRun(s) ==
  /\ s \in Cycles
  /\ pc[s] = "loaded"
  /\ \A t \in Of(ProcessOf[s]) : pc[t] # "merged"
  /\ agg' = [agg EXCEPT ![s] = Marked(@, s)]
  /\ seen' = [seen EXCEPT ![s] = Current]
  /\ pc' = [pc EXCEPT ![s] = "merged"]
  /\ UNCHANGED <<row, dbWriter>>

(* What the dashboard's edit form submits, from a page rendered at any time *)
(* before: always a frequency, of those it offers, and is_active; a name or *)
(* conditions that stay are not sent (NoOne).                               *)
FormChanges == [name : Names \union {NoOne}, frequency : Offered, active : BOOLEAN,
                tree : Trees \union {NoOne}]

Sent(new, old) == IF new = NoOne THEN old ELSE new

(* rename, set_frequency, replace_conditions, activate or deactivate *)
Edited(a, change) ==
  [a EXCEPT !.columns = [name |-> Sent(change.name, a.columns.name),
                         frequency |-> change.frequency,
                         active |-> change.active,
                         lastRun |-> a.columns.lastRun],
            !.tree = Sent(change.tree, a.tree)]

(* UpdateAlert.run: the changes, then merge, which reads the row again      *)
(* unless the model that get loaded is still alive in the session           *)
MergeUpdate(s) ==
  /\ s \in Updates
  /\ pc[s] = "loaded"
  /\ \E change \in FormChanges : agg' = [agg EXCEPT ![s] = Edited(@, change)]
  /\ \E read \in {seen[s], Current} : seen' = [seen EXCEPT ![s] = read]
  /\ pc' = [pc EXCEPT ![s] = "merged"]
  /\ UNCHANGED <<row, dbWriter>>

(* The SELECT of the subscriptions flushes the merge *)
Flush(s) ==
  /\ pc[s] = "merged"
  /\ dbWriter \in {NoOne, s}
  /\ dbWriter' = s
  /\ pc' = [pc EXCEPT ![s] = "flushed"]
  /\ UNCHANGED <<row, agg, seen>>

(* Mutations: save inserts no new root; the new row's columns are swapped *)
ForgetsInsert(s) == roots \ seen[s].roots
SwapsColumns(s) == (roots \ seen[s].roots) \union {<<agg[s].tree, s>>}

RootsAfter(s) == (roots \ seen[s].roots) \union {<<s, agg[s].tree>>}

(* Mutation: the columns of the first read decide what is dirty *)
DirtySinceLoad(s) ==
  [c \in DOMAIN columns |-> IF agg[s].columns[c] = seen[s].columns[c] THEN agg[s].columns[c] ELSE columns[c]]

ColumnsAfter(s) ==
  [c \in DOMAIN columns |-> IF agg[s].columns[c] # seen[s].columns[c] THEN agg[s].columns[c] ELSE columns[c]]

(* Every unit of work ends in a closed session *)
Close(s) ==
  /\ agg' = [agg EXCEPT ![s] = NoOne]
  /\ seen' = [seen EXCEPT ![s] = NoOne]

Commit(s) ==
  /\ pc[s] = "flushed"
  /\ columns' = ColumnsAfter(s)
  /\ roots' = RootsAfter(s)
  /\ dbWriter' = NoOne
  /\ pc' = [pc EXCEPT ![s] = "done"]
  /\ Close(s)

(* "database is locked", or any later failure of the unit of work *)
RollBack(s) ==
  /\ pc[s] \in {"loaded", "merged", "flushed"}
  /\ dbWriter' = IF dbWriter = s THEN NoOne ELSE dbWriter
  /\ pc' = [pc EXCEPT ![s] = "failed"]
  /\ Close(s)
  /\ UNCHANGED row

Next ==
  \/ Create
  \/ \E p \in Processes : Load(p)
  \/ \E s \in Sessions : \/ WriteEarlier(s) \/ MergeRun(s) \/ MergeUpdate(s)
                         \/ Flush(s) \/ Commit(s) \/ RollBack(s)

Spec == Init /\ [][Next]_vars

-----------------------------------------------------------------------------
(* Every variable keeps its type; the row and its conditions come together. *)
TypeOK ==
  /\ columns \in Columns \union {NoOne}
  /\ roots \subseteq RootRows
  /\ dbWriter \in Sessions \union {NoOne}
  /\ pc \in [Sessions -> {"idle", "loaded", "merged", "flushed", "done", "failed"}]
  /\ agg \in [Sessions -> Aggregates \union {NoOne}]
  /\ seen \in [Sessions -> Reads \union {NoOne}]

(* However saves interleave, an alert is never left without a condition     *)
(* tree: every save that deletes roots inserts one (alert_repository.add).  *)
RootPresent == columns # NoOne => roots # {}

(* A save with nobody's save between its load and its commit, whatever      *)
(* races came before, leaves the alert exactly as the session has it in     *)
(* memory: every column its own, and one root, whose tree is its own.       *)
UndisturbedSaveIsExact ==
  [][\A s \in Sessions :
       pc[s] = "flushed" /\ pc'[s] = "done" /\ roots = {agg[s].root}
         => columns' = agg[s].columns /\ roots' = {<<s, agg[s].tree>>}]_vars

(* "confirmed harmless (no orphaned/duplicated rows survive)" (orm.py) and  *)
(* "not duplicate/orphan its condition rows" (test_repositories.py): an     *)
(* alert always has one root, which _rebuild_tree insists on.               *)
SingleRoot == Cardinality(roots) <= 1

(* "RunAlertCycle calling alert.mark_run() and persisting the updated       *)
(* last_run_at" (alert_repository.py): a cycle changes nothing else of an   *)
(* alert, so what a person edits meanwhile stays.                           *)
CycleOnlyMarksRun ==
  [][\A s \in Cycles :
       pc[s] = "flushed" /\ pc'[s] = "done" => columns' = [columns EXCEPT !.lastRun = s]]_vars

-----------------------------------------------------------------------------
(* The inductive strengthening *)

(* A root row was inserted by the creation or by a session that is done, so *)
(* a root that was replaced never comes back.                               *)
RootsOfDone == \A r \in roots : r[1] = NoOne \/ pc[r[1]] = "done"

At(s) == pc[s] \in {"loaded", "merged", "flushed"}
OldRoots ==
  \A s \in Sessions :
    At(s) => /\ columns # NoOne
             /\ agg[s] \in Aggregates /\ seen[s] \in Reads
             /\ agg[s].root[1] = NoOne \/ pc[agg[s].root[1]] = "done"

(* While the root that was loaded is there, so are the columns that were.   *)
NothingMissed ==
  \A s \in Sessions :
    At(s) /\ roots = {agg[s].root} =>
      /\ seen[s] = Current
      /\ pc[s] = "loaded" => agg[s].columns = columns

IInv == TypeOK /\ RootPresent /\ RootsOfDone /\ OldRoots /\ NothingMissed
=============================================================================
