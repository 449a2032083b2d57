---------------------- MODULE AlertRepository_proofs ----------------------
(* Proofs about AlertRepository, for any sessions, processes, names,       *)
(* frequencies and condition trees.                                        *)
EXTENDS AlertRepository, TLAPS

PCs == {"idle", "loaded", "merged", "flushed", "done", "failed"}

LEMMA CurrentType ==
  ASSUME TypeOK, columns # NoOne
  PROVE  Current \in Reads
  BY DEF TypeOK, Current, Reads

LEMMA InitInv == Init => IInv
  BY RowAssumption
  DEF Init, IInv, TypeOK, RootPresent, RootsOfDone, OldRoots, NothingMissed, At

(* What the commit of a session whose reads are typed leaves is typed.      *)
LEMMA SavedType ==
  ASSUME TypeOK, NEW s \in Sessions, columns # NoOne,
         agg[s] \in Aggregates, seen[s] \in Reads
  PROVE  ColumnsAfter(s) \in Columns /\ RootsAfter(s) \subseteq RootRows
<1>1. columns \in Columns /\ agg[s].columns \in Columns /\ agg[s].tree \in Trees
  BY DEF TypeOK, Aggregates
<1>2. DOMAIN columns = {"name", "frequency", "active", "lastRun"}
  BY <1>1 DEF Columns
<1>3. ColumnsAfter(s) \in Columns
  BY <1>1, <1>2 DEF ColumnsAfter, Columns
<1>4. <<s, agg[s].tree>> \in RootRows
  BY <1>1 DEF RootRows
<1> QED
  BY <1>3, <1>4 DEF RootsAfter, TypeOK

LEMMA CreateStep ==
  ASSUME IInv, Create
  PROVE  IInv'
<1>1. PICK name \in Names, frequency \in Frequencies, tree \in Trees :
        /\ columns' = Created(name, frequency)
        /\ roots' = {<<NoOne, tree>>}
  BY DEF Create
<1>2. columns' \in Columns /\ <<NoOne, tree>> \in RootRows
  BY <1>1 DEF Created, Columns, RootRows
<1>3. \A s \in Sessions : ~At(s)
  BY DEF Create, IInv, OldRoots
<1> QED
  BY <1>1, <1>2, <1>3
  DEF Create, IInv, TypeOK, RootPresent, RootsOfDone, OldRoots, NothingMissed, At

LEMMA LoadStep ==
  ASSUME IInv, NEW p \in Processes, Load(p)
  PROVE  IInv'
<1>1. /\ TypeOK /\ columns \in Columns /\ columns' = columns /\ roots' = roots
      /\ dbWriter' = dbWriter
  BY DEF IInv, Load, TypeOK, row
<1>2. CASE Cardinality(roots) = 1
  <2>1. PICK root \in roots :
          /\ agg' = [s \in Sessions |->
                       IF s \in Of(p) THEN [columns |-> columns, tree |-> root[2], root |-> root]
                       ELSE agg[s]]
          /\ seen' = [s \in Sessions |-> IF s \in Of(p) THEN Current ELSE seen[s]]
          /\ pc' = [s \in Sessions |-> IF s \in Of(p) THEN "loaded" ELSE pc[s]]
    BY <1>2 DEF Load
  <2> DEFINE loaded == [columns |-> columns, tree |-> root[2], root |-> root]
  <2>2. root \in RootRows /\ root[2] \in Trees
    BY <1>1, <2>1 DEF TypeOK, RootRows
  <2>3. loaded \in Aggregates
    BY <1>1, <2>2 DEF Aggregates
  <2>4. Current \in Reads /\ Current' = Current
    BY <1>1, CurrentType DEF Current, Load
  <2>5. \A s \in Sessions :
          /\ agg'[s] = IF s \in Of(p) THEN loaded ELSE agg[s]
          /\ seen'[s] = IF s \in Of(p) THEN Current ELSE seen[s]
          /\ pc'[s] = IF s \in Of(p) THEN "loaded" ELSE pc[s]
    BY <2>1
  <2>6. loaded.columns = columns /\ loaded.root = root
    OBVIOUS
  <2> HIDE DEF loaded
  <2>7. TypeOK'
    BY <1>1, <2>1, <2>3, <2>4, <2>5 DEF TypeOK
  <2>8. \A s \in Sessions : pc[s] = "done" => pc'[s] = "done"
    BY <2>5 DEF Load, Of
  <2>9. root[1] = NoOne \/ pc[root[1]] = "done"
    BY <2>1 DEF IInv, RootsOfDone
  <2>10. root[1] \in Sessions \union {NoOne}
    BY <2>2 DEF RootRows
  <2>11. RootPresent' /\ RootsOfDone'
    <3>1. \A r \in roots : r[1] \in Sessions \union {NoOne}
      BY <1>1 DEF TypeOK, RootRows
    <3> QED
      BY <1>1, <2>8, <3>1 DEF IInv, RootPresent, RootsOfDone
  <2>12. ASSUME NEW s \in Sessions, At(s)'
         PROVE  /\ columns' # NoOne
                /\ agg'[s] \in Aggregates /\ seen'[s] \in Reads
                /\ agg'[s].root[1] = NoOne \/ pc'[agg'[s].root[1]] = "done"
                /\ roots' = {agg'[s].root} =>
                     seen'[s] = Current /\ (pc'[s] = "loaded" => agg'[s].columns = columns)
    <3>1. CASE s \in Of(p)
      BY <1>1, <2>3, <2>4, <2>5, <2>6, <2>8, <2>9, <2>10, <3>1, RowAssumption
    <3>2. CASE s \notin Of(p)
      <4>1. At(s) /\ agg'[s] = agg[s] /\ seen'[s] = seen[s] /\ pc'[s] = pc[s]
        BY <2>5, <2>12, <3>2 DEF At
      <4>2. agg[s].root[1] \in Sessions \union {NoOne}
        BY <4>1 DEF IInv, OldRoots, Aggregates, RootRows
      <4> QED
        BY <1>1, <2>8, <4>1, <4>2 DEF IInv, OldRoots, NothingMissed
    <3> QED
      BY <3>1, <3>2
  <2> QED
    BY <1>1, <2>4, <2>7, <2>11, <2>12 DEF IInv, OldRoots, NothingMissed
<1>3. CASE Cardinality(roots) # 1
  <2>1. /\ pc' = [s \in Sessions |-> IF s \in Of(p) THEN "failed" ELSE pc[s]]
        /\ agg' = agg /\ seen' = seen
    BY <1>3 DEF Load
  <2>2. \A s \in Sessions : /\ At(s)' => At(s) /\ pc'[s] = pc[s]
                            /\ pc[s] = "done" => pc'[s] = "done"
    BY <2>1 DEF At, Load, Of
  <2>3. TypeOK'
    BY <1>1, <2>1 DEF TypeOK
  <2>4. \A r \in roots : r[1] \in Sessions \union {NoOne}
    BY <1>1 DEF TypeOK, RootRows
  <2>5. \A s \in Sessions : At(s) => agg[s].root[1] \in Sessions \union {NoOne}
    BY DEF IInv, OldRoots, Aggregates, RootRows
  <2>6. Current' = Current
    BY <1>1 DEF Current
  <2>7. RootPresent' /\ RootsOfDone'
    BY <1>1, <2>2, <2>4 DEF IInv, RootPresent, RootsOfDone
  <2>8. OldRoots'
    BY <1>1, <2>1, <2>2, <2>5 DEF IInv, OldRoots
  <2>9. NothingMissed'
    BY <1>1, <2>1, <2>2, <2>6 DEF IInv, NothingMissed
  <2> QED
    BY <2>3, <2>7, <2>8, <2>9 DEF IInv
<1> QED
  BY <1>2, <1>3

(* A step of one session that leaves the row alone, finishes nobody, and   *)
(* keeps the root its aggregate was built from.                            *)
LEMMA SessionStep ==
  ASSUME IInv, NEW s \in Sessions, TypeOK', UNCHANGED row,
         \A t \in Sessions : t # s => agg'[t] = agg[t] /\ seen'[t] = seen[t] /\ pc'[t] = pc[t],
         pc[s] # "done",
         At(s)' => /\ At(s)
                   /\ agg'[s] \in Aggregates /\ agg'[s].root = agg[s].root
                   /\ seen'[s] \in {seen[s], Current}
                   /\ pc'[s] = "loaded" => pc[s] = "loaded" /\ agg'[s].columns = agg[s].columns
  PROVE  IInv'
<1>1. TypeOK /\ columns' = columns /\ roots' = roots /\ Current' = Current
  BY DEF IInv, row, Current
<1>2. \A t \in Sessions : pc[t] = "done" => pc'[t] = "done"
  OBVIOUS
<1>3. \A r \in roots : r[1] \in Sessions \union {NoOne}
  BY <1>1 DEF TypeOK, RootRows
<1>4. RootPresent' /\ RootsOfDone'
  BY <1>1, <1>2, <1>3 DEF IInv, RootPresent, RootsOfDone
<1>5. ASSUME NEW t \in Sessions, At(t)'
      PROVE  /\ columns # NoOne
             /\ agg'[t] \in Aggregates /\ seen'[t] \in Reads
             /\ agg'[t].root[1] = NoOne \/ pc'[agg'[t].root[1]] = "done"
             /\ roots = {agg'[t].root} =>
                  seen'[t] = Current /\ (pc'[t] = "loaded" => agg'[t].columns = columns)
  <2>1. At(t) /\ agg'[t] \in Aggregates /\ agg'[t].root = agg[t].root
    BY <1>5 DEF At, IInv, OldRoots
  <2>2. columns # NoOne /\ seen[t] \in Reads /\ (agg[t].root[1] = NoOne \/ pc[agg[t].root[1]] = "done")
    BY <2>1 DEF IInv, OldRoots
  <2>3. Current \in Reads
    BY <1>1, <2>2, CurrentType
  <2>4. agg[t].root[1] \in Sessions \union {NoOne}
    BY <2>1 DEF IInv, OldRoots, Aggregates, RootRows
  <2>5. seen'[t] \in {seen[t], Current}
    BY <1>5
  <2>6. pc'[t] = "loaded" => pc[t] = "loaded" /\ agg'[t].columns = agg[t].columns
    BY <1>5
  <2>7. roots = {agg[t].root} => seen[t] = Current /\ (pc[t] = "loaded" => agg[t].columns = columns)
    BY <2>1 DEF IInv, NothingMissed
  <2> QED
    BY <1>2, <2>1, <2>2, <2>3, <2>4, <2>5, <2>6, <2>7
<1> QED
  BY <1>1, <1>4, <1>5 DEF IInv, OldRoots, NothingMissed

LEMMA CommitStep ==
  ASSUME IInv, NEW s \in Sessions, Commit(s)
  PROVE  IInv'
<1>1. /\ TypeOK /\ At(s) /\ columns # NoOne
      /\ agg[s] \in Aggregates /\ seen[s] \in Reads
  BY DEF Commit, IInv, OldRoots, At
<1>2. columns' \in Columns /\ roots' \subseteq RootRows
  BY <1>1, SavedType DEF Commit
<1>3. TypeOK'
  BY <1>1, <1>2 DEF Commit, Close, TypeOK
<1>4. \A t \in Sessions : /\ pc'[t] = IF t = s THEN "done" ELSE pc[t]
                          /\ agg'[t] = IF t = s THEN NoOne ELSE agg[t]
                          /\ seen'[t] = IF t = s THEN NoOne ELSE seen[t]
  BY <1>1 DEF Commit, Close, TypeOK
<1>5. roots' = (roots \ seen[s].roots) \union {<<s, agg[s].tree>>}
  BY DEF Commit, RootsAfter
<1>6. RootPresent'
  BY <1>5 DEF RootPresent
<1>7. RootsOfDone'
  <2>1. \A r \in roots : r[1] \in Sessions \union {NoOne}
    BY <1>1 DEF TypeOK, RootRows
  <2> QED
    BY <1>4, <1>5, <2>1 DEF IInv, RootsOfDone
<1>8. ASSUME NEW t \in Sessions, At(t)'
      PROVE  /\ t # s /\ At(t)
             /\ agg'[t] = agg[t] /\ seen'[t] = seen[t]
             /\ agg'[t] \in Aggregates /\ seen'[t] \in Reads
             /\ agg[t].root[1] = NoOne \/ (agg[t].root[1] # s /\ pc'[agg[t].root[1]] = "done")
  <2>1. t # s /\ At(t) /\ agg'[t] = agg[t] /\ seen'[t] = seen[t]
    BY <1>4, <1>8 DEF At
  <2>2. agg[t] \in Aggregates /\ seen[t] \in Reads /\ (agg[t].root[1] = NoOne \/ pc[agg[t].root[1]] = "done")
    BY <2>1 DEF IInv, OldRoots
  <2>3. agg[t].root[1] \in Sessions \union {NoOne}
    BY <2>2 DEF Aggregates, RootRows
  <2>4. pc[s] = "flushed"
    BY DEF Commit
  <2> QED
    BY <1>4, <2>1, <2>2, <2>3, <2>4
<1>9. OldRoots'
  BY <1>2, <1>8, RowAssumption DEF OldRoots
<1>10. NothingMissed'
  <2> SUFFICES ASSUME NEW t \in Sessions, At(t)', roots' = {agg'[t].root}
               PROVE  FALSE
    BY DEF NothingMissed
  <2>0. agg'[t] = agg[t]
    BY <1>8
  <2>1. agg[t].root = <<s, agg[s].tree>>
    <3>1. <<s, agg[s].tree>> \in {agg'[t].root}
      BY <1>5
    <3> QED
      BY <2>0, <3>1
  <2>2. agg[t].root[1] = s
    BY <2>1
  <2> QED
    BY <1>8, <2>2, SessionsAssumption
<1> QED
  BY <1>3, <1>6, <1>7, <1>9, <1>10 DEF IInv

LEMMA Inductive == IInv /\ [Next]_vars => IInv'
<1> SUFFICES ASSUME IInv, [Next]_vars PROVE IInv'
  OBVIOUS
<1>0. TypeOK
  BY DEF IInv
<1>1. ASSUME NEW s \in Sessions, WriteEarlier(s) PROVE IInv'
  BY <1>0, <1>1 DEF WriteEarlier, IInv, TypeOK, RootPresent, RootsOfDone, OldRoots, NothingMissed, At, Current, row
<1>2. ASSUME NEW s \in Sessions, MergeRun(s) PROVE IInv'
  <2>1. /\ agg[s] \in Aggregates /\ columns # NoOne /\ s \in Cycles
        /\ pc' = [pc EXCEPT ![s] = "merged"] /\ seen' = [seen EXCEPT ![s] = Current]
        /\ agg' = [agg EXCEPT ![s] = Marked(agg[s], s)]
        /\ At(s) /\ pc[s] = "loaded" /\ UNCHANGED row /\ dbWriter' = dbWriter
    BY <1>0, <1>2 DEF MergeRun, IInv, OldRoots, At, TypeOK
  <2>2. Marked(agg[s], s) \in Aggregates /\ Marked(agg[s], s).root = agg[s].root
    BY <2>1 DEF Marked, Aggregates, Columns
  <2>3. agg'[s] \in Aggregates /\ agg'[s].root = agg[s].root
    BY <1>0, <2>1, <2>2 DEF TypeOK
  <2>4. Current \in Reads
    BY <1>0, <2>1, CurrentType
  <2>5. TypeOK'
    BY <1>0, <2>1, <2>3, <2>4 DEF TypeOK, row
  <2>6. pc'[s] = "merged" /\ seen'[s] = Current
    BY <1>0, <2>1 DEF TypeOK
  <2>7. \A t \in Sessions : t # s => agg'[t] = agg[t] /\ seen'[t] = seen[t] /\ pc'[t] = pc[t]
    BY <1>0, <2>1 DEF TypeOK
  <2> QED
    BY <2>1, <2>3, <2>5, <2>6, <2>7, SessionStep
<1>3. ASSUME NEW s \in Sessions, MergeUpdate(s) PROVE IInv'
  <2>1. PICK change \in FormChanges : agg' = [agg EXCEPT ![s] = Edited(agg[s], change)]
    BY <1>3 DEF MergeUpdate
  <2>2. PICK read \in {seen[s], Current} : seen' = [seen EXCEPT ![s] = read]
    BY <1>3 DEF MergeUpdate
  <2>3. /\ agg[s] \in Aggregates /\ seen[s] \in Reads /\ columns # NoOne
        /\ pc' = [pc EXCEPT ![s] = "merged"]
        /\ At(s) /\ pc[s] = "loaded" /\ UNCHANGED row /\ dbWriter' = dbWriter
    BY <1>0, <1>3 DEF MergeUpdate, IInv, OldRoots, At, TypeOK
  <2>4. Edited(agg[s], change) \in Aggregates /\ Edited(agg[s], change).root = agg[s].root
    <3> DEFINE edited == [name |-> Sent(change.name, agg[s].columns.name),
                          frequency |-> change.frequency, active |-> change.active,
                          lastRun |-> agg[s].columns.lastRun]
    <3>1. /\ agg[s].columns \in Columns /\ agg[s].tree \in Trees
          /\ change.frequency \in Frequencies /\ change.active \in BOOLEAN
      BY <2>3, OfferedAssumption DEF Aggregates, FormChanges
    <3>2. Sent(change.name, agg[s].columns.name) \in Names
      BY <3>1 DEF FormChanges, Columns, Sent
    <3>3. Sent(change.tree, agg[s].tree) \in Trees
      BY <3>1 DEF FormChanges, Sent
    <3>4. edited \in Columns
      BY <3>1, <3>2 DEF Columns
    <3>5. Edited(agg[s], change)
            = [agg[s] EXCEPT !.columns = edited, !.tree = Sent(change.tree, agg[s].tree)]
      BY Zenon DEF Edited
    <3> HIDE DEF edited
    <3> QED
      BY <2>3, <3>3, <3>4, <3>5 DEF Aggregates
  <2>5. agg'[s] \in Aggregates /\ agg'[s].root = agg[s].root
    BY <1>0, <2>1, <2>4 DEF TypeOK
  <2>6. read \in Reads
    BY <1>0, <2>3, CurrentType
  <2>7. TypeOK'
    BY <1>0, <2>1, <2>2, <2>3, <2>5, <2>6 DEF TypeOK, row
  <2>8. pc'[s] = "merged" /\ seen'[s] = read
    BY <1>0, <2>2, <2>3 DEF TypeOK
  <2>9. \A t \in Sessions : t # s => agg'[t] = agg[t] /\ seen'[t] = seen[t] /\ pc'[t] = pc[t]
    BY <1>0, <2>1, <2>2, <2>3 DEF TypeOK
  <2> QED
    BY <2>2, <2>3, <2>5, <2>7, <2>8, <2>9, SessionStep
<1>4. ASSUME NEW s \in Sessions, Flush(s) PROVE IInv'
  <2>1. /\ TypeOK' /\ UNCHANGED row /\ At(s) /\ pc[s] = "merged" /\ pc'[s] = "flushed"
        /\ agg' = agg /\ seen' = seen
        /\ \A t \in Sessions : t # s => pc'[t] = pc[t]
    BY <1>0, <1>4 DEF Flush, TypeOK, row, At
  <2>2. agg[s] \in Aggregates
    BY <2>1 DEF IInv, OldRoots
  <2> QED
    BY <2>1, <2>2, SessionStep
<1>5. ASSUME NEW s \in Sessions, RollBack(s) PROVE IInv'
  <2>1. /\ UNCHANGED row /\ pc[s] # "done" /\ pc'[s] = "failed"
        /\ \A t \in Sessions : t # s => agg'[t] = agg[t] /\ seen'[t] = seen[t] /\ pc'[t] = pc[t]
    BY <1>0, <1>5 DEF RollBack, Close, TypeOK
  <2>2. TypeOK'
    BY <1>0, <1>5 DEF RollBack, Close, TypeOK, row
  <2>3. ~At(s)'
    BY <2>1 DEF At
  <2> QED
    BY <2>1, <2>2, <2>3, SessionStep
<1>6. CASE UNCHANGED vars
  BY <1>0, <1>6 DEF vars, row, IInv, TypeOK, RootPresent, RootsOfDone, OldRoots, NothingMissed, At, Current
<1> QED
  BY <1>1, <1>2, <1>3, <1>4, <1>5, <1>6, CreateStep, LoadStep, CommitStep DEF Next

LEMMA Invariance == Spec => []IInv
  BY InitInv, Inductive, PTL DEF Spec

(* Every variable keeps its type. *)
THEOREM TypeCorrect == Spec => []TypeOK
<1>1. IInv => TypeOK
  BY DEF IInv
<1> QED
  BY <1>1, Invariance, PTL

(* An alert always has a condition tree, however its saves interleave. *)
THEOREM AlwaysATree == Spec => []RootPresent
<1>1. IInv => RootPresent
  BY DEF IInv
<1> QED
  BY <1>1, Invariance, PTL

(* A session that ends its transaction commits. *)
LEMMA DoneCommits ==
  ASSUME IInv, [Next]_vars, NEW s \in Sessions, pc[s] = "flushed", pc'[s] = "done"
  PROVE  Commit(s)
<1>1. ASSUME NEW p \in Processes PROVE ~Load(p)
  BY <1>1 DEF Load, IInv, TypeOK
<1>2. ASSUME NEW t \in Sessions, Flush(t) \/ WriteEarlier(t) \/ MergeRun(t) \/ MergeUpdate(t) \/ RollBack(t)
      PROVE  FALSE
  BY <1>2 DEF Flush, WriteEarlier, MergeRun, MergeUpdate, RollBack, IInv, TypeOK
<1>3. ASSUME NEW t \in Sessions, Commit(t) PROVE t = s
  BY <1>3 DEF Commit, IInv, TypeOK
<1>4. ~Create
  BY DEF Create
<1> QED
  BY <1>1, <1>2, <1>3, <1>4 DEF Next, vars

(* A save that nobody's save disturbed writes every column of its aggregate *)
(* and leaves exactly its own root: the races of others are repaired by it. *)
THEOREM UndisturbedSaves == Spec => UndisturbedSaveIsExact
<1>1. IInv /\ [Next]_vars =>
        \A s \in Sessions :
          pc[s] = "flushed" /\ pc'[s] = "done" /\ roots = {agg[s].root}
            => columns' = agg[s].columns /\ roots' = {<<s, agg[s].tree>>}
  <2> SUFFICES ASSUME IInv, [Next]_vars, NEW s \in Sessions,
                      pc[s] = "flushed", pc'[s] = "done", roots = {agg[s].root}
               PROVE  columns' = agg[s].columns /\ roots' = {<<s, agg[s].tree>>}
    OBVIOUS
  <2>1. /\ columns' = ColumnsAfter(s) /\ roots' = RootsAfter(s)
    BY DoneCommits DEF Commit
  <2>2. seen[s].columns = columns /\ seen[s].roots = roots
    BY DEF IInv, NothingMissed, At, Current
  <2>3. columns \in Columns /\ agg[s].columns \in Columns
    BY DEF IInv, TypeOK, OldRoots, At, Aggregates
  <2>4. /\ DOMAIN columns = {"name", "frequency", "active", "lastRun"}
        /\ columns = [name |-> columns.name, frequency |-> columns.frequency,
                      active |-> columns.active, lastRun |-> columns.lastRun]
        /\ agg[s].columns = [name |-> agg[s].columns.name, frequency |-> agg[s].columns.frequency,
                             active |-> agg[s].columns.active, lastRun |-> agg[s].columns.lastRun]
    BY <2>3 DEF Columns
  <2>5. ColumnsAfter(s) = [c \in DOMAIN columns |-> agg[s].columns[c]]
    BY <2>2 DEF ColumnsAfter
  <2>6. [c \in DOMAIN columns |-> agg[s].columns[c]] = agg[s].columns
    BY <2>3, <2>4 DEF Columns
  <2> QED
    BY <2>1, <2>2, <2>5, <2>6 DEF RootsAfter
<1> QED
  BY <1>1, Invariance, PTL DEF Spec, UndisturbedSaveIsExact
=============================================================================
