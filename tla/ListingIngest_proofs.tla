------------------------ MODULE ListingIngest_proofs ------------------------
(* Proofs about ListingIngest, for any sessions, processes, query labels,   *)
(* listings, prices and number of price changes.                            *)
EXTENDS ListingIngest, SequenceTheorems, TLAPS

-----------------------------------------------------------------------------
LEMMA ViewType ==
  ASSUME TypeOK, NEW s
  PROVE  View(s) \in Tables
  BY DEF TypeOK, View

LEMMA ViewInSeries ==
  ASSUME IInv, NEW s
  PROVE  InSeries(View(s))
  BY DEF IInv, View

(* A look-up's session keeps the tables it sees while others only read. *)
LEMMA ViewStays ==
  ASSUME NEW s, db' = db, mine' = mine, dbWriter' = dbWriter
  PROVE  View(s)' = View(s)
  BY DEF View

LEMMA DirtyColumnsType ==
  ASSUME NEW new \in Payloads, NEW old \in Payloads \union {Nothing},
         NEW read \in Payloads \union {Nothing}, NEW row \in Payloads \union {Nothing},
         read # Nothing => row # Nothing, old = Nothing \/ read = old
  PROVE  /\ DirtyColumns(row, read, new) \in Payloads
         /\ PriceChanged(old, new) => new.price \in Prices
         /\ \/ DirtyColumns(row, read, new).price = new.price
               /\ (PriceChanged(old, new) \/ new.price = NoPrice)
            \/ read # Nothing /\ DirtyColumns(row, read, new).price = row.price
<1> USE DEF Payloads, DirtyColumns, PriceChanged
<1>1. CASE read = Nothing
  BY <1>1
<1>2. CASE read # Nothing
  BY <1>2
<1> QED
  BY <1>1, <1>2

(* When merge compares with the row that price_changed was decided by, a    *)
(* price is written if and only if it is recorded.                          *)
LEMMA DirtyWithOneRead ==
  ASSUME NEW new \in Payloads, NEW old \in Payloads \union {Nothing},
         NEW row \in Payloads \union {Nothing}, old # Nothing => row # Nothing
  PROVE  /\ PriceChanged(old, new) => DirtyColumns(row, old, new).price = new.price
         /\ ~PriceChanged(old, new) /\ DirtyColumns(row, old, new).price # NoPrice
              => old # Nothing /\ DirtyColumns(row, old, new).price = row.price
<1> USE DEF Payloads, DirtyColumns, PriceChanged
<1>1. CASE old = Nothing
  BY <1>1
<1>2. CASE old # Nothing
  BY <1>2
<1> QED
  BY <1>1, <1>2

(* What storing one listing does to the tables, whatever was read of it: a  *)
(* store whose two reads agree leaves a series that ended at the price of   *)
(* its property ending at it, and never touches another listing's.          *)
LEMMA StoredTables ==
  ASSUME NEW tables \in Tables, NEW l \in Listings,
         NEW old \in Payloads \union {Nothing}, NEW read \in Payloads \union {Nothing},
         NEW new \in Payloads,
         read # Nothing => tables.prop[l] # Nothing, old = Nothing \/ read = old
  PROVE  /\ Stored(tables, l, old, read, new) \in Tables
         /\ InSeries(tables) => InSeries(Stored(tables, l, old, read, new))
         /\ \A k \in Listings :
              tables.prop[k] # Nothing => Stored(tables, l, old, read, new).prop[k] # Nothing
         /\ \A k \in Listings :
              EndsAtPrice(tables, k) /\ (k = l => read = old)
                => EndsAtPrice(Stored(tables, l, old, read, new), k)
<1> DEFINE after == Stored(tables, l, old, read, new)
           row == tables.prop[l]
           cols == DirtyColumns(row, read, new)
           hist == IF PriceChanged(old, new)
                     THEN [tables.hist EXCEPT ![l] = Append(tables.hist[l], new.price)]
                     ELSE tables.hist
<1> USE PricesAssumption
<1>1. /\ tables.prop \in [Listings -> Payloads \union {Nothing}]
      /\ tables.hash \in [Listings -> Payloads \union {Nothing}]
      /\ tables.hist \in [Listings -> Seq(Prices)]
      /\ row \in Payloads \union {Nothing}
  BY DEF Tables
<1>2. /\ cols \in Payloads
      /\ PriceChanged(old, new) => new.price \in Prices
      /\ \/ cols.price = new.price /\ (PriceChanged(old, new) \/ new.price = NoPrice)
         \/ read # Nothing /\ cols.price = row.price
  <2>1. row \in Payloads \union {Nothing}
    BY <1>1
  <2> QED
    BY <2>1, DirtyColumnsType
<1>3. after = [prop |-> [tables.prop EXCEPT ![l] = cols],
               hash |-> [tables.hash EXCEPT ![l] = new], hist |-> hist]
  BY DEF Stored
<1>4. hist \in [Listings -> Seq(Prices)]
  <2>1. CASE PriceChanged(old, new)
    <3>1. Append(tables.hist[l], new.price) \in Seq(Prices)
      BY <1>1, <1>2, <2>1
    <3> QED
      BY <1>1, <2>1, <3>1
  <2>2. CASE ~PriceChanged(old, new)
    BY <1>1, <2>2
  <2> QED
    BY <2>1, <2>2
<1>5. /\ \A k \in Listings : k # l => hist[k] = tables.hist[k]
      /\ PriceChanged(old, new) => hist[l] = Append(tables.hist[l], new.price)
      /\ ~PriceChanged(old, new) => hist[l] = tables.hist[l]
  BY <1>1
<1>6. ASSUME read = old
      PROVE  /\ PriceChanged(old, new) => cols.price = new.price
             /\ ~PriceChanged(old, new) /\ cols.price # NoPrice
                  => old # Nothing /\ cols.price = row.price
  BY <1>1, <1>6, DirtyWithOneRead
<1> HIDE DEF after, cols, hist
<1>7. after \in Tables
  BY <1>1, <1>2, <1>3, <1>4 DEF Tables
<1>8. /\ after.hist = hist /\ after.prop[l] = cols
      /\ \A k \in Listings : k # l => after.prop[k] = tables.prop[k]
  BY <1>1, <1>3
<1>9. /\ \A k \in Listings : k # l => after.hist[k] = tables.hist[k]
      /\ PriceChanged(old, new) =>
           /\ Len(after.hist[l]) = Len(tables.hist[l]) + 1
           /\ Len(tables.hist[l]) \in Nat
           /\ after.hist[l][Len(tables.hist[l]) + 1] = new.price
           /\ after.hist[l] # <<>>
           /\ \A i \in 1..Len(tables.hist[l]) : after.hist[l][i] = tables.hist[l][i]
      /\ ~PriceChanged(old, new) => after.hist[l] = tables.hist[l]
  <2>1. tables.hist[l] \in Seq(Prices)
    BY <1>1
  <2>2. CASE PriceChanged(old, new)
    <3>1. new.price \in Prices /\ after.hist[l] = Append(tables.hist[l], new.price)
      BY <2>2, <1>2, <1>5, <1>8
    <3>2. after.hist[l] # <<>>
      BY <2>1, <3>1
    <3> QED
      BY <2>1, <2>2, <3>1, <3>2, <1>5, <1>8
  <2> QED
    BY <2>2, <1>5, <1>8
<1>10. ASSUME InSeries(tables), NEW k \in Listings, HasPrice(after, k)
      PROVE  \E i \in 1..Len(after.hist[k]) : after.hist[k][i] = after.prop[k].price
  <2>1. CASE k # l
    BY <2>1, <1>8, <1>9, <1>10 DEF InSeries, HasPrice
  <2>2. CASE k = l /\ cols.price = new.price /\ PriceChanged(old, new)
    BY <2>2, <1>8, <1>9
  <2>3. CASE k = l /\ read # Nothing /\ cols.price = row.price
    <3>1. after.prop[k] = cols /\ row # Nothing /\ row.price # NoPrice
      BY <2>3, <1>8, <1>10 DEF HasPrice
    <3>2. PICK i \in 1..Len(tables.hist[l]) : tables.hist[l][i] = row.price
      BY <3>1, <1>10 DEF InSeries, HasPrice
    <3>3. i \in 1..Len(after.hist[l]) /\ after.hist[l][i] = tables.hist[l][i]
      BY <3>2, <1>9
    <3> QED
      BY <2>3, <3>1, <3>2, <3>3
  <2>4. k = l => cols.price # NoPrice
    BY <1>8, <1>10 DEF HasPrice
  <2> QED
    BY <2>1, <2>2, <2>3, <2>4, <1>2
<1>11. ASSUME NEW k \in Listings, EndsAtPrice(tables, k), k = l => read = old, HasPrice(after, k)
       PROVE  after.hist[k] # <<>> /\ after.hist[k][Len(after.hist[k])] = after.prop[k].price
  <2>1. CASE k # l
    BY <2>1, <1>8, <1>9, <1>11 DEF EndsAtPrice, HasPrice
  <2>2. CASE k = l /\ PriceChanged(old, new)
    BY <2>2, <1>6, <1>8, <1>9, <1>11
  <2>3. CASE k = l /\ ~PriceChanged(old, new)
    <3>1. after.hist[k] = tables.hist[l] /\ after.prop[k] = cols
      BY <2>3, <1>8, <1>9
    <3>2. row # Nothing /\ cols.price = row.price /\ row.price # NoPrice
      BY <2>3, <3>1, <1>6, <1>11 DEF HasPrice
    <3> QED
      BY <2>3, <3>1, <3>2, <1>11 DEF EndsAtPrice, HasPrice
  <2> QED
    BY <2>1, <2>2, <2>3
<1>12. \A k \in Listings : tables.prop[k] # Nothing => after.prop[k] # Nothing
  BY <1>2, <1>8
<1>13. /\ InSeries(tables) => InSeries(after)
       /\ \A k \in Listings :
            EndsAtPrice(tables, k) /\ (k = l => read = old) => EndsAtPrice(after, k)
  BY <1>10, <1>11 DEF InSeries, EndsAtPrice
<1> QED
  BY <1>7, <1>12, <1>13 DEF after

-----------------------------------------------------------------------------
LEMMA Start == Init => IInv
<1> SUFFICES ASSUME Init PROVE IInv
  OBVIOUS
<1> USE DEF Init
<1>1. db \in Tables
  BY DEF Tables
<1>2. TypeOK
  BY <1>1, PricesAssumption DEF TypeOK
<1>3. InSeries(db) /\ InSeries(mine)
  BY DEF InSeries, HasPrice
<1> QED
  BY <1>2, <1>3 DEF IInv, HasListing, MineIsHolders, ReadRowStays

(* Every action of a session, and the portal, keep the invariant. *)
LEMMA Step == IInv /\ [Next]_vars => IInv'
<1> SUFFICES ASSUME IInv, [Next]_vars PROVE IInv'
  OBVIOUS
<1> USE SessionsAssumption, PricesAssumption
<1> TypeOK /\ HasListing /\ MineIsHolders /\ ReadRowStays
  BY DEF IInv
<1>0. ASSUME db' = db, mine' = mine, dbWriter' = dbWriter, TypeOK', HasListing',
             \A s \in Sessions : pc'[s] = "ingested" => pc[s] = "ingested" \/ dbWriter = s,
             \A s \in Sessions : pc'[s] = "merging" =>
                \/ pc[s] = "merging" /\ merged'[s] = merged[s] /\ cur'[s] = cur[s]
                \/ merged'[s] = View(s).prop[cur'[s]]
      PROVE  IInv'
  <2>1. \A s : View(s)' = View(s)
    BY <1>0, ViewStays
  <2>2. MineIsHolders'
    BY <1>0 DEF MineIsHolders
  <2>3. ReadRowStays'
    BY <1>0, <2>1 DEF ReadRowStays
  <2>4. InSeries(db)' /\ InSeries(mine)'
    BY <1>0 DEF IInv, InSeries, HasPrice
  <2> QED
    BY <1>0, <2>2, <2>3, <2>4 DEF IInv
<1>1. ASSUME NEW l \in Listings, MarketChanges(l) PROVE IInv'
  <2>1. TypeOK' /\ HasListing'
    BY <1>1 DEF MarketChanges, session, TypeOK, HasListing
  <2> QED
    BY <1>0, <1>1, <2>1 DEF MarketChanges, session
<1>2. ASSUME NEW s \in Sessions, Fetch(s) PROVE IInv'
  <2>1. PICK found \in SUBSET Listings :
          page' = [page EXCEPT ![s] =
                     [l \in Listings |-> IF l \in found THEN [price |-> market[l], label |-> LabelOf[s]]
                                         ELSE Nothing]]
    BY <1>2 DEF Fetch
  <2>2. \A l \in Listings : [price |-> market[l], label |-> LabelOf[s]] \in Payloads
    BY DEF TypeOK, Payloads
  <2>3. TypeOK'
    BY <1>2, <2>1, <2>2 DEF TypeOK, Fetch, Resolving
  <2>4. HasListing'
    BY <1>2, <2>1 DEF TypeOK, HasListing, Fetch
  <2> QED
    BY <1>0, <1>2, <2>3, <2>4 DEF Fetch, TypeOK
<1>3. ASSUME NEW s \in Sessions, NEW l \in Listings, SkipUnchanged(s, l) PROVE IInv'
  <2>1. TypeOK' /\ HasListing'
    BY <1>3 DEF TypeOK, HasListing, SkipUnchanged
  <2> QED
    BY <1>0, <1>3, <2>1 DEF SkipUnchanged
<1>4. ASSUME NEW s \in Sessions, NEW l \in Listings, Normalize(s, l) PROVE IInv'
  <2>1. TypeOK' /\ HasListing'
    BY <1>4 DEF TypeOK, HasListing, Normalize, Resolving
  <2> QED
    BY <1>0, <1>4, <2>1 DEF Normalize, TypeOK
<1>5. ASSUME NEW s \in Sessions, ReadProperty(s) PROVE IInv'
  <2>1. cur[s] \in Listings
    BY <1>5 DEF ReadProperty, HasListing
  <2>2. View(s).prop[cur[s]] \in Payloads \union {Nothing}
    BY <2>1, ViewType DEF Tables
  <2>3. TypeOK'
    BY <1>5, <2>2 DEF TypeOK, ReadProperty, Resolving
  <2>4. HasListing'
    BY <1>5, <2>1 DEF TypeOK, HasListing, ReadProperty
  <2> QED
    BY <1>0, <1>5, <2>3, <2>4 DEF ReadProperty, TypeOK
<1>11. ASSUME NEW s \in Sessions, MergeReads(s) PROVE IInv'
  <2>1. cur[s] \in Listings
    BY <1>11 DEF MergeReads, HasListing
  <2>2. View(s).prop[cur[s]] \in Payloads \union {Nothing}
    BY <2>1, ViewType DEF Tables
  <2>3. TypeOK'
    BY <1>11, <2>2 DEF TypeOK, MergeReads, Resolving
  <2>4. HasListing'
    BY <1>11, <2>1 DEF TypeOK, HasListing, MergeReads
  <2> QED
    BY <1>0, <1>11, <2>3, <2>4 DEF MergeReads, TypeOK
<1>6. ASSUME NEW s \in Sessions, Store(s) PROVE IInv'
  <2> DEFINE l == cur[s]
             new == page[s][l]
  <2>1. /\ l \in Listings /\ new \in Payloads
        /\ existing[s] \in Payloads \union {Nothing} /\ merged[s] \in Payloads \union {Nothing}
    BY <1>6 DEF Store, HasListing, TypeOK
  <2>2. View(s) \in Tables /\ InSeries(View(s))
    BY ViewType, ViewInSeries
  <2>3. /\ merged[s] # Nothing => View(s).prop[l] # Nothing
        /\ existing[s] = Nothing \/ merged[s] = existing[s]
    BY <1>6 DEF Store, ReadRowStays, HasListing
  <2>4. mine' = Stored(View(s), l, existing[s], merged[s], new)
    BY <1>6 DEF Store
  <2>5. /\ mine' \in Tables
        /\ InSeries(mine')
        /\ \A k \in Listings : View(s).prop[k] # Nothing => mine'.prop[k] # Nothing
    BY <2>1, <2>2, <2>3, <2>4, StoredTables
  <2>6. TypeOK'
    BY <1>6, <2>5 DEF TypeOK, Store, Resolving
  <2>7. HasListing'
    BY <1>6 DEF TypeOK, HasListing, Store
  <2>8. \A k \in Listings : db.prop[k] # Nothing => mine'.prop[k] # Nothing
    BY <2>5 DEF View, MineIsHolders
  <2>9. MineIsHolders'
    BY <1>6, <2>8 DEF MineIsHolders, Store, CanWrite, TypeOK
  <2>10. ASSUME NEW t \in Sessions, pc'[t] = "merging", merged'[t] # Nothing
         PROVE  View(t)'.prop[cur'[t]] # Nothing
    <3>1. t # s /\ pc[t] = "merging" /\ merged[t] # Nothing /\ cur'[t] = cur[t] /\ cur[t] \in Listings
      BY <1>6, <2>10 DEF Store, TypeOK, HasListing
    <3>2. View(t) = db
      BY <1>6, <3>1 DEF View, Store, CanWrite
    <3>3. View(t)' = db
      BY <1>6, <3>1 DEF View, Store
    <3> QED
      BY <3>1, <3>2, <3>3 DEF ReadRowStays
  <2>11. ReadRowStays'
    BY <2>10 DEF ReadRowStays
  <2>12. InSeries(db)' /\ InSeries(mine)'
    BY <1>6, <2>5 DEF Store, IInv, InSeries, HasPrice
  <2> QED
    BY <2>6, <2>7, <2>9, <2>11, <2>12 DEF IInv
<1>7. ASSUME NEW s \in Sessions, EndIngest(s) PROVE IInv'
  <2>1. TypeOK' /\ HasListing'
    BY <1>7 DEF TypeOK, HasListing, EndIngest, Resolving
  <2>2. MineIsHolders'
    BY <1>7 DEF MineIsHolders, EndIngest, CanWrite, TypeOK
  <2>3. \A t \in Sessions : View(t)' = View(t)
    BY <1>7 DEF EndIngest, View, CanWrite, MineIsHolders
  <2>4. ReadRowStays'
    BY <1>7, <2>3 DEF ReadRowStays, EndIngest, TypeOK
  <2>5. InSeries(db)' /\ InSeries(mine)'
    BY <1>7 DEF EndIngest, IInv, InSeries, HasPrice
  <2> QED
    BY <2>1, <2>2, <2>4, <2>5 DEF IInv
<1>8. ASSUME NEW s \in Sessions, Commit(s) PROVE IInv'
  <2>1. TypeOK' /\ HasListing'
    BY <1>8 DEF TypeOK, HasListing, Commit
  <2>2. dbWriter = s /\ \A t \in Sessions : pc[t] = "ingested" => t = s
    BY <1>8 DEF Commit, MineIsHolders
  <2>3. MineIsHolders'
    BY <1>8, <2>2 DEF MineIsHolders, Commit, TypeOK
  <2>4. ASSUME NEW t \in Sessions, pc'[t] = "merging", merged'[t] # Nothing
        PROVE  View(t)'.prop[cur'[t]] # Nothing
    <3>1. t # s /\ pc[t] = "merging" /\ merged[t] # Nothing /\ cur'[t] = cur[t] /\ cur[t] \in Listings
      BY <1>8, <2>4 DEF Commit, TypeOK, HasListing
    <3>2. View(t) = db /\ View(t)' = mine
      BY <1>8, <2>2, <3>1 DEF View, Commit
    <3> QED
      BY <3>1, <3>2 DEF ReadRowStays, MineIsHolders
  <2>5. ReadRowStays'
    BY <2>4 DEF ReadRowStays
  <2>6. InSeries(db)' /\ InSeries(mine)'
    BY <1>8 DEF Commit, IInv, InSeries, HasPrice
  <2> QED
    BY <2>1, <2>3, <2>5, <2>6 DEF IInv
<1>9. ASSUME NEW s \in Sessions, RollBack(s) PROVE IInv'
  <2>1. TypeOK' /\ HasListing'
    BY <1>9 DEF TypeOK, HasListing, RollBack
  <2>2. MineIsHolders'
    BY <1>9 DEF MineIsHolders, RollBack, TypeOK
  <2>3. \A t \in Sessions : t # s => View(t)' = View(t)
    BY <1>9 DEF RollBack, View
  <2>4. ReadRowStays'
    BY <1>9, <2>3 DEF ReadRowStays, RollBack, TypeOK
  <2>5. InSeries(db)' /\ InSeries(mine)'
    BY <1>9 DEF RollBack, IInv, InSeries, HasPrice
  <2> QED
    BY <2>1, <2>2, <2>4, <2>5 DEF IInv
<1>10. CASE UNCHANGED vars
  <2>1. TypeOK' /\ HasListing'
    BY <1>10 DEF vars, session, TypeOK, HasListing
  <2> QED
    BY <1>0, <1>10, <2>1 DEF vars, session
<1> QED
  BY <1>1, <1>2, <1>3, <1>4, <1>5, <1>6, <1>7, <1>8, <1>9, <1>10, <1>11 DEF Next

LEMMA Invariant == Spec => []IInv
  BY Start, Step, PTL DEF Spec

(* Every variable keeps its type. *)
THEOREM TypeCorrect == Spec => []TypeOK
  BY Invariant, PTL DEF IInv

(* Every price a property shows is in its price_history, with any number of *)
(* sessions comparing with rows that are no longer current.                 *)
THEOREM PricesAreRecorded == Spec => []PriceIsRecorded
  BY Invariant, PTL DEF IInv, PriceIsRecorded

-----------------------------------------------------------------------------
(* Only a store leads from merging back to the page. *)
LEMMA MergingEnds ==
  ASSUME IInv, [Next]_vars, NEW s \in Sessions, pc[s] = "merging", pc'[s] = "ingesting"
  PROVE  Store(s)
<1> TypeOK
  BY DEF IInv
<1>1. ASSUME NEW t \in Sessions, NEW l \in Listings, SkipUnchanged(t, l) \/ Normalize(t, l)
      PROVE  FALSE
  BY <1>1 DEF SkipUnchanged, Normalize, TypeOK
<1>2. ASSUME NEW t \in Sessions,
             \/ Fetch(t) \/ ReadProperty(t) \/ MergeReads(t)
             \/ EndIngest(t) \/ Commit(t) \/ RollBack(t)
      PROVE  FALSE
  BY <1>2 DEF Fetch, ReadProperty, MergeReads, EndIngest, Commit, RollBack, TypeOK
<1>3. ASSUME NEW t \in Sessions, Store(t) PROVE Store(s)
  BY <1>3 DEF Store, TypeOK
<1> QED
  BY <1>1, <1>2, <1>3 DEF Next, MarketChanges, vars, session

(* The tables that a session sees change by its store, or fall back to the  *)
(* committed ones.                                                          *)
LEMMA MineChanges ==
  ASSUME [Next]_vars
  PROVE  mine' = mine \/ mine' = db \/ \E s \in Sessions : Store(s)
<1>1. ASSUME NEW s \in Sessions, NEW l \in Listings, SkipUnchanged(s, l) \/ Normalize(s, l)
      PROVE  mine' = mine
  BY <1>1 DEF SkipUnchanged, Normalize
<1>2. ASSUME NEW s \in Sessions, RollBack(s) PROVE mine' = mine \/ mine' = db
  BY <1>2 DEF RollBack
<1>3. ASSUME NEW s \in Sessions,
             Fetch(s) \/ ReadProperty(s) \/ MergeReads(s) \/ EndIngest(s) \/ Commit(s)
      PROVE  mine' = mine
  BY <1>3 DEF Fetch, ReadProperty, MergeReads, EndIngest, Commit
<1> QED
  BY <1>1, <1>2, <1>3 DEF Next, MarketChanges, vars

(* For any sessions and prices, only a store whose merge found a row that   *)
(* its get had missed parts the price of a property from its series.        *)
THEOREM SeriesPartsOnlyWhenMissed == Spec => PartsOnlyByMissedRow
<1> DEFINE Parts(l) == EndsAtPrice(mine, l) /\ EndsAtPrice(db, l) /\ ~ EndsAtPrice(mine', l)
           Missed(l) == \E s \in Sessions : pc[s] = "merging" /\ cur[s] = l /\ MissedRow(s)
<1>1. ASSUME IInv, [Next]_vars, NEW k \in Listings, Parts(k)
      PROVE  Missed(k)
  <2>1. mine' # mine /\ mine' # db
    BY <1>1
  <2>2. PICK s \in Sessions : Store(s)
    BY <1>1, <2>1, MineChanges
  <2> DEFINE l == cur[s]
             new == page[s][l]
  <2>3. /\ l \in Listings /\ new \in Payloads /\ pc[s] = "merging"
        /\ existing[s] \in Payloads \union {Nothing} /\ merged[s] \in Payloads \union {Nothing}
    BY <1>1, <2>2 DEF IInv, Store, HasListing, TypeOK
  <2>4. View(s) \in Tables /\ EndsAtPrice(View(s), k)
    BY <1>1, ViewType DEF IInv, View
  <2>5. /\ merged[s] # Nothing => View(s).prop[l] # Nothing
        /\ existing[s] = Nothing \/ merged[s] = existing[s]
    BY <1>1, <2>2 DEF IInv, Store, ReadRowStays, HasListing
  <2>6. mine' = Stored(View(s), l, existing[s], merged[s], new)
    BY <2>2 DEF Store
  <2>7. ~(k = l => merged[s] = existing[s])
    BY <1>1, <2>3, <2>4, <2>5, <2>6, StoredTables
  <2> QED
    BY <2>3, <2>5, <2>7 DEF MissedRow
<1>2. IInv /\ [Next]_vars => \A l \in Listings : Parts(l) => Missed(l)
  BY <1>1
<1> QED
  BY <1>2, Invariant, PTL DEF Spec, PartsOnlyByMissedRow

-----------------------------------------------------------------------------
(* A listing stored over the row that merge read of it stands in the tables *)
(* exactly as its hash says: skipping the same payload later loses nothing. *)
THEOREM FreshStoresAreExact == Spec => FreshStoreIsExact
<1> DEFINE Exact ==
      \A s \in Sessions :
        pc[s] = "merging" /\ pc'[s] = "ingesting" /\ merged[s] = View(s).prop[cur[s]]
          => mine'.prop[cur[s]] = mine'.hash[cur[s]]
<1>1. ASSUME IInv, NEW s \in Sessions, Store(s), merged[s] = View(s).prop[cur[s]]
      PROVE  mine'.prop[cur[s]] = mine'.hash[cur[s]]
  <2> DEFINE l == cur[s]
             new == page[s][l]
             tables == View(s)
             old == existing[s]
  <2>1. l \in Listings /\ new \in Payloads /\ tables \in Tables
    BY <1>1, ViewType DEF IInv, HasListing, Store, TypeOK
  <2>2. mine' = Stored(tables, l, old, tables.prop[l], new)
    BY <1>1 DEF Store
  <2> HIDE DEF l, new, tables, old
  <2>3. tables.prop[l] \in Payloads \union {Nothing}
    BY <2>1 DEF Tables
  <2>4. DirtyColumns(tables.prop[l], tables.prop[l], new) = new
    BY <2>1, <2>3 DEF DirtyColumns, Payloads
  <2>5. mine'.prop[l] = new /\ mine'.hash[l] = new
    BY <2>1, <2>2, <2>4 DEF Stored, Tables
  <2> QED
    BY <2>5 DEF l
<1>2. IInv /\ [Next]_vars => Exact
  BY <1>1, MergingEnds
<1> QED
  BY <1>2, Invariant, PTL DEF Spec, FreshStoreIsExact
=============================================================================
