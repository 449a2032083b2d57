--------------------------- MODULE ListingIngest ---------------------------
(***************************************************************************)
(* How the workers of alert cycles store what a portal search returned:    *)
(* the loop of _resolve_candidates over the portal_listings, properties    *)
(* and price_history tables.  RunAlertCycle abstracts it to one step.      *)
(*                                                                         *)
(* A listing is one (portal, external_id) and the property derived from    *)
(* it.  Its raw payload is its price on the portal and the labels the      *)
(* scraper copies from the query (tipo, operacion, provincia), so searches *)
(* that overlap store different payloads of the same listing.  A listing   *)
(* that cannot be normalized writes nothing and is left out of the page.   *)
(*                                                                         *)
(* Reads see the committed tables until the session's first write takes    *)
(* SQLite's write lock; after that nobody else writes.  properties.add     *)
(* reads the row with session.get and merges with what it got; when it got *)
(* none, merge looks for the row a second time.                            *)
(***************************************************************************)
EXTENDS Naturals, Sequences, FiniteSets

CONSTANTS
  Sessions, ProcessOf,  \* workers and the process of each
  LabelOf,              \* the labels of the session's query
  Listings, Prices, Labels,
  NoPrice,              \* the card shows no price
  Nothing,              \* no row, no session, no listing
  MaxChanges            \* bound: changes of a price on the portal

Payloads == [price : Prices \union {NoPrice}, label : Labels]

ASSUME SessionsAssumption == /\ LabelOf \in [Sessions -> Labels]
                             /\ Nothing \notin Sessions /\ Nothing \notin Listings
ASSUME PricesAssumption == /\ NoPrice \notin Prices /\ Nothing \notin Payloads
                           /\ MaxChanges \in Nat

VARIABLES
  market, changes,  \* the prices on the portal (external), changes so far
  db,               \* the committed tables
  dbWriter,         \* holder of SQLite's write lock
  mine,             \* the tables as its holder sees them, else db
  pc, page, cur,    \* listings still to store, the one being stored
  existing,         \* its properties row as session.get returned it
  merged            \* the row that merge compares the columns with

session == <<pc, page, cur, existing, merged>>
vars == <<market, changes, db, dbWriter, mine, session>>

(* prop: the properties row, as the payload it was normalized from;         *)
(* hash: the payload content_hash stands for; hist: the price_history rows  *)
Tables == [prop : [Listings -> Payloads \union {Nothing}],
           hash : [Listings -> Payloads \union {Nothing}],
           hist : [Listings -> Seq(Prices)]]

Init ==
  /\ market \in [Listings -> Prices \union {NoPrice}] /\ changes = 0
  /\ db = [prop |-> [l \in Listings |-> Nothing],
           hash |-> [l \in Listings |-> Nothing],
           hist |-> [l \in Listings |-> <<>>]]
  /\ dbWriter = Nothing
  /\ mine = db
  /\ pc = [s \in Sessions |-> "idle"]
  /\ page = [s \in Sessions |-> [l \in Listings |-> Nothing]]
  /\ cur = [s \in Sessions |-> Nothing]
  /\ existing = [s \in Sessions |-> Nothing]
  /\ merged = existing

MarketChanges(l) ==
  /\ changes < MaxChanges
  /\ \E p \in (Prices \union {NoPrice}) \ {market[l]} : market' = [market EXCEPT ![l] = p]
  /\ changes' = changes + 1
  /\ UNCHANGED <<db, dbWriter, mine, session>>

Resolving == {"ingesting", "reading", "missing", "merging"}  \* inside the portal semaphore

Fetch(s) ==
  /\ pc[s] = "idle"
  /\ \A t \in Sessions : ProcessOf[t] = ProcessOf[s] => pc[t] \notin Resolving
  /\ \E found \in SUBSET Listings :
       page' = [page EXCEPT ![s] =
                  [l \in Listings |-> IF l \in found THEN [price |-> market[l], label |-> LabelOf[s]]
                                      ELSE Nothing]]
  /\ pc' = [pc EXCEPT ![s] = "ingesting"]
  /\ UNCHANGED <<market, changes, db, dbWriter, mine, cur, existing, merged>>

View(s) == IF dbWriter = s THEN mine ELSE db
CanWrite(s) == dbWriter \in {Nothing, s}

(* find_unchanged_property_id *)
SkipUnchanged(s, l) ==
  /\ pc[s] = "ingesting"
  /\ page[s][l] # Nothing
  /\ View(s).hash[l] = page[s][l]
  /\ page' = [page EXCEPT ![s][l] = Nothing]
  /\ UNCHANGED <<market, changes, db, dbWriter, mine, pc, cur, existing, merged>>

Normalize(s, l) ==
  /\ pc[s] = "ingesting"
  /\ page[s][l] # Nothing
  /\ View(s).hash[l] # page[s][l]
  /\ cur' = [cur EXCEPT ![s] = l]
  /\ pc' = [pc EXCEPT ![s] = "reading"]
  /\ UNCHANGED <<market, changes, db, dbWriter, mine, page, existing, merged>>

(* properties.add: session.get; merge finds a row that was read in the     *)
(* identity map                                                            *)
ReadProperty(s) ==
  /\ pc[s] = "reading"
  /\ LET row == View(s).prop[cur[s]]
     IN  /\ existing' = [existing EXCEPT ![s] = row]
         /\ merged' = [merged EXCEPT ![s] = row]
         /\ pc' = [pc EXCEPT ![s] = IF row = Nothing THEN "missing" ELSE "merging"]
  /\ UNCHANGED <<market, changes, db, dbWriter, mine, page, cur>>

(* session.merge selects the row that session.get did not find *)
MergeReads(s) ==
  /\ pc[s] = "missing"
  /\ merged' = [merged EXCEPT ![s] = View(s).prop[cur[s]]]
  /\ pc' = [pc EXCEPT ![s] = "merging"]
  /\ UNCHANGED <<market, changes, db, dbWriter, mine, page, cur, existing>>

(* Mutation: a listing whose price vanished counts as changed *)
AnyPriceChanged(old, new) == old = Nothing \/ old.price # new.price

(* Mutation: a price on a row that had none is no change *)
PricesDiffer(old, new) ==
  /\ new.price # NoPrice
  /\ old = Nothing \/ (old.price # NoPrice /\ old.price # new.price)

(* _price_changed *)
PriceChanged(old, new) ==
  /\ new.price # NoPrice
  /\ old = Nothing \/ old.price # new.price

(* Mutation: merge writes every column *)
AllColumns(row, read, new) == new

(* merge and flush: the columns that differ from the row that merge read *)
DirtyColumns(row, read, new) ==
  IF read = Nothing THEN new
  ELSE [price |-> IF new.price # read.price THEN new.price ELSE row.price,
        label |-> IF new.label # read.label THEN new.label ELSE row.label]

(* The INSERT of a property somebody stored since merge's read fails *)
Clashes(s) == merged[s] = Nothing /\ View(s).prop[cur[s]] # Nothing

(* Mutation: the content hash is stored, the price stays *)
KeepsPrice(tables, l, old, read, new) ==
  [prop |-> [tables.prop EXCEPT ![l] = IF read = Nothing THEN new ELSE [@ EXCEPT !.label = new.label]],
   hash |-> [tables.hash EXCEPT ![l] = new],
   hist |-> IF read = Nothing /\ new.price # NoPrice
              THEN [tables.hist EXCEPT ![l] = Append(@, new.price)] ELSE tables.hist]

(* properties.add (with PriceHistory) and portal_listings.upsert *)
Stored(tables, l, old, read, new) ==
  [prop |-> [tables.prop EXCEPT ![l] = DirtyColumns(@, read, new)],
   hash |-> [tables.hash EXCEPT ![l] = new],
   hist |-> IF PriceChanged(old, new)
              THEN [tables.hist EXCEPT ![l] = Append(@, new.price)] ELSE tables.hist]

Store(s) ==
  /\ pc[s] = "merging"
  /\ CanWrite(s)
  /\ ~Clashes(s)
  /\ dbWriter' = s
  /\ mine' = Stored(View(s), cur[s], existing[s], merged[s], page[s][cur[s]])
  /\ page' = [page EXCEPT ![s][cur[s]] = Nothing]
  /\ pc' = [pc EXCEPT ![s] = "ingesting"]
  /\ cur' = [cur EXCEPT ![s] = Nothing]
  /\ existing' = [existing EXCEPT ![s] = Nothing]
  /\ merged' = [merged EXCEPT ![s] = Nothing]
  /\ UNCHANGED <<market, changes, db>>

(* search_cache.put and search_executions.record *)
EndIngest(s) ==
  /\ pc[s] = "ingesting"
  /\ \A l \in Listings : page[s][l] = Nothing
  /\ CanWrite(s)
  /\ dbWriter' = s
  /\ pc' = [pc EXCEPT ![s] = "ingested"]
  /\ UNCHANGED <<market, changes, db, mine, page, cur, existing, merged>>

(* After the alerts were evaluated *)
Commit(s) ==
  /\ pc[s] = "ingested"
  /\ db' = mine
  /\ dbWriter' = Nothing
  /\ pc' = [pc EXCEPT ![s] = "idle"]
  /\ UNCHANGED <<market, changes, mine, page, cur, existing, merged>>

(* IntegrityError, "database is locked", a failure while evaluating, or the *)
(* process dies                                                             *)
RollBack(s) ==
  /\ pc[s] # "idle"
  /\ IF dbWriter = s THEN dbWriter' = Nothing /\ mine' = db ELSE UNCHANGED <<dbWriter, mine>>
  /\ pc' = [pc EXCEPT ![s] = "idle"]
  /\ page' = [page EXCEPT ![s] = [l \in Listings |-> Nothing]]
  /\ cur' = [cur EXCEPT ![s] = Nothing]
  /\ existing' = [existing EXCEPT ![s] = Nothing]
  /\ merged' = [merged EXCEPT ![s] = Nothing]
  /\ UNCHANGED <<market, changes, db>>

Next ==
  \/ \E l \in Listings : MarketChanges(l)
  \/ \E s \in Sessions :
       \/ Fetch(s) \/ ReadProperty(s) \/ MergeReads(s) \/ Store(s)
       \/ EndIngest(s) \/ Commit(s) \/ RollBack(s)
       \/ \E l \in Listings : SkipUnchanged(s, l) \/ Normalize(s, l)

Spec == Init /\ [][Next]_vars

-----------------------------------------------------------------------------
TypeOK ==
  /\ market \in [Listings -> Prices \union {NoPrice}] /\ changes \in 0..MaxChanges
  /\ db \in Tables /\ mine \in Tables
  /\ dbWriter \in Sessions \union {Nothing}
  /\ pc \in [Sessions -> Resolving \union {"idle", "ingested"}]
  /\ page \in [Sessions -> [Listings -> Payloads \union {Nothing}]]
  /\ cur \in [Sessions -> Listings \union {Nothing}]
  /\ existing \in [Sessions -> Payloads \union {Nothing}]
  /\ merged \in [Sessions -> Payloads \union {Nothing}]

HasPrice(tables, l) == tables.prop[l] # Nothing /\ tables.prop[l].price # NoPrice

InSeries(tables) ==
  \A l \in Listings :
    HasPrice(tables, l)
      => \E i \in 1..Len(tables.hist[l]) : tables.hist[l][i] = tables.prop[l].price

(* Every price a property ever shows was recorded in its price_history,     *)
(* however stale the rows were that get and merge returned: the UPDATE may  *)
(* leave the column to another session, and then that session recorded it   *)
(* (properties.add).                                                        *)
PriceIsRecorded == InSeries(db)

EndsAtPrice(tables, l) ==
  HasPrice(tables, l)
    => /\ tables.hist[l] # <<>>
       /\ tables.hist[l][Len(tables.hist[l])] = tables.prop[l].price

(* The store's get found no row and its merge found one *)
MissedRow(s) == existing[s] = Nothing /\ merged[s] # Nothing

(* price_history ends at the price of the property until a session stores   *)
(* the listing whose get missed the row its merge found (price_changed is   *)
(* decided by the first read, the dirty columns by the second): a stale row *)
(* alone, the abort of a transaction or a vanished price never part them.   *)
PartsOnlyByMissedRow ==
  [][\A l \in Listings :
       EndsAtPrice(mine, l) /\ EndsAtPrice(db, l) /\ ~ EndsAtPrice(mine', l)
         => \E s \in Sessions : pc[s] = "merging" /\ cur[s] = l /\ MissedRow(s)]_vars

(* Storing a listing whose properties row did not change since merge read   *)
(* it leaves the property exactly as its payload says, so that skipping the *)
(* same payload next time loses nothing (content_hash).                     *)
FreshStoreIsExact ==
  [][\A s \in Sessions :
       pc[s] = "merging" /\ pc'[s] = "ingesting" /\ merged[s] = View(s).prop[cur[s]]
         => mine'.prop[cur[s]] = mine'.hash[cur[s]]]_vars

-----------------------------------------------------------------------------
(* The inductive strengthening *)

(* Between the look-up and the flush a session holds a listing of its page, *)
(* and merge takes a row that get returned for the one it compares with.    *)
HasListing ==
  \A s \in Sessions :
    /\ pc[s] \in {"reading", "missing", "merging"}
         => cur[s] \in Listings /\ page[s][cur[s]] # Nothing
    /\ pc[s] = "missing" => existing[s] = Nothing
    /\ pc[s] = "merging" => existing[s] = Nothing \/ merged[s] = existing[s]

(* mine differs from db only while a session holds the write lock, it keeps *)
(* every property, and only the holder comes to commit.                     *)
MineIsHolders ==
  /\ dbWriter = Nothing => mine = db
  /\ \A l \in Listings : db.prop[l] # Nothing => mine.prop[l] # Nothing
  /\ \A s \in Sessions : pc[s] = "ingested" => dbWriter = s

(* A row that was read stays. *)
ReadRowStays ==
  \A s \in Sessions :
    pc[s] = "merging" /\ merged[s] # Nothing => View(s).prop[cur[s]] # Nothing

IInv ==
  /\ TypeOK /\ HasListing /\ MineIsHolders /\ ReadRowStays
  /\ InSeries(db) /\ InSeries(mine)
=============================================================================
