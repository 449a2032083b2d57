---------------------------- MODULE PortalSearch ----------------------------
(***************************************************************************)
(* From an alert's conditions to its matches: SearchPlanner reduces each   *)
(* due alert to pushed parameters and shares equal searches;               *)
(* IdealistaScraper turns the parameters into a URL and labels every       *)
(* listing of the page from the query, since the cards do not say what     *)
(* they offer; BaseNormalizer maps the labels back; AlertEngine evaluates  *)
(* the alerts over the stored properties.                                  *)
(*                                                                         *)
(* A served query is one step here (its transaction is RunAlertCycle); the *)
(* steps of different searches, which store the same listing under         *)
(* different labels, interleave.  The portal is external: a listing has a  *)
(* true kind, and a result page has the listings of its URL.               *)
(*                                                                         *)
(* One portal is registered (idealista); an alert naming another one is    *)
(* planned for a query that only fails.                                    *)
(***************************************************************************)
EXTENDS RuleEngine, FiniteSets

CONSTANTS
  Alerts,
  Trees,      \* the condition trees alerts may have
  Provinces,  \* Province without UNKNOWN, by INE code
  Names,      \* province -> the parts of its display name
  Aliases,    \* other spellings: letters -> province
  Listings,
  Truth,      \* listing -> what it really is, with its price (external)
  Nothing     \* not stored

(* Texts: letters are what is left of a text without case and accents *)
Texts == [letters : STRING, marks : SUBSET {"case", "accents"}]
Word(letters) == [letters |-> letters, marks |-> {"case"}]
AccentedWord(letters) == [letters |-> letters, marks |-> {"case", "accents"}]
NoText == [letters |-> "", marks |-> {}]

(* Mutation: casefold alone *)
KeepsAccents(text) == [text EXCEPT !.marks = @ \ {"case"}]

(* _normalize_text *)
Folded(text) == [text EXCEPT !.marks = {}]

-----------------------------------------------------------------------------
(* field_labels.py: canonical value -> URL segment and label; Absent, and   *)
(* any value that is not in the tables, is a flat for sale                  *)

SearchTypes == {"LAND", "FLAT", "PENTHOUSE", "DUPLEX", "STUDIO", "HOUSE", "CHALET",
                "GARAGE", "STORAGE_ROOM", "OFFICE", "COMMERCIAL", "BUILDING"}
SearchListingTypes == {"SALE", "RENT"}

TypeSegment(t) ==
  CASE t = "LAND" -> "terrenos"
    [] t = "GARAGE" -> "garajes"
    [] t = "STORAGE_ROOM" -> "trasteros"
    [] t = "OFFICE" -> "oficinas"
    [] t = "COMMERCIAL" -> "locales"
    [] t = "BUILDING" -> "edificios"
    [] OTHER -> "viviendas"

TypeLabel(t) ==
  CASE t = "LAND" -> Word("suelo")
    [] t = "PENTHOUSE" -> AccentedWord("atico")
    [] t = "DUPLEX" -> AccentedWord("duplex")
    [] t = "STUDIO" -> Word("estudio")
    [] t = "HOUSE" -> Word("casa")
    [] t = "CHALET" -> Word("chalet")
    [] t = "GARAGE" -> Word("garaje")
    [] t = "STORAGE_ROOM" -> Word("trastero")
    [] t = "OFFICE" -> Word("oficina")
    [] t = "COMMERCIAL" -> Word("local")
    [] t = "BUILDING" -> Word("edificio")
    [] OTHER -> Word("piso")

ListingSegment(o) == IF o = "RENT" THEN "alquiler" ELSE "venta"
ListingLabel(o) == IF o = "RENT" THEN Word("alquiler") ELSE Word("venta")

(* province_label: the first part of the display name *)
ProvinceLabel(code) == IF code \in Provinces THEN Names[code][1] ELSE NoText

(* province_url_slug, up to the hyphens between words *)
ProvinceSlug(code) == Folded(ProvinceLabel(code)).letters

-----------------------------------------------------------------------------
(* vocabularies.py: folded label -> canonical value; the spellings that no  *)
(* label of the scraper has are left out                                    *)

ResolveType(text) ==
  IF text.marks # {} THEN "OTHER"
  ELSE CASE text.letters = "piso" -> "FLAT"
         [] text.letters = "atico" -> "PENTHOUSE"
         [] text.letters = "duplex" -> "DUPLEX"
         [] text.letters = "estudio" -> "STUDIO"
         [] text.letters = "casa" -> "HOUSE"
         [] text.letters = "chalet" -> "CHALET"
         [] text.letters = "suelo" -> "LAND"
         [] text.letters = "garaje" -> "GARAGE"
         [] text.letters = "trastero" -> "STORAGE_ROOM"
         [] text.letters = "oficina" -> "OFFICE"
         [] text.letters = "local" -> "COMMERCIAL"
         [] text.letters = "edificio" -> "BUILDING"
         [] OTHER -> "OTHER"

ResolveListingType(text) ==
  IF text.marks # {} THEN "OTHER"
  ELSE CASE text.letters = "venta" -> "SALE"
         [] text.letters = "alquiler" -> "RENT"
         [] OTHER -> "OTHER"

(* PROVINCE_VOCAB: the parts of every name, then the aliases over them *)
Spelt(letters) ==
  {p \in Provinces : \E i \in DOMAIN Names[p] : Folded(Names[p][i]).letters = letters}
Meant(letters) == IF letters \in DOMAIN Aliases THEN {Aliases[letters]} ELSE Spelt(letters)
ResolveProvince(text) ==
  IF text.marks = {} /\ Meant(text.letters) # {} THEN CHOOSE p \in Meant(text.letters) : TRUE
  ELSE "00"

-----------------------------------------------------------------------------
(* geography.py: every province and UNKNOWN *)
Province == Provinces \union {"00"}

(* Amounts in one currency, and square metres; not stated when Absent *)
Prices == Nat \union {Absent}
Areas == (Nat \ {0}) \union {Absent}

(* What a Property says in the fields of RuleEngine *)
Canonical == [province : Province, property_type : SearchTypes \union {"OTHER"},
              listing_type : SearchListingTypes \union {"OTHER"},
              price : Prices, area : Areas, rooms : Prices]

(* A name without case or accents tells provinces apart *)
ASSUME NamesAssumption ==
  /\ Provinces \subseteq STRING /\ "00" \notin Provinces
  /\ Names \in [Provinces -> Seq(Texts) \ {<<>>}]
  /\ \A p \in Provinces : \A i \in DOMAIN Names[p] :
       LET letters == Names[p][i].letters IN
       /\ letters # ""
       /\ Spelt(letters) = {p}
       /\ Meant(letters) = {p}
  /\ "" \notin DOMAIN Aliases
  /\ \A letters \in DOMAIN Aliases : Aliases[letters] \in Provinces
(* Follows from AbsentAssumption; the provers do not know what STRING holds *)
ASSUME AbsentIsNoType == Absent \notin SearchTypes \union SearchListingTypes
ASSUME ListingsAssumption ==
  /\ Truth \in [Listings -> Canonical]
  /\ \A l \in Listings : /\ Truth[l].province \in Provinces
                         /\ Truth[l].property_type \in SearchTypes
                         /\ Truth[l].listing_type \in SearchListingTypes
  /\ Nothing \notin Canonical
ASSUME TreesAssumption == \A tree \in Trees : WellFormedTree(tree)

VARIABLES
  tree,    \* alert -> its conditions
  stored,  \* listing -> its properties row
  cached,  \* alert -> the search_cache row of its search, if unexpired: {ids} or {}
  matches  \* alert_matches

vars == <<tree, stored, cached, matches>>

-----------------------------------------------------------------------------
(* The dashboard's form for a new alert: 0 leaves a bound open *)

Leaf(field, op, value) == [field |-> field, op |-> op, value |-> value]
PriceConditions(field, range) ==
  LET low == range[1]
      high == range[2]
  IN  CASE low # 0 /\ high # 0 -> <<Leaf(field, "BETWEEN", range)>>
        [] low # 0 /\ high = 0 -> <<Leaf(field, "GTE", low)>>
        [] low = 0 /\ high # 0 -> <<Leaf(field, "LTE", high)>>
        [] OTHER -> <<>>

Forms == [province : Provinces, property_type : SearchTypes, listing_type : SearchListingTypes,
          price : Nat \X Nat, price_per_m2 : Nat \X Nat]
FormTree(form) ==
  [operator |-> "ALL",
   leaves |-> <<Leaf("province", "EQ", form.province),
                Leaf("property_type", "EQ", form.property_type),
                Leaf("listing_type", "EQ", form.listing_type)>>
              \o PriceConditions("price", form.price)
              \o PriceConditions("price_per_m2", form.price_per_m2),
   groups |-> <<>>]

-----------------------------------------------------------------------------
(* SearchPlanner *)

Params == EnumFields \union {"price_min", "price_max"}

(* _add_if_pushable: the parameters a leaf sets, and their value *)
Pushes(leaf) ==
  CASE leaf.field \in EnumFields /\ leaf.op = "EQ" -> {leaf.field}
    [] leaf.field = "price" /\ leaf.op = "LTE" -> {"price_max"}
    [] leaf.field = "price" /\ leaf.op = "GTE" -> {"price_min"}
    [] leaf.field = "price" /\ leaf.op = "BETWEEN" -> {"price_min", "price_max"}
    [] OTHER -> {}
PushedValue(leaf, param) ==
  IF leaf.op # "BETWEEN" THEN leaf.value
  ELSE IF param = "price_min" THEN leaf.value[1] ELSE leaf.value[2]

(* Later leaves overwrite earlier ones *)
Pushing(t, param) == {i \in DOMAIN t.leaves : param \in Pushes(t.leaves[i])}
LastPushing(t, param) ==
  CHOOSE i \in Pushing(t, param) : \A j \in Pushing(t, param) : j <= i

(* Mutation: an OR and a NOT are pushed like an AND *)
PushesFromAnyGroup(t) ==
  [param \in Params |->
     IF Pushing(t, param) # {} THEN PushedValue(t.leaves[LastPushing(t, param)], param) ELSE Absent]

(* _pushable_params: nothing is pushed of an OR or a NOT, nor of a nested   *)
(* group; a parameter that is not set is Absent                             *)
PushableParams(t) ==
  [param \in Params |->
     IF t.operator = "ALL" /\ Pushing(t, param) # {}
       THEN PushedValue(t.leaves[LastPushing(t, param)], param)
       ELSE Absent]

(* The hash of the sorted "key=value" pairs, taken as free of collisions *)
Signature(params) == params

(* plan: the due alerts by signature, with the parameters of one of them *)
Plan(due) ==
  LET Group(a) == {b \in due : Signature(PushableParams(tree[b])) = Signature(PushableParams(tree[a]))}
  IN  {[alerts |-> Group(a), params |-> PushableParams(tree[CHOOSE b \in Group(a) : TRUE])] : a \in due}

-----------------------------------------------------------------------------
(* IdealistaScraper and BaseNormalizer *)

(* A price or a size on a card (external): the groups of digits of          *)
(* "1.200 euros", or words ("on request")                                   *)
NumberText(number) ==
  IF number = Absent THEN [digits |-> FALSE, thousands |-> 0, units |-> 0]
  ELSE [digits |-> TRUE, thousands |-> number \div 1000, units |-> number % 1000]

(* Mutation: the dot is a decimal point *)
ParseDecimalPoint(text) == IF text.digits THEN text.thousands ELSE Absent

(* parse_money: the dot separates thousands; a text without digits is None *)
ParseMoney(text) == IF text.digits THEN 1000 * text.thousands + text.units ELSE Absent

(* parse_area: 0 square metres are none *)
ParseArea(text) == IF ParseMoney(text) = 0 THEN Absent ELSE ParseMoney(text)

(* Mutation: the province is left out of the URL *)
UrlOfSpain(params) ==
  [operation |-> ListingSegment(params["listing_type"]),
   type |-> TypeSegment(params["property_type"]),
   province |-> ""]

(* _build_url: price bounds are not part of it *)
Url(params) ==
  [operation |-> ListingSegment(params["listing_type"]),
   type |-> TypeSegment(params["property_type"]),
   province |-> ProvinceSlug(params["province"])]

(* The portal's result page (external) *)
OnPage(url, prop) ==
  /\ url.operation = ListingSegment(prop.listing_type)
  /\ url.type = TypeSegment(prop.property_type)
  /\ url.province \in {"", ProvinceSlug(prop.province)}

(* Mutation: the size of a plot goes to plot_area *)
SizeIsPlotArea(params, prop) ==
  [tipo |-> TypeLabel(params["property_type"]),
   operacion |-> ListingLabel(params["listing_type"]),
   provincia |-> ProvinceLabel(params["province"]),
   precio |-> NumberText(prop.price),
   superficie |-> NumberText(Absent)]

(* _parse: the labels come from the query, price and size from the card and *)
(* as written there, the rooms from nowhere                                 *)
RawListing(params, prop) ==
  [tipo |-> TypeLabel(params["property_type"]),
   operacion |-> ListingLabel(params["listing_type"]),
   provincia |-> ProvinceLabel(params["province"]),
   precio |-> NumberText(prop.price),
   superficie |-> NumberText(prop.area)]

(* normalize: value parsing, vocabulary mapping with its fallbacks, assembly *)
Normalized(raw) ==
  [province |-> ResolveProvince(Folded(raw.provincia)),
   property_type |-> ResolveType(Folded(raw.tipo)),
   listing_type |-> ResolveListingType(Folded(raw.operacion)),
   price |-> ParseMoney(raw.precio),
   area |-> ParseArea(raw.superficie),
   rooms |-> Absent]

(* Mutation: the province keeps the portal's spelling *)
KeepsProvince(params, prop) ==
  [Normalized(RawListing(params, prop)) EXCEPT !.province = ProvinceLabel(params["province"]).letters]

Labelled(params, prop) == Normalized(RawListing(params, prop))

-----------------------------------------------------------------------------
Init ==
  /\ tree \in [Alerts -> Trees]
  /\ stored = [l \in Listings |-> Nothing]
  /\ cached = [a \in Alerts |-> {}]
  /\ matches = {}

SameSearch(a, params) == Signature(PushableParams(tree[a])) = Signature(params)

(* properties.add derives price_per_m2, which a price of 0 euros has not:   *)
(* PricePerM2 raises, after normalize and outside of its try                *)
Storable(prop) == HasPricePerM2(prop) => prop.price # 0

(* Cache miss: what was found of the page is stored under the labels of     *)
(* this query (a listing whose payload did not change has them already),    *)
(* the ids are cached, the alerts of the query are evaluated.  One listing  *)
(* that cannot be stored ends the worker, and everything rolls back.        *)
Scrape(query, found) ==
  /\ \A a \in query.alerts : cached[a] = {}
  /\ \A l \in found : OnPage(Url(query.params), Truth[l])
  /\ \A l \in found : Storable(Labelled(query.params, Truth[l]))
  /\ stored' = [l \in Listings |-> IF l \in found THEN Labelled(query.params, Truth[l]) ELSE stored[l]]
  /\ cached' = [a \in Alerts |-> IF SameSearch(a, query.params) THEN {found} ELSE cached[a]]
  /\ matches' = matches \union {m \in query.alerts \X found : Satisfied(tree[m[1]], stored'[m[2]])}
  /\ UNCHANGED tree

(* _load_candidates: the properties as they are by now *)
Candidates(a) == {l \in UNION cached[a] : stored[l] # Nothing}

(* Cache hit: the alerts are evaluated again over what is stored *)
ServeFromCache(query) ==
  /\ \A a \in query.alerts : cached[a] # {}
  /\ matches' = matches \union
       {m \in query.alerts \X Listings : /\ m[2] \in Candidates(m[1])
                                         /\ Satisfied(tree[m[1]], stored[m[2]])}
  /\ UNCHANGED <<tree, stored, cached>>

CacheExpires(a) ==
  /\ cached[a] # {}
  /\ cached' = [b \in Alerts |-> IF SameSearch(b, PushableParams(tree[a])) THEN {} ELSE cached[b]]
  /\ UNCHANGED <<tree, stored, matches>>

Next ==
  \/ \E due \in SUBSET Alerts : \E query \in Plan(due) :
       \/ \E found \in SUBSET Listings : Scrape(query, found)
       \/ ServeFromCache(query)
  \/ \E a \in Alerts : CacheExpires(a)

Spec == Init /\ [][Next]_vars

-----------------------------------------------------------------------------
(* Properties *)

TypeOK ==
  /\ tree \in [Alerts -> Trees]
  /\ stored \in [Listings -> Canonical \union {Nothing}]
  /\ cached \in [Alerts -> SUBSET (SUBSET Listings)]
  /\ matches \subseteq Alerts \X Listings

Admits(params, prop) ==
  /\ \A field \in EnumFields : params[field] # Absent => prop[field] = params[field]
  /\ params["price_min"] # Absent => prop.price # Absent /\ params["price_min"] <= prop.price
  /\ params["price_max"] # Absent => prop.price # Absent /\ prop.price <= params["price_max"]

(* Pushing conditions to the portal never asks for less than an alert       *)
(* wants: whatever the tree, and whichever alerts share the search, the     *)
(* parameters admit every listing that satisfies one of them                *)
(* (search_planner.py: "only narrows what gets downloaded").                *)
PushdownSound ==
  \A due \in SUBSET Alerts : \A query \in Plan(due) : \A a \in query.alerts, l \in Listings :
    Satisfied(tree[a], Truth[l]) => Admits(query.params, Truth[l])

(* An alert whose search the scraper can express and whose conditions the   *)
(* result page can decide: it names type, operation and province, and asks  *)
(* nothing about fields no card states                                      *)
Expressible(t) ==
  LET params == PushableParams(t) IN
  /\ params["property_type"] \in SearchTypes
  /\ params["listing_type"] \in SearchListingTypes
  /\ params["province"] \in Provinces
OnCard(leaves) == \A i \in DOMAIN leaves : leaves[i].field # "rooms"
Precise(t) ==
  /\ Expressible(t)
  /\ OnCard(t.leaves)
  /\ \A i \in DOMAIN t.groups : OnCard(t.groups[i].leaves)

(* A precise alert misses nothing: every listing that really satisfies it   *)
(* is on the page its shared search asks for, and comes back from scraper   *)
(* and normalizer still satisfying it (labels and vocabulary are inverse,   *)
(* price and size keep their quotient) and in a state to be stored.         *)
PreciseFindsAll ==
  \A due \in SUBSET Alerts : \A query \in Plan(due) : \A a \in query.alerts, l \in Listings :
    Precise(tree[a]) /\ Satisfied(tree[a], Truth[l])
      => /\ OnPage(Url(query.params), Truth[l])
         /\ Satisfied(tree[a], Labelled(query.params, Truth[l]))
         /\ Storable(Truth[l]) => Storable(Labelled(query.params, Truth[l]))

(* The types that share no page with another type *)
OwnPage(t) == TypeSegment(PushableParams(t)["property_type"]) # "viviendas"

(* An alert that asks for nothing to be unknown: conditions on fields no    *)
(* card states are allowed, but not that such a field is not stated, nor    *)
(* the negation of a condition on it                                        *)
Cautious(leaves) ==
  \A i \in DOMAIN leaves : leaves[i].field = "rooms" => leaves[i].op # "NOT_EXISTS"
GuessesNothing(t) ==
  /\ Expressible(t)
  /\ Cautious(t.leaves)
  /\ \A i \in DOMAIN t.groups :
       \/ OnCard(t.groups[i].leaves)
       \/ t.groups[i].operator # "NONE" /\ Cautious(t.groups[i].leaves)

(* An alert for a type with a page of its own that guesses nothing only     *)
(* matches what deserves it: what the page leaves out never makes a         *)
(* condition true (a None fails every comparison), and other searches may   *)
(* relabel its listings between its scrape and its cache hits.              *)
UnknownNeverHelps ==
  \A m \in matches :
    GuessesNothing(tree[m[1]]) /\ OwnPage(tree[m[1]]) => Satisfied(tree[m[1]], Truth[m[2]])

(* "this only narrows what gets downloaded, never what counts as a match"   *)
(* (search_planner.py): a match satisfies the conditions of its alert.      *)
MatchesDeserved == \A m \in matches : Satisfied(tree[m[1]], Truth[m[2]])

-----------------------------------------------------------------------------
(* The inductive strengthening *)

(* A stored property is a listing of a page under the labels of its search. *)
StoredFromPage ==
  \A l \in Listings :
    stored[l] # Nothing =>
      \E a \in Alerts :
        LET params == PushableParams(tree[a]) IN
        OnPage(Url(params), Truth[l]) /\ stored[l] = Labelled(params, Truth[l])

IInv == TypeOK /\ StoredFromPage /\ UnknownNeverHelps
=============================================================================
