------------------------ MODULE PortalSearch_proofs ------------------------
(***************************************************************************)
(* Proofs about PortalSearch, for any alerts, trees, provinces and         *)
(* listings: what is pushed to the portal is implied by the conditions,    *)
(* labels and vocabulary are inverse, and a precise alert with a page of   *)
(* its own finds everything and only what deserves it.                     *)
(***************************************************************************)
EXTENDS PortalSearch, SequenceTheorems, WellFoundedInduction, TLAPS

(* Every parameter that is set comes from the last of the leaves that set   *)
(* it, and there is such a leaf (_pushable_params overwrites).              *)
LEMMA LastPushes ==
  ASSUME NEW t, IsList(t.leaves), NEW param, Pushing(t, param) # {}
  PROVE  LastPushing(t, param) \in Pushing(t, param)
<1> DEFINE n == Len(t.leaves)
           Less == {ss \in Nat \X Nat : ss[1] < ss[2]}
           FromEnd == {n - i : i \in Pushing(t, param)}
<1>1. n \in Nat /\ \A i \in Pushing(t, param) : i \in 1 .. n
  BY DEF IsList, Pushing
<1>2. FromEnd \subseteq Nat /\ FromEnd # {}
  BY <1>1
<1>3. PICK x \in FromEnd : \A y \in FromEnd : <<y, x>> \notin Less
  <2>1. IsWellFoundedOn(Less, Nat)
    BY NatLessThanWellFounded DEF OpToRel
  <2> QED BY <2>1, <1>2, WFMin
<1>4. PICK i \in Pushing(t, param) : x = n - i
  BY <1>3
<1>5. \A j \in Pushing(t, param) : j <= i
  <2> TAKE j \in Pushing(t, param)
  <2>1. n - j \in FromEnd /\ n - j \in Nat /\ n - i \in Nat
    BY <1>2
  <2>2. <<n - j, n - i>> \notin Less
    BY <2>1, <1>3, <1>4
  <2>3. ~(n - j < n - i)
    BY <2>1, <2>2
  <2> QED BY <2>3, <1>1
<1> QED BY <1>5 DEF LastPushing

(* What is pushed is implied: a property that satisfies a tree is admitted  *)
(* by the parameters the tree is reduced to.                                *)
LEMMA PushedIsImplied ==
  ASSUME NEW t, WellFormedTree(t), NEW prop, Satisfied(t, prop)
  PROVE  Admits(PushableParams(t), prop)
<1> DEFINE params == PushableParams(t)
<1>1. ASSUME NEW param \in Params, params[param] # Absent
      PROVE  \E i \in DOMAIN t.leaves :
               /\ param \in Pushes(t.leaves[i])
               /\ params[param] = PushedValue(t.leaves[i], param)
               /\ LeafHolds(t.leaves[i], prop)
  <2>1. t.operator = "ALL" /\ Pushing(t, param) # {}
    BY <1>1 DEF PushableParams
  <2>2. params[param] = PushedValue(t.leaves[LastPushing(t, param)], param)
    BY <2>1 DEF PushableParams
  <2>3. LastPushing(t, param) \in Pushing(t, param)
    BY <2>1, LastPushes DEF WellFormedTree
  <2>4. ASSUME NEW i \in DOMAIN t.leaves PROVE LeafHolds(t.leaves[i], prop)
    <3>1. FALSE \notin {LeafHolds(t.leaves[k], prop) : k \in DOMAIN t.leaves}
      BY <2>1 DEF Satisfied, Combine
    <3>2. LeafHolds(t.leaves[i], prop) # FALSE
      BY <3>1, Zenon
    <3> QED BY <3>2 DEF LeafHolds, ComparesPerM2, Compares, Meets
  <2> QED BY <2>2, <2>3, <2>4 DEF Pushing
<1>2. ASSUME NEW field \in EnumFields, params[field] # Absent
      PROVE  prop[field] = params[field]
  <2>1. field \in Params
    BY DEF Params
  <2>2. PICK i \in DOMAIN t.leaves :
               /\ field \in Pushes(t.leaves[i])
               /\ params[field] = PushedValue(t.leaves[i], field)
               /\ LeafHolds(t.leaves[i], prop)
    BY <2>1, <1>1, <1>2
  <2>3. t.leaves[i].field = field /\ t.leaves[i].op = "EQ"
    BY <2>2 DEF Pushes, EnumFields
  <2> QED BY <2>2, <2>3 DEF PushedValue, LeafHolds, Compares, Meets, EnumFields
<1>3. ASSUME NEW bound \in {"price_min", "price_max"}, params[bound] # Absent
      PROVE  /\ prop.price # Absent
             /\ bound = "price_min" => params[bound] <= prop.price
             /\ bound = "price_max" => prop.price <= params[bound]
  <2>1. bound \in Params
    BY DEF Params
  <2>2. PICK i \in DOMAIN t.leaves :
               /\ bound \in Pushes(t.leaves[i])
               /\ params[bound] = PushedValue(t.leaves[i], bound)
               /\ LeafHolds(t.leaves[i], prop)
    BY <2>1, <1>1, <1>3
  <2>3. /\ t.leaves[i].field = "price"
        /\ \/ t.leaves[i].op = "LTE" /\ bound = "price_max"
           \/ t.leaves[i].op = "GTE" /\ bound = "price_min"
           \/ t.leaves[i].op = "BETWEEN"
    BY <2>2 DEF Pushes, EnumFields
  <2> QED BY <2>2, <2>3 DEF PushedValue, LeafHolds, Compares, Meets
<1> QED BY <1>2, <1>3 DEF Admits

(* What the stored property has from the result page; price_per_m2 follows. *)
Stated == EnumFields \union {"price", "area"}

(* A condition a card can decide gets the same verdict from two properties  *)
(* that agree on what a result page states, ...                             *)
LEMMA SameLeaf ==
  ASSUME NEW leaf, WellFormed(leaf), leaf.field # "rooms",
         NEW p, NEW q, \A field \in Stated : p[field] = q[field]
  PROVE  LeafHolds(leaf, p) = LeafHolds(leaf, q)
<1>1. leaf.field \in Stated \union {"price_per_m2"}
  BY DEF WellFormed, Fields, NumericFields, Stated
<1>2. p.price = q.price /\ p.area = q.area
  BY DEF Stated
<1>3. CASE leaf.field = "price_per_m2"
  BY <1>2, <1>3 DEF LeafHolds, ComparesPerM2, HasPricePerM2
<1>4. CASE leaf.field \in Stated
  BY <1>4 DEF LeafHolds, Stated, EnumFields
<1> QED BY <1>1, <1>3, <1>4

(* ... and so does a tree of such conditions.                               *)
LEMMA SameVerdict ==
  ASSUME NEW t, WellFormedTree(t), OnCard(t.leaves),
         \A i \in DOMAIN t.groups : OnCard(t.groups[i].leaves),
         NEW p, NEW q, \A field \in Stated : p[field] = q[field]
  PROVE  Satisfied(t, p) = Satisfied(t, q)
<1>1. ASSUME NEW leaf, WellFormed(leaf), leaf.field # "rooms"
      PROVE  LeafHolds(leaf, p) = LeafHolds(leaf, q)
  BY <1>1, SameLeaf
<1>2. {LeafHolds(t.leaves[i], p) : i \in DOMAIN t.leaves}
        = {LeafHolds(t.leaves[i], q) : i \in DOMAIN t.leaves}
  <2>1. \A i \in DOMAIN t.leaves : LeafHolds(t.leaves[i], p) = LeafHolds(t.leaves[i], q)
    BY <1>1 DEF OnCard, WellFormedTree
  <2> QED BY <2>1, Zenon
<1>3. ASSUME NEW k \in DOMAIN t.groups
      PROVE  GroupHolds(t.groups[k], p) = GroupHolds(t.groups[k], q)
  <2>1. \A i \in DOMAIN t.groups[k].leaves :
          LeafHolds(t.groups[k].leaves[i], p) = LeafHolds(t.groups[k].leaves[i], q)
    BY <1>1 DEF OnCard, WellFormedTree, WellFormedGroup
  <2>2. {LeafHolds(t.groups[k].leaves[i], p) : i \in DOMAIN t.groups[k].leaves}
          = {LeafHolds(t.groups[k].leaves[i], q) : i \in DOMAIN t.groups[k].leaves}
    BY <2>1, Zenon
  <2> QED BY <2>2, Zenon DEF GroupHolds
<1>4. {GroupHolds(t.groups[i], p) : i \in DOMAIN t.groups}
        = {GroupHolds(t.groups[i], q) : i \in DOMAIN t.groups}
  BY <1>3, Zenon
<1> QED BY <1>2, <1>4, Zenon DEF Satisfied

(* A condition that holds with the rooms unknown holds whatever they are,   *)
(* unless it asks for them to be unknown: None fails every comparison.      *)
LEMMA LeafFuller ==
  ASSUME NEW leaf, WellFormed(leaf), leaf.field = "rooms" => leaf.op # "NOT_EXISTS",
         NEW p, NEW q, \A field \in Stated : p[field] = q[field], p.rooms = Absent,
         LeafHolds(leaf, p)
  PROVE  LeafHolds(leaf, q)
<1>1. leaf.field \in Stated \union {"price_per_m2", "rooms"}
  BY DEF WellFormed, Fields, NumericFields, Stated
<1>2. p.price = q.price /\ p.area = q.area
  BY DEF Stated
<1>3. CASE leaf.field = "price_per_m2"
  BY <1>2, <1>3 DEF LeafHolds, ComparesPerM2, HasPricePerM2
<1>4. CASE leaf.field \in Stated
  BY <1>4 DEF LeafHolds, Stated, EnumFields
<1>5. CASE leaf.field = "rooms"
  <2>1. leaf.op = "EQ" /\ leaf.value = Absent
    BY <1>5 DEF LeafHolds, Compares
  <2>2. leaf.value \in Nat
    BY <1>5, <2>1 DEF WellFormed, Nullary, EnumFields, Orderings
  <2> QED BY <2>1, <2>2, AbsentAssumption
<1> QED BY <1>1, <1>3, <1>4, <1>5

(* Nor does knowing more undo a group that guesses nothing, ...             *)
LEMMA GroupFuller ==
  ASSUME NEW g, WellFormedGroup(g), OnCard(g.leaves) \/ (g.operator # "NONE" /\ Cautious(g.leaves)),
         NEW p, NEW q, \A field \in Stated : p[field] = q[field], p.rooms = Absent,
         GroupHolds(g, p)
  PROVE  GroupHolds(g, q)
<1>1. \A i \in DOMAIN g.leaves : WellFormed(g.leaves[i])
  BY DEF WellFormedGroup
<1>2. CASE OnCard(g.leaves)
  <2>1. \A i \in DOMAIN g.leaves : LeafHolds(g.leaves[i], p) = LeafHolds(g.leaves[i], q)
    BY <1>1, <1>2, SameLeaf DEF OnCard
  <2>2. {LeafHolds(g.leaves[i], p) : i \in DOMAIN g.leaves}
          = {LeafHolds(g.leaves[i], q) : i \in DOMAIN g.leaves}
    BY <2>1, Zenon
  <2> QED BY <2>2, Zenon DEF GroupHolds
<1>3. CASE g.operator # "NONE" /\ Cautious(g.leaves)
  <2>1. \A i \in DOMAIN g.leaves : LeafHolds(g.leaves[i], p) => LeafHolds(g.leaves[i], q)
    BY <1>1, <1>3, LeafFuller DEF Cautious
  <2>2. /\ \A i \in DOMAIN g.leaves : LeafHolds(g.leaves[i], p) \in BOOLEAN
        /\ \A i \in DOMAIN g.leaves : LeafHolds(g.leaves[i], q) \in BOOLEAN
    BY DEF LeafHolds, ComparesPerM2, Compares, Meets
  <2>3. CASE g.operator = "ALL" /\ FALSE \notin {LeafHolds(g.leaves[i], p) : i \in DOMAIN g.leaves}
    <3>1. ASSUME NEW i \in DOMAIN g.leaves PROVE LeafHolds(g.leaves[i], q) # FALSE
      <4>1. LeafHolds(g.leaves[i], p) # FALSE
        BY <2>3, Zenon
      <4> QED BY <2>1, <2>2, <4>1
    <3>2. FALSE \notin {LeafHolds(g.leaves[i], q) : i \in DOMAIN g.leaves}
      BY <3>1, Zenon
    <3> QED BY <2>3, <3>2, Zenon DEF GroupHolds, Combine
  <2>4. CASE g.operator = "ANY" /\ TRUE \in {LeafHolds(g.leaves[i], p) : i \in DOMAIN g.leaves}
    <3>1. TRUE \in {LeafHolds(g.leaves[i], q) : i \in DOMAIN g.leaves}
      BY <2>1, <2>2, <2>4, Zenon
    <3> QED BY <2>4, <3>1, Zenon DEF GroupHolds, Combine
  <2> QED BY <1>3, <2>3, <2>4, Zenon DEF GroupHolds, Combine
<1> QED BY <1>2, <1>3

(* ... nor a tree of them: a property that satisfies it as far as the page  *)
(* tells satisfies it.                                                      *)
LEMMA FullerVerdict ==
  ASSUME NEW t, WellFormedTree(t), t.operator = "ALL", Cautious(t.leaves),
         \A i \in DOMAIN t.groups :
           \/ OnCard(t.groups[i].leaves)
           \/ t.groups[i].operator # "NONE" /\ Cautious(t.groups[i].leaves),
         NEW p, NEW q, \A field \in Stated : p[field] = q[field], p.rooms = Absent,
         Satisfied(t, p)
  PROVE  Satisfied(t, q)
<1>1. FALSE \notin {LeafHolds(t.leaves[i], p) : i \in DOMAIN t.leaves}
        \union {GroupHolds(t.groups[i], p) : i \in DOMAIN t.groups}
  BY DEF Satisfied, Combine
<1>2. ASSUME NEW i \in DOMAIN t.leaves PROVE LeafHolds(t.leaves[i], q) # FALSE
  <2>1. LeafHolds(t.leaves[i], p) # FALSE
    BY <1>1, Zenon
  <2>2. LeafHolds(t.leaves[i], p)
    BY <2>1 DEF LeafHolds, ComparesPerM2, Compares, Meets
  <2>3. LeafHolds(t.leaves[i], q)
    BY <2>2, LeafFuller DEF Cautious, WellFormedTree
  <2> QED BY <2>3
<1>3. ASSUME NEW i \in DOMAIN t.groups PROVE GroupHolds(t.groups[i], q) # FALSE
  <2>1. PICK g : g = t.groups[i]
    OBVIOUS
  <2>2. GroupHolds(g, p) # FALSE
    BY <1>1, <2>1, Zenon
  <2>3. GroupHolds(g, p)
    BY <2>2 DEF GroupHolds, Combine
  <2>4. /\ WellFormedGroup(g)
        /\ OnCard(g.leaves) \/ (g.operator # "NONE" /\ Cautious(g.leaves))
    <3>1. \A k \in DOMAIN t.groups : WellFormedGroup(t.groups[k])
      BY Zenon DEF WellFormedTree
    <3> QED BY <2>1, <3>1, Zenon
  <2>5. GroupHolds(g, q)
    BY <2>3, <2>4, GroupFuller
  <2> QED BY <2>1, <2>5
<1>4. FALSE \notin {LeafHolds(t.leaves[i], q) : i \in DOMAIN t.leaves}
        \union {GroupHolds(t.groups[i], q) : i \in DOMAIN t.groups}
  BY <1>2, <1>3, Zenon
<1> QED BY <1>4, Zenon DEF Satisfied, Combine

(* Labels and vocabulary are inverse on what the scraper can search for.    *)
LEMMA TypeRoundTrip ==
  \A type \in SearchTypes : ResolveType(Folded(TypeLabel(type))) = type
<1>1. ASSUME NEW letters
      PROVE  /\ Folded(Word(letters)).marks = {} /\ Folded(Word(letters)).letters = letters
             /\ Folded(AccentedWord(letters)).marks = {}
             /\ Folded(AccentedWord(letters)).letters = letters
  BY DEF Folded, Word, AccentedWord
<1>2. ASSUME NEW type \in SearchTypes
      PROVE  /\ Folded(TypeLabel(type)).marks = {}
             /\ type = "LAND" => Folded(TypeLabel(type)).letters = "suelo"
             /\ type = "PENTHOUSE" => Folded(TypeLabel(type)).letters = "atico"
             /\ type = "DUPLEX" => Folded(TypeLabel(type)).letters = "duplex"
             /\ type = "STUDIO" => Folded(TypeLabel(type)).letters = "estudio"
             /\ type = "HOUSE" => Folded(TypeLabel(type)).letters = "casa"
             /\ type = "CHALET" => Folded(TypeLabel(type)).letters = "chalet"
             /\ type = "GARAGE" => Folded(TypeLabel(type)).letters = "garaje"
             /\ type = "STORAGE_ROOM" => Folded(TypeLabel(type)).letters = "trastero"
             /\ type = "OFFICE" => Folded(TypeLabel(type)).letters = "oficina"
             /\ type = "COMMERCIAL" => Folded(TypeLabel(type)).letters = "local"
             /\ type = "BUILDING" => Folded(TypeLabel(type)).letters = "edificio"
             /\ type = "FLAT" => Folded(TypeLabel(type)).letters = "piso"
  BY <1>1 DEF TypeLabel, SearchTypes
<1> QED BY <1>2 DEF SearchTypes, ResolveType

LEMMA ListingTypeRoundTrip ==
  \A o \in SearchListingTypes : ResolveListingType(Folded(ListingLabel(o))) = o
BY DEF SearchListingTypes, ResolveListingType, Folded, ListingLabel, Word

LEMMA FirstName ==
  ASSUME NEW code \in Provinces
  PROVE  /\ 1 \in DOMAIN Names[code]
         /\ Folded(Names[code][1]).marks = {}
         /\ Folded(Names[code][1]).letters = Names[code][1].letters
<1>1. Names[code] \in Seq(Texts) /\ Names[code] # <<>>
  BY NamesAssumption
<1>2. Len(Names[code]) \in Nat /\ Len(Names[code]) # 0
  BY <1>1, EmptySeq, LenProperties
<1>3. 1 \in DOMAIN Names[code] /\ Names[code][1] \in Texts
  BY <1>1, <1>2, LenProperties, ElementOfSeq
<1> QED BY <1>3 DEF Folded, Texts

(* The first part of a name tells its province.                             *)
LEMMA FirstNameTells ==
  ASSUME NEW code \in Provinces
  PROVE  /\ Names[code][1].letters # ""
         /\ Spelt(Names[code][1].letters) = {code}
         /\ Meant(Names[code][1].letters) = {code}
<1>1. 1 \in DOMAIN Names[code]
  BY FirstName
<1>2. \A i \in DOMAIN Names[code] : /\ Names[code][i].letters # ""
                                    /\ Spelt(Names[code][i].letters) = {code}
                                    /\ Meant(Names[code][i].letters) = {code}
  BY NamesAssumption, Zenon
<1> QED BY <1>1, <1>2

LEMMA ProvinceRoundTrip ==
  ASSUME NEW code \in Provinces
  PROVE  ResolveProvince(Folded(ProvinceLabel(code))) = code
<1>1. ASSUME NEW text, text.marks = {}, text.letters = Names[code][1].letters
      PROVE  ResolveProvince(text) = code
  <2>1. Meant(text.letters) = {code}
    BY <1>1, FirstNameTells
  <2>2. (CHOOSE p \in Meant(text.letters) : TRUE) = code
    BY <2>1
  <2> QED BY <2>1, <2>2, <1>1 DEF ResolveProvince
<1>2. ProvinceLabel(code) = Names[code][1]
  BY DEF ProvinceLabel
<1> QED BY <1>1, <1>2, FirstName

(* The empty text is no province.                                           *)
LEMMA NothingMeant == Meant("") = {}
<1>1. ASSUME NEW p \in Provinces, NEW i \in DOMAIN Names[p]
      PROVE  Folded(Names[p][i]).letters # ""
  <2>1. Names[p][i].letters # ""
    BY NamesAssumption, Zenon
  <2>2. Names[p][i] \in Texts
    <3>1. Names[p] \in Seq(Texts)
      BY NamesAssumption
    <3> QED BY <3>1, LenProperties, ElementOfSeq
  <2> QED BY <2>1, <2>2 DEF Folded, Texts
<1>2. Spelt("") = {}
  BY <1>1 DEF Spelt
<1> QED BY <1>2, NamesAssumption DEF Meant

(* A price is parsed to what the card says.                                 *)
LEMMA MoneyRoundTrip == \A price \in Prices : ParseMoney(NumberText(price)) = price
<1> TAKE price \in Prices
<1>1. CASE price = Absent
  BY <1>1 DEF ParseMoney, NumberText
<1>2. CASE price # Absent
  <2>1. price \in Nat
    BY <1>2 DEF Prices
  <2>2. price = 1000 * (price \div 1000) + (price % 1000)
    BY <2>1
  <2> QED BY <1>2, <2>2 DEF ParseMoney, NumberText
<1> QED BY <1>1, <1>2

(* So is a size, which is never 0.                                          *)
LEMMA AreaRoundTrip == \A area \in Areas : ParseArea(NumberText(area)) = area
<1> TAKE area \in Areas
<1>1. area \in Prices /\ (area = 0 => Absent = 0)
  BY DEF Areas, Prices
<1>2. ParseMoney(NumberText(area)) = area
  BY <1>1, MoneyRoundTrip
<1> QED BY <1>1, <1>2 DEF ParseArea

(* What a listing looks like once scraped and normalized.                   *)
LEMMA LabelledFields ==
  ASSUME NEW params, NEW prop
  PROVE  LET row == Labelled(params, prop) IN
         /\ row = [province |-> row.province, property_type |-> row.property_type,
                   listing_type |-> row.listing_type, price |-> ParseMoney(NumberText(prop.price)),
                   area |-> ParseArea(NumberText(prop.area)), rooms |-> Absent]
         /\ row.province = ResolveProvince(Folded(ProvinceLabel(params["province"])))
         /\ row.property_type = ResolveType(Folded(TypeLabel(params["property_type"])))
         /\ row.listing_type = ResolveListingType(Folded(ListingLabel(params["listing_type"])))
BY DEF Labelled, Normalized, RawListing

(* Normalizing always yields a canonical property: every vocabulary has its *)
(* fallback (vocabularies.py: "total").                                     *)
LEMMA LabelledIsCanonical ==
  ASSUME NEW params, NEW prop \in Canonical
  PROVE  Labelled(params, prop) \in Canonical
<1>1. \A text : ResolveType(text) \in SearchTypes \union {"OTHER"}
  BY DEF ResolveType, SearchTypes
<1>2. \A text : ResolveListingType(text) \in SearchListingTypes \union {"OTHER"}
  BY DEF ResolveListingType, SearchListingTypes
<1>3. \A text : ResolveProvince(text) \in Provinces \union {"00"}
  <2> TAKE text
  <2>1. Meant(text.letters) \subseteq Provinces
    BY NamesAssumption DEF Meant, Spelt
  <2>2. CASE Meant(text.letters) # {}
    <3>1. (CHOOSE p \in Meant(text.letters) : TRUE) \in Provinces
      BY <2>1, <2>2
    <3> QED BY <3>1 DEF ResolveProvince
  <2>3. CASE Meant(text.letters) = {}
    BY <2>3 DEF ResolveProvince
  <2> QED BY <2>2, <2>3
<1>4. prop.price \in Prices /\ prop.area \in Areas /\ Absent \in Prices
  BY DEF Canonical, Prices
<1> DEFINE row == Labelled(params, prop)
<1>5. /\ row.province \in Provinces \union {"00"}
      /\ row.property_type \in SearchTypes \union {"OTHER"}
      /\ row.listing_type \in SearchListingTypes \union {"OTHER"}
  BY <1>1, <1>2, <1>3, LabelledFields
<1>6. row = [province |-> row.province, property_type |-> row.property_type,
             listing_type |-> row.listing_type, price |-> prop.price, area |-> prop.area,
             rooms |-> Absent]
  BY LabelledFields, MoneyRoundTrip, AreaRoundTrip, <1>4
<1> HIDE DEF row
<1>7. row \in Canonical
  BY <1>4, <1>5, <1>6 DEF Canonical, Province
<1> QED BY <1>7 DEF row

(* A label is true when it names a type with a page of its own, an          *)
(* operation or a province: the page then has nothing else.                 *)
LEMMA LabelsTrue ==
  ASSUME NEW params, NEW prop, OnPage(Url(params), prop),
         prop.province \in Provinces, prop.property_type \in SearchTypes,
         prop.listing_type \in SearchListingTypes,
         Labelled(params, prop).property_type \in SearchTypes,
         TypeSegment(Labelled(params, prop).property_type) # "viviendas",
         Labelled(params, prop).listing_type \in SearchListingTypes,
         Labelled(params, prop).province \in Provinces
  PROVE  /\ Labelled(params, prop).property_type = prop.property_type
         /\ Labelled(params, prop).listing_type = prop.listing_type
         /\ Labelled(params, prop).province = prop.province
<1> DEFINE row == Labelled(params, prop)
<1>1. row.property_type = prop.property_type
  <2> DEFINE searched == params["property_type"]
  <2>1. TypeSegment(searched) = TypeSegment(prop.property_type)
    BY DEF OnPage, Url
  <2>2. row.property_type = ResolveType(Folded(TypeLabel(searched)))
    BY LabelledFields
  <2>3. searched \in SearchTypes
    <3>1. SUFFICES ASSUME searched \notin SearchTypes PROVE FALSE
      OBVIOUS
    <3>2. TypeLabel(searched) = TypeLabel("FLAT")
      BY <3>1 DEF TypeLabel, SearchTypes
    <3>3. row.property_type = "FLAT"
      BY <2>2, <3>2, TypeRoundTrip DEF SearchTypes
    <3> QED BY <3>3 DEF TypeSegment
  <2>4. row.property_type = searched
    BY <2>2, <2>3, TypeRoundTrip
  <2>5. TypeSegment(searched) = TypeSegment(prop.property_type) /\ TypeSegment(searched) # "viviendas"
    BY <2>1, <2>4
  <2>6. searched = prop.property_type
    BY <2>3, <2>5 DEF SearchTypes, TypeSegment
  <2> QED BY <2>4, <2>6
<1>2. row.listing_type = prop.listing_type
  <2> DEFINE searched == params["listing_type"]
  <2>1. ListingSegment(searched) = ListingSegment(prop.listing_type)
    BY DEF OnPage, Url
  <2>2. row.listing_type = ResolveListingType(Folded(ListingLabel(searched)))
    BY LabelledFields
  <2>3. ListingLabel(searched) = ListingLabel(prop.listing_type)
    BY <2>1 DEF ListingSegment, ListingLabel
  <2> QED BY <2>2, <2>3, ListingTypeRoundTrip
<1>3. row.province = prop.province
  <2> DEFINE searched == params["province"]
  <2>1. row.province = ResolveProvince(Folded(ProvinceLabel(searched)))
    BY LabelledFields
  <2>2. searched \in Provinces
    <3>1. SUFFICES ASSUME searched \notin Provinces PROVE FALSE
      OBVIOUS
    <3>2. Folded(ProvinceLabel(searched)).letters = ""
      BY <3>1 DEF ProvinceLabel, Folded, NoText
    <3>3. Meant("") = {}
      BY NothingMeant
    <3>4. row.province = "00"
      BY <2>1, <3>2, <3>3 DEF ResolveProvince
    <3> QED BY <3>4, NamesAssumption
  <2>3. row.province = searched
    BY <2>1, <2>2, ProvinceRoundTrip
  <2>4. ProvinceSlug(searched) \in {"", ProvinceSlug(prop.province)}
    BY DEF OnPage, Url
  <2>5. ASSUME NEW code \in Provinces
        PROVE  ProvinceSlug(code) # "" /\ Spelt(ProvinceSlug(code)) = {code}
    <3>1. ProvinceSlug(code) = Names[code][1].letters
      BY FirstName DEF ProvinceSlug, ProvinceLabel
    <3> QED BY <3>1, FirstNameTells
  <2>6. Spelt(ProvinceSlug(searched)) = {searched} /\ Spelt(ProvinceSlug(prop.province)) = {prop.province}
        /\ ProvinceSlug(searched) # ""
    BY <2>2, <2>5
  <2>7. searched = prop.province
    BY <2>4, <2>6
  <2> QED BY <2>3, <2>7
<1> QED BY <1>1, <1>2, <1>3
(* None is no canonical value.                                              *)
LEMMA NotAbsent == /\ Absent \notin SearchTypes
                   /\ Absent \notin SearchListingTypes
                   /\ Absent \notin Provinces
<1>1. Absent \notin STRING /\ Provinces \subseteq STRING
  BY AbsentAssumption, NamesAssumption
<1> QED BY <1>1, AbsentIsNoType

(* What an alert that guesses nothing finds labelled as it asks for is what  *)
(* it asks for.                                                             *)
LEMMA MatchDeserved ==
  ASSUME NEW t, WellFormedTree(t), GuessesNothing(t), OwnPage(t), NEW params, NEW l \in Listings,
         OnPage(Url(params), Truth[l]), Satisfied(t, Labelled(params, Truth[l]))
  PROVE  Satisfied(t, Truth[l])
<1> DEFINE row == Labelled(params, Truth[l])
           asked == PushableParams(t)
<1>1. Admits(asked, row)
  BY PushedIsImplied
<1>2. /\ asked["property_type"] \in SearchTypes /\ asked["listing_type"] \in SearchListingTypes
      /\ asked["province"] \in Provinces /\ TypeSegment(asked["property_type"]) # "viviendas"
  BY DEF GuessesNothing, Expressible, OwnPage
<1>3. \A field \in EnumFields : asked[field] # Absent
  BY <1>2, NotAbsent DEF EnumFields
<1>4. \A field \in EnumFields : row[field] = asked[field]
  BY <1>1, <1>3 DEF Admits
<1>5. /\ row.property_type = asked["property_type"] /\ row.listing_type = asked["listing_type"]
      /\ row.province = asked["province"]
  BY <1>4 DEF EnumFields
<1>6. /\ Truth[l].province \in Provinces /\ Truth[l].property_type \in SearchTypes
      /\ Truth[l].listing_type \in SearchListingTypes
  BY ListingsAssumption
<1>7. /\ row.property_type = Truth[l].property_type /\ row.listing_type = Truth[l].listing_type
      /\ row.province = Truth[l].province
  BY <1>2, <1>5, <1>6, LabelsTrue
<1>8. row.price = Truth[l].price /\ row.area = Truth[l].area
  BY ListingsAssumption, MoneyRoundTrip, AreaRoundTrip
     DEF Labelled, Normalized, RawListing, Canonical
<1>9. \A field \in Stated : row[field] = Truth[l][field]
  BY <1>7, <1>8 DEF Stated, EnumFields
<1>10. row.rooms = Absent
  BY DEF Labelled, Normalized
<1>11. t.operator = "ALL"
  BY <1>2, NotAbsent DEF PushableParams, Params, EnumFields
<1>12. /\ Cautious(t.leaves)
       /\ \A i \in DOMAIN t.groups :
            \/ OnCard(t.groups[i].leaves)
            \/ t.groups[i].operator # "NONE" /\ Cautious(t.groups[i].leaves)
  BY DEF GuessesNothing
<1> HIDE DEF row
<1> QED BY <1>9, <1>10, <1>11, <1>12, FullerVerdict DEF row

(* Alerts that share a search push the same parameters (the signature).     *)
LEMMA SharedParams ==
  ASSUME tree \in [Alerts -> Trees], NEW due \in SUBSET Alerts, NEW query \in Plan(due),
         NEW a \in query.alerts
  PROVE  /\ query.alerts \subseteq Alerts /\ a \in Alerts
         /\ WellFormedTree(tree[a])
         /\ query.params = PushableParams(tree[a])
<1> DEFINE Group(b) == {c \in due : Signature(PushableParams(tree[c])) = Signature(PushableParams(tree[b]))}
<1>1. PICK b \in due : query = [alerts |-> Group(b), params |-> PushableParams(tree[CHOOSE c \in Group(b) : TRUE])]
  BY DEF Plan
<1>2. query.alerts = Group(b) /\ a \in Group(b) /\ Group(b) \subseteq Alerts
  BY <1>1
<1>3. (CHOOSE c \in Group(b) : TRUE) \in Group(b)
  BY <1>2
<1>4. PushableParams(tree[CHOOSE c \in Group(b) : TRUE]) = PushableParams(tree[a])
  <2>1. \A c \in Group(b) : PushableParams(tree[c]) = PushableParams(tree[b])
    BY DEF Signature
  <2> HIDE DEF Group
  <2> QED BY <2>1, <1>2, <1>3
<1>5. WellFormedTree(tree[a])
  BY <1>2, TreesAssumption
<1> QED BY <1>1, <1>2, <1>4, <1>5

LEMMA TreesFixed == Spec => [](tree \in [Alerts -> Trees])
<1>1. Init => tree \in [Alerts -> Trees]
  BY DEF Init
<1>2. tree \in [Alerts -> Trees] /\ [Next]_vars => (tree \in [Alerts -> Trees])'
  BY DEF Next, Scrape, ServeFromCache, CacheExpires, vars
<1> QED BY <1>1, <1>2, PTL DEF Spec

(* Pushing conditions to the portal never asks for less than an alert       *)
(* wants, whichever alerts share the search (SearchPlanner.plan).           *)
THEOREM PushdownSafe == Spec => []PushdownSound
<1>1. tree \in [Alerts -> Trees] => PushdownSound
  <2> SUFFICES ASSUME tree \in [Alerts -> Trees], NEW due \in SUBSET Alerts,
                      NEW query \in Plan(due), NEW a \in query.alerts, NEW l \in Listings,
                      Satisfied(tree[a], Truth[l])
               PROVE  Admits(query.params, Truth[l])
    BY DEF PushdownSound
  <2>1. WellFormedTree(tree[a]) /\ query.params = PushableParams(tree[a])
    BY SharedParams
  <2> QED BY <2>1, PushedIsImplied
<1> QED BY <1>1, TreesFixed, PTL

(* On one portal SearchPlanner.plan leaves no due alert out and gives none  *)
(* to two searches, and no two searches share a signature: this is what the *)
(* cycle assumes of its plan, and why a cache row has one worker of a run.  *)
THEOREM PlanPartitions ==
  ASSUME NEW due \in SUBSET Alerts
  PROVE  /\ \A a \in due : \E query \in Plan(due) : a \in query.alerts
         /\ \A query \in Plan(due) : query.alerts # {} /\ query.alerts \subseteq due
         /\ \A q, o \in Plan(due) :
              \/ q = o
              \/ /\ q.alerts \intersect o.alerts = {}
                 /\ Signature(q.params) # Signature(o.params)
<1> DEFINE Group(a) == {b \in due : PushableParams(tree[b]) = PushableParams(tree[a])}
           Query(a) == [alerts |-> Group(a), params |-> PushableParams(tree[a])]
<1>1. \A a \in due : PushableParams(tree[CHOOSE b \in Group(a) : TRUE]) = PushableParams(tree[a])
  <2> SUFFICES ASSUME NEW a \in due
               PROVE  PushableParams(tree[CHOOSE b \in Group(a) : TRUE]) = PushableParams(tree[a])
    OBVIOUS
  <2>1. (CHOOSE b \in Group(a) : TRUE) \in Group(a)
    BY a \in Group(a)
  <2> QED BY <2>1
<1>2. Plan(due) = {Query(a) : a \in due}
  BY <1>1 DEF Plan, Signature
<1>3. ASSUME NEW a \in due, NEW b \in due
      PROVE  \/ Query(a) = Query(b)
             \/ /\ Group(a) \intersect Group(b) = {}
                /\ PushableParams(tree[a]) # PushableParams(tree[b])
  OBVIOUS
<1>4. \A a \in due : /\ a \in Group(a) /\ Group(a) \subseteq due
                     /\ Query(a).alerts = Group(a)
                     /\ Signature(Query(a).params) = PushableParams(tree[a])
  BY DEF Signature
<1> HIDE DEF Group, Query
<1>5. \A q \in Plan(due) : \E a \in due : q = Query(a)
  BY <1>2
<1> QED BY <1>2, <1>3, <1>4, <1>5

(* A precise alert misses nothing: what satisfies it is on the page of its  *)
(* shared search and still satisfies it once labelled and normalized.       *)
THEOREM FindsAll == Spec => []PreciseFindsAll
<1>1. tree \in [Alerts -> Trees] => PreciseFindsAll
  <2> SUFFICES ASSUME tree \in [Alerts -> Trees], NEW due \in SUBSET Alerts,
                      NEW query \in Plan(due), NEW a \in query.alerts, NEW l \in Listings,
                      Precise(tree[a]), Satisfied(tree[a], Truth[l])
               PROVE  /\ OnPage(Url(query.params), Truth[l])
                      /\ Satisfied(tree[a], Labelled(query.params, Truth[l]))
                      /\ Storable(Truth[l]) => Storable(Labelled(query.params, Truth[l]))
    BY DEF PreciseFindsAll
  <2> DEFINE asked == PushableParams(tree[a])
             row == Labelled(asked, Truth[l])
  <2>1. WellFormedTree(tree[a]) /\ query.params = asked
    BY SharedParams
  <2>2. Admits(asked, Truth[l])
    BY <2>1, PushedIsImplied
  <2>3. /\ asked["property_type"] \in SearchTypes /\ asked["listing_type"] \in SearchListingTypes
        /\ asked["province"] \in Provinces
    BY DEF Precise, Expressible
  <2>4. \A field \in EnumFields : asked[field] # Absent
    BY <2>3, NotAbsent DEF EnumFields
  <2>5. \A field \in EnumFields : Truth[l][field] = asked[field]
    BY <2>2, <2>4 DEF Admits
  <2>6. /\ Truth[l].property_type = asked["property_type"]
        /\ Truth[l].listing_type = asked["listing_type"]
        /\ Truth[l].province = asked["province"]
    BY <2>5 DEF EnumFields
  <2>7. OnPage(Url(asked), Truth[l])
    BY <2>6 DEF OnPage, Url
  <2>8. /\ ParseMoney(NumberText(Truth[l].price)) = Truth[l].price
        /\ ParseArea(NumberText(Truth[l].area)) = Truth[l].area
    BY ListingsAssumption, MoneyRoundTrip, AreaRoundTrip DEF Canonical
  <2>9. /\ row.property_type = Truth[l].property_type /\ row.listing_type = Truth[l].listing_type
        /\ row.province = Truth[l].province
        /\ row.price = Truth[l].price /\ row.area = Truth[l].area
    BY <2>3, <2>6, <2>8, TypeRoundTrip, ListingTypeRoundTrip, ProvinceRoundTrip
       DEF Labelled, Normalized, RawListing
  <2>10. \A field \in Stated : row[field] = Truth[l][field]
    BY <2>9 DEF Stated, EnumFields
  <2>11. OnCard(tree[a].leaves) /\ \A i \in DOMAIN tree[a].groups : OnCard(tree[a].groups[i].leaves)
    BY DEF Precise
  <2>12. Satisfied(tree[a], row)
    <3> HIDE DEF row
    <3> QED BY <2>1, <2>10, <2>11, SameVerdict
  <2>13. Storable(row) <=> Storable(Truth[l])
    BY <2>9 DEF Storable, HasPricePerM2
  <2> QED BY <2>1, <2>7, <2>12, <2>13
<1> QED BY <1>1, TreesFixed, PTL

-----------------------------------------------------------------------------
(* The conditions of a range are about its field.                           *)
LEMMA RangeIsAboutField ==
  ASSUME NEW field, NEW range, NEW S,
         \A op \in {"BETWEEN", "GTE", "LTE"}, value \in {range, range[1], range[2]} :
           Leaf(field, op, value) \in S
  PROVE  PriceConditions(field, range) \in Seq(S)
BY DEF PriceConditions

(* Whatever is filled in on the dashboard's form, the alert is precise: it  *)
(* names type, operation and province once, and otherwise asks for prices.  *)
(* So the guarantees for precise alerts hold for every alert made with it.  *)
THEOREM FormsArePrecise == \A form \in Forms : Precise(FormTree(form))
<1> SUFFICES ASSUME NEW form \in Forms PROVE Precise(FormTree(form))
  OBVIOUS
<1> DEFINE t == FormTree(form)
           asked == <<Leaf("province", "EQ", form.province),
                      Leaf("property_type", "EQ", form.property_type),
                      Leaf("listing_type", "EQ", form.listing_type)>>
           Prices2(field, range) ==
             {Leaf(field, op, value) : op \in {"BETWEEN", "GTE", "LTE"},
                                       value \in {range, range[1], range[2]}}
           P == Prices2("price", form.price)
           M == Prices2("price_per_m2", form.price_per_m2)
           S == {asked[1], asked[2], asked[3]} \union P \union M
           prices == PriceConditions("price", form.price)
           perM2 == PriceConditions("price_per_m2", form.price_per_m2)
<1>1. asked \in Seq(S) /\ Len(asked) = 3
  OBVIOUS
<1>2. prices \in Seq(S) /\ prices \in Seq(P)
  BY RangeIsAboutField
<1>3. perM2 \in Seq(S) /\ perM2 \in Seq(M)
  BY RangeIsAboutField
<1>4. \A leaf \in P \union M : leaf.field \in {"price", "price_per_m2"}
  BY DEF Leaf
<1>5. /\ asked \o prices \in Seq(S) /\ Len(asked \o prices) = 3 + Len(prices)
      /\ \A i \in 1 .. 3 + Len(prices) :
           (asked \o prices)[i] = IF i <= 3 THEN asked[i] ELSE prices[i - 3]
  <2> HIDE DEF asked, prices, S
  <2>1. asked \in Seq(S) /\ prices \in Seq(S)
    BY <1>1, <1>2
  <2>2. asked \o prices \in Seq(S) /\ Len(asked \o prices) = Len(asked) + Len(prices)
    BY <2>1, ConcatProperties
  <2>3. \A i \in 1 .. Len(asked) + Len(prices) :
          (asked \o prices)[i] = IF i <= Len(asked) THEN asked[i] ELSE prices[i - Len(asked)]
    BY <2>1, ConcatProperties
  <2> QED BY <1>1, <2>2, <2>3
<1>6. /\ t.leaves \in Seq(S) /\ Len(t.leaves) = 3 + Len(prices) + Len(perM2)
      /\ \A i \in 1 .. 3 + Len(prices) + Len(perM2) :
           t.leaves[i] = IF i <= 3 + Len(prices) THEN (asked \o prices)[i]
                         ELSE perM2[i - (3 + Len(prices))]
  <2>1. t.leaves = (asked \o prices) \o perM2
    BY DEF FormTree
  <2> DEFINE both == asked \o prices
  <2>2. both \in Seq(S) /\ Len(both) = 3 + Len(prices)
    BY <1>5
  <2> HIDE DEF both, prices, perM2, S
  <2>3. perM2 \in Seq(S)
    BY <1>3
  <2>4. both \o perM2 \in Seq(S) /\ Len(both \o perM2) = Len(both) + Len(perM2)
    BY <2>2, <2>3, ConcatProperties
  <2>5. \A i \in 1 .. Len(both) + Len(perM2) :
          (both \o perM2)[i] = IF i <= Len(both) THEN both[i] ELSE perM2[i - Len(both)]
    BY <2>2, <2>3, ConcatProperties
  <2>6. t.leaves = both \o perM2
    BY <2>1 DEF both
  <2> HIDE DEF t
  <2> QED BY <2>2, <2>4, <2>5, <2>6 DEF both
<1>7. Len(prices) \in Nat /\ Len(perM2) \in Nat
      /\ DOMAIN t.leaves = 1 .. 3 + Len(prices) + Len(perM2)
  <2> HIDE DEF prices, perM2, S, t
  <2> QED BY <1>2, <1>3, <1>6, LenProperties
<1>8. ASSUME NEW i \in DOMAIN t.leaves, i > 3
      PROVE  t.leaves[i].field \in {"price", "price_per_m2"}
  <2>1. CASE i <= 3 + Len(prices)
    <3>1. t.leaves[i] = prices[i - 3] /\ i - 3 \in 1 .. Len(prices)
      <4> HIDE DEF asked, prices, perM2, S, t
      <4> QED BY <1>5, <1>6, <1>7, <1>8, <2>1
    <3>2. prices[i - 3] \in P
      <4> HIDE DEF prices, P
      <4> QED BY <3>1, <1>2, ElementOfSeq
    <3> HIDE DEF P, M, t, prices
    <3> QED BY <3>1, <3>2, <1>4
  <2>2. CASE i > 3 + Len(prices)
    <3>1. t.leaves[i] = perM2[i - (3 + Len(prices))] /\ i - (3 + Len(prices)) \in 1 .. Len(perM2)
      <4> HIDE DEF asked, prices, perM2, S, t
      <4> QED BY <1>6, <1>7, <1>8, <2>2
    <3>2. perM2[i - (3 + Len(prices))] \in M
      <4> HIDE DEF perM2, prices, M
      <4> QED BY <3>1, <1>3, ElementOfSeq
    <3> HIDE DEF P, M, t, perM2, prices
    <3> QED BY <3>1, <3>2, <1>4
  <2> HIDE DEF t, prices
  <2> QED BY <2>1, <2>2, <1>7
<1>9. /\ 1 \in DOMAIN t.leaves /\ 2 \in DOMAIN t.leaves /\ 3 \in DOMAIN t.leaves
      /\ t.leaves[1] = asked[1] /\ t.leaves[2] = asked[2] /\ t.leaves[3] = asked[3]
  <2> HIDE DEF asked, prices, perM2, S, t
  <2> QED BY <1>5, <1>6, <1>7
<1>10. /\ t.leaves[1] = Leaf("province", "EQ", form.province)
       /\ t.leaves[2] = Leaf("property_type", "EQ", form.property_type)
       /\ t.leaves[3] = Leaf("listing_type", "EQ", form.listing_type)
  BY <1>9
<1>11. t.operator = "ALL" /\ t.groups = <<>>
  BY DEF FormTree
<1> HIDE DEF t, asked, prices, perM2, S, P, M
<1>12. ASSUME NEW i \in DOMAIN t.leaves
       PROVE  i \in Nat /\ (i = 1 \/ i = 2 \/ i = 3 \/ i > 3)
  BY <1>7
<1>13. Pushing(t, "province") = {1} /\ Pushing(t, "property_type") = {2}
       /\ Pushing(t, "listing_type") = {3}
  <2>1. ASSUME NEW i \in DOMAIN t.leaves, i > 3
        PROVE  Pushes(t.leaves[i]) \intersect EnumFields = {}
    BY <1>8, <2>1 DEF Pushes, EnumFields
  <2>2. /\ Pushes(t.leaves[1]) = {"province"} /\ Pushes(t.leaves[2]) = {"property_type"}
        /\ Pushes(t.leaves[3]) = {"listing_type"}
    BY <1>10 DEF Pushes, Leaf, EnumFields
  <2> QED BY <1>9, <1>12, <2>1, <2>2 DEF Pushing, EnumFields
<1>14. ASSUME NEW param, NEW i \in Nat, Pushing(t, param) = {i}
       PROVE  LastPushing(t, param) = i
  BY <1>14 DEF LastPushing
<1>15. /\ PushableParams(t)["province"] = form.province
       /\ PushableParams(t)["property_type"] = form.property_type
       /\ PushableParams(t)["listing_type"] = form.listing_type
  <2>1. ASSUME NEW param \in EnumFields, NEW i \in Nat, NEW v, Pushing(t, param) = {i},
               t.leaves[i] = Leaf(param, "EQ", v)
        PROVE  PushableParams(t)[param] = v
    <3>1. param \in Params /\ LastPushing(t, param) = i
      BY <2>1, <1>14 DEF Params
    <3>2. PushableParams(t)[param] = PushedValue(t.leaves[i], param)
      BY <2>1, <3>1, <1>11 DEF PushableParams
    <3> QED BY <2>1, <3>2 DEF PushedValue, Leaf
  <2> QED BY <1>10, <1>13, <2>1 DEF EnumFields
<1>16. OnCard(t.leaves)
  BY <1>8, <1>10, <1>12 DEF OnCard, Leaf
<1>17. \A i \in DOMAIN t.groups : OnCard(t.groups[i].leaves)
  BY <1>11
<1> QED BY <1>15, <1>16, <1>17 DEF Precise, Expressible, Forms, t

-----------------------------------------------------------------------------
LEMMA InitIInv == Init => IInv
BY DEF Init, IInv, TypeOK, StoredFromPage, UnknownNeverHelps

(* Each action preserves the invariant.  A stored property is explained by  *)
(* the search that labelled it, not by the alert that matches it: that is   *)
(* why StoredFromPage is needed.                                            *)
LEMMA NextIInv == IInv /\ [Next]_vars => IInv'
<1> SUFFICES ASSUME IInv, [Next]_vars PROVE IInv'
  OBVIOUS
<1> USE DEF IInv
<1>0. tree' = tree
  BY DEF Next, Scrape, ServeFromCache, CacheExpires, vars
<1>1. ASSUME NEW due \in SUBSET Alerts, NEW query \in Plan(due), NEW found \in SUBSET Listings,
             Scrape(query, found)
      PROVE  IInv'
  <2> USE <1>1
  <2>1. PICK a \in query.alerts : a \in Alerts /\ query.alerts \subseteq Alerts
                                  /\ query.params = PushableParams(tree[a])
    <3>1. query.alerts # {}
      BY DEF Plan
    <3> QED BY <3>1, SharedParams DEF TypeOK
  <2>2. \A l \in Listings :
          stored'[l] = IF l \in found THEN Labelled(query.params, Truth[l]) ELSE stored[l]
    BY DEF Scrape
  <2>3. StoredFromPage'
    <3> SUFFICES ASSUME NEW l \in Listings, stored'[l] # Nothing
                 PROVE  \E b \in Alerts :
                          /\ OnPage(Url(PushableParams(tree[b])), Truth[l])
                          /\ stored'[l] = Labelled(PushableParams(tree[b]), Truth[l])
      BY <1>0 DEF StoredFromPage
    <3>1. CASE l \in found
      BY <2>1, <2>2, <3>1 DEF Scrape
    <3>2. CASE l \notin found
      BY <2>2, <3>2 DEF StoredFromPage
    <3> QED BY <3>1, <3>2
  <2>4. TypeOK'
    <3>1. \A l \in found : Labelled(query.params, Truth[l]) \in Canonical
      BY LabelledIsCanonical, ListingsAssumption
    <3>2. stored' \in [Listings -> Canonical \union {Nothing}]
      BY <3>1 DEF Scrape, TypeOK
    <3>3. cached' \in [Alerts -> SUBSET (SUBSET Listings)]
      BY DEF Scrape, TypeOK
    <3>4. matches' \subseteq Alerts \X Listings
      BY <2>1 DEF Scrape, TypeOK
    <3> QED BY <1>0, <3>2, <3>3, <3>4 DEF TypeOK
  <2>5. UnknownNeverHelps'
    <3> SUFFICES ASSUME NEW m \in matches', GuessesNothing(tree[m[1]]), OwnPage(tree[m[1]])
                 PROVE  Satisfied(tree[m[1]], Truth[m[2]])
      BY <1>0 DEF UnknownNeverHelps
    <3>1. CASE m \in matches
      BY <3>1 DEF UnknownNeverHelps
    <3>2. CASE /\ m \in query.alerts \X found
               /\ Satisfied(tree[m[1]], stored'[m[2]])
      <4>1. m[1] \in Alerts /\ m[2] \in Listings /\ m[2] \in found
        BY <3>2, <2>1
      <4>2. WellFormedTree(tree[m[1]])
        BY <4>1, TreesAssumption DEF TypeOK
      <4>3. OnPage(Url(query.params), Truth[m[2]])
        BY <4>1 DEF Scrape
      <4>4. Satisfied(tree[m[1]], Labelled(query.params, Truth[m[2]]))
        BY <2>2, <3>2, <4>1
      <4> QED BY <4>1, <4>2, <4>3, <4>4, MatchDeserved
    <3> QED BY <3>1, <3>2 DEF Scrape
  <2> QED BY <2>3, <2>4, <2>5
<1>2. ASSUME NEW due \in SUBSET Alerts, NEW query \in Plan(due), ServeFromCache(query)
      PROVE  IInv'
  <2> USE <1>2
  <2>1. query.alerts \subseteq Alerts
    BY SharedParams DEF TypeOK
  <2>2. TypeOK'
    BY <1>0, <2>1 DEF ServeFromCache, TypeOK
  <2>3. StoredFromPage'
    BY <1>0 DEF ServeFromCache, StoredFromPage
  <2>4. UnknownNeverHelps'
    <3> SUFFICES ASSUME NEW m \in matches', GuessesNothing(tree[m[1]]), OwnPage(tree[m[1]])
                 PROVE  Satisfied(tree[m[1]], Truth[m[2]])
      BY <1>0 DEF UnknownNeverHelps
    <3>1. CASE m \in matches
      BY <3>1 DEF UnknownNeverHelps
    <3>2. CASE /\ m \in query.alerts \X Listings
               /\ m[2] \in Candidates(m[1])
               /\ Satisfied(tree[m[1]], stored[m[2]])
      <4>1. m[1] \in Alerts /\ m[2] \in Listings
        BY <3>2, <2>1
      <4>2. WellFormedTree(tree[m[1]])
        BY <4>1, TreesAssumption DEF TypeOK
      <4>3. PICK b \in Alerts : /\ OnPage(Url(PushableParams(tree[b])), Truth[m[2]])
                                /\ stored[m[2]] = Labelled(PushableParams(tree[b]), Truth[m[2]])
        BY <3>2, <4>1 DEF StoredFromPage, Candidates
      <4> QED BY <3>2, <4>1, <4>2, <4>3, MatchDeserved
    <3> QED BY <3>1, <3>2 DEF ServeFromCache
  <2> QED BY <2>2, <2>3, <2>4
<1>3. ASSUME NEW a \in Alerts, CacheExpires(a) PROVE IInv'
  BY <1>0, <1>3 DEF CacheExpires, TypeOK, StoredFromPage, UnknownNeverHelps
<1>4. CASE UNCHANGED vars
  BY <1>4 DEF vars, TypeOK, StoredFromPage, UnknownNeverHelps
<1> QED BY <1>1, <1>2, <1>3, <1>4 DEF Next

(* Every label the scraper invents normalizes to a canonical value, and     *)
(* every row and match belongs to a known alert and listing.                *)
THEOREM TypeCorrect == Spec => []TypeOK
<1>1. IInv => TypeOK
  BY DEF IInv
<1> QED BY <1>1, InitIInv, NextIInv, PTL DEF Spec

(* An alert for a type with a page of its own that asks for nothing to be   *)
(* unknown only matches what deserves it, although cards leave fields out   *)
(* and other searches relabel its listings meanwhile.                       *)
THEOREM MatchesSafe == Spec => []UnknownNeverHelps
<1>1. IInv => UnknownNeverHelps
  BY DEF IInv
<1> QED BY <1>1, InitIInv, NextIInv, PTL DEF Spec
=============================================================================
