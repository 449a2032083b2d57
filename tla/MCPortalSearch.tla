--------------------------- MODULE MCPortalSearch ---------------------------
(* Provinces with one, two and accented names; trees of every shape the     *)
(* planner treats differently; a penthouse, two plots, one of them at 20    *)
(* euros the square metre, and a plot for 0 euros, which is not stored.     *)
(* The rooms of a plot stand for another field no card states.              *)
EXTENDS PortalSearch

CONSTANTS l1, l2, l3, l4

MCProvinces == {"01", "15", "36", "46"}
MCNames ==
  [p \in MCProvinces |->
     CASE p = "01" -> <<Word("araba"), AccentedWord("alava")>>
       [] p = "15" -> <<AccentedWord("a coruna")>>
       [] p = "36" -> <<Word("pontevedra")>>
       [] p = "46" -> <<Word("valencia"), AccentedWord("valencia")>>]
MCAliases == [letters \in {"coruna", "la coruna"} |-> "15"]

MCTruth ==
  [l \in Listings |->
     CASE l = l1 -> [province |-> "15", property_type |-> "PENTHOUSE", listing_type |-> "SALE",
                     price |-> 900, area |-> Absent, rooms |-> 2]
       [] l = l2 -> [province |-> "15", property_type |-> "LAND", listing_type |-> "SALE",
                     price |-> 2500, area |-> 125, rooms |-> 3]
       [] l = l3 -> [province |-> "46", property_type |-> "LAND", listing_type |-> "SALE",
                     price |-> Absent, area |-> 1000, rooms |-> Absent]
       [] l = l4 -> [province |-> "46", property_type |-> "LAND", listing_type |-> "SALE",
                     price |-> 0, area |-> 50, rooms |-> Absent]]

Group(operator, leaves) == [operator |-> operator, leaves |-> leaves]
Tree(operator, leaves, groups) == [operator |-> operator, leaves |-> leaves, groups |-> groups]
For(type, province) ==
  <<Leaf("property_type", "EQ", type), Leaf("listing_type", "EQ", "SALE"),
    Leaf("province", "EQ", province)>>

Form(type, province, price, perM2) ==
  FormTree([province |-> province, property_type |-> type, listing_type |-> "SALE",
            price |-> price, price_per_m2 |-> perM2])
AcceptedTrees ==
  {Form("PENTHOUSE", "15", <<0, 0>>, <<0, 0>>), Form("FLAT", "15", <<0, 0>>, <<0, 0>>),
   Form("LAND", "15", <<0, 2500>>, <<0, 0>>), Form("LAND", "46", <<0, 0>>, <<0, 0>>),
   Form("LAND", "15", <<0, 0>>, <<20, 30>>)}

MCTrees ==
  AcceptedTrees \union
  {Tree("ALL", <<Leaf("province", "NEQ", "46"), Leaf("property_type", "EQ", "LAND")>>, <<>>),
   Tree("ALL", For("LAND", "15")
          \o <<Leaf("price", "BETWEEN", <<900, 3000>>), Leaf("price", "LTE", 2500), Leaf("area", "GTE", 125)>>, <<>>),
   Tree("ALL", For("LAND", "15"),
        <<Group("NONE", <<Leaf("price_per_m2", "LT", 20), Leaf("price_per_m2", "NOT_EXISTS", Absent)>>)>>),
   Tree("ANY", For("LAND", "15"), <<>>),
   Tree("NONE", <<Leaf("property_type", "EQ", "LAND"), Leaf("rooms", "GTE", 3)>>, <<>>),
   Tree("ALL", For("PENTHOUSE", "15") \o <<Leaf("rooms", "EXISTS", Absent)>>, <<>>),
   Tree("ALL", For("LAND", "15"),
        <<Group("ANY", <<Leaf("rooms", "NEQ", 3), Leaf("price", "GTE", 3000)>>)>>),
   Tree("ALL", <<Leaf("listing_type", "EQ", "AUCTION"), Leaf("province", "IN", {"15", "46"})>>,
        <<Group("ANY", <<Leaf("price", "EQ", 2500), Leaf("property_type", "NOT_IN", {"FLAT"})>>)>>)}

ASSUME AcceptedAssumption == \A t \in AcceptedTrees : AcceptedTree(t)
=============================================================================
