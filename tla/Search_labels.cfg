SPECIFICATION Spec
CONSTANTS
  Absent = Absent  Nothing = Nothing  l1 = l1  l2 = l2  l3 = l3  l4 = l4
  Alerts = {a1, a2}
  Trees <- AcceptedTrees
  Provinces <- MCProvinces
  Names <- MCNames
  Aliases <- MCAliases
  Listings = {l1, l2, l3, l4}
  Truth <- MCTruth
INVARIANTS MatchesDeserved
