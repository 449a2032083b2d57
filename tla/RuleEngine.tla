----------------------------- MODULE RuleEngine -----------------------------
(***************************************************************************)
(* An alert's condition tree and what it means for a property: the Field   *)
(* Registry, the operator strategies and the specifications that           *)
(* AlertEngine evaluates.                                                  *)
(*                                                                         *)
(* A leaf is a field, an operator and an expected value; a tree is a group *)
(* of leaves and of groups of leaves.  province, property_type and         *)
(* listing_type stand for the ENUM fields, price, area and the derived     *)
(* price_per_m2 are the MONEY and AREA fields, rooms stands for the fields *)
(* the portal's result page does not state.  Amounts are natural numbers   *)
(* of one currency, quotients are exact (Decimal has 28 digits).  Text     *)
(* fields (CONTAINS) and flags, compared like the others, are left out.    *)
(***************************************************************************)
EXTENDS Integers, Sequences

CONSTANT Absent  \* None: the value is not stated

ASSUME AbsentAssumption == Absent \notin Nat /\ Absent \notin STRING

EnumFields == {"province", "property_type", "listing_type"}
NumericFields == {"price", "area", "price_per_m2", "rooms"}
Fields == EnumFields \union NumericFields

Nullary == {"EXISTS", "NOT_EXISTS"}
Orderings == {"LT", "LTE", "GT", "GTE"}

(* AlertCondition's shapes, for the operators the field's type allows *)
WellFormed(leaf) ==
  \/ /\ leaf.field \in Fields
     /\ leaf.op \in Nullary
     /\ leaf.value = Absent
  \/ /\ leaf.field \in EnumFields
     /\ \/ leaf.op \in {"EQ", "NEQ"} /\ leaf.value \in STRING
        \/ leaf.op \in {"IN", "NOT_IN"} /\ leaf.value \in (SUBSET STRING) \ {{}}
  \/ /\ leaf.field \in NumericFields
     /\ \/ leaf.op \in {"EQ", "NEQ"} \union Orderings /\ leaf.value \in Nat
        \/ leaf.op = "BETWEEN" /\ leaf.value \in Nat \X Nat

(* parse_conditions: IN and NOT_IN would need a tuple and get one value *)
Accepted(leaf) == WellFormed(leaf) /\ leaf.op \notin {"IN", "NOT_IN"}

(* The strategies of a value that is stated *)
Meets(op, actual, expected) ==
  \/ op = "EXISTS"
  \/ op = "NEQ" /\ actual # expected
  \/ op = "LT" /\ actual < expected
  \/ op = "LTE" /\ actual <= expected
  \/ op = "GT" /\ actual > expected
  \/ op = "GTE" /\ actual >= expected
  \/ op = "BETWEEN" /\ expected[1] <= actual /\ actual <= expected[2]
  \/ op = "IN" /\ actual \in expected
  \/ op = "NOT_IN" /\ actual \notin expected

(* Mutation: NEQ compares None like a value *)
NoneIsUnequal(op, actual, expected) ==
  \/ op = "EQ" /\ actual = expected
  \/ op = "NEQ" /\ actual # expected
  \/ op = "NOT_EXISTS" /\ actual = Absent
  \/ actual # Absent /\ Meets(op, actual, expected)

(* The operator strategies: an absent value fails every comparison but EQ,  *)
(* which no expected value makes true, and NOT_EXISTS                       *)
Compares(op, actual, expected) ==
  \/ op = "EQ" /\ actual = expected
  \/ op = "NOT_EXISTS" /\ actual = Absent
  \/ actual # Absent /\ Meets(op, actual, expected)

(* Property.price_per_m2 = price / area, known when both are; a quotient    *)
(* compares with an amount like the price with that amount of every metre   *)
HasPricePerM2(prop) == prop.price # Absent /\ prop.area # Absent
TimesArea(leaf, area) ==
  CASE leaf.op \in Nullary -> Absent
    [] leaf.op = "BETWEEN" -> <<leaf.value[1] * area, leaf.value[2] * area>>
    [] OTHER -> leaf.value * area
ComparesPerM2(leaf, prop) ==
  IF HasPricePerM2(prop) THEN Compares(leaf.op, prop.price, TimesArea(leaf, prop.area))
  ELSE Compares(leaf.op, Absent, leaf.value)

(* FieldSpecification: the extractor's value against the expected one *)
LeafHolds(leaf, prop) ==
  IF leaf.field = "price_per_m2" THEN ComparesPerM2(leaf, prop)
  ELSE Compares(leaf.op, prop[leaf.field], leaf.value)

(* AND, OR, NOT(OR) over the verdicts of the children *)
Combine(operator, verdicts) ==
  \/ operator = "ALL" /\ FALSE \notin verdicts
  \/ operator = "ANY" /\ TRUE \in verdicts
  \/ operator = "NONE" /\ TRUE \notin verdicts

GroupHolds(group, prop) ==
  Combine(group.operator, {LeafHolds(group.leaves[i], prop) : i \in DOMAIN group.leaves})

(* SpecificationFactory.build(alert).is_satisfied_by *)
Satisfied(tree, prop) ==
  Combine(tree.operator,
          {LeafHolds(tree.leaves[i], prop) : i \in DOMAIN tree.leaves}
            \union {GroupHolds(tree.groups[i], prop) : i \in DOMAIN tree.groups})

(* The trees RuleGroup admits: no group is empty *)
GroupOperators == {"ALL", "ANY", "NONE"}
WellFormedGroup(group) ==
  /\ group.operator \in GroupOperators
  /\ group.leaves # <<>>
  /\ \A i \in DOMAIN group.leaves : WellFormed(group.leaves[i])
IsList(nodes) == Len(nodes) \in Nat /\ DOMAIN nodes = 1 .. Len(nodes)
WellFormedTree(tree) ==
  /\ tree.operator \in GroupOperators
  /\ IsList(tree.leaves) /\ IsList(tree.groups)
  /\ tree.leaves # <<>> \/ tree.groups # <<>>
  /\ \A i \in DOMAIN tree.leaves : WellFormed(tree.leaves[i])
  /\ \A i \in DOMAIN tree.groups : WellFormedGroup(tree.groups[i])

(* What the command line and the dashboard can save: one AND of conditions *)
AcceptedTree(tree) ==
  /\ tree.operator = "ALL" /\ tree.groups = <<>> /\ tree.leaves # <<>>
  /\ \A i \in DOMAIN tree.leaves : Accepted(tree.leaves[i])
=============================================================================
