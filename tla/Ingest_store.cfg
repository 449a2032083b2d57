SPECIFICATION Spec
CONSTANTS
  s1 = s1  s2 = s2  flat = flat  any = any  NoPrice = NoPrice  Nothing = Nothing
  Sessions = {s1, s2}
  ProcessOf <- MCTwoProcesses
  LabelOf <- MCLabelOf
  Listings = {l1, l2}
  Prices = {low, high}
  Labels = {flat, any}
  MaxChanges = 1
INVARIANTS TypeOK PriceIsRecorded
PROPERTIES PartsOnlyByMissedRow FreshStoreIsExact
SYMMETRY MCSymmetry
