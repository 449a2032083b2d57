SPECIFICATION Spec
CONSTANTS
  run1 = run1  run2 = run2  planner = planner  NoOne = NoOne
  Cycles = {run1, run2}
  Updates = {upd1, upd2}
  Names = {n1, n2}
  Frequencies = {"15 min", "4 h"}
  Offered = {"4 h"}
  Trees = {t1, t2}
  Processes <- MCProcesses
  ProcessOf <- MCProcessOf
INVARIANTS TypeOK RootPresent
PROPERTIES UndisturbedSaveIsExact
SYMMETRY MCSymmetry
CHECK_DEADLOCK FALSE
