SPECIFICATION Spec
CONSTANTS
  run1 = run1  run2 = run2  planner = planner  NoOne = NoOne
  Cycles = {run1, run2}
  Updates = {upd1}
  Names = {n1}
  Frequencies = {"15 min", "4 h"}
  Offered = {"4 h"}
  Trees = {t1, t2}
  Processes <- MCProcesses
  ProcessOf <- MCProcessOf
PROPERTIES CycleOnlyMarksRun
CHECK_DEADLOCK FALSE
