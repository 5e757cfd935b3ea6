SPECIFICATION Spec
CONSTANTS
  Forecasts = {f1, f2}
  Legacy = {f1}
  Trials = {pending, passed}
  Pending = pending
  MaxRuns = 1
  Faults = {"crash", "torn_write"}
INVARIANTS TypeOK NothingLost CascadeComplete OnlyCorruptQuarantined
PROPERTIES SecondRepairMovesNothing
