SPECIFICATION Spec
CONSTANTS
  Forecasts = {f1}
  Legacy = {f1}
  Trials = {pending, passed, other}
  Pending = pending
  MaxRuns = 0
  Faults = {"rerecord"}
INVARIANT NothingLost
