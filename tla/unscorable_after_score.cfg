SPECIFICATION Spec
CONSTANTS
  Symbols = {btc}
  MaxHour = 4
  Horizons = {1}
  Lookback = 2
  ReviewWindow = 2
  ThresholdTenths = 6
  Faults = {"crash", "retention"}
INVARIANTS UnscorableHasNoScore
