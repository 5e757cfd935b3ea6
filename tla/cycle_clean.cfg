SPECIFICATION FairSpec
CONSTANTS
  Symbols = {btc, eth}
  MaxHour = 2
  Horizons = {0, 1}
  Lookback = 2
  ReviewWindow = 2
  ThresholdTenths = 6
  Faults = {"retention"}
INVARIANTS UnscorableHasNoScore LatestScoresAnswered MetaMatchesTail SingleCandleNeverScored
PROPERTIES MatureForecastSettles
