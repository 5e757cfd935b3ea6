SPECIFICATION Spec
CONSTANTS
  None = None
  Hours = {1, 2, 3, 4}
  Moves = {2}
  Horizon = 2
  MinCandles = 3
  Starts = {{1, 4}, {2, 4}}
  Full = {1, 2, 4}
  Verdicts = {"good", "weak", "risky"}
  Grades = {"stopped", "reduce", "losing", "few", "degraded", "undirected", "directed"}
  LosableKinds = {"forecast", "review", "research_dataset", "market_candle", "backtest_result", "strategy_card", "experiment_trial", "split_manifest", "locked_evaluation_result", "leaderboard_entry", "canonical_event", "source_document"}
  MaxIncidents = 2
INVARIANTS AppendsNeverBreak CompletedIsCurrent
PROPERTIES NoTradeOnABrokenStore DecisionReadsThePlan EvidenceArrives RequestStands
CHECK_DEADLOCK FALSE
