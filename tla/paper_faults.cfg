SPECIFICATION Spec
CONSTANTS
  Symbols = {btc, eth}
  AllSymbols = all
  MaxLevel = 2
  Procs = {t1}
  Times = {0}
  MaxPosition = 1
  Quotes = {1, 2}
  Faults = {"crash", "torn_write"}
  MaxDecisions = 2
  MaxControls = 0
  MaxSnapshots = 4
INVARIANTS TypeOK OneActiveOrder DecisionOrderedOnce FillAtMostOnce BooksTrail
CHECK_DEADLOCK FALSE
