SPECIFICATION Spec
CONSTANTS
  Symbols = {btc, eth}
  AllSymbols = all
  MaxLevel = 2
  Procs = {t1}
  Times = {0, 1}
  MaxPosition = 2
  Quotes = {1}
  Faults = {}
  MaxDecisions = 2
  MaxControls = 2
  MaxSnapshots = 3
INVARIANTS BooksBalance ControlMeaning
PROPERTIES OrdersKept ControlsStopOrders
CHECK_DEADLOCK FALSE
