SPECIFICATION Spec
CONSTANTS
  Symbols = {btc}
  AllSymbols = all
  MaxLevel = 1
  Procs = {t1, t2}
  Times = {0}
  MaxPosition = 1
  Quotes = {1}
  Faults = {}
  MaxDecisions = 2
  MaxControls = 0
  MaxSnapshots = 2
INVARIANT OneActiveOrder
CHECK_DEADLOCK FALSE
