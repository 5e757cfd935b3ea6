SPECIFICATION GateSpec
CONSTANTS
  Symbols = {btc}
  AllSymbols = all
  MaxLevel = 1
  Procs = {t1, t2}
  Times = {0}
  MaxPosition = 1
  Quotes = {1}
  Faults = {}
  MaxDecisions = 1
  MaxControls = 0
  MaxSnapshots = 0
  Brokers = {b1, b2}
  Refs = {r1}
  Statuses = {"SUBMITTED", "FILLED"}
  MaxOrderDelta = 1
  MaxBook = 2
  MaxBrokerOrders = 2
  MaxReconciliations = 2
  MaxGates = 1
INVARIANTS BrokerOrderOnce MatchedMeansOneStory MismatchStopsGate
SYMMETRY Symmetry
CHECK_DEADLOCK FALSE
