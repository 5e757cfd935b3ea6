SPECIFICATION GateSpec
CONSTANTS
  Symbols = {btc}
  AllSymbols = all
  MaxLevel = 1
  Procs = {t1}
  Times = {0}
  MaxPosition = 1
  Quotes = {1}
  Faults = {}
  MaxDecisions = 2
  MaxControls = 1
  MaxSnapshots = 2
  Brokers = {b1}
  Refs = {r1}
  Statuses = {"FILLED"}
  MaxOrderDelta = 1
  MaxBook = 1
  MaxBrokerOrders = 1
  MaxReconciliations = 1
  MaxGates = 1
INVARIANT GateObeysControls
CHECK_DEADLOCK FALSE
