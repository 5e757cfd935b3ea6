SPECIFICATION Spec
CONSTANTS
  Symbols = {btc}
  MaxHour = 3
  Horizons = {1}
  Lookback = 2
  ReviewWindow = 2
  ThresholdTenths = 6
  Faults = {"crash", "torn_write", "backdate", "provider_error"}
INVARIANTS TypeOK ResolvedHasScore OneOfEach ProposalsGrounded
PROPERTIES ImplementsLifecycle RerunAddsNothing
