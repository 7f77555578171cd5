SPECIFICATION PartSpec
CONSTANTS
  Attempts = {1, 2}
  Poisoned = {}
  Limit = 1
  MaxRestarts = 1
  Faults = TRUE
CHECK_DEADLOCK FALSE
INVARIANTS SettlementInv BilledOnce
PROPERTY SweepReachesAll
