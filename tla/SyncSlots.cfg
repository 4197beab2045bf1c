SPECIFICATION FairSpec
CONSTANTS
  MaxOps = 2
  MaxResyncs = 2
  MaxFails = 1
INVARIANTS
  AwaitedIsArmed
  GettersTakeTurns
  DoneMeansSynced
PROPERTY
  SyncSettles
CHECK_DEADLOCK FALSE
