SPECIFICATION FairSpec
CONSTANTS
  m1 = m1
  m2 = m2
  Messages = {m1, m2}
  KnownAttempts = 1
  FloodAttempts = 1
  FloodOnlyAttempts = 1
  MaxSends = 3
INVARIANTS
  SlotsMatchAnswers
  SendingIsLive
PROPERTIES
  ImplementsDelivery
  CallReturns
CHECK_DEADLOCK FALSE
