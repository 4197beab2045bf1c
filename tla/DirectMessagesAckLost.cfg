SPECIFICATION Spec
CONSTANTS
  m1 = m1
  Messages = {m1}
  KnownAttempts = 1
  FloodAttempts = 1
  FloodOnlyAttempts = 1
  MaxSends = 2
PROPERTIES
  AckIsTerminal
CHECK_DEADLOCK FALSE
