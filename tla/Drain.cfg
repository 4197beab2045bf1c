\* Two connect edges, three messages, one rejected write.
SPECIFICATION FairSpec
CONSTANTS
  MaxMsgs = 3
  MaxFails = 1
  MaxHandshakes = 2
INVARIANTS
  OneRound
  BusyIsARound
PROPERTIES
  InboxDrains
CHECK_DEADLOCK FALSE
