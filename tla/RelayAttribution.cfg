SPECIFICATION Spec
CONSTANTS
  Channels = {ours, also, foreign}
  Listed = {ours, also}
  Colliding = {ours, also, foreign}
  UnclaimedTtl = 1
  ObsTtl = 2
  ClaimedTtl = 3
  Cap = 2
  MaxSends = 2
  MaxPackets = 2
  MaxTime = 3
  MaxEvents = 5
INVARIANTS
  CreditsAreSound
  FreshIsKept
SYMMETRY ListedSymmetry
CHECK_DEADLOCK FALSE
