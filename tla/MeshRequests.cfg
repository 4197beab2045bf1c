\* Two requests of every kind to one repeater, in any order of events.
SPECIFICATION FairSpec
CONSTANTS
  n1 = n1
  Nodes = {n1}
  MaxReqs = 2
INVARIANTS
  WaitersAreFound
  SlotFollowsRadio
  SessionsEndWithLink
PROPERTIES
  ReplyFindsItsOwn
  RequestsSettle
CHECK_DEADLOCK FALSE
