\* Two contacts, in any order of walks, pushes, lookups, edits and link drops.
SPECIFICATION FairSpec
CONSTANTS
  k1 = k1
  k2 = k2
  Keys = {k1, k2}
  NoKey = NoKey
  MaxEvents = 3
INVARIANTS
  QuietMeansEqual
  ViewsAgree
PROPERTIES
  PrunedWereGone
  Converges
CHECK_DEADLOCK FALSE
