SPECIFICATION FairSpec
CONSTANTS
  MaxCalls = 2
  MaxUpsets = 1
INVARIANTS
  AgreeWhenQuiet
PROPERTIES
  ManualAddIsKept
  GpsIsSeen
