SPECIFICATION Spec
CONSTANTS
  Nodes = {n1, n2}
  Kinds = {core, radio}
  MaxCalls = 3
  MaxDrops = 1
SYMMETRY TargetSymmetry
INVARIANTS
  SlotsMatchAnswers
  NobodyIsForgotten
PROPERTIES
  AnswersAreOwn
  FailuresAreOwn
CHECK_DEADLOCK FALSE
