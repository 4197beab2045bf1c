SPECIFICATION Spec
CONSTANTS
  Absent = Absent
  Routes = {p1, p2}
  Given = {TRUE, FALSE}
  MaxEvents = 3
INVARIANTS
  AgreeWhenQuiet
  LocalChoicesSurvive
  BorrowedPathIsReturned
SYMMETRY RouteSymmetry
CHECK_DEADLOCK FALSE
