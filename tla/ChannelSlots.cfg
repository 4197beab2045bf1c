SPECIFICATION Spec
CONSTANTS
  Names = {a, b}
  Free = Free
  Slots = 2
  RadioSlots = 1
  MaxEvents = 3
INVARIANTS
  ConfirmedIsHeld
  TextsKeepTheirChannel
SYMMETRY NameSymmetry
CHECK_DEADLOCK FALSE
