CONSTANTS
  Children <- MCChildren
  MaxBackoff = 4
  MaxBad = 1
SPECIFICATION Spec
INVARIANT BacksOff
CHECK_DEADLOCK FALSE
