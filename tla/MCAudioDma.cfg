\* A half of 12 ticks; a loop that uses up the time it has to the last tick.
CONSTANTS
  H = 12
  P = 8
  F = 4
SPECIFICATION Spec
INVARIANTS NoTear EachHalfOnce
