SPECIFICATION Spec
CONSTANTS
  Period = 3
  MaxLag = 4
  Horizon = 14
INVARIANT
  OnGrid
PROPERTIES
  NapBounded
  OneRowPerCycle
