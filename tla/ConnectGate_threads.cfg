\* Three operations under fair threads; no symmetry, a liveness property is checked.
CONSTANTS
  Op = {o1, o2, o3}
  NoOp = NoOp
  MaxGeneration = 4
SPECIFICATION FairSpec
INVARIANTS Inv LandsInOrder
PROPERTIES AdoptsTheLastEffect NobodyWaitsForever
CHECK_DEADLOCK FALSE
