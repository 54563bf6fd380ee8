SPECIFICATION RunSpec
CONSTANTS
  K = 2
  MaxSpills = 2
  Family = "all"
  Functions <- MCFunctions
INVARIANTS
  TypeOK
  ColoringProper
  EveryRangeColored
  UsesSeeTheirValues
PROPERTIES
  CoalescingEnds
CHECK_DEADLOCK FALSE
