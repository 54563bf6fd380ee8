SPECIFICATION RunSpec
CONSTANTS
  K = 2
  MaxSpills = 2
  Family = "trapping"
  Functions <- MCFunctions
INVARIANT UsesSeeTheirValues
CHECK_DEADLOCK FALSE
