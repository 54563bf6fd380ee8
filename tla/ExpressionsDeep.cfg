SPECIFICATION Spec
CONSTANTS
  Bits <- MCBits
  Samples <- MCSamples
  Leftovers <- AllOnes
  Leaves <- DeepLeaves
  UnaryOperators = {}
  BinaryOperators <- DeepOperators
  CastTypes = {}
  Destinations <- DeepDestinations
  MaxSize = 5
INVARIANTS
  ComputesItsMeaning
  NumberedSurvive
PROPERTIES
  SimplifierEnds
CHECK_DEADLOCK FALSE
