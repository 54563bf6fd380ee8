SPECIFICATION Spec
CONSTANTS
  Bits <- MCBits
  Samples <- MCSamples
  Leftovers <- AllOnes
  Leaves <- DeepLeaves
  UnaryOperators = {}
  BinaryOperators = {"*", "%"}
  CastTypes = {}
  Destinations <- DeepDestinations
  MaxSize = 5
INVARIANTS
  SignedModulusExact
CHECK_DEADLOCK FALSE
