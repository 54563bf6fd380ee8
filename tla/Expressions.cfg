SPECIFICATION Spec
CONSTANTS
  Bits <- MCBits
  Samples <- MCSamples
  Leftovers <- AllOnes
  Leaves <- WideLeaves
  UnaryOperators = {"-", "~", "!"}
  BinaryOperators <- BinaryOps
  CastTypes <- WideCasts
  Destinations <- WideDestinations
  MaxSize = 3
INVARIANTS
  TypeOK
  VariablesSurvive
  FoldingAgrees
  OperandsAgree
  TrapsAreDeserved
  ComputesItsMeaning
CHECK_DEADLOCK FALSE
