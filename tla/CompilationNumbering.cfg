CONSTANTS
  Size = 3
  Fuel = 60
  MinCaseMembers = 2
  NumberingThreshold = 6
  MaxHoisted = 1
  Programs <- TwoBranches
  Answers <- MCAnswers
SPECIFICATION Spec
INVARIANT BehaviourPreserved
CHECK_DEADLOCK FALSE
