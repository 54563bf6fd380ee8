CONSTANTS
  Size = 3
  Fuel = 60
  MinCaseMembers = 2
  NumberingThreshold = 6
  MaxHoisted = 1
  Programs <- MCPrograms
  Answers <- MCAnswers
SPECIFICATION Spec
INVARIANTS
  BehaviourPreserved
  NamesAreCurrent
  AcceptedReadsAreDefined
  ImmutablesAreSetOnce
  CodeIsClosed
  NeverCrashes
  DominatorsExact
  RoundsAreBounded
CHECK_DEADLOCK FALSE
