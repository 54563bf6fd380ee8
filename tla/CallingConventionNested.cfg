SPECIFICATION Spec
CONSTANTS
  Registers = {1, 2, 6, 10, 11}
  CalleeSaved = {10, 11}
  DummyCaller = 10
  DummyCallee = 6
  MaxDepth = 4
  Family = "nested"
  Programs <- MCPrograms
INVARIANT ValuesSurviveCalls
CHECK_DEADLOCK FALSE
