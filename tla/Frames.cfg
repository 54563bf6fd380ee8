SPECIFICATION Spec
CONSTANTS
  Scalars <- MCScalars
  Bounds = {3}
  Constants <- MCConstants
  ByteBits = 2
  MaxMembers = 3
  MaxTypes = 1
  GPRegisters = 2
  SSERegisters = 1
  MaxLocals = 2
  MaxSpills = 1
  MaxParameters = 3
  MaxElements = 2
INVARIANTS
  MembersApart
  SwitchesAreTotal
  RegionsDisjoint
  OffsetsCurrent
  ArgumentsFound
CHECK_DEADLOCK FALSE
