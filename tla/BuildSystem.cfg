SPECIFICATION Spec
CONSTANTS
  a = a
  b = b
  c = c
  d = d
  fm = fm
  fa = fa
  fb = fb
  fc = fc
  fd = fd
  fa2 = fa2
  bad = bad
  MainNode = MainNode
  MainFile = fm
  NoModule = NoModule
  Corrupt = Corrupt
  NoFile = NoFile
  Module <- MCModule
  File <- MCFile
  Hash <- MCHash
  Projects <- MCProjects
INVARIANTS
  TypeOK
  OrderSound
  InProgressIsCallChain
  CircularIsExact
  BuiltIsComplete
PROPERTIES
  Terminates
  ImplementsBuildOrder
CHECK_DEADLOCK FALSE
