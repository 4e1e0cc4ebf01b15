CONSTANTS
  E = 2
  VaSizes = {4, 6, 16}
  Maps <- MCMaps
  Targets <- MCTargets
  Attrs <- MCAttrs
  Spare = 4
  MaxCalls = 2
  TextBase = 40
  RunBase = 20
  RamSize = 126
  GdSize = 3
  MallocLen = 21
  SpSize = 6
  PageSz = 4
  BigSz = 8
  StackSz = 2
  Wrap = 1000
  CopyLen = 5
  Relocs <- MCRelocs
  BssLen = 3
  BssLits <- MCBssLits
  PgMax = 80
SPECIFICATION Spec
INVARIANTS LayoutCorrect HeapFits ImageRelocated PagesInPlace PoolSuffices  
PROPERTY CallProgress
