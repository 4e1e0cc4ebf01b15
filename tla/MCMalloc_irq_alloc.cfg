CONSTANTS
  PagingPages = 4
  PageSize = 2
  Sizes <- MCSizes
  DescPerPage = 2
  Lens <- AllocatingLens
  Ops <- AllocatingOps
  UserWords <- ZeroWords
  DoubleFree = FALSE
  RefcntMod = 65536
  MaxIrqs = 3
  NULL = NULL
  Data = Data
SPECIFICATION FairSpec
INVARIANTS IInv
PROPERTIES CallsReturn
CHECK_DEADLOCK FALSE
