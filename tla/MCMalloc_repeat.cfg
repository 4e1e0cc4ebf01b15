CONSTANTS
  PagingPages = 3
  PageSize = 2
  Sizes <- MCSizes
  DescPerPage = 2
  Lens <- MainOnlyLens
  Ops <- ReadOnlyOps
  UserWords <- ZeroWords
  DoubleFree = TRUE
  RefcntMod = 65536
  MaxIrqs = 0
  NULL = NULL
  Data = Data
SPECIFICATION Spec
INVARIANT RepeatedFreeCaught
CHECK_DEADLOCK FALSE
