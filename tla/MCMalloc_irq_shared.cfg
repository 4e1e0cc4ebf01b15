CONSTANTS
  PagingPages = 4
  PageSize = 2
  Sizes <- MCSizes
  DescPerPage = 2
  Lens <- SharedLens
  Ops <- SharedOps
  UserWords <- ZeroWords
  DoubleFree = FALSE
  RefcntMod = 65536
  MaxIrqs = 3
  NULL = NULL
  Data = Data
SPECIFICATION Spec
INVARIANT BadAddressPanicTrue
CHECK_DEADLOCK FALSE
