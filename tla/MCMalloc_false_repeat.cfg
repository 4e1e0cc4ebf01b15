CONSTANTS
  PagingPages = 2
  PageSize = 4
  Sizes <- WideSizes
  DescPerPage = 2
  Lens <- MainOnlyLens
  Ops <- ReadOnlyOps
  UserWords <- ZeroWords
  DoubleFree = FALSE
  RefcntMod = 65536
  MaxIrqs = 0
  NULL = NULL
  Data = Data
SPECIFICATION Spec
INVARIANT RepeatPanicTrue
CHECK_DEADLOCK FALSE
