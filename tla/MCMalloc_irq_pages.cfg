CONSTANTS
  PagingPages = 4
  PageSize = 2
  Sizes <- MCSizes
  DescPerPage = 3
  Lens <- WholePageLens
  Ops <- AllocatingOps
  UserWords <- ZeroWords
  DoubleFree = FALSE
  RefcntMod = 65536
  MaxIrqs = 2
  NULL = NULL
  Data = Data
SPECIFICATION Spec
INVARIANTS NoFalsePanic
CHECK_DEADLOCK FALSE
