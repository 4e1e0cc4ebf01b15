CONSTANTS
  PagingPages = 4
  PageSize = 2
  Sizes <- MCSizes
  DescPerPage = 2
  Lens <- MainOnlyLens
  Ops <- MainOnlyOps
  UserWords <- DataWords
  DoubleFree = FALSE
  RefcntMod = 65536
  MaxIrqs = 0
  NULL = NULL
  Data = Data
SPECIFICATION Spec
INVARIANTS TypeOK RefcntExact FreeListExact ListsAccounted NoEmptyBucket
PROPERTIES ImplementsHeap
CHECK_DEADLOCK FALSE
