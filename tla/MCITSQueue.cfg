CONSTANTS
  PerPage = 2
  FieldMod = 3
  Pages = {1, 2, 3}
  Requests <- TwoRequests
  None = None
SPECIFICATION FairSpec
INVARIANTS RingInv FillsFreeEntry
PROPERTIES ImplementsFifo AddReturns
