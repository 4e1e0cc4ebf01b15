CONSTANTS
  Irqs <- MCIrqs
  GicIrqs = 480
  Builtin <- MCBuiltin
  Requests <- MCRequests
  LpiEnabled <- MCLpis
  ResetPrio = 0
  MaxRaises = 3
  NULL = NULL
  h1 = h1
  h2 = h2
  a1 = a1
  a2 = a2
SPECIFICATION FairSpec
INVARIANTS TypeOK EnabledHasHandler AckBalanced CalledAsRegistered
PROPERTIES Served
CHECK_DEADLOCK FALSE
