CONSTANTS
  Irqs <- LpiIrqs
  GicIrqs = 480
  Builtin <- NoBuiltin
  Requests <- LpiRequests
  LpiEnabled <- MCLpis
  ResetPrio = 0
  MaxRaises = 1
  NULL = NULL
  h1 = h1
  h2 = h2
  a1 = a1
  a2 = a2
SPECIFICATION Spec
PROPERTIES LpiLeavesDistributor
CHECK_DEADLOCK FALSE
