SPECIFICATION Spec
CONSTANTS
  a1 = a1  a2 = a2  o1 = o1  o2 = o2
  Agents = {a1, a2}
  Ops = {o1, o2}
  LifecycleOps = {}
  RestoreOps = {}
  SummaryOps = {}
  KernelOf <- Clone
  DomainOf <- OneDomain
  NoAgent = NoAgent  NoOp = NoOp
  MaxInflight = 2  MaxQueued = 2
  DbFaults = FALSE
  MaxGeneration = 2  MaxEpoch = 0  MaxInstance = 2
INVARIANTS LedgerInv DeliveredOnce
PROPERTY NoPromotionBesideOrphan ImplementsLedger
SYMMETRY Symmetry
