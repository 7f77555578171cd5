SPECIFICATION Spec
CONSTANTS
  a1 = a1  a2 = a2  o1 = o1  o2 = o2
  Agents = {a1}
  Ops = {o1, o2}
  LifecycleOps = {}
  RestoreOps = {}
  SummaryOps = {}
  KernelOf <- OneKernel
  DomainOf <- OneDomain
  NoAgent = NoAgent  NoOp = NoOp
  MaxInflight = 1  MaxQueued = 1
  DbFaults = TRUE
  MaxGeneration = 2  MaxEpoch = 1  MaxInstance = 1
PROPERTY StartsHeld
