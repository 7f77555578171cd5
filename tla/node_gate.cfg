SPECIFICATION Spec
CONSTANTS
    a1 = a1  a2 = a2  o1 = o1  l1 = l1  r1 = r1  s1 = s1  s2 = s2
    Agents = {a1, a2}
    Ops = {o1, l1, r1, s1, s2}
    LifecycleOps = {l1}
    RestoreOps = {r1}
    SummaryOps = {s1, s2}
    KernelOf <- Clone
    DomainOf <- OneDomain
    NoAgent = NoAgent  NoOp = NoOp
    MaxInflight = 2  MaxQueued = 1
    DbFaults = TRUE
    MaxGeneration = 2  MaxEpoch = 2  MaxInstance = 2
INVARIANTS ServingMeansKnown ExclusiveAlone QuietHold SummarySingle
CONSTRAINT Explored
