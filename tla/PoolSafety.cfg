SPECIFICATION Spec
CONSTANTS
    Callers = {c1, c2}
    HealthTask = health
    VmIds = {v1, v2, v3}
    Priorities = {0, 1}
    MaxVms = 1
    VmTimeout = 1
    MaxAge = 1
    CmdCapacity = 1
    NoTask = NoTask
    NoVm = NoVm
SYMMETRY Symmetric
INVARIANTS
    TypeOK
    LifecycleOrder
    LogMatchesPool
    ObservedWithinLimit
    BufferLifetime
    BorrowedEntryStays
PROPERTIES
    RemovalJustified
    DeallocateAnswer
    ImplementsLifecycle
