SPECIFICATION FairSpec
CONSTANTS
    Callers = {c1}
    HealthTask = health
    VmIds = {v1, v2}
    Priorities = {0, 1}
    MaxVms = 1
    VmTimeout = 1
    MaxAge = 1
    CmdCapacity = 1
    NoTask = NoTask
    NoVm = NoVm
PROPERTIES
    EveryCallReturns
    TimeoutEnforced
    ImplementsFairLifecycle
