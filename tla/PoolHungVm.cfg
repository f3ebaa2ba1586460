SPECIFICATION HungSpec
CONSTANTS
    Callers = {c1}
    HealthTask = health
    VmIds = {v1}
    Priorities = {1}
    MaxVms = 1
    VmTimeout = 1
    MaxAge = 1
    CmdCapacity = 1
    NoTask = NoTask
    NoVm = NoVm
PROPERTIES
    TimeoutEnforced
