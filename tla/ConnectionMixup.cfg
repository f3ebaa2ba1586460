SPECIFICATION Spec
CONSTANTS
    Methods = {"allocate"}
    MaxRequests = 2
    MaxEvents = 1
    MaxInputs = 3
    CommandCapacity = 1
    SocketCapacity = 1
    ResponseCapacity = 1
    InboxCapacity = 1
    BroadcastCapacity = 2
INVARIANTS
    OkIsOwn
CHECK_DEADLOCK FALSE
