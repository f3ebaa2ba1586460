SPECIFICATION FairSpec
CONSTANTS
    Methods = {"status"}
    MaxRequests = 4
    MaxEvents = 4
    MaxInputs = 7
    CommandCapacity = 1
    SocketCapacity = 1
    ResponseCapacity = 1
    InboxCapacity = 1
    BroadcastCapacity = 2
INVARIANTS
    TypeOK
    RequestsConserved
    EventsContiguous
    AnswersFit
PROPERTIES
    RequestReturns
    EventsReach
    GoneClientServed
CHECK_DEADLOCK FALSE
