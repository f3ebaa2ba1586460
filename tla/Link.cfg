SPECIFICATION FairSpec
CONSTANTS
    QueueCapacity = 1
    PipeCapacity = 1
    InboxCapacity = 1
    OutboxCapacity = 1
    MaxCommands = 3
    MaxOutput = 4
    Window = 2
    StopKills = {TRUE, FALSE}
INVARIANTS
    TypeOK
    EventsConserved
    CommandsConserved
    ShutdownIsLast
PROPERTIES
    ImplementsSession
    AnswersArrive
    LinkEnds
CHECK_DEADLOCK FALSE
