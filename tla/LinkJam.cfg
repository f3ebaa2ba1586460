SPECIFICATION FairSpec
CONSTANTS
    QueueCapacity = 1
    PipeCapacity = 1
    InboxCapacity = 1
    OutboxCapacity = 1
    MaxCommands = 4
    MaxOutput = 2
    Window = 4
    StopKills = {FALSE}
PROPERTIES
    AnswersArrive
CHECK_DEADLOCK FALSE
