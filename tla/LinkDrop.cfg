SPECIFICATION FairSpec
CONSTANTS
    QueueCapacity = 1
    PipeCapacity = 1
    InboxCapacity = 1
    OutboxCapacity = 1
    MaxCommands = 1
    MaxOutput = 3
    Window = 1
    StopKills = {FALSE}
PROPERTIES
    DeallocationEndsLink
CHECK_DEADLOCK FALSE
