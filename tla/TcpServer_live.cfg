SPECIFICATION FairSpec
CONSTANTS
    Conns = {c1, c2}
    IPs <- TwoIPs
    FdLimit = 6
    Backlog = 1
    BufCap = 3
    Data = {"hello", "more"}
    Payloads <- ShutdownPayload
    MaxInbox = 2
    ExtraLogs = FALSE
PROPERTIES
    ShutdownEndsServer
    RepeatedSigintEndsServer
    QueueDrains
