SPECIFICATION Spec
CONSTANTS
    Conns = {c1}
    IPs <- NotBannedIPs
    FdLimit = 6
    Backlog = 1
    BufCap = 3
    Data = {"hello", "more"}
    Payloads <- SplitPayloads
    MaxInbox = 4
    ExtraLogs = TRUE
INVARIANTS
    StopsOnlyWhenTold
    AnsweredShutdownStops
    ReplyIntegrity
