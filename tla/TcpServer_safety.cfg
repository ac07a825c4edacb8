SPECIFICATION Spec
CONSTANTS
    Conns = {c1, c2}
    IPs <- AllIPs
    FdLimit = 6
    Backlog = 1
    BufCap = 3
    Data = {"hello", "more"}
    Payloads <- ShortPayloads
    MaxInbox = 2
    ExtraLogs = TRUE
SYMMETRY ConnsAlike
INVARIANTS
    TypeOK
    ReplyIntegrity
    OnlyBanSilences
    BannedAreTold
    StopsOnlyWhenTold
    AtMostOneLateAccept
    ServerFdNotZero
    LoggerOutlivesServer
    ListenerLossExplained
PROPERTIES
    ClosesOnlySockets
    OneExchangePerConnection
    RefinesService
