SPECIFICATION CFairSpec
CONSTANTS
    Conns = {m1, o1}
    Own = {m1}
    IPs <- TwoIPs
    Homes <- TwoIPs
    FdLimit = 6
    Backlog = 0
    BufCap = 3
    Data = {"hello", "random", "RELOAD"}
    Payloads <- Messages
    OtherPayloads <- Hello
    MaxInbox = 2
    ExtraLogs = TRUE
    Builds = {"gui", "console"}
    Picks = {"SHUTDOWN_COMMAND"}
    ClientFdLimit = 6
INVARIANTS
    VerdictAgrees
    ToldShutdownStops
    NeverForgotten
PROPERTIES
    ClientNeverKills
    HangsOnlyWhenMuted
