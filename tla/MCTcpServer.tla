---------------------------- MODULE MCTcpServer ----------------------------
(* The values that the TLC runs give to the constants of TcpServer.        *)
EXTENDS TcpServerService

Admin == "192.168.1.108"
Banned == "192.168.1.81"
Other == "10.0.0.7"

NotBannedIPs == {Admin, Other}
TwoIPs == {Admin, Banned}
AllIPs == {Admin, Banned, Other}

\* SHUTDOWN in two segments, and bytes that follow a NUL.
SplitPayloads == {<<"SHUT">>, <<"DOWN">>, <<"NUL", "more">>}
ShutdownPayload == {<<"SHUT", "DOWN">>}
ShortPayloads == {<<"SHUT", "DOWN">>, <<"hello">>}

\* Connections are alike: nothing orders or compares them, or chooses one.
ConnsAlike == Permutations(Conns)
=============================================================================
