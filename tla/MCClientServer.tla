--------------------------- MODULE MCClientServer ---------------------------
(* The values that the TLC runs give to the constants of ClientServer.     *)
EXTENDS ClientServer

Admin == "192.168.1.108"
Banned == "192.168.1.81"

TwoIPs == {Admin, Banned}
Hello == {<<"hello", "hello">>}
Messages == Hello \cup {<<"random">>, <<"RELOAD">>, Shutdown}
=============================================================================
