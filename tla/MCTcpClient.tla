---------------------------- MODULE MCTcpClient ----------------------------
(* The values that the TLC runs give to the constants of TcpClient.        *)
EXTENDS TcpClient

AnyFault == {"open", "read", "socket"}
=============================================================================
