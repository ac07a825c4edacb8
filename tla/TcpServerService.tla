-------------------------- MODULE TcpServerService --------------------------
(***************************************************************************)
(* TcpServer implements OneShotService.  The line is the accept queue,      *)
(* preceded by the connection that RunServer has accepted and not read yet *)
(* (or is reading); the one that is being dealt with is the connection     *)
(* whose message ReadFromClient has in its buffer.                         *)
(***************************************************************************)
EXTENDS TcpServer

ASSUME NobodyAssumption == "nobody" \notin Conns

Stage ==
    IF Listening THEN "open"
    ELSE IF pc \in {"start", "logger", "socket"} THEN "starting"
    ELSE "closed"

Known == {c \in Conns : link[c] # "none"}
Barred == {c \in Conns : ip[c] \in BannedIps}

Line ==
    IF pc \in {"recv", "receiving"} /\ HasClient THEN <<Client>> \o queue
    ELSE queue

Busy == IF pc \in {"refuse", "echo"} /\ HasClient THEN Client ELSE "nobody"
Muted == Listening /\ banned

Service == INSTANCE OneShotService WITH
    Notice <- BannedMessage,
    stage <- Stage,
    known <- Known,
    barred <- Barred,
    line <- Line,
    busy <- Busy,
    muted <- Muted,
    given <- read,
    answer <- out

\* Every behaviour of the server is one of the service: served in the order of
\* arrival, one at a time, heard once, answered once with its own bytes or the
\* notice, silent only when muted (SetupClientConnection, ReadFromClient,
\* RunServer, over one client_fd, client_address and buffer).
RefinesService == Service!Spec
=============================================================================
