----------------------------- MODULE TcpServer -----------------------------
(***************************************************************************)
(* The server process of KCNet: main.cpp's loop, the TcpServer, Util and   *)
(* Logger singletons, create_tcp_socket and the SIGINT handler, running    *)
(* against a kernel descriptor table, one listening socket and any peers.  *)
(* One action is one call that can block, fail or be interrupted; the      *)
(* code between two such calls belongs to the action before it.            *)
(*                                                                         *)
(* A message is a sequence of tokens, the pieces in which TCP may deliver  *)
(* it; "NUL" is a zero byte, at which std::string(buffer) stops.           *)
(***************************************************************************)
EXTENDS Integers, SequencesExt

CONSTANTS
    Conns,       \* the connections that peers may ever make
    IPs,         \* the addresses they may come from
    FdLimit,     \* RLIMIT_NOFILE: descriptors are 0 .. FdLimit-1
    Backlog,     \* listen(server_fd, 5): the queue holds Backlog + 1
    BufCap,      \* sizeof(buffer) - 1, in tokens
    Data,        \* the tokens that are part of no command
    Payloads,    \* what a peer may write at once
    MaxInbox,    \* bound: tokens a socket's receive buffer holds
    ExtraLogs    \* TRUE when EXTRA_LOGS is defined

ASSUME ConnsAssumption == Conns \cap {"free", "std", "log", "listen"} = {}
ASSUME FdAssumption == FdLimit \in Nat /\ FdLimit >= 3
ASSUME SizeAssumption == Backlog \in Nat /\ BufCap \in Nat /\ MaxInbox \in Nat
ASSUME BuildAssumption == ExtraLogs \in BOOLEAN

AdminIp == "192.168.1.108"
BannedIps == {"192.168.1.81"}
BannedMessage == <<"BANNED">>
Shutdown == <<"SHUT", "DOWN">>
NoAddress == "unset"        \* client_address.sin_family is still 0
InvalidIp == "Invalid IP Address"
NoUser == ""                \* connectionPacket.userIp before any message

\* The buffer of ReadFromClient is longer than any command it looks for.
ASSUME CommandAssumption == BufCap > Len(Shutdown)
ASSUME IpAssumption == IPs \cap {NoAddress, InvalidIp, NoUser} = {}

Tokens == {"SHUT", "DOWN", "NUL", "BANNED"} \cup Data
ASSUME PayloadAssumption == Payloads \subseteq Seq(Tokens) \ {<<>>}

VARIABLES
    \* the process: control point, exit status, live static objects
    pc, status, statics,
    \* the process-wide flags: quit (main.cpp) and Util::isServerRunning
    quit, running,
    \* the members of TcpServer, and the stack buffer of ReadFromClient
    serverFd, clientFd, clientAddr, banned, userIp, buf,
    \* the kernel: descriptor table, accept queue
    fds, queue,
    \* each connection: peer's side, address, unread bytes
    link, ip, inbox,
    \* history: bytes received and sent on each connection, connections
    \* accepted after SIGINT, and whether accept has failed of itself
    read, out, lateAccepts, faulted

process == <<pc, status, statics>>
flags == <<quit, running>>
members == <<serverFd, clientFd, clientAddr, banned, userIp, buf>>
kernel == <<fds, queue>>
network == <<link, ip, inbox>>
history == <<read, out, lateAccepts, faulted>>
vars == <<process, flags, members, kernel, network, history>>

-----------------------------------------------------------------------------
(* The descriptor table.                                                   *)

Fd == 0 .. FdLimit - 1
FdEntries == {"free", "std", "log", "listen"} \cup Conns

\* open, socket and accept return the lowest number that is free.
LowestFree(n) ==
    /\ n \in Fd
    /\ fds[n] = "free"
    /\ \A m \in Fd : m < n => fds[m] # "free"

TableFull == \A n \in Fd : fds[n] # "free"
Listening == serverFd \in Fd /\ fds[serverFd] = "listen"

\* close() on every number in F: closing a number that is not open fails with
\* EBADF and is ignored, closing the listener resets what its queue holds.
CloseFds(F) ==
    LET closed  == {fds[n] : n \in F \cap Fd}
        orphans == IF "listen" \in closed THEN ToSet(queue) ELSE {}
    IN  /\ fds' = [n \in Fd |-> IF n \in F THEN "free" ELSE fds[n]]
        /\ queue' = IF "listen" \in closed THEN <<>> ELSE queue
        /\ link' = [c \in Conns |->
                        IF c \in closed \cup orphans THEN "gone" ELSE link[c]]

\* The kernel closes everything when the process is gone.
ProcessEnds(how) ==
    /\ pc' = "dead"
    /\ status' = how
    /\ CloseFds(Fd)

-----------------------------------------------------------------------------
(* Initial state: static storage is zero, the shell may or may not have     *)
(* left standard input open.                                               *)

Init ==
    /\ pc = "start" /\ status = "none" /\ statics = <<>>
    /\ quit = FALSE /\ running = FALSE
    /\ serverFd = 0 /\ clientFd = 0 /\ clientAddr = NoAddress
    /\ banned = FALSE /\ userIp = NoUser /\ buf = <<>>
    /\ \E std \in {{0, 1, 2}, {1, 2}} :
          fds = [n \in Fd |-> IF n \in std THEN "std" ELSE "free"]
    /\ queue = <<>>
    /\ link = [c \in Conns |-> "none"]
    /\ ip = [c \in Conns |-> NoAddress]
    /\ inbox = [c \in Conns |-> <<>>]
    /\ read = [c \in Conns |-> <<>>]
    /\ out = [c \in Conns |-> <<>>]
    /\ lateAccepts = 0 /\ faulted = FALSE

-----------------------------------------------------------------------------
(* Start: main up to the loop, then TcpServer's constructor.               *)

\* Mutant: the constructor does not log before it creates its socket.
MainWithoutLogger ==
    /\ pc = "start"
    /\ running' = TRUE
    /\ statics' = <<"Util">>
    /\ pc' = "socket"
    /\ UNCHANGED <<status, quit, members, kernel, network, history>>

\* Util::getInstance, SetServerRunning(true), sigaction, the first loop test.
Main ==
    /\ pc = "start"
    /\ running' = TRUE
    /\ statics' = <<"Util">>
    /\ pc' = "logger"
    /\ UNCHANGED <<status, quit, members, kernel, network, history>>

\* Mutant: the logger opens its file at the first message, not when built.
OpenLogLater ==
    /\ pc = "logger"
    /\ statics' = Append(statics, "Logger")
    /\ pc' = "socket"
    /\ UNCHANGED <<status, flags, members, kernel, network, history>>

\* The constructor logs first, so Logger is built and its file opened here.
OpenLog ==
    /\ pc = "logger"
    /\ \E n \in Fd : LowestFree(n) /\ fds' = [fds EXCEPT ![n] = "log"]
    /\ statics' = Append(statics, "Logger")
    /\ pc' = "socket"
    /\ UNCHANGED <<status, flags, members, queue, network, history>>

\* spdlog throws when it cannot open the file and nothing catches it.
LogFails ==
    /\ pc = "logger"
    /\ ProcessEnds("aborted")
    /\ UNCHANGED <<statics, flags, members, ip, inbox, history>>

\* create_tcp_socket succeeds; the constructor of TcpServer completes.
Listen ==
    /\ pc = "socket"
    /\ \E n \in Fd :
          /\ LowestFree(n)
          /\ fds' = [fds EXCEPT ![n] = "listen"]
          /\ serverFd' = n
    /\ banned' = FALSE
    /\ userIp' = NoUser
    /\ statics' = Append(statics, "TcpServer")
    /\ pc' = "run"
    /\ UNCHANGED <<status, flags, clientFd, clientAddr, buf, queue, network, history>>

\* Mutant: create_tcp_socket returns -1 where it calls exit.
SetupFailsQuietly ==
    /\ pc = "socket"
    /\ serverFd' = -1
    /\ statics' = Append(statics, "TcpServer")
    /\ pc' = "run"
    /\ UNCHANGED <<status, flags, clientFd, clientAddr, banned, userIp, buf,
                   kernel, network, history>>

\* socket, bind or listen fails: exit(EXIT_FAILURE) inside the constructor.
SetupFails ==
    /\ pc = "socket"
    /\ status' = "failure"
    /\ pc' = "exit"
    /\ UNCHANGED <<statics, flags, members, kernel, network, history>>

-----------------------------------------------------------------------------
(* RunServer: its check of server_fd, then SetupClientConnection.          *)

RunServer ==
    /\ pc = "run"
    /\ \/ serverFd # 0 /\ pc' = "accept" /\ status' = status
       \/ serverFd = 0 /\ pc' = "exit" /\ status' = "failure"
    /\ UNCHANGED <<statics, flags, members, kernel, network, history>>

\* Mutant: the address is asked for once, when the first client is accepted.
AcceptReturnsOldAddress ==
    /\ pc \in {"accept", "accepting"}
    /\ Listening
    /\ queue # <<>>
    /\ \E n \in Fd :
          /\ LowestFree(n)
          /\ fds' = [fds EXCEPT ![n] = Head(queue)]
          /\ clientFd' = n
    /\ clientAddr' = IF clientAddr = NoAddress THEN ip[Head(queue)] ELSE clientAddr
    /\ queue' = Tail(queue)
    /\ lateAccepts' = IF quit THEN lateAccepts + 1 ELSE lateAccepts
    /\ pc' = "recv"
    /\ UNCHANGED <<status, statics, flags, serverFd, banned, userIp, buf,
                   network, read, out, faulted>>

AcceptReturns ==
    /\ pc \in {"accept", "accepting"}
    /\ Listening
    /\ queue # <<>>
    /\ \E n \in Fd :
          /\ LowestFree(n)
          /\ fds' = [fds EXCEPT ![n] = Head(queue)]
          /\ clientFd' = n
    /\ clientAddr' = ip[Head(queue)]
    /\ queue' = Tail(queue)
    /\ lateAccepts' = IF quit THEN lateAccepts + 1 ELSE lateAccepts
    /\ pc' = "recv"
    /\ UNCHANGED <<status, statics, flags, serverFd, banned, userIp, buf,
                   network, read, out, faulted>>

AcceptSleeps ==
    /\ pc = "accept"
    /\ Listening
    /\ ~TableFull
    /\ queue = <<>>
    /\ pc' = "accepting"
    /\ UNCHANGED <<status, statics, flags, members, kernel, network, history>>

\* Mutant: the error path also closes client_fd, not yet overwritten.
AcceptErrorClosesBoth ==
    /\ CloseFds({serverFd, clientFd})
    /\ clientFd' = -1
    /\ pc' = "recv"
    /\ UNCHANGED <<status, statics, running, serverFd, clientAddr, banned,
                   userIp, buf, ip, inbox, read, out, lateAccepts>>

\* accept returned -1: perror, close(server_fd), and RunServer reads anyway.
AcceptError ==
    /\ CloseFds({serverFd})
    /\ clientFd' = -1
    /\ pc' = "recv"
    /\ UNCHANGED <<status, statics, running, serverFd, clientAddr, banned,
                   userIp, buf, ip, inbox, read, out, lateAccepts>>

\* EMFILE (the descriptor is reserved before the queue is looked at) or EBADF.
AcceptRefused ==
    /\ pc = "accept"
    /\ TableFull \/ ~Listening
    /\ faulted' = faulted

\* ENFILE, ENOMEM, ENOBUFS or ECONNABORTED: accept may fail whenever it would
\* look at the queue, with a good socket and descriptors to spare.
AcceptFaults ==
    /\ \/ pc = "accept"
       \/ pc = "accepting" /\ queue # <<>>
    /\ Listening
    /\ ~TableFull
    /\ faulted' = TRUE

AcceptFails ==
    /\ AcceptRefused \/ AcceptFaults
    /\ AcceptError
    /\ UNCHANGED quit

-----------------------------------------------------------------------------
(* ReadFromClient: one recv, the ban test, the commands, one reply.        *)

GetClientIp == IF clientAddr = NoAddress THEN InvalidIp ELSE clientAddr

\* Mutants: strncmp with the length of w, and a comparison of all the bytes.
CStringStarts(s, w) == IsPrefix(w, s)
CStringEquals(s, w) == s = w

\* std::string(buffer) == w: the bytes up to the first NUL are those of w.
CStringIs(s, w) ==
    /\ IsPrefix(w, s)
    /\ Len(s) > Len(w) => s[Len(w) + 1] = "NUL"

\* The connection clientFd stands for, when it stands for one.
HasClient == clientFd \in Fd /\ fds[clientFd] \in Conns
Client == fds[clientFd]

Receives(c) ==
    /\ pc \in {"recv", "receiving"}
    /\ HasClient /\ c = Client
    /\ inbox[c] # <<>>
    /\ LET size == IF Len(inbox[c]) < BufCap THEN Len(inbox[c]) ELSE BufCap
       IN  /\ buf' = SubSeq(inbox[c], 1, size)
           /\ read' = [read EXCEPT ![c] = @ \o SubSeq(inbox[c], 1, size)]
           /\ inbox' = [inbox EXCEPT ![c] = SubSeq(@, size + 1, Len(@))]

\* Mutant: the flag is tested before the list, so only the first banned
\* client is told.
RecvFromBannedOnce(c) ==
    /\ Receives(c)
    /\ GetClientIp \in BannedIps
    /\ \/ ExtraLogs /\ ~banned /\ pc' = "refuse" /\ banned' = banned
       \/ (banned \/ ~ExtraLogs) /\ pc' = "loop" /\ banned' = TRUE
    /\ UNCHANGED <<status, statics, flags, serverFd, clientFd, clientAddr,
                   userIp, kernel, link, ip, out, lateAccepts, faulted>>

RecvFromBanned(c) ==
    /\ Receives(c)
    /\ GetClientIp \in BannedIps
    /\ \/ ExtraLogs /\ pc' = "refuse" /\ banned' = banned
       \/ ~ExtraLogs /\ pc' = "loop" /\ banned' = TRUE
    /\ UNCHANGED <<status, statics, flags, serverFd, clientFd, clientAddr,
                   userIp, kernel, link, ip, out, lateAccepts, faulted>>

\* The flag that an earlier banned client set is still up: nothing is done.
RecvIgnored(c) ==
    /\ Receives(c)
    /\ GetClientIp \notin BannedIps
    /\ banned
    /\ pc' = "loop"
    /\ UNCHANGED <<status, statics, flags, serverFd, clientFd, clientAddr,
                   banned, userIp, kernel, link, ip, out, lateAccepts, faulted>>

\* Mutants: no check of the address, and a return where SHUTDOWN is obeyed.
RecvMessageFromAnyone(c) ==
    /\ Receives(c)
    /\ GetClientIp \notin BannedIps
    /\ ~banned
    /\ userIp' = GetClientIp
    /\ running' = (running /\ ~CStringIs(buf', Shutdown))
    /\ pc' = "echo"
    /\ UNCHANGED <<status, statics, quit, serverFd, clientFd, clientAddr,
                   banned, kernel, link, ip, out, lateAccepts, faulted>>

RecvMessageNoEcho(c) ==
    /\ Receives(c)
    /\ GetClientIp \notin BannedIps
    /\ ~banned
    /\ userIp' = GetClientIp
    /\ running' = (running /\ ~(CStringIs(buf', Shutdown) /\ userIp' = AdminIp))
    /\ pc' = IF running' THEN "echo" ELSE "loop"
    /\ UNCHANGED <<status, statics, quit, serverFd, clientFd, clientAddr,
                   banned, kernel, link, ip, out, lateAccepts, faulted>>

\* Mutant: the permission is looked up before the address is stored.
RecvMessageStaleUser(c) ==
    /\ Receives(c)
    /\ GetClientIp \notin BannedIps
    /\ ~banned
    /\ userIp' = GetClientIp
    /\ running' = (running /\ ~(CStringIs(buf', Shutdown) /\ userIp = AdminIp))
    /\ pc' = "echo"
    /\ UNCHANGED <<status, statics, quit, serverFd, clientFd, clientAddr,
                   banned, kernel, link, ip, out, lateAccepts, faulted>>

RecvMessage(c) ==
    /\ Receives(c)
    /\ GetClientIp \notin BannedIps
    /\ ~banned
    /\ userIp' = GetClientIp
    /\ running' = (running /\ ~(CStringIs(buf', Shutdown) /\ userIp' = AdminIp))
    /\ pc' = "echo"
    /\ UNCHANGED <<status, statics, quit, serverFd, clientFd, clientAddr,
                   banned, kernel, link, ip, out, lateAccepts, faulted>>

\* Mutants: end of stream is taken for "no data yet", and a failed recv closes
\* the listening socket as a failed accept does.
RecvNothingOnlyOnError ==
    /\ pc \in {"recv", "receiving"}
    /\ ~(HasClient /\ (inbox[Client] # <<>> \/ link[Client] \in {"up", "fin"}))
    /\ pc' = "loop"
    /\ UNCHANGED <<status, statics, flags, members, kernel, network, history>>

RecvNothingCloses ==
    /\ pc \in {"recv", "receiving"}
    /\ ~(HasClient /\ (inbox[Client] # <<>> \/ link[Client] = "up"))
    /\ pc' = "loop"
    /\ CloseFds({serverFd})
    /\ UNCHANGED <<status, statics, flags, members, ip, inbox, history>>

\* Mutant: client_fd is non-blocking, so recv also returns -1 when nothing is
\* there yet.
RecvNothingYet ==
    /\ pc \in {"recv", "receiving"}
    /\ ~(HasClient /\ inbox[Client] # <<>>)
    /\ pc' = "loop"
    /\ UNCHANGED <<status, statics, flags, members, kernel, network, history>>

\* recv returns 0 (end of stream) or -1 (reset, EBADF): nothing to do.
RecvNothing ==
    /\ pc \in {"recv", "receiving"}
    /\ ~(HasClient /\ (inbox[Client] # <<>> \/ link[Client] = "up"))
    /\ pc' = "loop"
    /\ UNCHANGED <<status, statics, flags, members, kernel, network, history>>

RecvSleeps ==
    /\ pc = "recv"
    /\ HasClient
    /\ inbox[Client] = <<>>
    /\ link[Client] = "up"
    /\ pc' = "receiving"
    /\ UNCHANGED <<status, statics, flags, members, kernel, network, history>>

\* SendNonBlocking on a socket nothing was sent on before: a reply always
\* fits, and a peer that reset the connection makes send return -1.
Sends(c, m) ==
    \/ link[c] \in {"up", "fin"} /\ out' = [out EXCEPT ![c] = @ \o m]
    \/ link[c] = "rst" /\ out' = out

\* Mutant: the line that is commented out above it, which echoes the message.
RefuseEchoes(c) ==
    /\ pc = "refuse"
    /\ HasClient /\ c = Client
    /\ Sends(c, buf)
    /\ banned' = TRUE
    /\ pc' = "loop"
    /\ UNCHANGED <<status, statics, flags, serverFd, clientFd, clientAddr,
                   userIp, buf, kernel, network, read, lateAccepts, faulted>>

\* Mutant: the flag is tested before the list is searched, so that a refused
\* message is still echoed.
RefuseFallsThrough(c) ==
    /\ pc = "refuse"
    /\ HasClient /\ c = Client
    /\ Sends(c, BannedMessage)
    /\ banned' = TRUE
    /\ pc' = "echo"
    /\ UNCHANGED <<status, statics, flags, serverFd, clientFd, clientAddr,
                   userIp, buf, kernel, network, read, lateAccepts, faulted>>

Refuse(c) ==
    /\ pc = "refuse"
    /\ HasClient /\ c = Client
    /\ Sends(c, BannedMessage)
    /\ banned' = TRUE
    /\ pc' = "loop"
    /\ UNCHANGED <<status, statics, flags, serverFd, clientFd, clientAddr,
                   userIp, buf, kernel, network, read, lateAccepts, faulted>>

\* Mutant: strlen(buffer) where the length that recv returned is sent.
EchoCString(c) ==
    /\ pc = "echo"
    /\ HasClient /\ c = Client
    /\ \E k \in 0 .. Len(buf) :
          /\ \A i \in 1 .. k : buf[i] # "NUL"
          /\ k < Len(buf) => buf[k + 1] = "NUL"
          /\ Sends(c, SubSeq(buf, 1, k))
    /\ pc' = "loop"
    /\ UNCHANGED <<status, statics, flags, members, kernel, network, read,
                   lateAccepts, faulted>>

Echo(c) ==
    /\ pc = "echo"
    /\ HasClient /\ c = Client
    /\ Sends(c, buf)
    /\ pc' = "loop"
    /\ UNCHANGED <<status, statics, flags, members, kernel, network, read,
                   lateAccepts, faulted>>

\* send on a connection that ended and was then reset: EPIPE, and SIGPIPE,
\* which the program leaves at its default, ends the process.
SendRaisesSigpipe ==
    /\ pc \in {"refuse", "echo"}
    /\ HasClient
    /\ link[Client] = "finrst"
    /\ ProcessEnds("killed")
    /\ UNCHANGED <<statics, flags, members, ip, inbox, history>>

-----------------------------------------------------------------------------
(* The end of main's loop body, exit and the destructors.                  *)

\* Mutants: main tests only isServerRunning, or only quit, or stays with the
\* client it has.
LoopWithoutQuit ==
    /\ pc = "loop"
    /\ \/ ~running /\ pc' = "exit" /\ status' = "success"
       \/ running /\ pc' = "run" /\ status' = status
    /\ UNCHANGED <<statics, flags, members, kernel, network, history>>

LoopWithoutRunning ==
    /\ pc = "loop"
    /\ \/ quit /\ pc' = "exit" /\ status' = "success"
       \/ ~quit /\ pc' = "run" /\ status' = status
    /\ UNCHANGED <<statics, flags, members, kernel, network, history>>

LoopKeepsClient ==
    /\ pc = "loop"
    /\ \/ (quit \/ ~running) /\ pc' = "exit" /\ status' = "success"
       \/ ~quit /\ running /\ pc' = "recv" /\ status' = status
    /\ UNCHANGED <<statics, flags, members, kernel, network, history>>

Loop ==
    /\ pc = "loop"
    /\ \/ (quit \/ ~running) /\ pc' = "exit" /\ status' = "success"
       \/ ~quit /\ running /\ pc' = "run" /\ status' = status
    /\ UNCHANGED <<statics, flags, members, kernel, network, history>>

\* Statics are destroyed in the reverse order of their construction.
DestroyServer ==
    /\ pc = "exit"
    /\ statics # <<>> /\ Last(statics) = "TcpServer"
    /\ CloseFds({clientFd, serverFd})
    /\ serverFd' = 0 /\ clientFd' = 0
    /\ banned' = FALSE /\ userIp' = NoUser
    /\ statics' = Front(statics)
    /\ UNCHANGED <<pc, status, flags, clientAddr, buf, ip, inbox, history>>

DestroyOther ==
    /\ pc = "exit"
    /\ statics # <<>> /\ Last(statics) # "TcpServer"
    /\ statics' = Front(statics)
    /\ UNCHANGED <<pc, status, flags, members, kernel, network, history>>

Exit ==
    /\ pc = "exit"
    /\ statics = <<>>
    /\ ProcessEnds(status)
    /\ UNCHANGED <<statics, flags, members, ip, inbox, history>>

-----------------------------------------------------------------------------
(* SIGINT.  sa_flags is 0, so it makes a sleeping accept or recv return     *)
(* EINTR; at any other point got_signal only sets the flag.                *)

SignalKills ==
    /\ pc = "start"
    /\ ProcessEnds("killed")
    /\ UNCHANGED <<statics, flags, members, ip, inbox, history>>

SignalInAccept ==
    /\ pc = "accepting"
    /\ quit' = TRUE
    /\ AcceptError
    /\ UNCHANGED faulted

\* Mutant: sigaction with SA_RESTART, so recv goes on sleeping.
SignalInRecvRestarts ==
    /\ pc = "receiving"
    /\ quit' = TRUE
    /\ UNCHANGED <<process, running, members, kernel, network, history>>

SignalInRecv ==
    /\ pc = "receiving"
    /\ quit' = TRUE
    /\ pc' = "loop"
    /\ UNCHANGED <<status, statics, running, members, kernel, network, history>>

SignalNoted ==
    /\ pc \notin {"start", "accepting", "receiving", "dead"}
    /\ quit' = TRUE
    /\ UNCHANGED <<process, running, members, kernel, network, history>>

-----------------------------------------------------------------------------
(* The peers and the network.                                              *)

PeerConnect(c, a) ==
    /\ link[c] = "none"
    /\ Listening
    /\ Len(queue) <= Backlog
    /\ link' = [link EXCEPT ![c] = "up"]
    /\ ip' = [ip EXCEPT ![c] = a]
    /\ queue' = Append(queue, c)
    /\ UNCHANGED <<process, flags, members, fds, inbox, history>>

PeerSend(c, m) ==
    /\ link[c] = "up"
    /\ Len(inbox[c]) + Len(m) <= MaxInbox
    /\ inbox' = [inbox EXCEPT ![c] = @ \o m]
    /\ UNCHANGED <<process, flags, members, kernel, link, ip, history>>

PeerFin(c) ==
    /\ link[c] = "up"
    /\ link' = [link EXCEPT ![c] = "fin"]
    /\ UNCHANGED <<process, flags, members, kernel, ip, inbox, history>>

PeerReset(c) ==
    /\ link[c] \in {"up", "fin"}
    /\ link' = [link EXCEPT ![c] = IF @ = "up" THEN "rst" ELSE "finrst"]
    /\ UNCHANGED <<process, flags, members, kernel, ip, inbox, history>>

-----------------------------------------------------------------------------
ServerStep ==
    \/ Main \/ OpenLog \/ LogFails \/ Listen \/ SetupFails
    \/ RunServer \/ AcceptReturns \/ AcceptSleeps \/ AcceptFails
    \/ \E c \in Conns : RecvFromBanned(c) \/ RecvIgnored(c) \/ RecvMessage(c)
    \/ RecvNothing \/ RecvSleeps
    \/ \E c \in Conns : Refuse(c) \/ Echo(c)
    \/ SendRaisesSigpipe
    \/ Loop \/ DestroyServer \/ DestroyOther \/ Exit

Signal == SignalKills \/ SignalInAccept \/ SignalInRecv \/ SignalNoted

PeerStep ==
    \E c \in Conns :
        \/ \E a \in IPs : PeerConnect(c, a)
        \/ \E m \in Payloads : PeerSend(c, m)
        \/ PeerFin(c)
        \/ PeerReset(c)

\* The process is gone: the only state in which nothing is left to happen.
Gone == pc = "dead" /\ UNCHANGED vars

Next == ServerStep \/ Signal \/ PeerStep \/ Gone

Spec == Init /\ [][Next]_vars

-----------------------------------------------------------------------------
(* Fairness: the kernel schedules the server, so every step it can take is  *)
(* taken in the end.  Nothing is assumed of the peers or of SIGINT but what *)
(* a liveness property names as its premise.                               *)

FairSpec == Spec /\ WF_vars(ServerStep)

-----------------------------------------------------------------------------
(* Types.                                                                  *)

Pcs == {"start", "logger", "socket", "run", "accept", "accepting", "recv",
        "receiving", "refuse", "echo", "loop", "exit", "dead"}
Statuses == {"none", "success", "failure", "killed", "aborted"}
Links == {"none", "up", "fin", "rst", "finrst", "gone"}
Classes == {"Util", "Logger", "TcpServer"}

\* Every variable stays in its type.
TypeOK ==
    /\ pc \in Pcs /\ status \in Statuses /\ statics \in Seq(Classes)
    /\ quit \in BOOLEAN /\ running \in BOOLEAN
    /\ serverFd \in Fd /\ clientFd \in Fd \cup {-1}
    /\ clientAddr \in IPs \cup {NoAddress}
    /\ banned \in BOOLEAN /\ userIp \in IPs \cup {NoUser, InvalidIp} /\ buf \in Seq(Tokens)
    /\ fds \in [Fd -> FdEntries] /\ queue \in Seq(Conns)
    /\ link \in [Conns -> Links]
    /\ ip \in [Conns -> IPs \cup {NoAddress}]
    /\ inbox \in [Conns -> Seq(Tokens)]
    /\ read \in [Conns -> Seq(Tokens)]
    /\ out \in [Conns -> Seq(Tokens)]
    /\ lateAccepts \in Nat /\ faulted \in BOOLEAN

-----------------------------------------------------------------------------
(* Safety.                                                                 *)

\* The TcpServer object exists: constructed, and not destroyed.
Alive == "TcpServer" \in ToSet(statics) /\ pc # "dead"

\* The connection a reply is still owed to.
Answering(c) == pc \in {"refuse", "echo"} /\ HasClient /\ Client = c

\* The connection that recv is called on.
Hearing(c) == pc \in {"recv", "receiving"} /\ HasClient /\ Client = c

\* A peer's bytes are the command w: w alone, or w closed by a NUL.
Says(s, w) == s = w \/ IsPrefix(Append(w, "NUL"), s)

\* What a peer gets back is what the server read from that very connection,
\* or, for a banned address, the ban notice and nothing of its message
\* (ReadFromClient, GetClientIp of the last accept, one shared buffer).
ReplyIntegrity ==
    \A c \in Conns : out[c] # <<>> =>
        out[c] = IF ip[c] \in BannedIps THEN BannedMessage ELSE read[c]

\* A message that was read and got no reply, on a connection that can carry
\* one, is explained by the ban flag: nothing else makes ReadFromClient
\* return without answering.
OnlyBanSilences ==
    \A c \in Conns :
        /\ read[c] # <<>> /\ out[c] = <<>>
        /\ link[c] \in {"up", "fin"}
        /\ ~Answering(c)
        /\ Alive
        => banned

\* Whoever writes from a banned address is told so, however many wrote before
\* (the loop over bannedClientIpVector; holds when EXTRA_LOGS is defined).
BannedAreTold ==
    \A c \in Conns :
        /\ ip[c] \in BannedIps /\ read[c] # <<>>
        /\ link[c] \in {"up", "fin"}
        /\ ~Answering(c)
        => out[c] = BannedMessage

\* An exit with EXIT_SUCCESS was asked for: by SIGINT, or by a SHUTDOWN that
\* the server read on a connection from the administrator's address.
StopsOnlyWhenTold ==
    status = "success" =>
        \/ quit
        \/ \E c \in Conns : ip[c] = AdminIp /\ Says(read[c], Shutdown)

\* A SHUTDOWN from the administrator's address that got its echo has stopped
\* the server, whatever followed its terminating NUL in the same read.
AnsweredShutdownStops ==
    \A c \in Conns :
        ip[c] = AdminIp /\ Says(read[c], Shutdown) /\ out[c] # <<>> => ~running

\* Once SIGINT has been noted the server accepts at most one more connection
\* before it leaves its loop, however many are queued.
AtMostOneLateAccept == lateAccepts <= 1

\* RunServer takes server_fd == 0 for "no socket".  The listening socket never
\* has that number, even when the program starts with standard input closed,
\* because the constructor opened the log file first.
ServerFdNotZero == "listen" \in {fds[n] : n \in Fd} => fds[0] # "listen"

\* ~TcpServer logs through Logger::getInstance(): while TcpServer lives, so
\* does a Logger that was constructed before it.
LoggerOutlivesServer ==
    \A i \in DOMAIN statics : statics[i] = "TcpServer" =>
        \E j \in 1 .. i - 1 : statics[j] = "Logger"

\* Every loss of the listening socket is a failed accept's: accept failed of
\* itself, or SIGINT broke it, or the descriptor table was full and closing the
\* listener freed the one number that is free since.  No client, message, ban,
\* reset or failed recv or send costs the server its socket.
ListenerLossExplained ==
    /\ Alive
    /\ ~Listening
    => faulted \/ quit \/ \A m, n \in Fd : fds[m] = "free" /\ fds[n] = "free" => m = n

\* The close() calls of the destructor and of a failed accept hit sockets
\* only, never standard input or the log file, whatever client_fd holds.
ClosesOnlySockets ==
    [][pc' = "dead" \/ \A n \in Fd : fds[n] \in {"std", "log"} => fds'[n] = fds[n]]_vars

\* A connection is read once and answered once: when RunServer has returned,
\* no later call comes back to it.
OneExchangePerConnection ==
    [][\A c \in Conns :
          /\ read[c] # <<>> => read'[c] = read[c]
          /\ out[c] # <<>> => out'[c] = out[c]]_vars

-----------------------------------------------------------------------------
(* Liveness.                                                               *)

\* After an accepted SHUTDOWN the process ends, whatever the peers do.
ShutdownEndsServer == (pc = "echo" /\ ~running) ~> pc = "dead"

\* A user who, having pressed Ctrl-C, presses it again while the server sleeps.
PatientUser == WF_vars(quit /\ (SignalInAccept \/ SignalInRecv))

\* After SIGINT the process ends, provided a SIGINT that came too early is
\* repeated while the server sleeps (main's quit test, EINTR without SA_RESTART).
RepeatedSigintEndsServer == PatientUser => (quit ~> pc = "dead")

\* Peers that do not keep a connection open and silent for ever.
LivelyPeers == \A c \in Conns : WF_vars(PeerFin(c))

\* A queued connection is accepted, or reset, in the end, provided no peer
\* holds the one that is being read (one blocking recv per RunServer).
QueueDrains ==
    LivelyPeers => \A c \in Conns : c \in ToSet(queue) ~> c \notin ToSet(queue)

-----------------------------------------------------------------------------
(* What the repository says of the server and its code does not do.        *)

\* Readme.md: the server "runs a basic TCP socket in a while loop and cleans
\* up with a SIGINT".
SigintEndsServer == quit ~> pc = "dead"

\* tcp_server.h: connectionPacket is "the current connection packet, for each
\* user that connects", and says whether that user is banned.
OthersNotSilenced ==
    \A c \in Conns :
        /\ read[c] # <<>> /\ out[c] = <<>>
        /\ link[c] \in {"up", "fin"} /\ pc = "loop"
        => ip[c] \in BannedIps

\* tcp_server.cpp: accept's "Bad file descriptor" errors happen only when the
\* server is made non-blocking.  (Not even without a fault of the kernel's.)
AcceptsOnOpenSocket == pc = "accept" /\ ~faulted => Listening

\* tcp_server.cpp, in the destructor: "close connections".
ConnectionsClosed ==
    pc = "exit" /\ statics = <<"Util", "Logger">> =>
        \A n \in Fd : fds[n] \notin Conns
=============================================================================
