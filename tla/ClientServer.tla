---------------------------- MODULE ClientServer ----------------------------
(***************************************************************************)
(* KCNet as a whole: the server process of TcpServer, one client program   *)
(* of TcpClient, and other peers.  A connection of the client is the       *)
(* server's connection; what the client sends is what the server may read, *)
(* and what the server sent is what reaches the client, unless a reset     *)
(* overtakes it.  A message of a client is short enough for one segment.   *)
(*                                                                         *)
(* Each action is an action of one program together with what it does to   *)
(* the connection they share.                                              *)
(***************************************************************************)
EXTENDS TcpServer

CONSTANTS
    Own,            \* the connections that the client may make; bounds its calls
    Homes,          \* the addresses it may run at
    Builds,         \* what it is built as
    Picks,          \* what its user may choose besides the preselected command
    ClientFdLimit,  \* its RLIMIT_NOFILE
    OtherPayloads   \* what other peers may write at once

\* The bytes of what the client sends.
Wire(m) == IF m = "SHUTDOWN" THEN Shutdown ELSE <<m>>

ASSUME OwnAssumption == Own \subseteq Conns \ {"none"}
ASSUME HomesAssumption == Homes \subseteq IPs
ASSUME ClientAssumption ==
    /\ Builds \subseteq {"gui", "console"}
    /\ Picks \subseteq {"URANDOM_MESSAGE", "RELOAD_COMMAND", "SHUTDOWN_COMMAND"}
    /\ ClientFdLimit \in Nat /\ ClientFdLimit >= 3
ASSUME WireAssumption ==
    /\ Wire("random") \in Payloads /\ Wire("RELOAD") \in Payloads
    /\ Wire("SHUTDOWN") \in Payloads
    /\ OtherPayloads \subseteq Payloads

VARIABLES
    \* where the client runs, and the connection of its last call
    home, conn,
    \* the variables of TcpClient
    build, cPc, cStatus, choice, command, fd_, fd, randomValue, sock, result,
    cFds, cLink, cInbox, sent, reply, room, faulty, generated, answered

client == <<build, cPc, cStatus, choice, command, fd_, fd, randomValue, sock,
            result, cFds, cLink, cInbox, sent, reply, room, faulty, generated,
            answered>>
allvars == <<vars, home, conn, client>>

User == INSTANCE TcpClient WITH
    FdLimit <- ClientFdLimit,
    Faults <- {},
    pc <- cPc,
    status <- cStatus,
    fds <- cFds,
    link <- cLink,
    inbox <- cInbox

\* Bound: both were started with standard input; TcpServer and TcpClient are
\* checked without.
CInit ==
    /\ Init /\ User!Init
    /\ fds[0] = "std" /\ cFds[0] = "std"
    /\ home \in Homes
    /\ conn = "none"

-----------------------------------------------------------------------------
(* The client's steps.                                                     *)

\* Bound: there is a call to make only while there is a connection to make.
CallsLeft == \E c \in Own : link[c] = "none"

Click ==
    /\ CallsLeft
    /\ User!Click \/ User!Main
    /\ conn' = "none"
    /\ UNCHANGED <<vars, home>>

Choose ==
    /\ CallsLeft
    /\ \E c \in Picks : User!Choose(c)
    /\ UNCHANGED <<vars, home, conn>>

\* What concerns the client alone, up to its socket, and its return.
Works ==
    /\ \/ User!ConstructUrandom
       \/ User!OpenRandom \/ User!OpenRandomFails \/ User!GenerateRandom
       \/ User!CreateSocket \/ User!RecvReply \/ User!RecvNothing
    /\ UNCHANGED <<vars, home, conn>>

Connect(c) ==
    /\ User!Connect
    /\ PeerConnect(c, home)
    /\ conn' = c
    /\ UNCHANGED home

\* Refused when nobody listens, timed out while the accept queue is full.
ConnectFails ==
    /\ ~Listening \/ Len(queue) > Backlog
    /\ User!ConnectFails
    /\ UNCHANGED <<vars, home, conn>>

\* Bytes for a connection that the server has closed go nowhere.
SendMessageToServer ==
    /\ User!SendMessageToServer
    /\ IF conn \in Own /\ link[conn] = "up"
       THEN PeerSend(conn, Wire(User!Message))
       ELSE UNCHANGED vars
    /\ UNCHANGED <<home, conn>>

\* The program ends by itself.
Stops ==
    /\ \/ User!MainReturns
       \/ User!ConstructUrandomThrows \/ User!GenerateRandomThrows
       \/ User!SocketFails \/ User!SendRaisesSigpipe
    /\ UNCHANGED <<vars, home, conn>>

\* Its user ends it; bound: not by a kill before it has a connection.
Leaves ==
    /\ \/ User!Quit
       \/ conn # "none" /\ User!Kill
    /\ UNCHANGED <<vars, home, conn>>

-----------------------------------------------------------------------------
(* The server's steps, and what the network carries back.                  *)

Serves == ServerStep /\ UNCHANGED <<home, conn, client>>
Interrupts == Signal /\ UNCHANGED <<home, conn, client>>

\* Mutant: the client's copy of the notice has other words.
OtherNotice == <<"BANNED", "IP">>

\* The client's own copy of bannedMessage.
ClientNotice == <<"BANNED">>

Delivers ==
    /\ cPc # "dead" /\ conn \in Own /\ out[conn] # <<>>
    /\ User!ServerAnswers(IF CStringIs(out[conn], ClientNotice) THEN "notice" ELSE "other")
    /\ UNCHANGED <<vars, home, conn>>

\* The end of the stream comes after what was sent on it; a reset need not.
Breaks ==
    /\ cPc # "dead" /\ conn \in Own /\ link[conn] = "gone"
    /\ \/ User!ServerCloses /\ (out[conn] # <<>> => reply # "none")
       \/ User!ServerResets
    /\ UNCHANGED <<vars, home, conn>>

\* The kernel of a client that is gone closes its connections, by a reset if it
\* holds a reply that was not read, and resets when a reply comes later.
Hangs(c) ==
    /\ cPc = "dead" /\ link[c] = "up"
    /\ IF c = conn /\ cInbox # "none" THEN PeerReset(c) ELSE PeerFin(c)
    /\ UNCHANGED <<home, conn, client>>

Bounces(c) ==
    /\ link[c] = "fin" /\ out[c] # <<>>
    /\ PeerReset(c)
    /\ UNCHANGED <<home, conn, client>>

\* Bound: what another peer does once the server is done with it is left out.
Matters(c) == read[c] = <<>> \/ Answering(c)

Others ==
    /\ \E c \in Conns \ Own :
          /\ Matters(c)
          /\ \/ \E a \in IPs : PeerConnect(c, a)
             \/ \E m \in OtherPayloads : PeerSend(c, m)
             \/ PeerFin(c)
             \/ PeerReset(c)
    /\ UNCHANGED <<home, conn, client>>

\* Both programs are gone.
AllGone == pc = "dead" /\ cPc = "dead" /\ UNCHANGED allvars

ClientStep ==
    \/ Works \/ \E c \in Own : Connect(c)
    \/ ConnectFails \/ SendMessageToServer \/ Stops

Network == Delivers \/ Breaks

CNext ==
    \/ Click \/ Choose \/ Leaves \/ ClientStep
    \/ Serves \/ Interrupts \/ Network \/ \E c \in Own : Hangs(c) \/ Bounces(c)
    \/ Others \/ AllGone

CSpec == CInit /\ [][CNext]_allvars

\* Both programs are scheduled and the network delivers: the reply, the end of
\* the stream or a reset, but no reset after the end.  Nothing is assumed of the
\* user, of SIGINT, or of the other peers.
Arrives == Delivers \/ (cLink = "up" /\ Breaks)

CFairSpec ==
    CSpec /\ WF_allvars(ClientStep) /\ WF_allvars(Serves) /\ WF_allvars(Arrives)

-----------------------------------------------------------------------------
(* What holds of the two programs together.                                *)

\* ConnectToServer has returned and said v.
Said(v) == cPc \in {"idle", "return"} /\ result = v

\* A client that reports success is not banned, and the server read exactly its
\* message and sent it back; one that had a connection and reports failure has
\* been told that it is banned, or the server has dropped the connection.  (The
\* client looks only at whether the reply is the ban notice, of which each
\* program has a copy of its own.)
VerdictAgrees ==
    /\ Said("success") =>
           /\ home \notin BannedIps
           /\ read[conn] = Wire(sent) /\ out[conn] = read[conn]
    /\ Said("failure") /\ conn # "none" =>
           \/ home \in BannedIps /\ reply = "notice"
           \/ link[conn] = "gone"

\* The administrator whose client reports success for SHUTDOWN has stopped the
\* server: it has left its loop or is about to, without another accept.
ToldShutdownStops ==
    Said("success") /\ sent = "SHUTDOWN" /\ home = AdminIp =>
        ~running /\ pc \in {"loop", "exit", "dead"}

\* Whatever a KCNet client does, its end included, it never makes the server
\* die of SIGPIPE: one message, one reply, so no second send can follow the
\* reset that a first one provokes.
ClientNeverKills ==
    [][status # "killed" /\ status' = "killed" /\ pc # "start" => Client \notin Own]_allvars

\* A call of ConnectToServer that waits in recv has not been forgotten, unless
\* the ban flag mutes the server: an answer or the end of the connection is on
\* its way, or RunServer still has the whole message before it, in the queue or
\* at its recv, or it is about to end and to close everything.
NeverForgotten ==
    cPc = "recv" /\ cLink = "up" /\ reply = "none" /\ ~banned =>
        \/ out[conn] # <<>> \/ link[conn] = "gone"
        \/ Answering(conn)
        \/ /\ inbox[conn] = Wire(sent)
           /\ conn \in ToSet(queue) \/ Hearing(conn)
        \/ pc = "exit" \/ (pc = "loop" /\ quit)

\* Peers that do not keep a connection open and silent for ever.
LivelyOthers ==
    \A c \in Conns \ Own : WF_allvars(Matters(c) /\ PeerFin(c)
                                /\ UNCHANGED <<home, conn, client>>)

\* The only thing that can make a call of ConnectToServer hang, when no other
\* peer holds up the queue, is the ban flag.
HangsOnlyWhenMuted ==
    LivelyOthers =>
        (cPc \notin {"idle", "main", "dead"} ~>
             cPc \in {"idle", "return", "dead"} \/ banned)
=============================================================================
