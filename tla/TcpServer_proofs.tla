-------------------------- MODULE TcpServer_proofs --------------------------
(* Theorems about the server process, for every set of connections, table  *)
(* size, backlog and payload, with their proofs.                           *)
EXTENDS TcpServer, SequenceTheorems, TLAPS

\* 0, what static storage holds, is a descriptor number.
LEMMA ZeroIsFd == 0 \in Fd
BY FdAssumption DEF Fd

\* The initial state has the types of TypeOK.
LEMMA InitType == Init => TypeOK
<1> SUFFICES ASSUME Init PROVE TypeOK
  OBVIOUS
<1> USE FdAssumption
<1>1. fds \in [Fd -> FdEntries]
  <2>1. PICK std : fds = [n \in Fd |-> IF n \in std THEN "std" ELSE "free"]
    BY DEF Init
  <2> QED
    BY <2>1 DEF FdEntries
<1>2. statics \in Seq(Classes) /\ buf \in Seq(Tokens) /\ queue \in Seq(Conns)
  BY DEF Init
<1>3. /\ inbox \in [Conns -> Seq(Tokens)]
      /\ read \in [Conns -> Seq(Tokens)]
      /\ out \in [Conns -> Seq(Tokens)]
  <2>1. <<>> \in Seq(Tokens)
    OBVIOUS
  <2> QED
    BY <2>1 DEF Init
<1> QED
  BY <1>1, <1>2, <1>3, ZeroIsFd
  DEF Init, TypeOK, Pcs, Statuses, Links

\* What close() leaves behind has the type of what it found.
LEMMA CloseFdsType ==
  ASSUME TypeOK, NEW F, CloseFds(F)
  PROVE  /\ fds' \in [Fd -> FdEntries]
         /\ queue' \in Seq(Conns)
         /\ link' \in [Conns -> Links]
<1>1. fds' \in [Fd -> FdEntries]
  BY DEF TypeOK, CloseFds, FdEntries
<1>2. queue' \in Seq(Conns)
  BY DEF TypeOK, CloseFds
<1>3. link' \in [Conns -> Links]
  BY DEF TypeOK, CloseFds, Links
<1> QED
  BY <1>1, <1>2, <1>3

\* Every step keeps the types of TypeOK.
LEMMA NextType == TypeOK /\ [Next]_vars => TypeOK'
<1> SUFFICES ASSUME TypeOK, [Next]_vars PROVE TypeOK'
  OBVIOUS
<1> USE FdAssumption, IpAssumption, PayloadAssumption, SizeAssumption
<1>1. CASE Main
  BY <1>1 DEF Main, TypeOK, Pcs, Classes, members, kernel, network, history
<1>2. CASE OpenLog
  <2>1. fds' \in [Fd -> FdEntries]
    BY <1>2 DEF OpenLog, TypeOK, FdEntries
  <2>2. statics' \in Seq(Classes)
    BY <1>2 DEF OpenLog, TypeOK, Classes
  <2> QED
    BY <1>2, <2>1, <2>2 DEF OpenLog, TypeOK, Pcs, flags, members, network, history
<1>3. CASE LogFails
  BY <1>3, CloseFdsType DEF LogFails, ProcessEnds, TypeOK, Pcs, Statuses, flags, members, history
<1>4. CASE Listen
  <2>1. fds' \in [Fd -> FdEntries] /\ serverFd' \in Fd
    BY <1>4 DEF Listen, TypeOK, FdEntries
  <2>2. statics' \in Seq(Classes)
    BY <1>4 DEF Listen, TypeOK, Classes
  <2> QED
    BY <1>4, <2>1, <2>2 DEF Listen, TypeOK, Pcs, flags, network, history
<1>5. CASE SetupFails
  BY <1>5 DEF SetupFails, TypeOK, Pcs, Statuses, flags, members, kernel, network, history
<1>6. CASE RunServer
  BY <1>6 DEF RunServer, TypeOK, Pcs, Statuses, flags, members, kernel, network, history
<1>7. CASE AcceptReturns
  BY <1>7 DEF AcceptReturns, TypeOK, Pcs, FdEntries, flags, network
<1>8. CASE AcceptSleeps
  BY <1>8 DEF AcceptSleeps, TypeOK, Pcs, flags, members, kernel, network, history
<1>9. CASE AcceptFails
  BY <1>9, CloseFdsType DEF AcceptFails, AcceptRefused, AcceptFaults, AcceptError, TypeOK, Pcs, history
<1>10. ASSUME NEW c \in Conns, Receives(c)
       PROVE /\ buf' \in Seq(Tokens)
             /\ read' \in [Conns -> Seq(Tokens)]
             /\ inbox' \in [Conns -> Seq(Tokens)]
  <2> DEFINE n == IF Len(inbox[c]) < BufCap THEN Len(inbox[c]) ELSE BufCap
  <2>1. inbox[c] \in Seq(Tokens) /\ read[c] \in Seq(Tokens)
    BY DEF TypeOK
  <2>2. n \in Nat /\ n <= Len(inbox[c])
    BY <2>1
  <2>3. /\ SubSeq(inbox[c], 1, n) \in Seq(Tokens)
        /\ SubSeq(inbox[c], n + 1, Len(inbox[c])) \in Seq(Tokens)
    BY <2>1, <2>2
  <2>4. read[c] \o SubSeq(inbox[c], 1, n) \in Seq(Tokens)
    BY <2>1, <2>3
  <2> QED
    BY <1>10, <2>3, <2>4 DEF Receives, TypeOK
<1>11. ASSUME NEW c \in Conns, RecvFromBanned(c) PROVE TypeOK'
  BY <1>11, <1>10 DEF RecvFromBanned, TypeOK, Pcs, flags, kernel
<1>12. ASSUME NEW c \in Conns, RecvIgnored(c) PROVE TypeOK'
  BY <1>12, <1>10 DEF RecvIgnored, TypeOK, Pcs, flags, kernel
<1>13. ASSUME NEW c \in Conns, RecvMessage(c) PROVE TypeOK'
  <2>1. userIp' \in IPs \cup {NoUser, InvalidIp}
    BY <1>13 DEF RecvMessage, GetClientIp, TypeOK
  <2>2. running' \in BOOLEAN
    BY <1>13, Zenon DEF RecvMessage
  <2> QED
    BY <1>13, <1>10, <2>1, <2>2 DEF RecvMessage, TypeOK, Pcs, kernel
<1>14. CASE RecvNothing
  BY <1>14 DEF RecvNothing, TypeOK, Pcs, flags, members, kernel, network, history
<1>15. CASE RecvSleeps
  BY <1>15 DEF RecvSleeps, TypeOK, Pcs, flags, members, kernel, network, history
<1>16. ASSUME NEW c \in Conns, NEW m \in Seq(Tokens), Sends(c, m)
       PROVE out' \in [Conns -> Seq(Tokens)]
  <2>1. out[c] \o m \in Seq(Tokens)
    BY DEF TypeOK
  <2> QED
    BY <1>16, <2>1 DEF Sends, TypeOK
<1>17. ASSUME NEW c \in Conns, Refuse(c) PROVE TypeOK'
  <2>1. BannedMessage \in Seq(Tokens)
    BY DEF BannedMessage, Tokens
  <2> QED
    BY <1>17, <1>16, <2>1 DEF Refuse, TypeOK, Pcs, flags, kernel, network
<1>18. ASSUME NEW c \in Conns, Echo(c) PROVE TypeOK'
  BY <1>18, <1>16 DEF Echo, TypeOK, Pcs, flags, members, kernel, network
<1>19. CASE SendRaisesSigpipe
  BY <1>19, CloseFdsType
  DEF SendRaisesSigpipe, ProcessEnds, TypeOK, Pcs, Statuses, flags, members, history
<1>20. CASE Loop
  BY <1>20 DEF Loop, TypeOK, Pcs, Statuses, flags, members, kernel, network, history
<1>21. ASSUME statics # <<>> PROVE Front(statics) \in Seq(Classes)
  BY <1>21 DEF Front, TypeOK
<1>22. CASE DestroyServer
  <2>1. statics' \in Seq(Classes)
    BY <1>22, <1>21 DEF DestroyServer
  <2> QED
    BY <1>22, <2>1, ZeroIsFd, CloseFdsType DEF DestroyServer, TypeOK, flags, history
<1>23. CASE DestroyOther
  BY <1>23, <1>21 DEF DestroyOther, TypeOK, flags, members, kernel, network, history
<1>24. CASE Exit
  BY <1>24, CloseFdsType DEF Exit, ProcessEnds, TypeOK, Pcs, flags, members, history
<1>25. CASE SignalKills
  BY <1>25, CloseFdsType DEF SignalKills, ProcessEnds, TypeOK, Pcs, Statuses, flags, members, history
<1>26. CASE SignalInAccept
  BY <1>26, CloseFdsType DEF SignalInAccept, AcceptError, TypeOK, Pcs, history
<1>27. CASE SignalInRecv
  BY <1>27 DEF SignalInRecv, TypeOK, Pcs, members, kernel, network, history
<1>28. CASE SignalNoted
  BY <1>28 DEF SignalNoted, TypeOK, process, members, kernel, network, history
<1>29. ASSUME NEW c \in Conns, NEW a \in IPs, PeerConnect(c, a) PROVE TypeOK'
  BY <1>29 DEF PeerConnect, TypeOK, Links, process, flags, members, history
<1>30. ASSUME NEW c \in Conns, NEW m \in Payloads, PeerSend(c, m) PROVE TypeOK'
  <2>1. m \in Seq(Tokens)
    OBVIOUS
  <2>2. inbox' \in [Conns -> Seq(Tokens)]
    BY <1>30, <2>1 DEF PeerSend, TypeOK
  <2> QED
    BY <1>30, <2>2 DEF PeerSend, TypeOK, process, flags, members, kernel, history
<1>31. ASSUME NEW c \in Conns, PeerFin(c) PROVE TypeOK'
  BY <1>31 DEF PeerFin, TypeOK, Links, process, flags, members, kernel, history
<1>32. ASSUME NEW c \in Conns, PeerReset(c) PROVE TypeOK'
  BY <1>32 DEF PeerReset, TypeOK, Links, process, flags, members, kernel, history
<1>33. CASE Gone
  BY <1>33, Zenon DEF Gone, TypeOK, vars, process, flags, members, kernel, network, history
<1>34. CASE UNCHANGED vars
  BY <1>34, Zenon DEF TypeOK, vars, process, flags, members, kernel, network, history
<1> QED
  BY <1>1, <1>2, <1>3, <1>4, <1>5, <1>6, <1>7, <1>8, <1>9, <1>11, <1>12, <1>13,
     <1>14, <1>15, <1>17, <1>18, <1>19, <1>20, <1>22, <1>23, <1>24, <1>25, <1>26,
     <1>27, <1>28, <1>29, <1>30, <1>31, <1>32, <1>33, <1>34
  DEF Next, ServerStep, Signal, PeerStep

-----------------------------------------------------------------------------
(* The inductive invariant, in parts.                                      *)

Starting == {"start", "logger", "socket"}
Serving == {"run", "accept", "accepting", "recv", "receiving", "refuse", "echo", "loop"}

\* Statics are built in one order, and how many there are follows from pc.
StaticsInv ==
    /\ Len(statics) <= 3
    /\ Len(statics) >= 1 => statics[1] = "Util"
    /\ Len(statics) >= 2 => statics[2] = "Logger"
    /\ Len(statics) >= 3 => statics[3] = "TcpServer"
    /\ pc = "start" => Len(statics) = 0
    /\ pc = "logger" => Len(statics) = 1
    /\ pc = "socket" => Len(statics) = 2
    /\ pc \in Serving => Len(statics) = 3

\* Before the listener exists the table holds nothing of the server's but the
\* log, which has taken number 0 if that was free.
BootInv ==
    /\ pc \in {"start", "logger"} => \A n \in Fd : fds[n] \in {"free", "std"}
    /\ pc = "socket" => fds[0] # "free" /\ \A n \in Fd : fds[n] \in {"free", "std", "log"}
    /\ pc \in Starting => queue = <<>> /\ \A c \in Conns : link[c] = "none"
    /\ \A n \in Fd : fds[n] = "listen" => n = serverFd /\ n # 0
    /\ pc \in Serving => serverFd # 0 /\ fds[serverFd] \in {"free", "listen"}

\* A connection has at most one descriptor and one place in the queue, never
\* both, and nothing has been read from it while it waits.
TableInv ==
    /\ \A m, n \in Fd : fds[m] = fds[n] /\ fds[m] \in Conns => m = n
    /\ \A i, j \in DOMAIN queue : queue[i] = queue[j] => i = j
    /\ \A i \in DOMAIN queue : \A n \in Fd : fds[n] # queue[i]
    /\ \A i \in DOMAIN queue :
          link[queue[i]] # "none" /\ read[queue[i]] = <<>> /\ out[queue[i]] = <<>>
    /\ \A n \in Fd : fds[n] \in Conns => link[fds[n]] # "none"
    /\ \A c \in Conns : link[c] = "none" => read[c] = <<>> /\ out[c] = <<>>
    /\ \A c \in Conns : link[c] # "none" => ip[c] \in IPs

\* clientFd, clientAddr and the buffer belong to the connection being served.
ServeInv ==
    /\ pc \in {"recv", "receiving"} /\ HasClient =>
          read[Client] = <<>> /\ out[Client] = <<>> /\ clientAddr = ip[Client]
    /\ pc \in {"refuse", "echo"} =>
          /\ HasClient
          /\ out[Client] = <<>> /\ buf = read[Client] /\ buf # <<>>
          /\ pc = "refuse" <=> ip[Client] \in BannedIps

\* A stopped server was told to stop.
Told == \E c \in Conns : ip[c] = AdminIp /\ Says(read[c], Shutdown)
ToldInv ==
    /\ status = "success" => quit \/ Told
    /\ pc \notin {"start", "dead"} /\ ~running => Told

\* After SIGINT main does not reach RunServer's accept again.
LateInv ==
    /\ lateAccepts \in {0, 1}
    /\ ~quit => lateAccepts = 0
    /\ pc \in Starting \cup {"run", "accept", "accepting"} => lateAccepts = 0

\* TcpServer is alive, as pc and the number of statics tell.
Lives == pc \in Serving \/ (pc = "exit" /\ Len(statics) = 3)

\* While TcpServer lives, its two members name its own sockets or nothing.
SocketsInv ==
    /\ Lives /\ pc \notin {"run", "accept", "accepting"} => clientFd = -1 \/ HasClient
    /\ Lives => fds[serverFd] \in {"free", "listen"}

\* The listener is lost by an accept that failed of itself or was interrupted,
\* or by a full table.
LostInv ==
    Lives /\ fds[serverFd] # "listen" =>
        faulted \/ quit \/ \A n \in Fd : n # serverFd => fds[n] # "free"

\* OnlyBanSilences, with Lives for Alive.
SilentInv ==
    \A c \in Conns :
        read[c] # <<>> /\ out[c] = <<>> /\ link[c] \in {"up", "fin"}
            /\ ~Answering(c) /\ Lives => banned

\* The step of ClosesOnlySockets.
KeepsOthers ==
    pc' = "dead" \/ \A n \in Fd : fds[n] \in {"std", "log"} => fds'[n] = fds[n]

IndInv ==
    /\ TypeOK /\ StaticsInv /\ BootInv /\ TableInv /\ ServeInv /\ ToldInv
    /\ LateInv /\ SocketsInv /\ LostInv /\ ReplyIntegrity /\ SilentInv
-----------------------------------------------------------------------------
(* Each part of IndInv is kept by every step.                              *)

\* close() frees numbers, empties the queue or leaves it, and resets only
\* connections that have been made.
LEMMA CloseFdsFacts ==
  ASSUME TypeOK, NEW F, CloseFds(F)
  PROVE  /\ \A n \in Fd : fds'[n] = IF n \in F THEN "free" ELSE fds[n]
         /\ queue' = queue \/ queue' = <<>>
         /\ \A c \in Conns : link'[c] = link[c] \/ link'[c] = "gone"
         /\ TableInv => \A c \in Conns : link[c] = "none" => link'[c] = "none"
<1>1. /\ \A n \in Fd : fds'[n] = IF n \in F THEN "free" ELSE fds[n]
      /\ queue' = queue \/ queue' = <<>>
      /\ \A c \in Conns : link'[c] = link[c] \/ link'[c] = "gone"
  BY DEF CloseFds, TypeOK
<1>2. ASSUME TableInv, NEW c \in Conns, link'[c] # link[c] PROVE link[c] # "none"
  <2>1. c \in {fds[n] : n \in F \cap Fd} \/ c \in ToSet(queue)
    BY <1>2 DEF CloseFds
  <2>2. CASE c \in {fds[n] : n \in F \cap Fd}
    BY <1>2, <2>2 DEF TableInv
  <2>3. CASE c \in ToSet(queue)
    BY <1>2, <2>3 DEF TableInv, ToSet
  <2> QED
    BY <2>1, <2>2, <2>3
<1> QED
  BY <1>1, <1>2

\* Neither a closed descriptor nor an emptied queue disturbs TableInv.
LEMMA CloseFdsTable ==
  ASSUME TypeOK, TableInv, NEW F, CloseFds(F), UNCHANGED <<ip, read, out>>
  PROVE  TableInv'
<1> USE ConnsAssumption
<1>1. /\ \A m, n \in Fd : fds'[m] = fds'[n] /\ fds'[m] \in Conns => m = n
      /\ \A n \in Fd : fds'[n] \in Conns => fds'[n] = fds[n]
  BY CloseFdsFacts DEF TableInv
<1>2. \A c \in Conns : link'[c] = "none" <=> link[c] = "none"
  BY CloseFdsFacts
<1>3. \A i \in DOMAIN queue' : \A n \in Fd : fds'[n] # queue'[i]
  <2>1. \A i \in DOMAIN queue' : queue'[i] \in Conns /\ queue' = queue
    BY CloseFdsFacts DEF TypeOK
  <2> QED
    BY <2>1, CloseFdsFacts DEF TableInv
<1>4. /\ \A i, j \in DOMAIN queue' : queue'[i] = queue'[j] => i = j
      /\ \A i \in DOMAIN queue' :
            link'[queue'[i]] # "none" /\ read[queue'[i]] = <<>> /\ out[queue'[i]] = <<>>
  <2>1. \A i \in DOMAIN queue' : queue'[i] \in Conns /\ queue' = queue
    BY CloseFdsFacts DEF TypeOK
  <2> QED
    BY <1>2, <2>1 DEF TableInv
<1> QED
  BY <1>1, <1>2, <1>3, <1>4 DEF TableInv

\* The first k elements of a sequence: how many, and which.
LEMMA PrefixFacts ==
  ASSUME NEW S, NEW q \in Seq(S), NEW k \in Nat, k <= Len(q)
  PROVE  Len(SubSeq(q, 1, k)) = k /\ \A i \in 1 .. k : SubSeq(q, 1, k)[i] = q[i]
OBVIOUS

\* Destroying the last static object leaves a prefix of the others.
LEMMA FrontStatics ==
  ASSUME TypeOK, statics # <<>>
  PROVE  /\ Len(Front(statics)) = Len(statics) - 1
         /\ \A i \in 1 .. Len(statics) - 1 : Front(statics)[i] = statics[i]
<1>1. statics \in Seq(Classes)
  BY DEF TypeOK
<1>2. Len(statics) - 1 \in Nat /\ Len(statics) - 1 <= Len(statics)
  BY <1>1, EmptySeq
<1> QED
  BY <1>1, <1>2, PrefixFacts DEF Front

\* Constructing a static object leaves the others where they were.
LEMMA AppendStatics ==
  ASSUME TypeOK, NEW x \in Classes
  PROVE  /\ Len(Append(statics, x)) = Len(statics) + 1
         /\ \A i \in 1 .. Len(statics) : Append(statics, x)[i] = statics[i]
         /\ Append(statics, x)[Len(statics) + 1] = x
<1>1. statics \in Seq(Classes)
  BY DEF TypeOK
<1>2. Append(statics, x)[Len(statics) + 1] = x
  BY <1>1, AppendProperties
<1>3. \A i \in 1 .. Len(statics) : Append(statics, x)[i] = statics[i]
  BY <1>1, AppendProperties
<1>4. Len(Append(statics, x)) = Len(statics) + 1
  BY <1>1, AppendProperties
<1> QED
  BY <1>2, <1>3, <1>4

\* Every step keeps the order in which static objects were built.
LEMMA NextStatics == TypeOK /\ StaticsInv /\ [Next]_vars => StaticsInv'
<1> SUFFICES ASSUME TypeOK, StaticsInv, [Next]_vars PROVE StaticsInv'
  OBVIOUS
<1>1. CASE Main
  <2>1. Len(statics') = 1 /\ statics'[1] = "Util" /\ pc' = "logger"
    BY <1>1 DEF Main
  <2> QED
    BY <2>1 DEF StaticsInv, Serving
<1>2. CASE OpenLog
  <2>1. /\ Len(statics') = 2 /\ pc' = "socket"
        /\ statics'[1] = "Util" /\ statics'[2] = "Logger"
    <3>1. statics \in Seq(Classes) /\ Len(statics) = 1 /\ "Logger" \in Classes
      BY <1>2 DEF OpenLog, StaticsInv, TypeOK, Classes
    <3> QED
      BY <1>2, <3>1, AppendStatics DEF OpenLog, StaticsInv
  <2> QED
    BY <2>1 DEF StaticsInv, Serving
<1>3. CASE LogFails
  BY <1>3 DEF LogFails, ProcessEnds, StaticsInv, TypeOK, Starting, Serving, flags, members, history
<1>4. CASE Listen
  <2>1. /\ Len(statics') = 3 /\ pc' = "run" /\ statics'[1] = "Util"
        /\ statics'[2] = "Logger" /\ statics'[3] = "TcpServer"
    <3>1. statics \in Seq(Classes) /\ Len(statics) = 2 /\ "TcpServer" \in Classes
      BY <1>4 DEF Listen, StaticsInv, TypeOK, Classes
    <3> QED
      BY <1>4, <3>1, AppendStatics DEF Listen, StaticsInv
  <2> QED
    BY <2>1 DEF StaticsInv, Serving
<1>5. CASE SetupFails
  BY <1>5 DEF SetupFails, StaticsInv, TypeOK, Starting, Serving, flags, members, kernel, network, history
<1>6. CASE RunServer
  BY <1>6 DEF RunServer, StaticsInv, TypeOK, Starting, Serving, flags, members, kernel, network, history
<1>7. CASE AcceptReturns
  BY <1>7 DEF AcceptReturns, StaticsInv, TypeOK, Starting, Serving, flags, network
<1>8. CASE AcceptSleeps
  BY <1>8 DEF AcceptSleeps, StaticsInv, TypeOK, Starting, Serving, flags, members, kernel, network, history
<1>9. CASE AcceptFails
  BY <1>9 DEF AcceptFails, AcceptRefused, AcceptFaults, AcceptError, history, StaticsInv, TypeOK, Starting, Serving
<1>10. ASSUME NEW c \in Conns, RecvFromBanned(c) PROVE StaticsInv'
  BY <1>10 DEF RecvFromBanned, Receives, StaticsInv, TypeOK, Starting, Serving, flags, kernel
<1>11. ASSUME NEW c \in Conns, RecvIgnored(c) PROVE StaticsInv'
  BY <1>11 DEF RecvIgnored, Receives, StaticsInv, TypeOK, Starting, Serving, flags, kernel
<1>12. ASSUME NEW c \in Conns, RecvMessage(c) PROVE StaticsInv'
  BY <1>12 DEF RecvMessage, Receives, StaticsInv, TypeOK, Starting, Serving, kernel
<1>13. CASE RecvNothing
  BY <1>13 DEF RecvNothing, StaticsInv, TypeOK, Starting, Serving, flags, members, kernel, network, history
<1>14. CASE RecvSleeps
  BY <1>14 DEF RecvSleeps, StaticsInv, TypeOK, Starting, Serving, flags, members, kernel, network, history
<1>15. ASSUME NEW c \in Conns, Refuse(c) PROVE StaticsInv'
  BY <1>15 DEF Refuse, StaticsInv, TypeOK, Starting, Serving, flags, kernel, network
<1>16. ASSUME NEW c \in Conns, Echo(c) PROVE StaticsInv'
  BY <1>16 DEF Echo, StaticsInv, TypeOK, Starting, Serving, flags, members, kernel, network
<1>17. CASE SendRaisesSigpipe
  BY <1>17 DEF SendRaisesSigpipe, ProcessEnds, StaticsInv, TypeOK, Starting, Serving, flags, members, history
<1>18. CASE Loop
  BY <1>18 DEF Loop, StaticsInv, TypeOK, Starting, Serving, flags, members, kernel, network, history
<1>19. CASE DestroyServer
  <2>1. pc' = "exit" /\ statics # <<>> /\ statics' = Front(statics)
    BY <1>19 DEF DestroyServer, process
  <2> QED
    BY <2>1, FrontStatics DEF StaticsInv, Starting, Serving
<1>20. CASE DestroyOther
  <2>1. pc' = "exit" /\ statics # <<>> /\ statics' = Front(statics)
    BY <1>20 DEF DestroyOther, process
  <2> QED
    BY <2>1, FrontStatics DEF StaticsInv, Starting, Serving
<1>21. CASE Exit
  BY <1>21 DEF Exit, ProcessEnds, StaticsInv, TypeOK, Starting, Serving, flags, members, history
<1>22. CASE SignalKills
  BY <1>22 DEF SignalKills, ProcessEnds, StaticsInv, TypeOK, Starting, Serving, flags, members, history
<1>23. CASE SignalInAccept
  BY <1>23 DEF SignalInAccept, AcceptError, history, StaticsInv, TypeOK, Starting, Serving
<1>24. CASE SignalInRecv
  BY <1>24 DEF SignalInRecv, StaticsInv, TypeOK, Starting, Serving, members, kernel, network, history
<1>25. CASE SignalNoted
  BY <1>25 DEF SignalNoted, StaticsInv, TypeOK, Starting, Serving, process, members, kernel, network, history
<1>26. ASSUME NEW c \in Conns, NEW a \in IPs, PeerConnect(c, a) PROVE StaticsInv'
  BY <1>26 DEF PeerConnect, StaticsInv, TypeOK, Starting, Serving, process, flags, members, history
<1>27. ASSUME NEW c \in Conns, NEW m \in Payloads, PeerSend(c, m) PROVE StaticsInv'
  BY <1>27 DEF PeerSend, StaticsInv, TypeOK, Starting, Serving, process, flags, members, kernel, history
<1>28. ASSUME NEW c \in Conns, PeerFin(c) PROVE StaticsInv'
  BY <1>28 DEF PeerFin, StaticsInv, TypeOK, Starting, Serving, process, flags, members, kernel, history
<1>29. ASSUME NEW c \in Conns, PeerReset(c) PROVE StaticsInv'
  BY <1>29 DEF PeerReset, StaticsInv, TypeOK, Starting, Serving, process, flags, members, kernel, history
<1>30. CASE Gone
  BY <1>30 DEF Gone, vars, StaticsInv, TypeOK, Starting, Serving, process, flags, members, kernel, network, history
<1>31. CASE UNCHANGED vars
  BY <1>31 DEF vars, StaticsInv, TypeOK, Starting, Serving, process, flags, members, kernel, network, history
<1> QED
  BY <1>1, <1>2, <1>3, <1>4, <1>5, <1>6, <1>7, <1>8, <1>9, <1>10, <1>11, <1>12, <1>13, <1>14, <1>15, <1>16, <1>17, <1>18, <1>19, <1>20, <1>21, <1>22, <1>23, <1>24, <1>25, <1>26, <1>27, <1>28, <1>29, <1>30, <1>31
  DEF Next, ServerStep, Signal, PeerStep

\* Every step keeps the bound on the connections accepted after SIGINT.
LEMMA NextLate == LateInv /\ [Next]_vars => LateInv'
<1> SUFFICES ASSUME LateInv, [Next]_vars PROVE LateInv'
  OBVIOUS
<1>1. CASE Main
  BY <1>1 DEF Main, LateInv, Starting, members, kernel, network, history
<1>2. CASE OpenLog
  BY <1>2 DEF OpenLog, LateInv, Starting, flags, members, network, history
<1>3. CASE LogFails
  BY <1>3 DEF LogFails, ProcessEnds, LateInv, Starting, flags, members, history
<1>4. CASE Listen
  BY <1>4 DEF Listen, LateInv, Starting, flags, network, history
<1>5. CASE SetupFails
  BY <1>5 DEF SetupFails, LateInv, Starting, flags, members, kernel, network, history
<1>6. CASE RunServer
  BY <1>6 DEF RunServer, LateInv, Starting, flags, members, kernel, network, history
<1>7. CASE AcceptReturns
  <2>1. lateAccepts = 0 /\ pc' = "recv" /\ quit' = quit
    BY <1>7 DEF AcceptReturns, LateInv, flags
  <2>2. lateAccepts' = IF quit THEN 1 ELSE 0
    BY <1>7, <2>1 DEF AcceptReturns
  <2> QED
    BY <2>1, <2>2 DEF LateInv, Starting
<1>8. CASE AcceptSleeps
  BY <1>8 DEF AcceptSleeps, LateInv, Starting, flags, members, kernel, network, history
<1>9. CASE AcceptFails
  BY <1>9 DEF AcceptFails, AcceptRefused, AcceptFaults, AcceptError, history, LateInv
<1>10. ASSUME NEW c \in Conns, RecvFromBanned(c) PROVE LateInv'
  BY <1>10 DEF RecvFromBanned, Receives, LateInv, Starting, flags, kernel
<1>11. ASSUME NEW c \in Conns, RecvIgnored(c) PROVE LateInv'
  BY <1>11 DEF RecvIgnored, Receives, LateInv, Starting, flags, kernel
<1>12. ASSUME NEW c \in Conns, RecvMessage(c) PROVE LateInv'
  BY <1>12 DEF RecvMessage, Receives, LateInv, Starting, kernel
<1>13. CASE RecvNothing
  BY <1>13 DEF RecvNothing, LateInv, Starting, flags, members, kernel, network, history
<1>14. CASE RecvSleeps
  BY <1>14 DEF RecvSleeps, LateInv, Starting, flags, members, kernel, network, history
<1>15. ASSUME NEW c \in Conns, Refuse(c) PROVE LateInv'
  BY <1>15 DEF Refuse, LateInv, Starting, flags, kernel, network
<1>16. ASSUME NEW c \in Conns, Echo(c) PROVE LateInv'
  BY <1>16 DEF Echo, LateInv, Starting, flags, members, kernel, network
<1>17. CASE SendRaisesSigpipe
  BY <1>17 DEF SendRaisesSigpipe, ProcessEnds, LateInv, Starting, flags, members, history
<1>18. CASE Loop
  BY <1>18 DEF Loop, LateInv, Starting, flags, members, kernel, network, history
<1>19. CASE DestroyServer
  BY <1>19 DEF DestroyServer, LateInv, Starting, flags, history
<1>20. CASE DestroyOther
  BY <1>20 DEF DestroyOther, LateInv, Starting, flags, members, kernel, network, history
<1>21. CASE Exit
  BY <1>21 DEF Exit, ProcessEnds, LateInv, Starting, flags, members, history
<1>22. CASE SignalKills
  BY <1>22 DEF SignalKills, ProcessEnds, LateInv, Starting, flags, members, history
<1>23. CASE SignalInAccept
  BY <1>23 DEF SignalInAccept, AcceptError, history, LateInv
<1>24. CASE SignalInRecv
  BY <1>24 DEF SignalInRecv, LateInv, Starting, members, kernel, network, history
<1>25. CASE SignalNoted
  BY <1>25 DEF SignalNoted, LateInv, Starting, process, members, kernel, network, history
<1>26. ASSUME NEW c \in Conns, NEW a \in IPs, PeerConnect(c, a) PROVE LateInv'
  BY <1>26 DEF PeerConnect, LateInv, Starting, process, flags, members, history
<1>27. ASSUME NEW c \in Conns, NEW m \in Payloads, PeerSend(c, m) PROVE LateInv'
  BY <1>27 DEF PeerSend, LateInv, Starting, process, flags, members, kernel, history
<1>28. ASSUME NEW c \in Conns, PeerFin(c) PROVE LateInv'
  BY <1>28 DEF PeerFin, LateInv, Starting, process, flags, members, kernel, history
<1>29. ASSUME NEW c \in Conns, PeerReset(c) PROVE LateInv'
  BY <1>29 DEF PeerReset, LateInv, Starting, process, flags, members, kernel, history
<1>30. CASE Gone
  BY <1>30 DEF Gone, vars, LateInv, Starting, process, flags, members, kernel, network, history
<1>31. CASE UNCHANGED vars
  BY <1>31 DEF vars, LateInv, Starting, process, flags, members, kernel, network, history
<1> QED
  BY <1>1, <1>2, <1>3, <1>4, <1>5, <1>6, <1>7, <1>8, <1>9, <1>10, <1>11, <1>12, <1>13, <1>14, <1>15, <1>16, <1>17, <1>18, <1>19, <1>20, <1>21, <1>22, <1>23, <1>24, <1>25, <1>26, <1>27, <1>28, <1>29, <1>30, <1>31
  DEF Next, ServerStep, Signal, PeerStep

\* Every step keeps what is known of the process before it serves.
LEMMA NextBoot == TypeOK /\ BootInv /\ [Next]_vars => BootInv'
<1> SUFFICES ASSUME TypeOK, BootInv, [Next]_vars PROVE BootInv'
  OBVIOUS
<1> USE ConnsAssumption, ZeroIsFd
<1>1. CASE Main
  BY <1>1 DEF Main, BootInv, TypeOK, Starting, Serving, members, kernel, network, history
<1>2. CASE OpenLog
  <2>1. PICK n \in Fd : LowestFree(n) /\ fds' = [fds EXCEPT ![n] = "log"]
    BY <1>2 DEF OpenLog
  <2>2. fds'[0] # "free" /\ \A m \in Fd : fds'[m] \in {"free", "std", "log"}
    <3>1. \A m \in Fd : fds'[m] = IF m = n THEN "log" ELSE fds[m]
      BY <2>1 DEF TypeOK
    <3>2. n = 0 \/ 0 < n
      BY DEF Fd
    <3>3. fds[0] # "free" \/ n = 0
      BY <2>1, <3>2 DEF LowestFree
    <3> QED
      BY <1>2, <3>1, <3>3 DEF OpenLog, BootInv
  <2> QED
    BY <1>2, <2>2 DEF OpenLog, BootInv, Starting, Serving, members, network
<1>3. CASE LogFails
  BY <1>3 DEF LogFails, CloseFds, ProcessEnds, BootInv, TypeOK, Starting, Serving, flags, members, history
<1>4. CASE Listen
  <2>1. PICK n \in Fd : /\ LowestFree(n) /\ serverFd' = n
                        /\ fds' = [fds EXCEPT ![n] = "listen"]
    BY <1>4 DEF Listen
  <2>2. n # 0
    BY <1>4, <2>1 DEF Listen, BootInv, LowestFree
  <2>3. \A m \in Fd : fds'[m] = "listen" => m = n
    BY <1>4, <2>1 DEF Listen, BootInv, TypeOK
  <2>4. fds'[n] = "listen" /\ pc' = "run"
    BY <1>4, <2>1 DEF Listen, TypeOK
  <2> QED
    BY <2>1, <2>2, <2>3, <2>4 DEF BootInv, Starting, Serving
<1>5. CASE SetupFails
  BY <1>5 DEF SetupFails, BootInv, TypeOK, Starting, Serving, flags, members, kernel, network, history
<1>6. CASE RunServer
  BY <1>6 DEF RunServer, BootInv, TypeOK, Starting, Serving, flags, members, kernel, network, history
<1>7. CASE AcceptReturns
  <2>1. PICK n \in Fd : LowestFree(n) /\ fds' = [fds EXCEPT ![n] = Head(queue)]
    BY <1>7 DEF AcceptReturns
  <2>2. Head(queue) \in Conns /\ Head(queue) # "listen"
    BY <1>7 DEF AcceptReturns, TypeOK
  <2>3. \A m \in Fd : fds'[m] = IF m = n THEN Head(queue) ELSE fds[m]
    BY <2>1 DEF TypeOK
  <2>4. n # serverFd
    BY <1>7, <2>1 DEF AcceptReturns, Listening, LowestFree
  <2>5. pc' = "recv" /\ serverFd' = serverFd /\ serverFd \in Fd
    BY <1>7 DEF AcceptReturns, TypeOK
  <2> QED
    BY <1>7, <2>2, <2>3, <2>4, <2>5 DEF AcceptReturns, BootInv, Starting, Serving
<1>8. CASE AcceptSleeps
  BY <1>8 DEF AcceptSleeps, BootInv, TypeOK, Starting, Serving, flags, members, kernel, network, history
<1>9. CASE AcceptFails
  BY <1>9 DEF AcceptFails, AcceptRefused, AcceptFaults, CloseFds, AcceptError, history, BootInv, TypeOK, Starting, Serving
<1>10. ASSUME NEW c \in Conns, RecvFromBanned(c) PROVE BootInv'
  BY <1>10 DEF RecvFromBanned, Receives, BootInv, TypeOK, Starting, Serving, flags, kernel
<1>11. ASSUME NEW c \in Conns, RecvIgnored(c) PROVE BootInv'
  BY <1>11 DEF RecvIgnored, Receives, BootInv, TypeOK, Starting, Serving, flags, kernel
<1>12. ASSUME NEW c \in Conns, RecvMessage(c) PROVE BootInv'
  BY <1>12 DEF RecvMessage, Receives, BootInv, TypeOK, Starting, Serving, kernel
<1>13. CASE RecvNothing
  BY <1>13 DEF RecvNothing, BootInv, TypeOK, Starting, Serving, flags, members, kernel, network, history
<1>14. CASE RecvSleeps
  BY <1>14 DEF RecvSleeps, BootInv, TypeOK, Starting, Serving, flags, members, kernel, network, history
<1>15. ASSUME NEW c \in Conns, Refuse(c) PROVE BootInv'
  BY <1>15 DEF Refuse, BootInv, TypeOK, Starting, Serving, flags, kernel, network
<1>16. ASSUME NEW c \in Conns, Echo(c) PROVE BootInv'
  BY <1>16 DEF Echo, BootInv, TypeOK, Starting, Serving, flags, members, kernel, network
<1>17. CASE SendRaisesSigpipe
  BY <1>17 DEF SendRaisesSigpipe, CloseFds, ProcessEnds, BootInv, TypeOK, Starting, Serving, flags, members, history
<1>18. CASE Loop
  BY <1>18 DEF Loop, BootInv, TypeOK, Starting, Serving, flags, members, kernel, network, history
<1>19. CASE DestroyServer
  BY <1>19 DEF DestroyServer, CloseFds, BootInv, TypeOK, Starting, Serving, flags, history
<1>20. CASE DestroyOther
  BY <1>20 DEF DestroyOther, BootInv, TypeOK, Starting, Serving, flags, members, kernel, network, history
<1>21. CASE Exit
  BY <1>21 DEF Exit, CloseFds, ProcessEnds, BootInv, TypeOK, Starting, Serving, flags, members, history
<1>22. CASE SignalKills
  BY <1>22 DEF SignalKills, CloseFds, ProcessEnds, BootInv, TypeOK, Starting, Serving, flags, members, history
<1>23. CASE SignalInAccept
  BY <1>23 DEF SignalInAccept, CloseFds, AcceptError, history, BootInv, TypeOK, Starting, Serving
<1>24. CASE SignalInRecv
  BY <1>24 DEF SignalInRecv, BootInv, TypeOK, Starting, Serving, members, kernel, network, history
<1>25. CASE SignalNoted
  BY <1>25 DEF SignalNoted, BootInv, TypeOK, Starting, Serving, process, members, kernel, network, history
<1>26. ASSUME NEW c \in Conns, NEW a \in IPs, PeerConnect(c, a) PROVE BootInv'
  <2>1. pc \notin Starting
    BY <1>26 DEF PeerConnect, Listening, BootInv, Starting
  <2> QED
    BY <1>26, <2>1 DEF PeerConnect, BootInv, Starting, process, members
<1>27. ASSUME NEW c \in Conns, NEW m \in Payloads, PeerSend(c, m) PROVE BootInv'
  BY <1>27 DEF PeerSend, BootInv, TypeOK, Starting, Serving, process, flags, members, kernel, history
<1>28. ASSUME NEW c \in Conns, PeerFin(c) PROVE BootInv'
  BY <1>28 DEF PeerFin, BootInv, TypeOK, Starting, Serving, process, flags, members, kernel, history
<1>29. ASSUME NEW c \in Conns, PeerReset(c) PROVE BootInv'
  BY <1>29 DEF PeerReset, BootInv, TypeOK, Starting, Serving, process, flags, members, kernel, history
<1>30. CASE Gone
  BY <1>30 DEF Gone, vars, BootInv, TypeOK, Starting, Serving, process, flags, members, kernel, network, history
<1>31. CASE UNCHANGED vars
  BY <1>31 DEF vars, BootInv, TypeOK, Starting, Serving, process, flags, members, kernel, network, history
<1> QED
  BY <1>1, <1>2, <1>3, <1>4, <1>5, <1>6, <1>7, <1>8, <1>9, <1>10, <1>11, <1>12, <1>13, <1>14, <1>15, <1>16, <1>17, <1>18, <1>19, <1>20, <1>21, <1>22, <1>23, <1>24, <1>25, <1>26, <1>27, <1>28, <1>29, <1>30, <1>31
  DEF Next, ServerStep, Signal, PeerStep

\* Every step keeps each connection in at most one place: one
\* descriptor, or one position of the accept queue.
LEMMA NextTable == TypeOK /\ TableInv /\ ServeInv /\ [Next]_vars => TableInv'
<1> SUFFICES ASSUME TypeOK, TableInv, ServeInv, [Next]_vars PROVE TableInv'
  OBVIOUS
<1> USE ConnsAssumption
<1>1. CASE Main
  BY <1>1 DEF Main, TableInv, ServeInv, TypeOK, members, kernel, network, history
<1>2. CASE OpenLog
  BY <1>2 DEF OpenLog, TableInv, ServeInv, TypeOK, flags, members, network, history
<1>3. CASE LogFails
  BY <1>3, CloseFdsTable DEF LogFails, ProcessEnds,  flags,  members,  history
<1>4. CASE Listen
  BY <1>4 DEF Listen, TableInv, ServeInv, TypeOK, flags, network, history
<1>5. CASE SetupFails
  BY <1>5 DEF SetupFails, TableInv, ServeInv, TypeOK, flags, members, kernel, network, history
<1>6. CASE RunServer
  BY <1>6 DEF RunServer, TableInv, ServeInv, TypeOK, flags, members, kernel, network, history
<1>7. CASE AcceptReturns
  <2>1. PICK n \in Fd : LowestFree(n) /\ fds' = [fds EXCEPT ![n] = Head(queue)]
    BY <1>7 DEF AcceptReturns
  <2>2. \A m \in Fd : fds'[m] = IF m = n THEN Head(queue) ELSE fds[m]
    BY <2>1 DEF TypeOK
  <2>3. /\ queue \in Seq(Conns) /\ queue # <<>> /\ queue' = Tail(queue)
        /\ UNCHANGED <<link, ip, read, out>>
    BY <1>7 DEF AcceptReturns, TypeOK, network
  <2>4. Head(queue) = queue[1] /\ 1 \in DOMAIN queue /\ queue[1] \in Conns
    BY <2>3
  <2>5. \A i \in DOMAIN queue' : i + 1 \in DOMAIN queue /\ queue'[i] = queue[i + 1]
    BY <2>3, HeadTailProperties
  <2>6. \A i \in DOMAIN queue' : i \in Nat /\ i + 1 # 1
    BY <2>3
  <2>7. \A i \in DOMAIN queue' : queue'[i] # Head(queue)
    BY <2>4, <2>5, <2>6 DEF TableInv
  <2>8. \A i, j \in DOMAIN queue' : queue'[i] = queue'[j] => i = j
    BY <2>5, <2>6 DEF TableInv
  <2>9. /\ \A i \in DOMAIN queue' : \A m \in Fd : fds'[m] # queue'[i]
        /\ \A m, k \in Fd : fds'[m] = fds'[k] /\ fds'[m] \in Conns => m = k
    BY <2>2, <2>4, <2>5, <2>7 DEF TableInv
  <2>10. /\ \A i \in DOMAIN queue' :
               link[queue'[i]] # "none" /\ read[queue'[i]] = <<>> /\ out[queue'[i]] = <<>>
         /\ \A m \in Fd : fds'[m] \in Conns => link[fds'[m]] # "none"
    BY <2>2, <2>4, <2>5 DEF TableInv
  <2> QED
    BY <2>3, <2>8, <2>9, <2>10 DEF TableInv
<1>8. CASE AcceptSleeps
  BY <1>8 DEF AcceptSleeps, TableInv, ServeInv, TypeOK, flags, members, kernel, network, history
<1>9. CASE AcceptFails
  BY <1>9, CloseFdsTable DEF AcceptFails, AcceptRefused, AcceptFaults, AcceptError, history
<1>10. ASSUME NEW c \in Conns, RecvFromBanned(c) PROVE TableInv'
  BY <1>10 DEF RecvFromBanned, HasClient, Client, Receives, TableInv, ServeInv, TypeOK, flags, kernel
<1>11. ASSUME NEW c \in Conns, RecvIgnored(c) PROVE TableInv'
  BY <1>11 DEF RecvIgnored, HasClient, Client, Receives, TableInv, ServeInv, TypeOK, flags, kernel
<1>12. ASSUME NEW c \in Conns, RecvMessage(c) PROVE TableInv'
  BY <1>12 DEF RecvMessage, HasClient, Client, Receives, TableInv, ServeInv, TypeOK, kernel
<1>13. CASE RecvNothing
  BY <1>13 DEF RecvNothing, HasClient, Client, Sends, TableInv, ServeInv, TypeOK, flags, members, kernel, network, history
<1>14. CASE RecvSleeps
  BY <1>14 DEF RecvSleeps, HasClient, Client, Sends, TableInv, ServeInv, TypeOK, flags, members, kernel, network, history
<1>15. ASSUME NEW c \in Conns, Refuse(c) PROVE TableInv'
  BY <1>15 DEF Refuse, HasClient, Client, Sends, TableInv, ServeInv, TypeOK, flags, kernel, network
<1>16. ASSUME NEW c \in Conns, Echo(c) PROVE TableInv'
  BY <1>16 DEF Echo, HasClient, Client, Sends, TableInv, ServeInv, TypeOK, flags, members, kernel, network
<1>17. CASE SendRaisesSigpipe
  BY <1>17, CloseFdsTable DEF SendRaisesSigpipe, ProcessEnds,  flags,  members,  history
<1>18. CASE Loop
  BY <1>18 DEF Loop, TableInv, ServeInv, TypeOK, flags, members, kernel, network, history
<1>19. CASE DestroyServer
  BY <1>19, CloseFdsTable DEF DestroyServer, flags,  history
<1>20. CASE DestroyOther
  BY <1>20 DEF DestroyOther, TableInv, ServeInv, TypeOK, flags, members, kernel, network, history
<1>21. CASE Exit
  BY <1>21, CloseFdsTable DEF Exit, ProcessEnds,  flags,  members,  history
<1>22. CASE SignalKills
  BY <1>22, CloseFdsTable DEF SignalKills, ProcessEnds,  flags,  members,  history
<1>23. CASE SignalInAccept
  BY <1>23, CloseFdsTable DEF SignalInAccept, AcceptError,  history
<1>24. CASE SignalInRecv
  BY <1>24 DEF SignalInRecv, TableInv, ServeInv, TypeOK, members, kernel, network, history
<1>25. CASE SignalNoted
  BY <1>25 DEF SignalNoted, TableInv, ServeInv, TypeOK, process, members, kernel, network, history
<1>26. ASSUME NEW c \in Conns, NEW a \in IPs, PeerConnect(c, a) PROVE TableInv'
  <2>1. /\ queue' = Append(queue, c) /\ link[c] = "none" /\ queue \in Seq(Conns)
        /\ link' = [link EXCEPT ![c] = "up"] /\ ip' = [ip EXCEPT ![c] = a]
        /\ UNCHANGED <<fds, read, out>>
    BY <1>26 DEF PeerConnect, TypeOK, history
  <2>2. \A d \in Conns : /\ link'[d] = IF d = c THEN "up" ELSE link[d]
                         /\ ip'[d] = IF d = c THEN a ELSE ip[d]
    BY <2>1 DEF TypeOK
  <2>3. \A i \in DOMAIN queue' :
           \/ i \in DOMAIN queue /\ queue'[i] = queue[i] /\ queue[i] \in Conns
           \/ i = Len(queue) + 1 /\ queue'[i] = c
    BY <2>1, AppendProperties
  <2>4. \A i \in DOMAIN queue : queue[i] # c
    BY <2>1 DEF TableInv
  <2>5. \A n \in Fd : fds[n] # c
    BY <2>1 DEF TableInv
  <2>6. \A i, j \in DOMAIN queue' : queue'[i] = queue'[j] => i = j
    BY <2>3, <2>4 DEF TableInv
  <2>7. \A i \in DOMAIN queue' : \A n \in Fd : fds'[n] # queue'[i]
    BY <2>1, <2>3, <2>5 DEF TableInv
  <2>8. \A i \in DOMAIN queue' :
           link'[queue'[i]] # "none" /\ read[queue'[i]] = <<>> /\ out[queue'[i]] = <<>>
    BY <2>1, <2>2, <2>3 DEF TableInv
  <2>9. /\ \A n \in Fd : fds'[n] \in Conns => link'[fds'[n]] # "none"
        /\ \A d \in Conns : link'[d] = "none" => read[d] = <<>> /\ out[d] = <<>>
        /\ \A d \in Conns : link'[d] # "none" => ip'[d] \in IPs
    BY <2>1, <2>2 DEF TableInv
  <2> QED
    BY <2>1, <2>6, <2>7, <2>8, <2>9 DEF TableInv
<1>27. ASSUME NEW c \in Conns, NEW m \in Payloads, PeerSend(c, m) PROVE TableInv'
  BY <1>27 DEF PeerSend, TableInv, ServeInv, TypeOK, process, flags, members, kernel, history
<1>28. ASSUME NEW c \in Conns, PeerFin(c) PROVE TableInv'
  BY <1>28 DEF PeerFin, TableInv, ServeInv, TypeOK, process, flags, members, kernel, history
<1>29. ASSUME NEW c \in Conns, PeerReset(c) PROVE TableInv'
  BY <1>29 DEF PeerReset, TableInv, ServeInv, TypeOK, process, flags, members, kernel, history
<1>30. CASE Gone
  BY <1>30 DEF Gone, vars, TableInv, ServeInv, TypeOK, process, flags, members, kernel, network, history
<1>31. CASE UNCHANGED vars
  BY <1>31 DEF vars, TableInv, ServeInv, TypeOK, process, flags, members, kernel, network, history
<1> QED
  BY <1>1, <1>2, <1>3, <1>4, <1>5, <1>6, <1>7, <1>8, <1>9, <1>10, <1>11, <1>12, <1>13, <1>14, <1>15, <1>16, <1>17, <1>18, <1>19, <1>20, <1>21, <1>22, <1>23, <1>24, <1>25, <1>26, <1>27, <1>28, <1>29, <1>30, <1>31
  DEF Next, ServerStep, Signal, PeerStep

\* A connection is read when nothing has been read from it, so the buffer and
\* the bytes received on it are then the same.
LEMMA ReceiveFacts ==
  ASSUME TypeOK, ServeInv, NEW c \in Conns, Receives(c)
  PROVE  /\ HasClient /\ c = Client /\ clientAddr = ip[c]
         /\ read[c] = <<>> /\ out[c] = <<>>
         /\ buf' \in Seq(Tokens) /\ buf' # <<>> /\ buf' = read'[c]
         /\ \A d \in Conns : d # c => read'[d] = read[d]
<1>1. /\ HasClient /\ c = Client /\ clientAddr = ip[c]
      /\ read[c] = <<>> /\ out[c] = <<>>
  BY DEF Receives, ServeInv
<1> DEFINE n == IF Len(inbox[c]) < BufCap THEN Len(inbox[c]) ELSE BufCap
<1>2. inbox[c] \in Seq(Tokens) /\ inbox[c] # <<>>
  BY DEF Receives, TypeOK
<1>3. n \in Nat /\ 1 <= n /\ n <= Len(inbox[c])
  <2>1. Len(inbox[c]) \in Nat /\ Len(inbox[c]) >= 1
    BY <1>2, EmptySeq
  <2>2. BufCap \in Nat /\ BufCap > 2
    BY SizeAssumption, CommandAssumption DEF Shutdown
  <2> QED
    BY <2>1, <2>2
<1>4. /\ buf' = SubSeq(inbox[c], 1, n)
      /\ read' = [read EXCEPT ![c] = @ \o SubSeq(inbox[c], 1, n)]
  BY DEF Receives
<1>5. buf' \in Seq(Tokens) /\ Len(buf') = n
  <2> HIDE DEF n
  <2> QED
    BY <1>2, <1>3, <1>4
<1>6. buf' # <<>>
  BY <1>3, <1>5
<1>7. read'[c] = buf' /\ \A d \in Conns : d # c => read'[d] = read[d]
  <2>1. read'[c] = <<>> \o buf'
    BY <1>1, <1>4 DEF TypeOK
  <2>2. <<>> \o buf' = buf'
    BY <1>5, ConcatEmptySeq
  <2> QED
    BY <1>4, <2>1, <2>2 DEF TypeOK
<1> QED
  BY <1>1, <1>5, <1>6, <1>7

\* The address of the connection being served is a real one.
LEMMA ServedAddress ==
  ASSUME TypeOK, TableInv, NEW c \in Conns, HasClient, c = Client, clientAddr = ip[c]
  PROVE  ip[c] \in IPs /\ GetClientIp = ip[c]
  BY IpAssumption DEF HasClient, Client, TableInv, TypeOK, GetClientIp

\* Every step keeps what client_fd, client_address and the buffer say of
\* the connection being served.
LEMMA NextServe == TypeOK /\ TableInv /\ ServeInv /\ [Next]_vars => ServeInv'
<1> SUFFICES ASSUME TypeOK, TableInv, ServeInv, [Next]_vars PROVE ServeInv'
  OBVIOUS
<1>1. CASE Main
  BY <1>1 DEF Main, TableInv, ServeInv, TypeOK, HasClient, Client, members, kernel, network, history
<1>2. CASE OpenLog
  BY <1>2 DEF OpenLog, TableInv, ServeInv, TypeOK, HasClient, Client, flags, members, network, history
<1>3. CASE LogFails
  BY <1>3 DEF LogFails, ProcessEnds, TableInv, ServeInv, TypeOK, HasClient, Client, flags, members, history
<1>4. CASE Listen
  BY <1>4 DEF Listen, TableInv, ServeInv, TypeOK, HasClient, Client, flags, network, history
<1>5. CASE SetupFails
  BY <1>5 DEF SetupFails, TableInv, ServeInv, TypeOK, HasClient, Client, flags, members, kernel, network, history
<1>6. CASE RunServer
  BY <1>6 DEF RunServer, TableInv, ServeInv, TypeOK, HasClient, Client, flags, members, kernel, network, history
<1>7. CASE AcceptReturns
  BY <1>7 DEF AcceptReturns, TableInv, ServeInv, TypeOK, HasClient, Client, flags, network
<1>8. CASE AcceptSleeps
  BY <1>8 DEF AcceptSleeps, TableInv, ServeInv, TypeOK, HasClient, Client, flags, members, kernel, network, history
<1>9. CASE AcceptFails
  <2>1. clientFd' = -1 /\ pc' = "recv"
    BY <1>9 DEF AcceptFails, AcceptRefused, AcceptFaults, AcceptError
  <2>2. ~HasClient'
    BY <2>1 DEF HasClient, Fd
  <2> QED
    BY <2>1, <2>2 DEF ServeInv
<1>10. ASSUME NEW c \in Conns, RecvFromBanned(c) PROVE ServeInv'
  <2>1. /\ GetClientIp \in BannedIps /\ pc' \in {"refuse", "loop"}
        /\ UNCHANGED <<clientFd, fds, ip, out>>
    BY <1>10 DEF RecvFromBanned, kernel
  <2>2. HasClient' /\ Client' = c /\ out'[c] = <<>> /\ buf' = read'[c] /\ buf' # <<>>
    BY <1>10, <2>1, ReceiveFacts DEF RecvFromBanned, HasClient, Client
  <2>3. ip'[c] \in BannedIps
    BY <1>10, <2>1, ReceiveFacts, ServedAddress DEF RecvFromBanned
  <2> QED
    BY <2>1, <2>2, <2>3 DEF ServeInv
<1>11. ASSUME NEW c \in Conns, RecvIgnored(c) PROVE ServeInv'
  BY <1>11 DEF RecvIgnored, Receives, TableInv, ServeInv, TypeOK, HasClient, Client, flags, kernel
<1>12. ASSUME NEW c \in Conns, RecvMessage(c) PROVE ServeInv'
  <2>1. GetClientIp \notin BannedIps /\ pc' = "echo" /\ UNCHANGED <<clientFd, fds, ip, out>>
    BY <1>12 DEF RecvMessage, kernel
  <2>2. HasClient' /\ Client' = c /\ out'[c] = <<>> /\ buf' = read'[c] /\ buf' # <<>>
    BY <1>12, <2>1, ReceiveFacts DEF RecvMessage, HasClient, Client
  <2>3. ip'[c] \notin BannedIps
    BY <1>12, <2>1, ReceiveFacts, ServedAddress DEF RecvMessage
  <2> QED
    BY <2>1, <2>2, <2>3 DEF ServeInv
<1>13. CASE RecvNothing
  BY <1>13 DEF RecvNothing, TableInv, ServeInv, TypeOK, HasClient, Client, flags, members, kernel, network, history
<1>14. CASE RecvSleeps
  BY <1>14 DEF RecvSleeps, TableInv, ServeInv, TypeOK, HasClient, Client, flags, members, kernel, network, history
<1>15. ASSUME NEW c \in Conns, Refuse(c) PROVE ServeInv'
  BY <1>15 DEF Refuse, TableInv, ServeInv, TypeOK, HasClient, Client, flags, kernel, network
<1>16. ASSUME NEW c \in Conns, Echo(c) PROVE ServeInv'
  BY <1>16 DEF Echo, TableInv, ServeInv, TypeOK, HasClient, Client, flags, members, kernel, network
<1>17. CASE SendRaisesSigpipe
  BY <1>17 DEF SendRaisesSigpipe, ProcessEnds, TableInv, ServeInv, TypeOK, HasClient, Client, flags, members, history
<1>18. CASE Loop
  BY <1>18 DEF Loop, TableInv, ServeInv, TypeOK, HasClient, Client, flags, members, kernel, network, history
<1>19. CASE DestroyServer
  BY <1>19 DEF DestroyServer, TableInv, ServeInv, TypeOK, HasClient, Client, flags, history
<1>20. CASE DestroyOther
  BY <1>20 DEF DestroyOther, TableInv, ServeInv, TypeOK, HasClient, Client, flags, members, kernel, network, history
<1>21. CASE Exit
  BY <1>21 DEF Exit, ProcessEnds, TableInv, ServeInv, TypeOK, HasClient, Client, flags, members, history
<1>22. CASE SignalKills
  BY <1>22 DEF SignalKills, ProcessEnds, TableInv, ServeInv, TypeOK, HasClient, Client, flags, members, history
<1>23. CASE SignalInAccept
  <2>1. clientFd' = -1 /\ pc' = "recv"
    BY <1>23 DEF SignalInAccept, AcceptError
  <2>2. ~HasClient'
    BY <2>1 DEF HasClient, Fd
  <2> QED
    BY <2>1, <2>2 DEF ServeInv
<1>24. CASE SignalInRecv
  BY <1>24 DEF SignalInRecv, TableInv, ServeInv, TypeOK, HasClient, Client, members, kernel, network, history
<1>25. CASE SignalNoted
  BY <1>25 DEF SignalNoted, TableInv, ServeInv, TypeOK, HasClient, Client, process, members, kernel, network, history
<1>26. ASSUME NEW c \in Conns, NEW a \in IPs, PeerConnect(c, a) PROVE ServeInv'
  BY <1>26 DEF PeerConnect, TableInv, ServeInv, TypeOK, HasClient, Client, process, flags, members, history
<1>27. ASSUME NEW c \in Conns, NEW m \in Payloads, PeerSend(c, m) PROVE ServeInv'
  BY <1>27 DEF PeerSend, TableInv, ServeInv, TypeOK, HasClient, Client, process, flags, members, kernel, history
<1>28. ASSUME NEW c \in Conns, PeerFin(c) PROVE ServeInv'
  BY <1>28 DEF PeerFin, TableInv, ServeInv, TypeOK, HasClient, Client, process, flags, members, kernel, history
<1>29. ASSUME NEW c \in Conns, PeerReset(c) PROVE ServeInv'
  BY <1>29 DEF PeerReset, TableInv, ServeInv, TypeOK, HasClient, Client, process, flags, members, kernel, history
<1>30. CASE Gone
  BY <1>30 DEF Gone, vars, TableInv, ServeInv, TypeOK, HasClient, Client, process, flags, members, kernel, network, history
<1>31. CASE UNCHANGED vars
  BY <1>31 DEF vars, TableInv, ServeInv, TypeOK, HasClient, Client, process, flags, members, kernel, network, history
<1> QED
  BY <1>1, <1>2, <1>3, <1>4, <1>5, <1>6, <1>7, <1>8, <1>9, <1>10, <1>11, <1>12, <1>13, <1>14, <1>15, <1>16, <1>17, <1>18, <1>19, <1>20, <1>21, <1>22, <1>23, <1>24, <1>25, <1>26, <1>27, <1>28, <1>29, <1>30, <1>31
  DEF Next, ServerStep, Signal, PeerStep

\* What was received, what was sent and where from are settled by the one
\* exchange of a connection.
LEMMA ReadSettled == TypeOK /\ TableInv /\ ServeInv /\ [Next]_vars =>
    \A d \in Conns : read[d] # <<>> => read'[d] = read[d] /\ ip'[d] = ip[d]
<1> SUFFICES ASSUME TypeOK, TableInv, ServeInv, [Next]_vars PROVE \A d \in Conns : read[d] # <<>> => read'[d] = read[d] /\ ip'[d] = ip[d]
  OBVIOUS
<1>1. CASE Main
  BY <1>1 DEF Main, members, kernel, network, history
<1>2. CASE OpenLog
  BY <1>2 DEF OpenLog, flags, members, network, history
<1>3. CASE LogFails
  BY <1>3 DEF LogFails, ProcessEnds, flags, members, history
<1>4. CASE Listen
  BY <1>4 DEF Listen, flags, network, history
<1>5. CASE SetupFails
  BY <1>5 DEF SetupFails, flags, members, kernel, network, history
<1>6. CASE RunServer
  BY <1>6 DEF RunServer, flags, members, kernel, network, history
<1>7. CASE AcceptReturns
  BY <1>7 DEF AcceptReturns, flags, network
<1>8. CASE AcceptSleeps
  BY <1>8 DEF AcceptSleeps, flags, members, kernel, network, history
<1>9. CASE AcceptFails
  BY <1>9 DEF AcceptFails, AcceptRefused, AcceptFaults, AcceptError, history
<1>10. ASSUME NEW c \in Conns, RecvFromBanned(c) PROVE \A d \in Conns : read[d] # <<>> => read'[d] = read[d] /\ ip'[d] = ip[d]
  BY <1>10, ReceiveFacts DEF RecvFromBanned, flags, kernel
<1>11. ASSUME NEW c \in Conns, RecvIgnored(c) PROVE \A d \in Conns : read[d] # <<>> => read'[d] = read[d] /\ ip'[d] = ip[d]
  BY <1>11, ReceiveFacts DEF RecvIgnored, flags, kernel
<1>12. ASSUME NEW c \in Conns, RecvMessage(c) PROVE \A d \in Conns : read[d] # <<>> => read'[d] = read[d] /\ ip'[d] = ip[d]
  BY <1>12, ReceiveFacts DEF RecvMessage, kernel
<1>13. CASE RecvNothing
  BY <1>13 DEF RecvNothing, flags, members, kernel, network, history
<1>14. CASE RecvSleeps
  BY <1>14 DEF RecvSleeps, flags, members, kernel, network, history
<1>15. ASSUME NEW c \in Conns, Refuse(c) PROVE \A d \in Conns : read[d] # <<>> => read'[d] = read[d] /\ ip'[d] = ip[d]
  BY <1>15 DEF Refuse, flags, kernel, network
<1>16. ASSUME NEW c \in Conns, Echo(c) PROVE \A d \in Conns : read[d] # <<>> => read'[d] = read[d] /\ ip'[d] = ip[d]
  BY <1>16 DEF Echo, flags, members, kernel, network
<1>17. CASE SendRaisesSigpipe
  BY <1>17 DEF SendRaisesSigpipe, ProcessEnds, flags, members, history
<1>18. CASE Loop
  BY <1>18 DEF Loop, flags, members, kernel, network, history
<1>19. CASE DestroyServer
  BY <1>19 DEF DestroyServer, flags, history
<1>20. CASE DestroyOther
  BY <1>20 DEF DestroyOther, flags, members, kernel, network, history
<1>21. CASE Exit
  BY <1>21 DEF Exit, ProcessEnds, flags, members, history
<1>22. CASE SignalKills
  BY <1>22 DEF SignalKills, ProcessEnds, flags, members, history
<1>23. CASE SignalInAccept
  BY <1>23 DEF SignalInAccept, AcceptError, history
<1>24. CASE SignalInRecv
  BY <1>24 DEF SignalInRecv, members, kernel, network, history
<1>25. CASE SignalNoted
  BY <1>25 DEF SignalNoted, process, members, kernel, network, history
<1>26. ASSUME NEW c \in Conns, NEW a \in IPs, PeerConnect(c, a) PROVE \A d \in Conns : read[d] # <<>> => read'[d] = read[d] /\ ip'[d] = ip[d]
  BY <1>26 DEF PeerConnect, TableInv, TypeOK, history
<1>27. ASSUME NEW c \in Conns, NEW m \in Payloads, PeerSend(c, m) PROVE \A d \in Conns : read[d] # <<>> => read'[d] = read[d] /\ ip'[d] = ip[d]
  BY <1>27 DEF PeerSend, process, flags, members, kernel, history
<1>28. ASSUME NEW c \in Conns, PeerFin(c) PROVE \A d \in Conns : read[d] # <<>> => read'[d] = read[d] /\ ip'[d] = ip[d]
  BY <1>28 DEF PeerFin, process, flags, members, kernel, history
<1>29. ASSUME NEW c \in Conns, PeerReset(c) PROVE \A d \in Conns : read[d] # <<>> => read'[d] = read[d] /\ ip'[d] = ip[d]
  BY <1>29 DEF PeerReset, process, flags, members, kernel, history
<1>30. CASE Gone
  BY <1>30 DEF Gone, vars, process, flags, members, kernel, network, history
<1>31. CASE UNCHANGED vars
  BY <1>31 DEF vars, process, flags, members, kernel, network, history
<1> QED
  BY <1>1, <1>2, <1>3, <1>4, <1>5, <1>6, <1>7, <1>8, <1>9, <1>10, <1>11, <1>12, <1>13, <1>14, <1>15, <1>16, <1>17, <1>18, <1>19, <1>20, <1>21, <1>22, <1>23, <1>24, <1>25, <1>26, <1>27, <1>28, <1>29, <1>30, <1>31
  DEF Next, ServerStep, Signal, PeerStep

\* A reply is only ever added to a connection that has none.
LEMMA OutSettled == TypeOK /\ TableInv /\ ServeInv /\ [Next]_vars =>
    \A d \in Conns : out[d] # <<>> => out'[d] = out[d]
<1> SUFFICES ASSUME TypeOK, TableInv, ServeInv, [Next]_vars PROVE \A d \in Conns : out[d] # <<>> => out'[d] = out[d]
  OBVIOUS
<1>1. CASE Main
  BY <1>1 DEF Main, members, kernel, network, history
<1>2. CASE OpenLog
  BY <1>2 DEF OpenLog, flags, members, network, history
<1>3. CASE LogFails
  BY <1>3 DEF LogFails, ProcessEnds, flags, members, history
<1>4. CASE Listen
  BY <1>4 DEF Listen, flags, network, history
<1>5. CASE SetupFails
  BY <1>5 DEF SetupFails, flags, members, kernel, network, history
<1>6. CASE RunServer
  BY <1>6 DEF RunServer, flags, members, kernel, network, history
<1>7. CASE AcceptReturns
  BY <1>7 DEF AcceptReturns, flags, network
<1>8. CASE AcceptSleeps
  BY <1>8 DEF AcceptSleeps, flags, members, kernel, network, history
<1>9. CASE AcceptFails
  BY <1>9 DEF AcceptFails, AcceptRefused, AcceptFaults, AcceptError, history
<1>10. ASSUME NEW c \in Conns, RecvFromBanned(c) PROVE \A d \in Conns : out[d] # <<>> => out'[d] = out[d]
  BY <1>10 DEF RecvFromBanned, flags, kernel
<1>11. ASSUME NEW c \in Conns, RecvIgnored(c) PROVE \A d \in Conns : out[d] # <<>> => out'[d] = out[d]
  BY <1>11 DEF RecvIgnored, flags, kernel
<1>12. ASSUME NEW c \in Conns, RecvMessage(c) PROVE \A d \in Conns : out[d] # <<>> => out'[d] = out[d]
  BY <1>12 DEF RecvMessage, kernel
<1>13. CASE RecvNothing
  BY <1>13 DEF RecvNothing, flags, members, kernel, network, history
<1>14. CASE RecvSleeps
  BY <1>14 DEF RecvSleeps, flags, members, kernel, network, history
<1>15. ASSUME NEW c \in Conns, Refuse(c) PROVE \A d \in Conns : out[d] # <<>> => out'[d] = out[d]
  BY <1>15 DEF Refuse, ServeInv, Sends, TypeOK, flags, kernel, network
<1>16. ASSUME NEW c \in Conns, Echo(c) PROVE \A d \in Conns : out[d] # <<>> => out'[d] = out[d]
  BY <1>16 DEF Echo, ServeInv, Sends, TypeOK, flags, members, kernel, network
<1>17. CASE SendRaisesSigpipe
  BY <1>17 DEF SendRaisesSigpipe, ProcessEnds, flags, members, history
<1>18. CASE Loop
  BY <1>18 DEF Loop, flags, members, kernel, network, history
<1>19. CASE DestroyServer
  BY <1>19 DEF DestroyServer, flags, history
<1>20. CASE DestroyOther
  BY <1>20 DEF DestroyOther, flags, members, kernel, network, history
<1>21. CASE Exit
  BY <1>21 DEF Exit, ProcessEnds, flags, members, history
<1>22. CASE SignalKills
  BY <1>22 DEF SignalKills, ProcessEnds, flags, members, history
<1>23. CASE SignalInAccept
  BY <1>23 DEF SignalInAccept, AcceptError, history
<1>24. CASE SignalInRecv
  BY <1>24 DEF SignalInRecv, members, kernel, network, history
<1>25. CASE SignalNoted
  BY <1>25 DEF SignalNoted, process, members, kernel, network, history
<1>26. ASSUME NEW c \in Conns, NEW a \in IPs, PeerConnect(c, a) PROVE \A d \in Conns : out[d] # <<>> => out'[d] = out[d]
  BY <1>26 DEF PeerConnect, process, flags, members, history
<1>27. ASSUME NEW c \in Conns, NEW m \in Payloads, PeerSend(c, m) PROVE \A d \in Conns : out[d] # <<>> => out'[d] = out[d]
  BY <1>27 DEF PeerSend, process, flags, members, kernel, history
<1>28. ASSUME NEW c \in Conns, PeerFin(c) PROVE \A d \in Conns : out[d] # <<>> => out'[d] = out[d]
  BY <1>28 DEF PeerFin, process, flags, members, kernel, history
<1>29. ASSUME NEW c \in Conns, PeerReset(c) PROVE \A d \in Conns : out[d] # <<>> => out'[d] = out[d]
  BY <1>29 DEF PeerReset, process, flags, members, kernel, history
<1>30. CASE Gone
  BY <1>30 DEF Gone, vars, process, flags, members, kernel, network, history
<1>31. CASE UNCHANGED vars
  BY <1>31 DEF vars, process, flags, members, kernel, network, history
<1> QED
  BY <1>1, <1>2, <1>3, <1>4, <1>5, <1>6, <1>7, <1>8, <1>9, <1>10, <1>11, <1>12, <1>13, <1>14, <1>15, <1>16, <1>17, <1>18, <1>19, <1>20, <1>21, <1>22, <1>23, <1>24, <1>25, <1>26, <1>27, <1>28, <1>29, <1>30, <1>31
  DEF Next, ServerStep, Signal, PeerStep

\* No step takes back an order to stop.
LEMMA ToldStays == TypeOK /\ TableInv /\ ServeInv /\ [Next]_vars /\ Told => Told'
<1> SUFFICES ASSUME TypeOK, TableInv, ServeInv, [Next]_vars, Told PROVE Told'
  OBVIOUS
<1>1. PICK c \in Conns : ip[c] = AdminIp /\ Says(read[c], Shutdown)
  BY DEF Told
<1>2. read[c] # <<>>
  <2>1. Len(Shutdown) = 2 /\ Len(<<>>) = 0
    BY DEF Shutdown
  <2>2. ~IsPrefix(Append(Shutdown, "NUL"), <<>>)
    BY DEF IsPrefix, Shutdown
  <2>3. <<>> # Shutdown
    BY <2>1
  <2>4. ~Says(<<>>, Shutdown)
    BY <2>2, <2>3 DEF Says
  <2> QED
    BY <1>1, <2>4, Zenon
<1>3. read'[c] = read[c] /\ ip'[c] = ip[c]
  BY <1>2, ReadSettled
<1> QED
  BY <1>1, <1>3 DEF Told, Says

\* What CStringIs takes for the command is the command, alone or closed by NUL.
LEMMA CStringSays ==
  ASSUME NEW s \in Seq(Tokens), CStringIs(s, Shutdown)
  PROVE  Says(s, Shutdown)
<1>1. /\ Len(s) \in Nat /\ Len(s) >= 2
      /\ SubSeq(Shutdown, 1, 2) = SubSeq(s, 1, 2)
      /\ Len(s) > 2 => s[3] = "NUL"
  BY DEF CStringIs, IsPrefix, Shutdown
<1>2. s[1] = "SHUT" /\ s[2] = "DOWN"
  BY <1>1 DEF Shutdown
<1>3. CASE Len(s) = 2
  BY <1>2, <1>3 DEF Says, Shutdown
<1>4. CASE Len(s) > 2
  <2> DEFINE w == Append(Shutdown, "NUL")
  <2>1. Shutdown \in Seq(Tokens) /\ "NUL" \in Tokens
    BY DEF Shutdown, Tokens
  <2>2. Len(w) = 3 /\ w \in Seq(Tokens) /\ w[1] = "SHUT" /\ w[2] = "DOWN"
    BY <2>1 DEF Shutdown
  <2>3. w[3] = "NUL"
    <3>1. Append(Shutdown, "NUL")[Len(Shutdown) + 1] = "NUL"
      BY <2>1, AppendProperties
    <3> QED
      BY <3>1 DEF Shutdown
  <2> HIDE DEF w
  <2>4. s[3] = "NUL" /\ 3 <= Len(s)
    BY <1>1, <1>4
  <2>5. SubSeq(w, 1, 3) = SubSeq(s, 1, 3)
    BY <1>2, <2>2, <2>3, <2>4
  <2>6. IsPrefix(w, s)
    BY <2>2, <2>4, <2>5 DEF IsPrefix
  <2> QED
    BY <2>6 DEF Says, w
<1>5. Len(s) = 2 \/ Len(s) > 2
  <2>1. Len(s) \in Nat /\ Len(s) >= 2
    BY <1>1
  <2>2. \A k \in Nat : k >= 2 => k = 2 \/ k > 2
    OBVIOUS
  <2> QED
    BY <2>1, <2>2, Zenon
<1> QED
  BY <1>3, <1>4, <1>5

\* Every step keeps the reason for which the server was told to stop.
LEMMA NextTold == TypeOK /\ TableInv /\ ServeInv /\ ToldInv /\ [Next]_vars => ToldInv'
<1> SUFFICES ASSUME TypeOK, TableInv, ServeInv, ToldInv, [Next]_vars PROVE ToldInv'
  OBVIOUS
<1>1. CASE Main
  BY <1>1, ToldStays DEF Main, ToldInv, members, kernel, network, history
<1>2. CASE OpenLog
  BY <1>2, ToldStays DEF OpenLog, ToldInv, flags, members, network, history
<1>3. CASE LogFails
  BY <1>3, ToldStays DEF LogFails, ProcessEnds, ToldInv, flags, members, history
<1>4. CASE Listen
  BY <1>4, ToldStays DEF Listen, ToldInv, flags, network, history
<1>5. CASE SetupFails
  BY <1>5, ToldStays DEF SetupFails, ToldInv, flags, members, kernel, network, history
<1>6. CASE RunServer
  BY <1>6, ToldStays DEF RunServer, ToldInv, flags, members, kernel, network, history
<1>7. CASE AcceptReturns
  BY <1>7, ToldStays DEF AcceptReturns, ToldInv, flags, network
<1>8. CASE AcceptSleeps
  BY <1>8, ToldStays DEF AcceptSleeps, ToldInv, flags, members, kernel, network, history
<1>9. CASE AcceptFails
  BY <1>9, ToldStays DEF AcceptFails, AcceptRefused, AcceptFaults, AcceptError, history, ToldInv
<1>10. ASSUME NEW c \in Conns, RecvFromBanned(c) PROVE ToldInv'
  BY <1>10, ToldStays DEF RecvFromBanned, Receives, ToldInv, flags
<1>11. ASSUME NEW c \in Conns, RecvIgnored(c) PROVE ToldInv'
  BY <1>11, ToldStays DEF RecvIgnored, Receives, ToldInv, flags
<1>12. ASSUME NEW c \in Conns, RecvMessage(c) PROVE ToldInv'
  <2>1. pc \notin {"start", "dead"} /\ quit' = quit /\ status' = status
    BY <1>12 DEF RecvMessage, Receives
  <2>2. ~running' => ~running \/ (CStringIs(buf', Shutdown) /\ GetClientIp = AdminIp)
    BY <1>12, Zenon DEF RecvMessage
  <2>3. /\ buf' \in Seq(Tokens) /\ buf' = read'[c]
        /\ GetClientIp = ip[c] /\ ip' = ip
    BY <1>12, ReceiveFacts, ServedAddress DEF RecvMessage
  <2>4. CStringIs(buf', Shutdown) /\ GetClientIp = AdminIp => Told'
    BY <2>3, CStringSays DEF Told, Says
  <2> QED
    BY <2>1, <2>2, <2>4, ToldStays DEF ToldInv
<1>13. CASE RecvNothing
  BY <1>13, ToldStays DEF RecvNothing, ToldInv, flags, members, kernel, network, history
<1>14. CASE RecvSleeps
  BY <1>14, ToldStays DEF RecvSleeps, ToldInv, flags, members, kernel, network, history
<1>15. ASSUME NEW c \in Conns, Refuse(c) PROVE ToldInv'
  BY <1>15, ToldStays DEF Refuse, ToldInv, flags, kernel, network
<1>16. ASSUME NEW c \in Conns, Echo(c) PROVE ToldInv'
  BY <1>16, ToldStays DEF Echo, ToldInv, flags, members, kernel, network
<1>17. CASE SendRaisesSigpipe
  BY <1>17, ToldStays DEF SendRaisesSigpipe, ProcessEnds, ToldInv, flags, members, history
<1>18. CASE Loop
  BY <1>18, ToldStays DEF Loop, ToldInv, flags, members, kernel, network, history
<1>19. CASE DestroyServer
  BY <1>19, ToldStays DEF DestroyServer, ToldInv, flags, history
<1>20. CASE DestroyOther
  BY <1>20, ToldStays DEF DestroyOther, ToldInv, flags, members, kernel, network, history
<1>21. CASE Exit
  BY <1>21, ToldStays DEF Exit, ProcessEnds, ToldInv, flags, members, history
<1>22. CASE SignalKills
  BY <1>22, ToldStays DEF SignalKills, ProcessEnds, ToldInv, flags, members, history
<1>23. CASE SignalInAccept
  BY <1>23, ToldStays DEF SignalInAccept, AcceptError, history, ToldInv
<1>24. CASE SignalInRecv
  BY <1>24, ToldStays DEF SignalInRecv, ToldInv, members, kernel, network, history
<1>25. CASE SignalNoted
  BY <1>25, ToldStays DEF SignalNoted, ToldInv, process, members, kernel, network, history
<1>26. ASSUME NEW c \in Conns, NEW a \in IPs, PeerConnect(c, a) PROVE ToldInv'
  BY <1>26, ToldStays DEF PeerConnect, ToldInv, process, flags, members, history
<1>27. ASSUME NEW c \in Conns, NEW m \in Payloads, PeerSend(c, m) PROVE ToldInv'
  BY <1>27, ToldStays DEF PeerSend, ToldInv, process, flags, members, kernel, history
<1>28. ASSUME NEW c \in Conns, PeerFin(c) PROVE ToldInv'
  BY <1>28, ToldStays DEF PeerFin, ToldInv, process, flags, members, kernel, history
<1>29. ASSUME NEW c \in Conns, PeerReset(c) PROVE ToldInv'
  BY <1>29, ToldStays DEF PeerReset, ToldInv, process, flags, members, kernel, history
<1>30. CASE Gone
  BY <1>30, ToldStays DEF Gone, vars, ToldInv, process, flags, members, kernel, network, history
<1>31. CASE UNCHANGED vars
  BY <1>31, ToldStays DEF vars, ToldInv, process, flags, members, kernel, network, history
<1> QED
  BY <1>1, <1>2, <1>3, <1>4, <1>5, <1>6, <1>7, <1>8, <1>9, <1>10, <1>11, <1>12, <1>13, <1>14, <1>15, <1>16, <1>17, <1>18, <1>19, <1>20, <1>21, <1>22, <1>23, <1>24, <1>25, <1>26, <1>27, <1>28, <1>29, <1>30, <1>31
  DEF Next, ServerStep, Signal, PeerStep

\* Every step keeps replies equal to what was read, or to the notice.
LEMMA NextReply == TypeOK /\ TableInv /\ ServeInv /\ ReplyIntegrity /\ [Next]_vars => ReplyIntegrity'
<1> SUFFICES ASSUME TypeOK, TableInv, ServeInv, ReplyIntegrity, [Next]_vars PROVE ReplyIntegrity'
  OBVIOUS
<1>1. CASE Main
  BY <1>1, ReadSettled, OutSettled DEF Main, ReplyIntegrity, members, kernel, network, history
<1>2. CASE OpenLog
  BY <1>2, ReadSettled, OutSettled DEF OpenLog, ReplyIntegrity, flags, members, network, history
<1>3. CASE LogFails
  BY <1>3, ReadSettled, OutSettled DEF LogFails, ProcessEnds, ReplyIntegrity, flags, members, history
<1>4. CASE Listen
  BY <1>4, ReadSettled, OutSettled DEF Listen, ReplyIntegrity, flags, network, history
<1>5. CASE SetupFails
  BY <1>5, ReadSettled, OutSettled DEF SetupFails, ReplyIntegrity, flags, members, kernel, network, history
<1>6. CASE RunServer
  BY <1>6, ReadSettled, OutSettled DEF RunServer, ReplyIntegrity, flags, members, kernel, network, history
<1>7. CASE AcceptReturns
  BY <1>7, ReadSettled, OutSettled DEF AcceptReturns, ReplyIntegrity, flags, network
<1>8. CASE AcceptSleeps
  BY <1>8, ReadSettled, OutSettled DEF AcceptSleeps, ReplyIntegrity, flags, members, kernel, network, history
<1>9. CASE AcceptFails
  BY <1>9, ReadSettled, OutSettled DEF AcceptFails, AcceptRefused, AcceptFaults, AcceptError, history, ReplyIntegrity
<1>10. ASSUME NEW c \in Conns, RecvFromBanned(c) PROVE ReplyIntegrity'
  BY <1>10, ReadSettled, OutSettled DEF RecvFromBanned, ReplyIntegrity, flags, kernel
<1>11. ASSUME NEW c \in Conns, RecvIgnored(c) PROVE ReplyIntegrity'
  BY <1>11, ReadSettled, OutSettled DEF RecvIgnored, ReplyIntegrity, flags, kernel
<1>12. ASSUME NEW c \in Conns, RecvMessage(c) PROVE ReplyIntegrity'
  BY <1>12, ReadSettled, OutSettled DEF RecvMessage, ReplyIntegrity, kernel
<1>13. CASE RecvNothing
  BY <1>13, ReadSettled, OutSettled DEF RecvNothing, ReplyIntegrity, flags, members, kernel, network, history
<1>14. CASE RecvSleeps
  BY <1>14, ReadSettled, OutSettled DEF RecvSleeps, ReplyIntegrity, flags, members, kernel, network, history
<1>15. ASSUME NEW c \in Conns, Refuse(c) PROVE ReplyIntegrity'
  <2>1. /\ HasClient /\ c = Client /\ out[c] = <<>> /\ buf = read[c]
        /\ ip[c] \in BannedIps
        /\ UNCHANGED <<read, ip>>
    BY <1>15 DEF Refuse, ServeInv, network
  <2>2. BannedMessage \in Seq(Tokens)
    BY DEF BannedMessage, Tokens
  <2>3. <<>> \o BannedMessage = BannedMessage
    BY <2>2, ConcatEmptySeq
  <2>4. out'[c] \in {<<>>, BannedMessage} /\ \A d \in Conns : d # c => out'[d] = out[d]
    BY <1>15, <2>1, <2>3 DEF Refuse, Sends, TypeOK
  <2> QED
    BY <2>1, <2>4 DEF ReplyIntegrity
<1>16. ASSUME NEW c \in Conns, Echo(c) PROVE ReplyIntegrity'
  <2>1. /\ HasClient /\ c = Client /\ out[c] = <<>> /\ buf = read[c]
        /\ ip[c] \notin BannedIps
        /\ UNCHANGED <<read, ip>>
    BY <1>16 DEF Echo, ServeInv, network
  <2>2. buf \in Seq(Tokens)
    BY DEF TypeOK
  <2>3. <<>> \o buf = buf
    BY <2>2, ConcatEmptySeq
  <2>4. out'[c] \in {<<>>, buf} /\ \A d \in Conns : d # c => out'[d] = out[d]
    BY <1>16, <2>1, <2>3 DEF Echo, Sends, TypeOK
  <2> QED
    BY <2>1, <2>4 DEF ReplyIntegrity
<1>17. CASE SendRaisesSigpipe
  BY <1>17, ReadSettled, OutSettled DEF SendRaisesSigpipe, ProcessEnds, ReplyIntegrity, flags, members, history
<1>18. CASE Loop
  BY <1>18, ReadSettled, OutSettled DEF Loop, ReplyIntegrity, flags, members, kernel, network, history
<1>19. CASE DestroyServer
  BY <1>19, ReadSettled, OutSettled DEF DestroyServer, ReplyIntegrity, flags, history
<1>20. CASE DestroyOther
  BY <1>20, ReadSettled, OutSettled DEF DestroyOther, ReplyIntegrity, flags, members, kernel, network, history
<1>21. CASE Exit
  BY <1>21, ReadSettled, OutSettled DEF Exit, ProcessEnds, ReplyIntegrity, flags, members, history
<1>22. CASE SignalKills
  BY <1>22, ReadSettled, OutSettled DEF SignalKills, ProcessEnds, ReplyIntegrity, flags, members, history
<1>23. CASE SignalInAccept
  BY <1>23, ReadSettled, OutSettled DEF SignalInAccept, AcceptError, history, ReplyIntegrity
<1>24. CASE SignalInRecv
  BY <1>24, ReadSettled, OutSettled DEF SignalInRecv, ReplyIntegrity, members, kernel, network, history
<1>25. CASE SignalNoted
  BY <1>25, ReadSettled, OutSettled DEF SignalNoted, ReplyIntegrity, process, members, kernel, network, history
<1>26. ASSUME NEW c \in Conns, NEW a \in IPs, PeerConnect(c, a) PROVE ReplyIntegrity'
  <2>1. \A d \in Conns : out[d] # <<>> => d # c
    BY <1>26 DEF PeerConnect, TableInv
  <2> QED
    BY <1>26, <2>1 DEF PeerConnect, ReplyIntegrity, TypeOK, history
<1>27. ASSUME NEW c \in Conns, NEW m \in Payloads, PeerSend(c, m) PROVE ReplyIntegrity'
  BY <1>27, ReadSettled, OutSettled DEF PeerSend, ReplyIntegrity, process, flags, members, kernel, history
<1>28. ASSUME NEW c \in Conns, PeerFin(c) PROVE ReplyIntegrity'
  BY <1>28, ReadSettled, OutSettled DEF PeerFin, ReplyIntegrity, process, flags, members, kernel, history
<1>29. ASSUME NEW c \in Conns, PeerReset(c) PROVE ReplyIntegrity'
  BY <1>29, ReadSettled, OutSettled DEF PeerReset, ReplyIntegrity, process, flags, members, kernel, history
<1>30. CASE Gone
  BY <1>30, ReadSettled, OutSettled DEF Gone, vars, ReplyIntegrity, process, flags, members, kernel, network, history
<1>31. CASE UNCHANGED vars
  BY <1>31, ReadSettled, OutSettled DEF vars, ReplyIntegrity, process, flags, members, kernel, network, history
<1> QED
  BY <1>1, <1>2, <1>3, <1>4, <1>5, <1>6, <1>7, <1>8, <1>9, <1>10, <1>11, <1>12, <1>13, <1>14, <1>15, <1>16, <1>17, <1>18, <1>19, <1>20, <1>21, <1>22, <1>23, <1>24, <1>25, <1>26, <1>27, <1>28, <1>29, <1>30, <1>31
  DEF Next, ServerStep, Signal, PeerStep

\* TcpServer lives while all three statics do.
LEMMA AliveLives == TypeOK /\ StaticsInv => (Alive <=> Lives)
<1> SUFFICES ASSUME TypeOK, StaticsInv PROVE Alive <=> Lives
  OBVIOUS
<1>1. Len(statics) \in Nat /\ DOMAIN statics = 1 .. Len(statics)
  BY DEF TypeOK
<1>2. "TcpServer" \in ToSet(statics) <=> Len(statics) = 3
  <2>1. Len(statics) = 3 => 3 \in DOMAIN statics /\ statics[3] = "TcpServer"
    BY <1>1 DEF StaticsInv
  <2>2. Len(statics) # 3 => \A i \in DOMAIN statics : i = 1 \/ i = 2
    BY <1>1 DEF StaticsInv
  <2>3. Len(statics) # 3 => \A i \in DOMAIN statics : statics[i] # "TcpServer"
    BY <1>1, <2>2 DEF StaticsInv
  <2> QED
    BY <2>1, <2>3 DEF ToSet
<1>3. ASSUME Alive PROVE Lives
  <2>1. pc \in Pcs /\ pc # "dead" /\ Len(statics) = 3
    BY <1>2, <1>3 DEF Alive, TypeOK
  <2>2. pc \notin {"start", "logger", "socket"}
    BY <2>1 DEF StaticsInv
  <2> QED
    BY <2>1, <2>2 DEF Lives, Serving, Pcs
<1>4. ASSUME Lives PROVE Alive
  <2>1. Len(statics) = 3 /\ pc # "dead"
    BY <1>4 DEF Lives, Serving, StaticsInv
  <2> QED
    BY <1>2, <2>1 DEF Alive
<1> QED
  BY <1>3, <1>4

\* What a failed accept leaves behind.
LEMMA AcceptErrorFacts ==
  ASSUME TypeOK, AcceptError
  PROVE  /\ pc' = "recv" /\ clientFd' = -1 /\ ~HasClient'
         /\ UNCHANGED <<serverFd, banned, read, out, ip>>
         /\ \A n \in Fd : fds'[n] = IF n = serverFd THEN "free" ELSE fds[n]
         /\ \A c \in Conns : link'[c] = link[c] \/ link'[c] = "gone"
<1>1. /\ CloseFds({serverFd}) /\ pc' = "recv" /\ clientFd' = -1
      /\ UNCHANGED <<serverFd, banned, read, out, ip>>
  BY DEF AcceptError
<1>2. ~HasClient'
  BY <1>1 DEF HasClient, Fd
<1> QED
  BY <1>1, <1>2, CloseFdsFacts

\* It does not survive the first destructor that exit runs.
LEMMA DestroyEndsLife ==
  ASSUME TypeOK, StaticsInv, DestroyServer \/ DestroyOther
  PROVE  ~Lives' /\ pc' = "exit"
<1>1. pc' = "exit" /\ statics # <<>> /\ statics' = Front(statics)
  BY DEF DestroyServer, DestroyOther
<1>2. Len(statics') = Len(statics) - 1 /\ Len(statics) \in Nat /\ Len(statics) <= 3
  BY <1>1, FrontStatics DEF TypeOK, StaticsInv
<1> QED
  BY <1>1, <1>2 DEF Lives, Serving

\* Every step keeps server_fd and client_fd off every descriptor that is
\* not a socket.
LEMMA NextSockets == TypeOK /\ TableInv /\ ServeInv /\ StaticsInv /\ BootInv /\ SocketsInv /\ [Next]_vars => SocketsInv'
<1> SUFFICES ASSUME TypeOK, TableInv, ServeInv, StaticsInv, BootInv, SocketsInv, [Next]_vars PROVE SocketsInv'
  OBVIOUS
<1>1. CASE Main
  BY <1>1, ConnsAssumption DEF Main, SocketsInv, HasClient, BootInv, StaticsInv, Lives, Serving, members, kernel, network, history
<1>2. CASE OpenLog
  BY <1>2, ConnsAssumption DEF OpenLog, SocketsInv, HasClient, BootInv, StaticsInv, Lives, Serving, flags, members, network, history
<1>3. CASE LogFails
  BY <1>3, ConnsAssumption DEF LogFails, ProcessEnds, SocketsInv, HasClient, BootInv, StaticsInv, Lives, Serving, flags, members, history
<1>4. CASE Listen
  <2>1. PICK n \in Fd : fds' = [fds EXCEPT ![n] = "listen"] /\ serverFd' = n
    BY <1>4 DEF Listen
  <2>2. fds'[serverFd'] = "listen" /\ pc' = "run"
    BY <1>4, <2>1 DEF Listen, TypeOK
  <2> QED
    BY <2>2 DEF SocketsInv
<1>5. CASE SetupFails
  BY <1>5, ConnsAssumption DEF SetupFails, SocketsInv, HasClient, BootInv, StaticsInv, Lives, Serving, flags, members, kernel, network, history
<1>6. CASE RunServer
  BY <1>6, ConnsAssumption DEF RunServer, SocketsInv, HasClient, BootInv, StaticsInv, Lives, Serving, flags, members, kernel, network, history
<1>7. CASE AcceptReturns
  <2>1. PICK n \in Fd : /\ LowestFree(n) /\ clientFd' = n
                        /\ fds' = [fds EXCEPT ![n] = Head(queue)]
    BY <1>7 DEF AcceptReturns
  <2>2. Head(queue) \in Conns /\ serverFd \in Fd /\ serverFd' = serverFd
    BY <1>7 DEF AcceptReturns, TypeOK
  <2>3. HasClient'
    BY <2>1, <2>2 DEF HasClient, TypeOK
  <2>4. n # serverFd /\ fds'[serverFd] = fds[serverFd] /\ fds[serverFd] = "listen"
    BY <1>7, <2>1, <2>2 DEF AcceptReturns, Listening, LowestFree, TypeOK
  <2> QED
    BY <2>2, <2>3, <2>4 DEF SocketsInv
<1>8. CASE AcceptSleeps
  BY <1>8, ConnsAssumption DEF AcceptSleeps, SocketsInv, HasClient, BootInv, StaticsInv, Lives, Serving, flags, members, kernel, network, history
<1>9. CASE AcceptFails
  <2>1. AcceptError /\ serverFd \in Fd
    BY <1>9 DEF AcceptFails, AcceptRefused, AcceptFaults, TypeOK
  <2>2. Lives
    BY <1>9 DEF AcceptFails, AcceptRefused, AcceptFaults, Lives, Serving
  <2> QED
    BY <2>1, <2>2, AcceptErrorFacts DEF SocketsInv
<1>10. ASSUME NEW c \in Conns, RecvFromBanned(c) PROVE SocketsInv'
  BY <1>10, ReceiveFacts, ConnsAssumption DEF RecvFromBanned, Receives, SocketsInv, HasClient, BootInv, StaticsInv, Lives, Serving, flags, kernel
<1>11. ASSUME NEW c \in Conns, RecvIgnored(c) PROVE SocketsInv'
  BY <1>11, ReceiveFacts, ConnsAssumption DEF RecvIgnored, Receives, SocketsInv, HasClient, BootInv, StaticsInv, Lives, Serving, flags, kernel
<1>12. ASSUME NEW c \in Conns, RecvMessage(c) PROVE SocketsInv'
  BY <1>12, ReceiveFacts, ConnsAssumption DEF RecvMessage, Receives, SocketsInv, HasClient, BootInv, StaticsInv, Lives, Serving, kernel
<1>13. CASE RecvNothing
  BY <1>13, ConnsAssumption DEF RecvNothing, SocketsInv, HasClient, BootInv, StaticsInv, Lives, Serving, flags, members, kernel, network, history
<1>14. CASE RecvSleeps
  BY <1>14, ConnsAssumption DEF RecvSleeps, SocketsInv, HasClient, BootInv, StaticsInv, Lives, Serving, flags, members, kernel, network, history
<1>15. ASSUME NEW c \in Conns, Refuse(c) PROVE SocketsInv'
  BY <1>15, ConnsAssumption DEF Refuse, SocketsInv, HasClient, BootInv, StaticsInv, Lives, Serving, flags, kernel, network
<1>16. ASSUME NEW c \in Conns, Echo(c) PROVE SocketsInv'
  BY <1>16, ConnsAssumption DEF Echo, SocketsInv, HasClient, BootInv, StaticsInv, Lives, Serving, flags, members, kernel, network
<1>17. CASE SendRaisesSigpipe
  BY <1>17, ConnsAssumption DEF SendRaisesSigpipe, ProcessEnds, SocketsInv, HasClient, BootInv, StaticsInv, Lives, Serving, flags, members, history
<1>18. CASE Loop
  BY <1>18, ConnsAssumption DEF Loop, SocketsInv, HasClient, BootInv, StaticsInv, Lives, Serving, flags, members, kernel, network, history
<1>19. CASE DestroyServer
  BY <1>19, DestroyEndsLife, ConnsAssumption DEF DestroyServer, SocketsInv, HasClient, BootInv, StaticsInv, Lives, Serving, flags, history
<1>20. CASE DestroyOther
  BY <1>20, DestroyEndsLife, ConnsAssumption DEF DestroyOther, SocketsInv, HasClient, BootInv, StaticsInv, Lives, Serving, flags, members, kernel, network, history
<1>21. CASE Exit
  BY <1>21, ConnsAssumption DEF Exit, ProcessEnds, SocketsInv, HasClient, BootInv, StaticsInv, Lives, Serving, flags, members, history
<1>22. CASE SignalKills
  BY <1>22, ConnsAssumption DEF SignalKills, ProcessEnds, SocketsInv, HasClient, BootInv, StaticsInv, Lives, Serving, flags, members, history
<1>23. CASE SignalInAccept
  <2>1. AcceptError /\ serverFd \in Fd
    BY <1>23 DEF SignalInAccept, TypeOK
  <2>2. Lives
    BY <1>23 DEF SignalInAccept, Lives, Serving
  <2> QED
    BY <2>1, <2>2, AcceptErrorFacts DEF SocketsInv
<1>24. CASE SignalInRecv
  BY <1>24, ConnsAssumption DEF SignalInRecv, SocketsInv, HasClient, BootInv, StaticsInv, Lives, Serving, members, kernel, network, history
<1>25. CASE SignalNoted
  BY <1>25, ConnsAssumption DEF SignalNoted, SocketsInv, HasClient, BootInv, StaticsInv, Lives, Serving, process, members, kernel, network, history
<1>26. ASSUME NEW c \in Conns, NEW a \in IPs, PeerConnect(c, a) PROVE SocketsInv'
  BY <1>26, ConnsAssumption DEF PeerConnect, SocketsInv, HasClient, BootInv, StaticsInv, Lives, Serving, process, flags, members, history
<1>27. ASSUME NEW c \in Conns, NEW m \in Payloads, PeerSend(c, m) PROVE SocketsInv'
  BY <1>27, ConnsAssumption DEF PeerSend, SocketsInv, HasClient, BootInv, StaticsInv, Lives, Serving, process, flags, members, kernel, history
<1>28. ASSUME NEW c \in Conns, PeerFin(c) PROVE SocketsInv'
  BY <1>28, ConnsAssumption DEF PeerFin, SocketsInv, HasClient, BootInv, StaticsInv, Lives, Serving, process, flags, members, kernel, history
<1>29. ASSUME NEW c \in Conns, PeerReset(c) PROVE SocketsInv'
  BY <1>29, ConnsAssumption DEF PeerReset, SocketsInv, HasClient, BootInv, StaticsInv, Lives, Serving, process, flags, members, kernel, history
<1>30. CASE Gone
  BY <1>30, ConnsAssumption DEF Gone, vars, SocketsInv, HasClient, BootInv, StaticsInv, Lives, Serving, process, flags, members, kernel, network, history
<1>31. CASE UNCHANGED vars
  BY <1>31, ConnsAssumption DEF vars, SocketsInv, HasClient, BootInv, StaticsInv, Lives, Serving, process, flags, members, kernel, network, history
<1> QED
  BY <1>1, <1>2, <1>3, <1>4, <1>5, <1>6, <1>7, <1>8, <1>9, <1>10, <1>11, <1>12, <1>13, <1>14, <1>15, <1>16, <1>17, <1>18, <1>19, <1>20, <1>21, <1>22, <1>23, <1>24, <1>25, <1>26, <1>27, <1>28, <1>29, <1>30, <1>31
  DEF Next, ServerStep, Signal, PeerStep

\* Every step keeps the explanation of a lost listening socket.
LEMMA NextLost == TypeOK /\ TableInv /\ ServeInv /\ StaticsInv /\ BootInv /\ SocketsInv /\ LostInv /\ [Next]_vars => LostInv'
<1> SUFFICES ASSUME TypeOK, TableInv, ServeInv, StaticsInv, BootInv, SocketsInv, LostInv, [Next]_vars PROVE LostInv'
  OBVIOUS
<1>1. CASE Main
  BY <1>1, ConnsAssumption DEF Main, LostInv, Lives, Serving, members, kernel, network, history
<1>2. CASE OpenLog
  BY <1>2, ConnsAssumption DEF OpenLog, LostInv, Lives, Serving, flags, members, network, history
<1>3. CASE LogFails
  BY <1>3, ConnsAssumption DEF LogFails, ProcessEnds, LostInv, Lives, Serving, flags, members, history
<1>4. CASE Listen
  <2>1. PICK n \in Fd : fds' = [fds EXCEPT ![n] = "listen"] /\ serverFd' = n
    BY <1>4 DEF Listen
  <2>2. fds'[serverFd'] = "listen" /\ pc' = "run"
    BY <1>4, <2>1 DEF Listen, TypeOK
  <2> QED
    BY <2>2 DEF LostInv
<1>5. CASE SetupFails
  <2>1. Len(statics') = 2 /\ pc' = "exit"
    BY <1>5 DEF SetupFails, StaticsInv
  <2>2. ~Lives'
    BY <2>1 DEF Lives, Serving
  <2> QED
    BY <2>2 DEF LostInv
<1>6. CASE RunServer
  BY <1>6, ConnsAssumption DEF RunServer, LostInv, Lives, Serving, flags, members, kernel, network, history
<1>7. CASE AcceptReturns
  BY <1>7, ConnsAssumption DEF AcceptReturns, Listening, LowestFree, LostInv, Lives, Serving, flags, network
<1>8. CASE AcceptSleeps
  BY <1>8, ConnsAssumption DEF AcceptSleeps, LostInv, Lives, Serving, flags, members, kernel, network, history
<1>9. CASE AcceptFails
  <2>1. AcceptError /\ Lives /\ serverFd \in Fd /\ quit' = quit
    BY <1>9 DEF AcceptFails, AcceptRefused, AcceptFaults, Lives, Serving, TypeOK
  <2>2. CASE AcceptRefused /\ TableFull
    BY <2>1, <2>2, AcceptErrorFacts DEF LostInv, TableFull
  <2>3. CASE AcceptRefused /\ ~Listening
    BY <2>1, <2>3, AcceptErrorFacts DEF LostInv, Listening, AcceptRefused
  <2>4. CASE AcceptFaults
    BY <2>4 DEF LostInv, AcceptFaults
  <2> QED
    BY <1>9, <2>2, <2>3, <2>4 DEF AcceptFails, AcceptRefused
<1>10. ASSUME NEW c \in Conns, RecvFromBanned(c) PROVE LostInv'
  BY <1>10, ReceiveFacts, ConnsAssumption DEF RecvFromBanned, Receives, LostInv, Lives, Serving, flags, kernel
<1>11. ASSUME NEW c \in Conns, RecvIgnored(c) PROVE LostInv'
  BY <1>11, ReceiveFacts, ConnsAssumption DEF RecvIgnored, Receives, LostInv, Lives, Serving, flags, kernel
<1>12. ASSUME NEW c \in Conns, RecvMessage(c) PROVE LostInv'
  BY <1>12, ReceiveFacts, ConnsAssumption DEF RecvMessage, Receives, LostInv, Lives, Serving, kernel
<1>13. CASE RecvNothing
  BY <1>13, ConnsAssumption DEF RecvNothing, LostInv, Lives, Serving, flags, members, kernel, network, history
<1>14. CASE RecvSleeps
  BY <1>14, ConnsAssumption DEF RecvSleeps, LostInv, Lives, Serving, flags, members, kernel, network, history
<1>15. ASSUME NEW c \in Conns, Refuse(c) PROVE LostInv'
  BY <1>15, ConnsAssumption DEF Refuse, LostInv, Lives, Serving, flags, kernel, network
<1>16. ASSUME NEW c \in Conns, Echo(c) PROVE LostInv'
  BY <1>16, ConnsAssumption DEF Echo, LostInv, Lives, Serving, flags, members, kernel, network
<1>17. CASE SendRaisesSigpipe
  BY <1>17, ConnsAssumption DEF SendRaisesSigpipe, ProcessEnds, LostInv, Lives, Serving, flags, members, history
<1>18. CASE Loop
  BY <1>18, ConnsAssumption DEF Loop, LostInv, Lives, Serving, flags, members, kernel, network, history
<1>19. CASE DestroyServer
  BY <1>19, DestroyEndsLife, ConnsAssumption DEF DestroyServer, LostInv, Lives, Serving, flags, history
<1>20. CASE DestroyOther
  BY <1>20, DestroyEndsLife, ConnsAssumption DEF DestroyOther, LostInv, Lives, Serving, flags, members, kernel, network, history
<1>21. CASE Exit
  BY <1>21, ConnsAssumption DEF Exit, ProcessEnds, LostInv, Lives, Serving, flags, members, history
<1>22. CASE SignalKills
  BY <1>22, ConnsAssumption DEF SignalKills, ProcessEnds, LostInv, Lives, Serving, flags, members, history
<1>23. CASE SignalInAccept
  BY <1>23, ConnsAssumption DEF SignalInAccept, AcceptError, history, CloseFds, LostInv, Lives, Serving
<1>24. CASE SignalInRecv
  BY <1>24, ConnsAssumption DEF SignalInRecv, LostInv, Lives, Serving, members, kernel, network, history
<1>25. CASE SignalNoted
  BY <1>25, ConnsAssumption DEF SignalNoted, LostInv, Lives, Serving, process, members, kernel, network, history
<1>26. ASSUME NEW c \in Conns, NEW a \in IPs, PeerConnect(c, a) PROVE LostInv'
  BY <1>26, ConnsAssumption DEF PeerConnect, LostInv, Lives, Serving, process, flags, members, history
<1>27. ASSUME NEW c \in Conns, NEW m \in Payloads, PeerSend(c, m) PROVE LostInv'
  BY <1>27, ConnsAssumption DEF PeerSend, LostInv, Lives, Serving, process, flags, members, kernel, history
<1>28. ASSUME NEW c \in Conns, PeerFin(c) PROVE LostInv'
  BY <1>28, ConnsAssumption DEF PeerFin, LostInv, Lives, Serving, process, flags, members, kernel, history
<1>29. ASSUME NEW c \in Conns, PeerReset(c) PROVE LostInv'
  BY <1>29, ConnsAssumption DEF PeerReset, LostInv, Lives, Serving, process, flags, members, kernel, history
<1>30. CASE Gone
  BY <1>30, ConnsAssumption DEF Gone, vars, LostInv, Lives, Serving, process, flags, members, kernel, network, history
<1>31. CASE UNCHANGED vars
  BY <1>31, ConnsAssumption DEF vars, LostInv, Lives, Serving, process, flags, members, kernel, network, history
<1> QED
  BY <1>1, <1>2, <1>3, <1>4, <1>5, <1>6, <1>7, <1>8, <1>9, <1>10, <1>11, <1>12, <1>13, <1>14, <1>15, <1>16, <1>17, <1>18, <1>19, <1>20, <1>21, <1>22, <1>23, <1>24, <1>25, <1>26, <1>27, <1>28, <1>29, <1>30, <1>31
  DEF Next, ServerStep, Signal, PeerStep

\* Every step keeps the explanation of an unanswered message.
LEMMA NextSilent == TypeOK /\ TableInv /\ ServeInv /\ StaticsInv /\ BootInv /\ SilentInv /\ [Next]_vars => SilentInv'
<1> SUFFICES ASSUME TypeOK, TableInv, ServeInv, StaticsInv, BootInv, SilentInv, [Next]_vars PROVE SilentInv'
  OBVIOUS
<1>1. CASE Main
  BY <1>1, ReadSettled, OutSettled DEF Main, SilentInv, Lives, Serving, Answering, HasClient, Client, members, kernel, network, history
<1>2. CASE OpenLog
  BY <1>2, ReadSettled, OutSettled DEF OpenLog, SilentInv, Lives, Serving, Answering, HasClient, Client, flags, members, network, history
<1>3. CASE LogFails
  BY <1>3, ReadSettled, OutSettled DEF LogFails, ProcessEnds, SilentInv, Lives, Serving, Answering, HasClient, Client, flags, members, history
<1>4. CASE Listen
  <2>1. \A d \in Conns : read[d] = <<>> /\ read' = read
    BY <1>4 DEF Listen, BootInv, Starting, TableInv, history
  <2> QED
    BY <2>1 DEF SilentInv
<1>5. CASE SetupFails
  <2>1. Len(statics') = 2 /\ pc' = "exit"
    BY <1>5 DEF SetupFails, StaticsInv
  <2>2. ~Lives'
    BY <2>1 DEF Lives, Serving
  <2> QED
    BY <2>2 DEF SilentInv
<1>6. CASE RunServer
  BY <1>6, ReadSettled, OutSettled DEF RunServer, SilentInv, Lives, Serving, Answering, HasClient, Client, flags, members, kernel, network, history
<1>7. CASE AcceptReturns
  BY <1>7, ReadSettled, OutSettled DEF AcceptReturns, SilentInv, Lives, Serving, Answering, HasClient, Client, flags, network
<1>8. CASE AcceptSleeps
  BY <1>8, ReadSettled, OutSettled DEF AcceptSleeps, SilentInv, Lives, Serving, Answering, HasClient, Client, flags, members, kernel, network, history
<1>9. CASE AcceptFails
  <2>1. AcceptError /\ Lives
    BY <1>9 DEF AcceptFails, AcceptRefused, AcceptFaults, Lives, Serving, Answering
  <2>2. \A d \in Conns : ~Answering(d)
    BY <1>9 DEF AcceptFails, AcceptRefused, AcceptFaults, Answering
  <2> QED
    BY <2>1, <2>2, AcceptErrorFacts DEF SilentInv
<1>10. ASSUME NEW c \in Conns, RecvFromBanned(c) PROVE SilentInv'
  BY <1>10, ReceiveFacts, ReadSettled, OutSettled DEF RecvFromBanned, Receives, SilentInv, Lives, Serving, Answering, HasClient, Client, flags, kernel
<1>11. ASSUME NEW c \in Conns, RecvIgnored(c) PROVE SilentInv'
  BY <1>11, ReceiveFacts, ReadSettled, OutSettled DEF RecvIgnored, Receives, SilentInv, Lives, Serving, Answering, HasClient, Client, flags, kernel
<1>12. ASSUME NEW c \in Conns, RecvMessage(c) PROVE SilentInv'
  BY <1>12, ReceiveFacts, ReadSettled, OutSettled DEF RecvMessage, Receives, SilentInv, Lives, Serving, Answering, HasClient, Client, kernel
<1>13. CASE RecvNothing
  BY <1>13, ReadSettled, OutSettled DEF RecvNothing, SilentInv, Lives, Serving, Answering, HasClient, Client, flags, members, kernel, network, history
<1>14. CASE RecvSleeps
  BY <1>14, ReadSettled, OutSettled DEF RecvSleeps, SilentInv, Lives, Serving, Answering, HasClient, Client, flags, members, kernel, network, history
<1>15. ASSUME NEW c \in Conns, Refuse(c) PROVE SilentInv'
  BY <1>15, ReadSettled, OutSettled DEF Refuse, SilentInv, Lives, Serving, Answering, HasClient, Client, flags, kernel, network
<1>16. ASSUME NEW c \in Conns, Echo(c) PROVE SilentInv'
  <2>1. /\ HasClient /\ c = Client /\ out[c] = <<>> /\ buf # <<>>
        /\ Lives /\ pc = "echo" /\ pc' = "loop"
        /\ UNCHANGED <<read, link, banned>>
    BY <1>16 DEF Echo, ServeInv, Lives, Serving, members, network
  <2>2. buf \in Seq(Tokens) /\ <<>> \o buf = buf
    BY ConcatEmptySeq DEF TypeOK
  <2>3. link[c] \in {"up", "fin"} => out'[c] = buf
    BY <1>16, <2>1, <2>2 DEF Echo, Sends, TypeOK
  <2>4. \A d \in Conns : d # c => out'[d] = out[d] /\ ~Answering(d)
    BY <1>16, <2>1 DEF Echo, Sends, TypeOK, Answering
  <2> QED
    BY <2>1, <2>3, <2>4 DEF SilentInv
<1>17. CASE SendRaisesSigpipe
  BY <1>17, ReadSettled, OutSettled DEF SendRaisesSigpipe, ProcessEnds, SilentInv, Lives, Serving, Answering, HasClient, Client, flags, members, history
<1>18. CASE Loop
  BY <1>18, ReadSettled, OutSettled DEF Loop, SilentInv, Lives, Serving, Answering, HasClient, Client, flags, members, kernel, network, history
<1>19. CASE DestroyServer
  BY <1>19, DestroyEndsLife, ReadSettled, OutSettled DEF DestroyServer, SilentInv, Lives, Serving, Answering, HasClient, Client, flags, history
<1>20. CASE DestroyOther
  BY <1>20, DestroyEndsLife, ReadSettled, OutSettled DEF DestroyOther, SilentInv, Lives, Serving, Answering, HasClient, Client, flags, members, kernel, network, history
<1>21. CASE Exit
  BY <1>21, ReadSettled, OutSettled DEF Exit, ProcessEnds, SilentInv, Lives, Serving, Answering, HasClient, Client, flags, members, history
<1>22. CASE SignalKills
  BY <1>22, ReadSettled, OutSettled DEF SignalKills, ProcessEnds, SilentInv, Lives, Serving, Answering, HasClient, Client, flags, members, history
<1>23. CASE SignalInAccept
  <2>1. AcceptError /\ Lives
    BY <1>23 DEF SignalInAccept, Lives, Serving, Answering
  <2>2. \A d \in Conns : ~Answering(d)
    BY <1>23 DEF SignalInAccept, Answering
  <2> QED
    BY <2>1, <2>2, AcceptErrorFacts DEF SilentInv
<1>24. CASE SignalInRecv
  BY <1>24, ReadSettled, OutSettled DEF SignalInRecv, SilentInv, Lives, Serving, Answering, HasClient, Client, members, kernel, network, history
<1>25. CASE SignalNoted
  BY <1>25, ReadSettled, OutSettled DEF SignalNoted, SilentInv, Lives, Serving, Answering, HasClient, Client, process, members, kernel, network, history
<1>26. ASSUME NEW c \in Conns, NEW a \in IPs, PeerConnect(c, a) PROVE SilentInv'
  <2>1. /\ UNCHANGED <<pc, statics, clientFd, fds, read, out, banned>>
        /\ read[c] = <<>>
        /\ \A d \in Conns : d # c => link'[d] = link[d]
    BY <1>26 DEF PeerConnect, TableInv, TypeOK, process, members, history
  <2>2. \A d \in Conns : Answering(d)' <=> Answering(d)
    BY <2>1 DEF Answering, HasClient, Client
  <2> QED
    BY <2>1, <2>2 DEF SilentInv, Lives
<1>27. ASSUME NEW c \in Conns, NEW m \in Payloads, PeerSend(c, m) PROVE SilentInv'
  BY <1>27, ReadSettled, OutSettled DEF PeerSend, SilentInv, Lives, Serving, Answering, HasClient, Client, process, flags, members, kernel, history
<1>28. ASSUME NEW c \in Conns, PeerFin(c) PROVE SilentInv'
  BY <1>28, ReadSettled, OutSettled DEF PeerFin, SilentInv, Lives, Serving, Answering, HasClient, Client, process, flags, members, kernel, history
<1>29. ASSUME NEW c \in Conns, PeerReset(c) PROVE SilentInv'
  BY <1>29, ReadSettled, OutSettled DEF PeerReset, SilentInv, Lives, Serving, Answering, HasClient, Client, process, flags, members, kernel, history
<1>30. CASE Gone
  BY <1>30, ReadSettled, OutSettled DEF Gone, vars, SilentInv, Lives, Serving, Answering, HasClient, Client, process, flags, members, kernel, network, history
<1>31. CASE UNCHANGED vars
  BY <1>31, ReadSettled, OutSettled DEF vars, SilentInv, Lives, Serving, Answering, HasClient, Client, process, flags, members, kernel, network, history
<1> QED
  BY <1>1, <1>2, <1>3, <1>4, <1>5, <1>6, <1>7, <1>8, <1>9, <1>10, <1>11, <1>12, <1>13, <1>14, <1>15, <1>16, <1>17, <1>18, <1>19, <1>20, <1>21, <1>22, <1>23, <1>24, <1>25, <1>26, <1>27, <1>28, <1>29, <1>30, <1>31
  DEF Next, ServerStep, Signal, PeerStep

\* No step but the end of the process frees standard input or the log file.
LEMMA OwnSlotsKept == IndInv /\ [Next]_vars => KeepsOthers
<1> SUFFICES ASSUME IndInv, [Next]_vars PROVE KeepsOthers
  OBVIOUS
<1>1. CASE Main
  BY <1>1, ConnsAssumption DEF Main, KeepsOthers, members, kernel, network, history
<1>2. CASE OpenLog
  BY <1>2, ConnsAssumption DEF OpenLog, LowestFree, IndInv, TypeOK, KeepsOthers, flags, members, network, history
<1>3. CASE LogFails
  BY <1>3, ConnsAssumption DEF LogFails, ProcessEnds, KeepsOthers, flags, members, history
<1>4. CASE Listen
  BY <1>4, ConnsAssumption DEF Listen, LowestFree, IndInv, TypeOK, KeepsOthers, flags, network, history
<1>5. CASE SetupFails
  BY <1>5, ConnsAssumption DEF SetupFails, KeepsOthers, flags, members, kernel, network, history
<1>6. CASE RunServer
  BY <1>6, ConnsAssumption DEF RunServer, KeepsOthers, flags, members, kernel, network, history
<1>7. CASE AcceptReturns
  BY <1>7, ConnsAssumption DEF AcceptReturns, LowestFree, IndInv, TypeOK, KeepsOthers, flags, network
<1>8. CASE AcceptSleeps
  BY <1>8, ConnsAssumption DEF AcceptSleeps, KeepsOthers, flags, members, kernel, network, history
<1>9. CASE AcceptFails
  <2>1. TypeOK /\ AcceptError /\ fds[serverFd] \in {"free", "listen"}
    BY <1>9 DEF AcceptFails, AcceptRefused, AcceptFaults, IndInv, SocketsInv, Lives, Serving
  <2> QED
    BY <2>1, AcceptErrorFacts DEF KeepsOthers
<1>10. ASSUME NEW c \in Conns, RecvFromBanned(c) PROVE KeepsOthers
  BY <1>10, ConnsAssumption DEF RecvFromBanned, KeepsOthers, flags, kernel
<1>11. ASSUME NEW c \in Conns, RecvIgnored(c) PROVE KeepsOthers
  BY <1>11, ConnsAssumption DEF RecvIgnored, KeepsOthers, flags, kernel
<1>12. ASSUME NEW c \in Conns, RecvMessage(c) PROVE KeepsOthers
  BY <1>12, ConnsAssumption DEF RecvMessage, KeepsOthers, kernel
<1>13. CASE RecvNothing
  BY <1>13, ConnsAssumption DEF RecvNothing, KeepsOthers, flags, members, kernel, network, history
<1>14. CASE RecvSleeps
  BY <1>14, ConnsAssumption DEF RecvSleeps, KeepsOthers, flags, members, kernel, network, history
<1>15. ASSUME NEW c \in Conns, Refuse(c) PROVE KeepsOthers
  BY <1>15, ConnsAssumption DEF Refuse, KeepsOthers, flags, kernel, network
<1>16. ASSUME NEW c \in Conns, Echo(c) PROVE KeepsOthers
  BY <1>16, ConnsAssumption DEF Echo, KeepsOthers, flags, members, kernel, network
<1>17. CASE SendRaisesSigpipe
  BY <1>17, ConnsAssumption DEF SendRaisesSigpipe, ProcessEnds, KeepsOthers, flags, members, history
<1>18. CASE Loop
  BY <1>18, ConnsAssumption DEF Loop, KeepsOthers, flags, members, kernel, network, history
<1>19. CASE DestroyServer
  <2>1. TypeOK /\ StaticsInv /\ SocketsInv /\ pc = "exit" /\ statics # <<>>
    BY <1>19 DEF DestroyServer, IndInv
  <2>2. Last(statics) = "TcpServer" /\ CloseFds({clientFd, serverFd})
    BY <1>19 DEF DestroyServer
  <2>3. Alive
    <3>1. Len(statics) \in DOMAIN statics
      BY <2>1, EmptySeq DEF TypeOK
    <3> QED
      BY <2>1, <2>2, <3>1 DEF Alive, Last, ToSet
  <2>4. /\ clientFd = -1 \/ HasClient
        /\ fds[serverFd] \in {"free", "listen"}
    BY <2>1, <2>3, AliveLives DEF SocketsInv
  <2>5. \A n \in Fd : n \in {clientFd, serverFd} => fds[n] \notin {"std", "log"}
    BY <2>4, ConnsAssumption DEF HasClient, Fd
  <2> QED
    BY <2>1, <2>2, <2>5, CloseFdsFacts DEF KeepsOthers
<1>20. CASE DestroyOther
  BY <1>20, ConnsAssumption DEF DestroyOther, KeepsOthers, flags, members, kernel, network, history
<1>21. CASE Exit
  BY <1>21, ConnsAssumption DEF Exit, ProcessEnds, KeepsOthers, flags, members, history
<1>22. CASE SignalKills
  BY <1>22, ConnsAssumption DEF SignalKills, ProcessEnds, KeepsOthers, flags, members, history
<1>23. CASE SignalInAccept
  <2>1. TypeOK /\ AcceptError /\ fds[serverFd] \in {"free", "listen"}
    BY <1>23 DEF SignalInAccept, IndInv, SocketsInv, Lives, Serving
  <2> QED
    BY <2>1, AcceptErrorFacts DEF KeepsOthers
<1>24. CASE SignalInRecv
  BY <1>24, ConnsAssumption DEF SignalInRecv, KeepsOthers, members, kernel, network, history
<1>25. CASE SignalNoted
  BY <1>25, ConnsAssumption DEF SignalNoted, KeepsOthers, process, members, kernel, network, history
<1>26. ASSUME NEW c \in Conns, NEW a \in IPs, PeerConnect(c, a) PROVE KeepsOthers
  BY <1>26, ConnsAssumption DEF PeerConnect, KeepsOthers, process, flags, members, history
<1>27. ASSUME NEW c \in Conns, NEW m \in Payloads, PeerSend(c, m) PROVE KeepsOthers
  BY <1>27, ConnsAssumption DEF PeerSend, KeepsOthers, process, flags, members, kernel, history
<1>28. ASSUME NEW c \in Conns, PeerFin(c) PROVE KeepsOthers
  BY <1>28, ConnsAssumption DEF PeerFin, KeepsOthers, process, flags, members, kernel, history
<1>29. ASSUME NEW c \in Conns, PeerReset(c) PROVE KeepsOthers
  BY <1>29, ConnsAssumption DEF PeerReset, KeepsOthers, process, flags, members, kernel, history
<1>30. CASE Gone
  BY <1>30, ConnsAssumption DEF Gone, vars, KeepsOthers, process, flags, members, kernel, network, history
<1>31. CASE UNCHANGED vars
  BY <1>31, ConnsAssumption DEF vars, KeepsOthers, process, flags, members, kernel, network, history
<1> QED
  BY <1>1, <1>2, <1>3, <1>4, <1>5, <1>6, <1>7, <1>8, <1>9, <1>10, <1>11, <1>12, <1>13, <1>14, <1>15, <1>16, <1>17, <1>18, <1>19, <1>20, <1>21, <1>22, <1>23, <1>24, <1>25, <1>26, <1>27, <1>28, <1>29, <1>30, <1>31
  DEF Next, ServerStep, Signal, PeerStep

-----------------------------------------------------------------------------
(* The theorems.                                                           *)

\* The initial state satisfies the inductive invariant.
LEMMA InitInd == Init => IndInv
<1> SUFFICES ASSUME Init PROVE IndInv
  OBVIOUS
<1>1. TypeOK
  BY InitType
<1>2. statics = <<>> /\ Len(statics) = 0
  BY DEF Init
<1>3. StaticsInv
  BY <1>2 DEF Init, StaticsInv, Serving
<1>4. BootInv
  BY DEF Init, BootInv, Serving
<1>5. TableInv
  BY ConnsAssumption DEF Init, TableInv
<1>6. ServeInv /\ SocketsInv /\ LostInv /\ SilentInv
  BY <1>2 DEF Init, ServeInv, SocketsInv, LostInv, SilentInv, Lives, Serving
<1>7. ToldInv /\ LateInv /\ ReplyIntegrity
  BY DEF Init, ToldInv, LateInv, ReplyIntegrity
<1> QED
  BY <1>1, <1>3, <1>4, <1>5, <1>6, <1>7 DEF IndInv

\* Every step keeps the inductive invariant.
LEMMA NextInd == IndInv /\ [Next]_vars => IndInv'
BY NextType, NextStatics, NextBoot, NextTable, NextServe, NextTold, NextLate,
   NextSockets, NextLost, NextReply, NextSilent
DEF IndInv

\* The inductive invariant holds in every reachable state.
THEOREM Inductive == Spec => []IndInv
BY InitInd, NextInd, PTL DEF Spec

\* Every variable stays in its type, whatever peers and SIGINT do.
THEOREM TypeCorrect == Spec => []TypeOK
BY Inductive, PTL DEF IndInv

\* ReadFromClient never mixes up connections: a reply is the echo of what was
\* read from that connection, or the ban notice for a banned address.
THEOREM ReplyCorrect == Spec => []ReplyIntegrity
BY Inductive, PTL DEF IndInv

\* Only the ban flag makes ReadFromClient return without a reply.
THEOREM SilenceExplained == Spec => []OnlyBanSilences
<1>1. IndInv => OnlyBanSilences
  BY AliveLives DEF IndInv, OnlyBanSilences, SilentInv
<1> QED
  BY <1>1, Inductive, PTL

\* The server leaves its loop with success only on SIGINT or on a SHUTDOWN it
\* read from the administrator's address.
THEOREM StopIsTold == Spec => []StopsOnlyWhenTold
<1>1. IndInv => StopsOnlyWhenTold
  BY DEF IndInv, ToldInv, Told, StopsOnlyWhenTold
<1> QED
  BY <1>1, Inductive, PTL

\* After SIGINT at most one more connection is accepted.
THEOREM LateAcceptBound == Spec => []AtMostOneLateAccept
<1>1. IndInv => AtMostOneLateAccept
  BY DEF IndInv, LateInv, AtMostOneLateAccept
<1> QED
  BY <1>1, Inductive, PTL

\* The listening socket never has the number that RunServer takes for "none".
THEOREM ListenerIsNotZero == Spec => []ServerFdNotZero
<1>1. IndInv => ServerFdNotZero
  BY ZeroIsFd DEF IndInv, BootInv, ServerFdNotZero
<1> QED
  BY <1>1, Inductive, PTL

\* The destructor of TcpServer finds the Logger it uses still alive.
THEOREM LoggerIsThere == Spec => []LoggerOutlivesServer
<1>1. ASSUME TypeOK, StaticsInv PROVE LoggerOutlivesServer
  <2>1. Len(statics) \in Nat /\ DOMAIN statics = 1 .. Len(statics)
    BY <1>1 DEF TypeOK
  <2>2. ASSUME NEW i \in DOMAIN statics, statics[i] = "TcpServer"
        PROVE  i = 3 /\ statics[2] = "Logger"
    <3>1. i \in Nat /\ 1 <= i /\ i <= Len(statics) /\ Len(statics) <= 3
      BY <2>1, <2>2, <1>1 DEF StaticsInv
    <3>2. i = 1 \/ i = 2 \/ i = 3
      BY <3>1
    <3>3. i # 1 /\ i # 2
      BY <3>1, <2>1, <2>2, <1>1 DEF StaticsInv
    <3> QED
      BY <3>1, <3>2, <3>3, <2>1, <1>1 DEF StaticsInv
  <2> QED
    BY <2>2 DEF LoggerOutlivesServer
<1>2. IndInv => LoggerOutlivesServer
  BY <1>1 DEF IndInv
<1> QED
  BY <1>2, Inductive, PTL

\* A listener that is lost was lost by a failed accept: one that failed of
\* itself, one that SIGINT broke, or one that met a full descriptor table.
THEOREM ListenerLoss == Spec => []ListenerLossExplained
<1>1. ASSUME IndInv, Alive, ~Listening, ~quit, ~faulted PROVE
        \A m, n \in Fd : fds[m] = "free" /\ fds[n] = "free" => m = n
  <2>1. Lives /\ serverFd \in Fd /\ fds[serverFd] # "listen"
    BY <1>1, AliveLives DEF IndInv, Listening, TypeOK
  <2> QED
    BY <1>1, <2>1 DEF IndInv, LostInv
<1>2. IndInv => ListenerLossExplained
  BY <1>1 DEF ListenerLossExplained
<1> QED
  BY <1>2, Inductive, PTL

\* No later call of RunServer comes back to a connection.
THEOREM OneExchange == Spec => OneExchangePerConnection
<1>1. IndInv /\ [Next]_vars =>
        [\A c \in Conns :
            /\ read[c] # <<>> => read'[c] = read[c]
            /\ out[c] # <<>> => out'[c] = out[c]]_vars
  BY ReadSettled, OutSettled DEF IndInv
<1> QED
  BY <1>1, Inductive, PTL DEF Spec, OneExchangePerConnection

\* Every close() of the server hits a socket of its own.
THEOREM ClosesOwn == Spec => ClosesOnlySockets
<1>1. IndInv /\ [Next]_vars =>
        [pc' = "dead" \/ \A n \in Fd : fds[n] \in {"std", "log"} => fds'[n] = fds[n]]_vars
  BY OwnSlotsKept DEF KeepsOthers
<1> QED
  BY <1>1, Inductive, PTL DEF Spec, ClosesOnlySockets

-----------------------------------------------------------------------------
(* What the replies promise.  The invariant, and which steps could disturb  *)
(* it.                                                                      *)

\* A SHUTDOWN of the administrator that is echoed, or will be, has been obeyed.
AnsweredInv ==
    \A c \in Conns :
        ip[c] = AdminIp /\ Says(read[c], Shutdown) /\ (out[c] # <<>> \/ Answering(c))
            => ~running

\* What the steps outside ReadFromClient's message handling leave alone.
Quiet ==
    /\ UNCHANGED <<read, out>>
    /\ running' = running \/ \A c \in Conns : read[c] = <<>>
    /\ \A c \in Conns : read[c] # <<>> => ip'[c] = ip[c]
    /\ \A c \in Conns : read[c] # <<>> /\ link'[c] \in {"up", "fin"} => link[c] \in {"up", "fin"}
    /\ \A c \in Conns : Answering(c)' => Answering(c)
    /\ \A c \in Conns : Answering(c) => Answering(c)' \/ link'[c] \notin {"up", "fin"}

\* Neither control nor the descriptors say that a reply is owed.
LEMMA NothingOwed ==
  ASSUME pc \notin {"refuse", "echo"}, pc' \notin {"refuse", "echo"}
  PROVE  \A c \in Conns : ~Answering(c) /\ ~Answering(c)'
BY DEF Answering

\* All but five of the actions are quiet.
LEMMA QuietSteps == IndInv /\ [Next]_vars =>
    Quiet \/ \E c \in Conns : RecvFromBanned(c) \/ RecvIgnored(c) \/ RecvMessage(c)
                                \/ Refuse(c) \/ Echo(c)
<1> SUFFICES ASSUME IndInv, [Next]_vars
             PROVE  Quiet \/ \E c \in Conns : \/ RecvFromBanned(c) \/ RecvIgnored(c)
                                              \/ RecvMessage(c) \/ Refuse(c) \/ Echo(c)
  OBVIOUS
<1>0. TypeOK /\ TableInv /\ ServeInv /\ BootInv
  BY DEF IndInv
<1>1. \A c \in Conns : read[c] # <<>> => ip'[c] = ip[c]
  BY <1>0, ReadSettled
<1>2. CASE Main
  <2>1. \A c \in Conns : read[c] = <<>>
    BY <1>0, <1>2 DEF Main, BootInv, TableInv, Starting
  <2> QED
    BY <1>2, <2>1, NothingOwed DEF Main, Quiet, history
<1>3. CASE OpenLog \/ Listen \/ SetupFails \/ RunServer \/ AcceptReturns \/ AcceptSleeps
  BY <1>1, <1>3, NothingOwed
  DEF OpenLog, Listen, SetupFails, RunServer, AcceptReturns, AcceptSleeps, Quiet,
      flags, network, history
<1>4. CASE LogFails \/ Exit \/ SignalKills \/ DestroyServer \/ AcceptFails \/ SignalInAccept
  <2>1. /\ \E F : CloseFds(F)
        /\ pc \notin {"refuse", "echo"} /\ pc' \notin {"refuse", "echo"}
        /\ UNCHANGED <<running, read, out>>
    BY <1>4 DEF LogFails, Exit, SignalKills, DestroyServer, AcceptFails, AcceptRefused, AcceptFaults, SignalInAccept,
                AcceptError, ProcessEnds, flags, history
  <2>2. \A c \in Conns : link'[c] = link[c] \/ link'[c] = "gone"
    BY <1>0, <2>1, CloseFdsFacts
  <2> QED
    BY <1>1, <2>1, <2>2, NothingOwed DEF Quiet
<1>5. CASE RecvNothing \/ RecvSleeps \/ Loop \/ DestroyOther \/ SignalInRecv
  BY <1>1, <1>5, NothingOwed
  DEF RecvNothing, RecvSleeps, Loop, DestroyOther, SignalInRecv, Quiet, flags, network, history
<1>6. CASE SendRaisesSigpipe
  <2>1. /\ CloseFds(Fd) /\ pc' = "dead" /\ link[Client] = "finrst"
        /\ UNCHANGED <<running, read, out>>
    BY <1>6 DEF SendRaisesSigpipe, ProcessEnds, flags, history
  <2>2. \A c \in Conns : link'[c] = link[c] \/ link'[c] = "gone"
    BY <1>0, <2>1, CloseFdsFacts
  <2> QED
    BY <1>1, <2>1, <2>2 DEF Quiet, Answering
<1>7. CASE SignalNoted \/ Gone \/ UNCHANGED vars
  BY <1>1, <1>7
  DEF SignalNoted, Gone, vars, process, flags, members, kernel, network, history, Quiet,
      Answering, HasClient, Client
<1>8. ASSUME NEW c \in Conns, NEW a \in IPs, PeerConnect(c, a) PROVE Quiet
  <2>1. /\ UNCHANGED <<pc, running, clientFd, fds, read, out>>
        /\ read[c] = <<>> /\ \A d \in Conns : d # c => link'[d] = link[d]
    BY <1>0, <1>8 DEF PeerConnect, TableInv, TypeOK, process, flags, members, history
  <2> QED
    BY <1>1, <2>1 DEF Quiet, Answering, HasClient, Client
<1>9. ASSUME NEW c \in Conns, NEW m \in Payloads, PeerSend(c, m) PROVE Quiet
  BY <1>1, <1>9
  DEF PeerSend, Quiet, Answering, HasClient, Client, process, flags, members, kernel, history
<1>10. ASSUME NEW c \in Conns, PeerFin(c) \/ PeerReset(c) PROVE Quiet
  <2>1. /\ UNCHANGED <<pc, running, clientFd, fds, read, out>>
        /\ \A d \in Conns : link'[d] \in {"up", "fin"} => link[d] \in {"up", "fin"}
    BY <1>0, <1>10
    DEF PeerFin, PeerReset, TypeOK, process, flags, members, kernel, history
  <2> QED
    BY <1>1, <2>1 DEF Quiet, Answering, HasClient, Client
<1> QED
  BY <1>2, <1>3, <1>4, <1>5, <1>6, <1>7, <1>8, <1>9, <1>10
  DEF Next, ServerStep, Signal, PeerStep

\* A message that has just been read, and the connections it does not concern.
LEMMA JustRead ==
  ASSUME IndInv, NEW c \in Conns, Receives(c),
         UNCHANGED <<clientFd, fds, link, ip, out>>
  PROVE  /\ out[c] = <<>> /\ ip[c] \in IPs /\ GetClientIp = ip[c]
         /\ read'[c] \in Seq(Tokens) /\ buf' = read'[c]
         /\ \A d \in Conns : d # c => read'[d] = read[d] /\ ~Answering(d) /\ ~Answering(d)'
         /\ Answering(c)' <=> pc' \in {"refuse", "echo"}
<1>1. TypeOK /\ ServeInv /\ TableInv
  BY DEF IndInv
<1>2. /\ HasClient /\ c = Client /\ clientAddr = ip[c]
      /\ read[c] = <<>> /\ out[c] = <<>>
      /\ buf' \in Seq(Tokens) /\ buf' = read'[c]
      /\ \A d \in Conns : d # c => read'[d] = read[d]
  BY <1>1, ReceiveFacts
<1>3. HasClient' /\ Client' = c
  BY <1>2 DEF HasClient, Client
<1>4. ip[c] \in IPs /\ GetClientIp = ip[c]
  BY <1>1, <1>2, ServedAddress
<1> QED
  BY <1>2, <1>3, <1>4 DEF Answering, Receives

\* A reply that has just been sent, and the connections it does not concern.
LEMMA JustSent ==
  ASSUME IndInv, NEW c \in Conns, HasClient, c = Client, NEW m \in Seq(Tokens),
         pc \in {"refuse", "echo"}, pc' = "loop", Sends(c, m), UNCHANGED <<link, read, ip>>
  PROVE  /\ Answering(c)
         /\ \A d \in Conns : d # c => out'[d] = out[d] /\ ~Answering(d)
         /\ \A d \in Conns : ~Answering(d)'
         /\ link[c] \in {"up", "fin"} => out'[c] = m
<1>1. TypeOK /\ out[c] = <<>>
  BY DEF IndInv, ServeInv
<1>2. <<>> \o m = m
  BY ConcatEmptySeq
<1> QED
  BY <1>1, <1>2 DEF Answering, Sends, TypeOK

-----------------------------------------------------------------------------
(* Each step keeps the two invariants.                                     *)

\* Every step keeps the notice of the banned.
LEMMA NextBanned == ExtraLogs /\ IndInv /\ BannedAreTold /\ [Next]_vars => BannedAreTold'
<1> SUFFICES ASSUME ExtraLogs, IndInv, BannedAreTold, [Next]_vars PROVE BannedAreTold'
  OBVIOUS
<1>1. CASE Quiet
  BY <1>1 DEF Quiet, BannedAreTold
<1>2. ASSUME NEW c \in Conns, RecvFromBanned(c) PROVE BannedAreTold'
  <2>1. pc' = "refuse" /\ Receives(c) /\ UNCHANGED <<clientFd, fds, link, ip, out>>
    BY <1>2 DEF RecvFromBanned, kernel
  <2> QED
    BY <2>1, JustRead DEF BannedAreTold
<1>3. ASSUME NEW c \in Conns, RecvIgnored(c) \/ RecvMessage(c) PROVE BannedAreTold'
  <2>1. /\ Receives(c) /\ UNCHANGED <<clientFd, fds, link, ip, out>>
        /\ GetClientIp \notin BannedIps
    BY <1>3 DEF RecvIgnored, RecvMessage, kernel
  <2> QED
    BY <2>1, JustRead DEF BannedAreTold
<1>4. ASSUME NEW c \in Conns, Refuse(c) PROVE BannedAreTold'
  <2>1. /\ HasClient /\ c = Client /\ BannedMessage \in Seq(Tokens)
        /\ pc \in {"refuse", "echo"} /\ pc' = "loop" /\ Sends(c, BannedMessage)
        /\ UNCHANGED <<link, read, ip>>
    BY <1>4 DEF Refuse, BannedMessage, Tokens, network
  <2> QED
    BY <2>1, JustSent DEF BannedAreTold
<1>5. ASSUME NEW c \in Conns, Echo(c) PROVE BannedAreTold'
  <2>1. /\ HasClient /\ c = Client /\ buf \in Seq(Tokens)
        /\ pc \in {"refuse", "echo"} /\ pc' = "loop" /\ Sends(c, buf)
        /\ UNCHANGED <<link, read, ip>>
    BY <1>5 DEF Echo, IndInv, TypeOK, network
  <2>2. ip[c] \notin BannedIps
    BY <1>5 DEF Echo, IndInv, ServeInv
  <2> QED
    BY <2>1, <2>2, JustSent DEF BannedAreTold
<1> QED
  BY <1>1, <1>2, <1>3, <1>4, <1>5, QuietSteps

\* Says and CStringIs agree on the command.
LEMMA SaysCString ==
  ASSUME NEW s \in Seq(Tokens), Says(s, Shutdown)
  PROVE  CStringIs(s, Shutdown)
<1>1. CASE s = Shutdown
  BY <1>1 DEF CStringIs, IsPrefix, Shutdown
<1>2. CASE IsPrefix(Append(Shutdown, "NUL"), s)
  <2> DEFINE w == Append(Shutdown, "NUL")
  <2>1. Shutdown \in Seq(Tokens) /\ "NUL" \in Tokens
    BY DEF Shutdown, Tokens
  <2>2. w[Len(Shutdown) + 1] = "NUL"
    BY <2>1, AppendProperties
  <2>3. w \in Seq(Tokens) /\ Len(w) = 3 /\ w[1] = "SHUT" /\ w[2] = "DOWN" /\ w[3] = "NUL"
    BY <2>1, <2>2 DEF Shutdown
  <2> HIDE DEF w
  <2>4. Len(s) >= 3 /\ SubSeq(w, 1, 3) = SubSeq(s, 1, 3)
    BY <1>2, <2>3 DEF IsPrefix, w
  <2>5. s[1] = "SHUT" /\ s[2] = "DOWN" /\ s[3] = "NUL"
    BY <2>4, <2>3
  <2> QED
    BY <2>4, <2>5 DEF CStringIs, IsPrefix, Shutdown
<1> QED
  BY <1>1, <1>2 DEF Says

\* Every step keeps what an echoed SHUTDOWN means.
LEMMA NextAnswered == IndInv /\ AnsweredInv /\ [Next]_vars => AnsweredInv'
<1> SUFFICES ASSUME IndInv, AnsweredInv, [Next]_vars PROVE AnsweredInv'
  OBVIOUS
<1>0. AdminIp \notin BannedIps /\ ~Says(<<>>, Shutdown)
  BY DEF AdminIp, BannedIps, Says, IsPrefix, Shutdown
<1>1. CASE Quiet
  BY <1>0, <1>1 DEF Quiet, AnsweredInv
<1>2. ASSUME NEW c \in Conns, RecvFromBanned(c) \/ RecvIgnored(c) PROVE AnsweredInv'
  <2>1. /\ Receives(c) /\ UNCHANGED <<running, clientFd, fds, link, ip, out>>
        /\ GetClientIp \in BannedIps \/ pc' = "loop"
    BY <1>2 DEF RecvFromBanned, RecvIgnored, kernel, flags
  <2> QED
    BY <1>0, <2>1, JustRead DEF AnsweredInv
<1>3. ASSUME NEW c \in Conns, RecvMessage(c) PROVE AnsweredInv'
  <2>1. /\ Receives(c) /\ UNCHANGED <<clientFd, fds, link, ip, out>>
        /\ running' = (running /\ ~(CStringIs(buf', Shutdown) /\ GetClientIp = AdminIp))
    BY <1>3 DEF RecvMessage, kernel
  <2>2. ip[c] = AdminIp /\ Says(read'[c], Shutdown) => ~running'
    BY <2>1, JustRead, SaysCString
  <2> QED
    BY <2>1, <2>2, JustRead DEF AnsweredInv
<1>4. ASSUME NEW c \in Conns, Refuse(c) PROVE AnsweredInv'
  <2>1. /\ HasClient /\ c = Client /\ BannedMessage \in Seq(Tokens)
        /\ pc \in {"refuse", "echo"} /\ pc' = "loop" /\ Sends(c, BannedMessage)
        /\ UNCHANGED <<running, link, read, ip>>
    BY <1>4 DEF Refuse, BannedMessage, Tokens, network, flags
  <2> QED
    BY <2>1, JustSent DEF AnsweredInv
<1>5. ASSUME NEW c \in Conns, Echo(c) PROVE AnsweredInv'
  <2>1. /\ HasClient /\ c = Client /\ buf \in Seq(Tokens)
        /\ pc \in {"refuse", "echo"} /\ pc' = "loop" /\ Sends(c, buf)
        /\ UNCHANGED <<running, link, read, ip>>
    BY <1>5 DEF Echo, IndInv, TypeOK, network, flags
  <2> QED
    BY <2>1, JustSent DEF AnsweredInv
<1> QED
  BY <1>1, <1>2, <1>3, <1>4, <1>5, QuietSteps

-----------------------------------------------------------------------------
(* The theorems.                                                           *)

\* In a build with EXTRA_LOGS, whoever writes from a banned address is told so,
\* however many wrote before and whatever they wrote.
THEOREM BanIsTold == ExtraLogs => (Spec => []BannedAreTold)
<1> SUFFICES ASSUME ExtraLogs PROVE Spec => []BannedAreTold
  OBVIOUS
<1>1. Init => BannedAreTold
  BY DEF Init, BannedAreTold
<1>2. IndInv /\ BannedAreTold /\ [Next]_vars => BannedAreTold'
  BY NextBanned
<1> QED
  BY <1>1, <1>2, Inductive, PTL DEF Spec

\* An echoed SHUTDOWN of the administrator has stopped the server's loop, even
\* when bytes followed its terminating NUL.
THEOREM AnsweredStops == Spec => []AnsweredShutdownStops
<1>1. Init => AnsweredInv
  BY DEF Init, AnsweredInv
<1>2. AnsweredInv => AnsweredShutdownStops
  BY DEF AnsweredInv, AnsweredShutdownStops
<1> QED
  BY <1>1, <1>2, NextAnswered, Inductive, PTL DEF Spec

-----------------------------------------------------------------------------
(* No connection is forgotten.                                             *)

\* The kernel has a place for a connection.
Held(c) == c \in ToSet(queue) \/ \E n \in Fd : fds[n] = c

\* Only a listening socket has a queue, a connection that is not over is in one
\* or has a descriptor, and a process that is gone has neither.
HeldInv ==
    /\ queue # <<>> => \E n \in Fd : fds[n] = "listen"
    /\ \A c \in Conns : link[c] \notin {"none", "gone"} => Held(c)
    /\ pc = "dead" =>
          /\ \A n \in Fd : fds[n] = "free"
          /\ \A c \in Conns : link[c] \in {"none", "gone"}

\* A connection that is open, or brought bytes, and was never read,
Unheard(c) ==
    /\ read[c] = <<>> /\ link[c] \notin {"none", "gone"}
    /\ link[c] = "up" \/ inbox[c] # <<>>

\* and a connection that the server still comes to, unless it is about to end.
Awaited(c) ==
    \/ c \in ToSet(queue) \/ Hearing(c)
    \/ pc = "exit" \/ (pc = "loop" /\ quit)

\* RunServer loses nobody whom it has not heard, whatever fails or interrupts it.
NoneUnheard == \A c \in Conns : Unheard(c) => Awaited(c)

\* Who is in line when its first leaves and when another joins.
LEMMA LineFacts ==
  ASSUME NEW S, NEW q \in Seq(S)
  PROVE  /\ q # <<>> => \A x \in ToSet(q) : x = Head(q) \/ x \in ToSet(Tail(q))
         /\ \A y \in S : \A x : x \in ToSet(q) \/ x = y => x \in ToSet(Append(q, y))
<1>1. Len(q) \in Nat
  OBVIOUS
<1>2. ASSUME q # <<>>, NEW x \in ToSet(q), x # Head(q) PROVE x \in ToSet(Tail(q))
  <2>1. PICK k \in 1 .. Len(q) : q[k] = x
    BY DEF ToSet
  <2>2. k # 1
    BY <1>2, <2>1
  <2>3. /\ Len(Tail(q)) = Len(q) - 1 /\ k - 1 \in 1 .. Len(q) - 1
        /\ Tail(q)[k - 1] = q[k]
    BY <1>1, <1>2, <2>1, <2>2
  <2>4. DOMAIN Tail(q) = 1 .. Len(q) - 1
    BY <1>1, <1>2
  <2> QED
    BY <2>1, <2>3, <2>4 DEF ToSet
<1>3. ASSUME NEW y \in S, NEW x, x \in ToSet(q) \/ x = y PROVE x \in ToSet(Append(q, y))
  <2>1. /\ DOMAIN Append(q, y) = 1 .. Len(q) + 1
        /\ Append(q, y)[Len(q) + 1] = y
        /\ \A k \in 1 .. Len(q) : Append(q, y)[k] = q[k]
    BY <1>1, AppendProperties
  <2>2. CASE x = y
    <3>1. Len(q) + 1 \in 1 .. Len(q) + 1
      BY <1>1
    <3> QED
      BY <2>1, <2>2, <3>1 DEF ToSet
  <2>3. CASE x \in ToSet(q)
    <3>1. PICK k \in 1 .. Len(q) : q[k] = x
      BY <2>3 DEF ToSet
    <3>2. k \in 1 .. Len(q) + 1
      BY <1>1
    <3> QED
      BY <2>1, <3>1, <3>2 DEF ToSet
  <2> QED
    BY <1>3, <2>2, <2>3
<1> QED
  BY <1>2, <1>3

\* close() takes the place only of those whose connection it ends.
LEMMA CloseFdsHeld ==
  ASSUME TypeOK, HeldInv, NEW F, CloseFds(F)
  PROVE  /\ queue' # <<>> => \E n \in Fd : fds'[n] = "listen"
         /\ \A c \in Conns : link'[c] \notin {"none", "gone"} =>
               /\ link'[c] = link[c] /\ Held(c)'
               /\ c \in ToSet(queue) => c \in ToSet(queue')
<1> DEFINE closed == {fds[n] : n \in F \cap Fd}
           orphans == IF "listen" \in closed THEN ToSet(queue) ELSE {}
<1>1. /\ \A n \in Fd : fds'[n] = IF n \in F THEN "free" ELSE fds[n]
      /\ queue' = IF "listen" \in closed THEN <<>> ELSE queue
      /\ \A c \in Conns : link'[c] = IF c \in closed \cup orphans THEN "gone" ELSE link[c]
  BY DEF CloseFds
<1>2. \A n \in Fd : fds[n] \notin closed => n \notin F
  OBVIOUS
<1>3. "listen" \in closed => queue' = <<>> /\ orphans = ToSet(queue)
  BY <1>1
<1>4. "listen" \notin closed => queue' = queue
  BY <1>1
<1> HIDE DEF closed, orphans
<1>5. ASSUME queue' # <<>> PROVE \E n \in Fd : fds'[n] = "listen"
  <2>1. "listen" \notin closed /\ queue # <<>>
    BY <1>3, <1>4, <1>5
  <2>2. PICK n \in Fd : fds[n] = "listen"
    BY <2>1 DEF HeldInv
  <2> QED
    BY <1>1, <1>2, <2>1, <2>2
<1>6. ASSUME NEW c \in Conns, link'[c] \notin {"none", "gone"}
      PROVE  /\ link'[c] = link[c] /\ Held(c)'
             /\ c \in ToSet(queue) => c \in ToSet(queue')
  <2>1. c \notin closed /\ c \notin orphans /\ link'[c] = link[c]
    BY <1>1, <1>6
  <2>2. c \in ToSet(queue) => c \in ToSet(queue')
    BY <1>3, <1>4, <2>1
  <2>3. ASSUME NEW n \in Fd, fds[n] = c PROVE fds'[n] = c
    BY <1>1, <1>2, <2>1, <2>3
  <2>4. Held(c)
    BY <1>6, <2>1 DEF HeldInv
  <2>5. Held(c)'
    BY <2>2, <2>3, <2>4 DEF Held
  <2> QED
    BY <2>1, <2>2, <2>5
<1> QED
  BY <1>5, <1>6

\* The end of the process closes all.
LEMMA EndHeld ==
  ASSUME TypeOK, HeldInv, NEW how, ProcessEnds(how)
  PROVE  HeldInv'
<1>1. CloseFds(Fd)
  BY DEF ProcessEnds
<1>2. \A n \in Fd : fds'[n] = "free"
  BY <1>1, CloseFdsFacts
<1>3. queue' = <<>>
  BY <1>1, <1>2, CloseFdsHeld
<1>4. ASSUME NEW c \in Conns, link'[c] \notin {"none", "gone"} PROVE FALSE
  <2>1. Held(c)'
    BY <1>1, <1>4, CloseFdsHeld
  <2> QED
    BY <1>2, <1>3, <2>1, ConnsAssumption DEF Held, ToSet
<1> QED
  BY <1>1, <1>2, <1>4, CloseFdsHeld DEF HeldInv

\* What takes a free descriptor takes nobody's place.
LEMMA OpenHeld ==
  ASSUME TypeOK, HeldInv, NEW n \in Fd, fds[n] = "free", NEW x,
         fds' = [fds EXCEPT ![n] = x]
  PROVE  /\ fds'[n] = x
         /\ \A m \in Fd : fds[m] \in {"listen"} \cup Conns => fds'[m] = fds[m]
BY ConnsAssumption DEF TypeOK

\* Every step keeps it.
LEMMA NextHeld == TypeOK /\ HeldInv /\ [Next]_vars => HeldInv'
<1> SUFFICES ASSUME TypeOK, HeldInv, [Next]_vars PROVE HeldInv'
  OBVIOUS
<1>0. queue \in Seq(Conns)
  BY DEF TypeOK
<1>1. ASSUME UNCHANGED kernel, pc' = "dead" => pc = "dead",
             \A c \in Conns : link'[c] \notin {"none", "gone"} => link[c] \notin {"none", "gone"}
      PROVE  HeldInv'
  BY <1>1 DEF HeldInv, Held, kernel
<1>2. CASE \/ Main \/ SetupFails \/ RunServer \/ AcceptSleeps \/ RecvNothing \/ RecvSleeps
           \/ Loop \/ DestroyOther \/ SignalInRecv \/ SignalNoted \/ Gone \/ UNCHANGED vars
  <2>1. UNCHANGED <<kernel, link>> /\ (pc' = "dead" => pc = "dead")
    BY <1>2
    DEF Main, SetupFails, RunServer, AcceptSleeps, RecvNothing, RecvSleeps, Loop,
        DestroyOther, SignalInRecv, SignalNoted, Gone, vars, process, network
  <2> QED
    BY <1>1, <2>1
<1>3. ASSUME NEW c \in Conns, \/ RecvFromBanned(c) \/ RecvIgnored(c) \/ RecvMessage(c)
                              \/ Refuse(c) \/ Echo(c)
      PROVE  HeldInv'
  <2>1. UNCHANGED <<kernel, link>> /\ pc' # "dead"
    BY <1>3 DEF RecvFromBanned, RecvIgnored, RecvMessage, Refuse, Echo, network
  <2> QED
    BY <1>1, <2>1
<1>4. CASE LogFails \/ SendRaisesSigpipe \/ Exit \/ SignalKills
  <2>1. \E how : ProcessEnds(how)
    BY <1>4 DEF LogFails, SendRaisesSigpipe, Exit, SignalKills
  <2> QED
    BY <2>1, EndHeld
<1>5. CASE AcceptFails \/ SignalInAccept \/ DestroyServer
  <2>1. (\E F : CloseFds(F)) /\ pc' # "dead"
    BY <1>5 DEF AcceptFails, AcceptRefused, AcceptFaults, SignalInAccept, AcceptError, DestroyServer
  <2> QED
    BY <2>1, CloseFdsHeld DEF HeldInv
<1>6. CASE OpenLog \/ Listen
  <2>1. PICK n \in Fd, x \in {"log", "listen"} :
            fds[n] = "free" /\ fds' = [fds EXCEPT ![n] = x]
    BY <1>6 DEF OpenLog, Listen, LowestFree
  <2>2. UNCHANGED <<queue, link>> /\ pc' # "dead"
    BY <1>6 DEF OpenLog, Listen, network
  <2>3. \A m \in Fd : fds[m] \in {"listen"} \cup Conns => fds'[m] = fds[m]
    BY <2>1, OpenHeld
  <2> QED
    BY <2>2, <2>3 DEF HeldInv, Held
<1>7. CASE AcceptReturns
  <2>1. PICK n \in Fd : fds[n] = "free" /\ fds' = [fds EXCEPT ![n] = Head(queue)]
    BY <1>7 DEF AcceptReturns, LowestFree
  <2>2. queue # <<>> /\ queue' = Tail(queue) /\ link' = link /\ pc' # "dead"
    BY <1>7 DEF AcceptReturns, network
  <2>3. /\ fds'[n] = Head(queue)
        /\ \A m \in Fd : fds[m] \in {"listen"} \cup Conns => fds'[m] = fds[m]
    BY <2>1, OpenHeld
  <2>4. \A c \in ToSet(queue) : c = Head(queue) \/ c \in ToSet(queue')
    BY <1>0, <2>2, LineFacts
  <2>5. \A c \in Conns : Held(c) => Held(c)'
    BY <2>3, <2>4 DEF Held
  <2> QED
    BY <2>2, <2>3, <2>5 DEF HeldInv
<1>8. ASSUME NEW c \in Conns, NEW a \in IPs, PeerConnect(c, a) PROVE HeldInv'
  <2>1. /\ queue' = Append(queue, c) /\ UNCHANGED <<fds, pc>>
        /\ \A d \in Conns : d # c => link'[d] = link[d]
        /\ \E n \in Fd : fds[n] = "listen"
    BY <1>8 DEF PeerConnect, Listening, TypeOK, process
  <2>2. c \in ToSet(queue') /\ \A d \in ToSet(queue) : d \in ToSet(queue')
    BY <1>0, <2>1, LineFacts
  <2>3. pc # "dead"
    BY <2>1 DEF HeldInv
  <2> QED
    BY <2>1, <2>2, <2>3 DEF HeldInv, Held
<1>9. ASSUME NEW c \in Conns, NEW m \in Payloads, PeerSend(c, m) PROVE HeldInv'
  BY <1>1, <1>9 DEF PeerSend, process
<1>10. ASSUME NEW c \in Conns, PeerFin(c) \/ PeerReset(c) PROVE HeldInv'
  <2>1. UNCHANGED <<kernel, pc>> /\ link[c] \in {"up", "fin"}
        /\ \A d \in Conns : d # c => link'[d] = link[d]
    BY <1>10 DEF PeerFin, PeerReset, TypeOK, process
  <2> QED
    BY <1>1, <2>1
<1> QED
  BY <1>2, <1>3, <1>4, <1>5, <1>6, <1>7, <1>8, <1>9, <1>10
  DEF Next, ServerStep, Signal, PeerStep

\* Every step keeps the unheard.
LEMMA NextHeard == IndInv /\ HeldInv /\ HeldInv' /\ NoneUnheard /\ [Next]_vars => NoneUnheard'
<1> SUFFICES ASSUME IndInv, HeldInv, HeldInv', NoneUnheard, [Next]_vars PROVE NoneUnheard'
  OBVIOUS
<1>0. TypeOK /\ BootInv /\ TableInv /\ ServeInv /\ queue \in Seq(Conns)
  BY DEF IndInv, TypeOK
<1>1. ASSUME pc' = "dead" PROVE NoneUnheard'
  BY <1>1 DEF HeldInv, NoneUnheard, Unheard
<1>2. ASSUME pc' = "exit" PROVE NoneUnheard'
  BY <1>2 DEF NoneUnheard, Awaited
<1>3. ASSUME pc \in Starting, UNCHANGED link PROVE NoneUnheard'
  BY <1>0, <1>3 DEF NoneUnheard, Unheard, BootInv
<1>4. ASSUME UNCHANGED <<queue, link, inbox, read>>,
             \A c \in Conns : Unheard(c) /\ Hearing(c) => Awaited(c)',
             pc = "loop" /\ quit => pc' = "exit" \/ (pc' = "loop" /\ quit'),
             pc = "exit" => pc' \in {"exit", "dead"}
      PROVE  NoneUnheard'
  BY <1>1, <1>2, <1>4 DEF NoneUnheard, Unheard, Awaited
<1>5. CASE LogFails \/ SendRaisesSigpipe \/ Exit \/ SignalKills
  BY <1>1, <1>5 DEF LogFails, SendRaisesSigpipe, Exit, SignalKills, ProcessEnds
<1>6. CASE SetupFails \/ DestroyServer \/ DestroyOther
  BY <1>2, <1>6 DEF SetupFails, DestroyServer, DestroyOther
<1>7. CASE Main \/ OpenLog \/ Listen
  BY <1>3, <1>7 DEF Main, OpenLog, Listen, Starting, network
<1>8. CASE RunServer \/ AcceptSleeps \/ Loop
  BY <1>4, <1>8
  DEF RunServer, AcceptSleeps, Loop, Hearing, flags, kernel, network, history
<1>9. CASE AcceptReturns
  <2>0. PICK h : h = Head(queue)
    OBVIOUS
  <2>1. PICK n \in Fd : fds[n] = "free" /\ fds' = [fds EXCEPT ![n] = h] /\ clientFd' = n
    BY <1>9, <2>0 DEF AcceptReturns, LowestFree
  <2>2. /\ pc \in {"accept", "accepting"} /\ pc' = "recv"
        /\ queue # <<>> /\ queue' = Tail(queue) /\ UNCHANGED <<link, inbox, read>>
    BY <1>9 DEF AcceptReturns, network
  <2>3. fds'[n] = h /\ h \in Conns
    <3>1. h \in Conns
      BY <1>0, <2>0, <2>2
    <3> QED
      BY <1>0, <2>1, <3>1, OpenHeld
  <2>4. Hearing(h)'
    BY <2>1, <2>2, <2>3 DEF Hearing, HasClient, Client
  <2>5. \A c \in ToSet(queue) : c = h \/ c \in ToSet(queue')
    BY <1>0, <2>0, <2>2, LineFacts
  <2>6. ASSUME NEW c \in Conns, Unheard(c)' PROVE Awaited(c)'
    <3>1. c \in ToSet(queue)
      BY <2>2, <2>6 DEF NoneUnheard, Unheard, Awaited, Hearing
    <3>2. c \in ToSet(queue') \/ Hearing(c)'
      BY <2>4, <2>5, <3>1
    <3> QED
      BY <3>2 DEF Awaited
  <2> QED
    BY <2>6 DEF NoneUnheard
<1>10. CASE AcceptFails \/ SignalInAccept
  <2>1. (\E F : CloseFds(F)) /\ pc \in {"accept", "accepting"} /\ UNCHANGED <<inbox, read>>
    BY <1>10 DEF AcceptFails, AcceptRefused, AcceptFaults, SignalInAccept, AcceptError, history
  <2>2. \A c \in Conns : link'[c] \notin {"none", "gone"} =>
            link'[c] = link[c] /\ (c \in ToSet(queue) => c \in ToSet(queue'))
    BY <1>0, <2>1, CloseFdsHeld
  <2> QED
    BY <2>1, <2>2 DEF NoneUnheard, Unheard, Awaited, Hearing
<1>11. ASSUME NEW c \in Conns, RecvFromBanned(c) \/ RecvIgnored(c) \/ RecvMessage(c)
       PROVE  NoneUnheard'
  <2>1. Receives(c) /\ UNCHANGED <<queue, link>> /\ pc \in {"recv", "receiving"}
    BY <1>11 DEF RecvFromBanned, RecvIgnored, RecvMessage, Receives, kernel
  <2>2. read'[c] # <<>> /\ c = Client /\ \A d \in Conns : d # c => read'[d] = read[d]
    BY <1>0, <2>1, ReceiveFacts
  <2>3. \A d \in Conns : d # c => inbox'[d] = inbox[d]
    BY <1>0, <2>1 DEF Receives, TypeOK
  <2> QED
    BY <2>1, <2>2, <2>3 DEF NoneUnheard, Unheard, Awaited, Hearing
<1>12. CASE RecvNothing
  <2>1. /\ pc \in {"recv", "receiving"} /\ UNCHANGED <<queue, link, inbox, read>>
        /\ \A c \in Conns : Hearing(c) => ~Unheard(c)
    BY <1>12 DEF RecvNothing, Hearing, Unheard, kernel, network, history
  <2> QED
    BY <1>4, <2>1
<1>13. CASE RecvSleeps \/ SignalNoted \/ Gone \/ UNCHANGED vars
  <2>1. /\ UNCHANGED <<queue, link, inbox, read, fds, clientFd>>
        /\ quit => quit'
        /\ pc' = pc \/ (pc = "recv" /\ pc' = "receiving")
    BY <1>13
    DEF RecvSleeps, SignalNoted, Gone, vars, process, flags, members, kernel, network, history
  <2>2. \A c \in Conns : Hearing(c) => Hearing(c)'
    BY <2>1 DEF Hearing, HasClient, Client
  <2> QED
    BY <2>1, <2>2 DEF NoneUnheard, Unheard, Awaited
<1>14. ASSUME NEW c \in Conns, Refuse(c) \/ Echo(c) PROVE NoneUnheard'
  <2>1. pc \in {"refuse", "echo"} /\ UNCHANGED <<queue, link, inbox, read>>
    BY <1>14 DEF Refuse, Echo, kernel, network
  <2> QED
    BY <1>4, <2>1 DEF Hearing
<1>15. CASE SignalInRecv
  BY <1>15 DEF SignalInRecv, NoneUnheard, Awaited
<1>16. ASSUME NEW c \in Conns,
              \/ \E a \in IPs : PeerConnect(c, a)
              \/ \E m \in Payloads : PeerSend(c, m)
              \/ PeerFin(c) \/ PeerReset(c)
       PROVE  NoneUnheard'
  <2>1. UNCHANGED <<pc, quit, clientFd, fds, read>>
    BY <1>16
    DEF PeerConnect, PeerSend, PeerFin, PeerReset, process, flags, members, kernel, history
  <2>2. \A d \in Conns : d # c => link'[d] = link[d] /\ inbox'[d] = inbox[d]
    BY <1>0, <1>16 DEF PeerConnect, PeerSend, PeerFin, PeerReset, TypeOK
  <2>3. queue' = queue \/ queue' = Append(queue, c)
    BY <1>16 DEF PeerConnect, PeerSend, PeerFin, PeerReset, kernel
  <2>4. \A d \in ToSet(queue) : d \in ToSet(queue')
    BY <1>0, <2>3, LineFacts
  <2>5. \A d \in Conns : Awaited(d) => Awaited(d)'
    BY <2>1, <2>4 DEF Awaited, Hearing, HasClient, Client
  <2>6. Unheard(c)' => Unheard(c) \/ c \in ToSet(queue')
    <3>1. CASE \E a \in IPs : PeerConnect(c, a)
      <4>1. queue' = Append(queue, c)
        BY <3>1 DEF PeerConnect
      <4> QED
        BY <1>0, <4>1, LineFacts
    <3>2. CASE (\E m \in Payloads : PeerSend(c, m)) \/ PeerFin(c) \/ PeerReset(c)
      <4>1. /\ link[c] = "up" \/ (link[c] = "fin" /\ inbox' = inbox)
            /\ link'[c] \in {"up", "fin"} \/ (link'[c] \in {"rst", "finrst"} /\ inbox' = inbox)
        BY <1>0, <3>2 DEF PeerSend, PeerFin, PeerReset, TypeOK
      <4>2. link[c] = "fin" => link'[c] # "up"
        BY <1>0, <3>2 DEF PeerSend, PeerFin, PeerReset, TypeOK
      <4> QED
        BY <2>1, <4>1, <4>2 DEF Unheard
    <3> QED
      BY <1>16, <3>1, <3>2
  <2>7. \A d \in Conns : d # c => (Unheard(d)' => Unheard(d))
    BY <2>1, <2>2 DEF Unheard
  <2>8. c \in ToSet(queue') => Awaited(c)'
    BY DEF Awaited
  <2> QED
    BY <2>5, <2>6, <2>7, <2>8 DEF NoneUnheard
<1> QED
  BY <1>5, <1>6, <1>7, <1>8, <1>9, <1>10, <1>11, <1>12, <1>13, <1>14, <1>15, <1>16
  DEF Next, ServerStep, Signal, PeerStep

\* No connection is dropped that is open, or brought bytes, and was never read:
\* it is in the queue or at recv for as long as the server does not end.
THEOREM NobodyForgotten == Spec => [](HeldInv /\ NoneUnheard)
<1>1. Init => HeldInv /\ NoneUnheard
  BY DEF Init, HeldInv, NoneUnheard, Unheard
<1>2. IndInv /\ HeldInv /\ NoneUnheard /\ [Next]_vars => HeldInv' /\ NoneUnheard'
  BY NextHeld, NextHeard DEF IndInv
<1> QED
  BY <1>1, <1>2, Inductive, PTL DEF Spec
=============================================================================
