----------------------- MODULE TcpServerService_proofs -----------------------
(* That the server implements the one-at-a-time service, for every set of  *)
(* connections, table size, backlog and payload.  The proof adds to IndInv *)
(* what the mapping relies on, and shows that each step of the server is a *)
(* step of the service or leaves the service where it was.                 *)
EXTENDS TcpServerService, TcpServer_proofs

\* Only a listening socket has a queue; a connection that was accepted found it
\* listening, and it still does; a connection not made has no address.
OpenInv ==
    /\ ~Listening => queue = <<>>
    /\ pc \in {"recv", "receiving", "refuse", "echo"} /\ HasClient => Listening
    /\ \A c \in Conns : link[c] = "none" => ip[c] = NoAddress

-----------------------------------------------------------------------------
(* Sequences.                                                              *)

\* The first of a line and the rest make up the line.
LEMMA FirstAndRest ==
  ASSUME NEW S, NEW q \in Seq(S), q # <<>>
  PROVE  Head(q) \in S /\ <<Head(q)>> \o Tail(q) = q
<1>1. Head(q) \in S /\ Tail(q) \in Seq(S) /\ Len(q) > 0 /\ Len(q) \in Nat
  BY EmptySeq, HeadTailProperties
<1> QED
  BY <1>1

\* A line with one more in front: its first, its rest, and its end.
LEMMA Preceded ==
  ASSUME NEW S, NEW q \in Seq(S), NEW x \in S, NEW y \in S
  PROVE  /\ <<x>> \o q # <<>>
         /\ Head(<<x>> \o q) = x /\ Tail(<<x>> \o q) = q
         /\ Append(<<x>> \o q, y) = <<x>> \o Append(q, y)
OBVIOUS

-----------------------------------------------------------------------------
(* The listening socket and its queue.                                     *)

\* Closing server_fd ends the listening and empties the queue.
LEMMA CloseListener ==
  ASSUME TypeOK, BootInv, OpenInv, NEW F, CloseFds(F), serverFd \in F,
         serverFd' \in {serverFd, 0}
  PROVE  queue' = <<>> /\ ~Listening'
<1>1. queue' = <<>>
  <2>1. CASE Listening
    BY <2>1 DEF CloseFds, Listening
  <2>2. CASE ~Listening
    BY <2>2, CloseFdsFacts DEF OpenInv
  <2> QED
    BY <2>1, <2>2
<1>2. \A n \in Fd : fds'[n] # "listen"
  BY CloseFdsFacts DEF BootInv
<1> QED
  BY <1>1, <1>2 DEF Listening

\* The end of the process does so, too.
LEMMA EndsListening ==
  ASSUME TypeOK, BootInv, OpenInv, NEW how, ProcessEnds(how), UNCHANGED members
  PROVE  queue' = <<>> /\ ~Listening' /\ pc' = "dead"
BY CloseListener DEF ProcessEnds, members, TypeOK

\* The members and the kernel's tables are what OpenInv is about.
LEMMA SameOpen ==
  ASSUME TypeOK, OpenInv, UNCHANGED <<serverFd, clientFd, fds, queue, ip>>,
         \A c \in Conns : link'[c] = "none" => link[c] = "none",
         pc' \in {"recv", "receiving", "refuse", "echo"} =>
             pc \in {"recv", "receiving", "refuse", "echo"}
  PROVE  OpenInv'
BY DEF OpenInv, Listening, HasClient

\* A connection is made by a peer only: its link and its address.
LEMMA NotMade ==
  ASSUME TypeOK, TableInv, NEW F, CloseFds(F)
  PROVE  \A c \in Conns : link'[c] = "none" <=> link[c] = "none"
BY CloseFdsFacts

\* Every step keeps OpenInv.
LEMMA NextOpen == IndInv /\ OpenInv /\ [Next]_vars => OpenInv'
<1> SUFFICES ASSUME IndInv, OpenInv, [Next]_vars PROVE OpenInv'
  OBVIOUS
<1>0. TypeOK /\ BootInv /\ TableInv
  BY DEF IndInv
<1>1. CASE Main \/ SetupFails \/ RunServer \/ AcceptSleeps
  BY <1>0, <1>1, SameOpen
  DEF Main, SetupFails, RunServer, AcceptSleeps, members, kernel, network
<1>2. CASE OpenLog
  <2>1. ~Listening /\ ~Listening'
    BY <1>0, <1>2 DEF OpenLog, BootInv, Listening, members, TypeOK
  <2> QED
    BY <1>2, <2>1 DEF OpenLog, OpenInv, network
<1>3. CASE LogFails \/ SendRaisesSigpipe \/ Exit \/ SignalKills
  <2>1. \E how : ProcessEnds(how) /\ UNCHANGED <<members, ip>>
    BY <1>3 DEF LogFails, SendRaisesSigpipe, Exit, SignalKills
  <2>2. PICK how : ProcessEnds(how) /\ UNCHANGED <<members, ip>>
    BY <2>1
  <2>3. queue' = <<>> /\ pc' = "dead" /\ UNCHANGED ip /\ CloseFds(Fd)
    BY <1>0, <2>2, EndsListening DEF ProcessEnds
  <2> QED
    BY <1>0, <2>3, NotMade DEF OpenInv
<1>4. CASE Listen
  <2>1. queue' = <<>> /\ pc' = "run"
    BY <1>0, <1>4 DEF Listen, BootInv, Starting
  <2> QED
    BY <1>4, <2>1 DEF Listen, OpenInv, network
<1>5. CASE AcceptReturns
  <2>1. Listening'
    BY <1>0, <1>5 DEF AcceptReturns, LowestFree, Listening, TypeOK
  <2> QED
    BY <1>5, <2>1 DEF AcceptReturns, OpenInv, network
<1>6. CASE AcceptFails \/ SignalInAccept
  <2>1. AcceptError
    BY <1>6 DEF AcceptFails, AcceptRefused, AcceptFaults, SignalInAccept
  <2>2. queue' = <<>> /\ ~HasClient'
    BY <1>0, <2>1, CloseListener DEF AcceptError, HasClient, Fd
  <2> QED
    BY <1>0, <2>1, <2>2, NotMade DEF AcceptError, OpenInv
<1>7. ASSUME NEW c \in Conns, RecvFromBanned(c) \/ RecvIgnored(c) \/ RecvMessage(c)
      PROVE OpenInv'
  BY <1>0, <1>7, SameOpen DEF RecvFromBanned, RecvIgnored, RecvMessage, Receives, kernel
<1>8. CASE RecvNothing \/ RecvSleeps
  BY <1>0, <1>8, SameOpen DEF RecvNothing, RecvSleeps, members, kernel, network
<1>9. ASSUME NEW c \in Conns, Refuse(c) \/ Echo(c) PROVE OpenInv'
  BY <1>0, <1>9, SameOpen DEF Refuse, Echo, members, kernel, network
<1>10. CASE Loop \/ DestroyOther \/ SignalInRecv \/ SignalNoted
  BY <1>0, <1>10, SameOpen
  DEF Loop, DestroyOther, SignalInRecv, SignalNoted, process, members, kernel, network
<1>11. CASE DestroyServer
  <2>1. queue' = <<>> /\ pc' = "exit"
    BY <1>0, <1>11, CloseListener DEF DestroyServer
  <2> QED
    BY <1>0, <1>11, <2>1, NotMade DEF DestroyServer, OpenInv
<1>12. ASSUME NEW c \in Conns, NEW a \in IPs, PeerConnect(c, a) PROVE OpenInv'
  BY <1>0, <1>12
  DEF PeerConnect, OpenInv, Listening, HasClient, TypeOK, process, members
<1>13. ASSUME NEW c \in Conns, NEW m \in Payloads, PeerSend(c, m) PROVE OpenInv'
  BY <1>0, <1>13, SameOpen
  DEF PeerSend, process, members, kernel
<1>14. ASSUME NEW c \in Conns, PeerFin(c) \/ PeerReset(c) PROVE OpenInv'
  BY <1>0, <1>14, SameOpen DEF PeerFin, PeerReset, TypeOK, process, members, kernel
<1>15. CASE Gone \/ UNCHANGED vars
  BY <1>0, <1>15, SameOpen DEF Gone, vars, process, members, kernel, network
<1> QED
  BY <1>1, <1>2, <1>3, <1>4, <1>5, <1>6, <1>7, <1>8, <1>9, <1>10, <1>11, <1>12,
     <1>13, <1>14, <1>15
  DEF Next, ServerStep, Signal, PeerStep

-----------------------------------------------------------------------------
(* The mapping: initial states, and one step.                              *)

ServiceStep == [Service!Next]_(Service!vars)

\* The service sees neither what moves the server within one of its stages nor
\* what peers send.
LEMMA Unseen ==
  ASSUME UNCHANGED <<serverFd, clientFd, banned, fds, queue, ip, read, out>>,
         \A c \in Conns : link'[c] = "none" <=> link[c] = "none",
         pc' \in Starting <=> pc \in Starting,
         pc' \in {"recv", "receiving"} <=> pc \in {"recv", "receiving"},
         pc' \in {"refuse", "echo"} <=> pc \in {"refuse", "echo"}
  PROVE  ServiceStep
<1>1. Stage' = Stage /\ Line' = Line /\ Busy' = Busy /\ Muted' = Muted
  BY DEF Stage, Line, Busy, Muted, Listening, HasClient, Client, Starting
<1>2. Known' = Known /\ Barred' = Barred
  BY DEF Known, Barred
<1> QED
  BY <1>1, <1>2 DEF ServiceStep, Service!vars

\* The server maps to the service's initial state.
LEMMA InitService == Init => Service!Init
<1> SUFFICES ASSUME Init PROVE Service!Init
  OBVIOUS
<1>1. ~Listening
  BY DEF Init, Listening
<1>2. Stage = "starting" /\ Line = <<>> /\ Busy = "nobody" /\ Muted = FALSE
  BY <1>1 DEF Init, Stage, Line, Busy, Muted
<1>3. Known = {} /\ Barred = {}
  BY DEF Init, Known, Barred, BannedIps, NoAddress
<1> QED
  BY <1>2, <1>3 DEF Init, Service!Init

\* When the listening socket is gone the service is closed, and it closes only
\* once.
LEMMA Closing ==
  ASSUME IndInv, OpenInv, NEW F, CloseFds(F), UNCHANGED <<ip, read, out>>,
         queue' = <<>>, ~Listening', pc' \in {"recv", "exit", "dead"},
         pc' = "recv" => ~HasClient'
  PROVE  ServiceStep
<1>1. Stage' = "closed" /\ Line' = <<>> /\ Busy' = "nobody" /\ Muted' = FALSE
  BY DEF Stage, Line, Busy, Muted
<1>2. Known' = Known /\ Barred' = Barred
  BY NotMade DEF Known, Barred, IndInv
<1>3. CASE Stage # "closed"
  BY <1>1, <1>2, <1>3 DEF ServiceStep, Service!Next, Service!Close
<1>4. CASE Stage = "closed"
  <2>1. ~Listening
    BY <1>4 DEF Stage
  <2>2. Line = <<>> /\ Busy = "nobody" /\ Muted = FALSE
    BY <2>1 DEF OpenInv, Line, Busy, Muted
  <2> QED
    BY <1>1, <1>2, <1>4, <2>2 DEF ServiceStep, Service!vars
<1> QED
  BY <1>3, <1>4

\* A message is taken from the first in line, which leaves the line.
LEMMA HeardFacts ==
  ASSUME IndInv, NEW c \in Conns, Receives(c), UNCHANGED <<kernel, link, ip, out, serverFd, clientFd>>,
         pc' \in {"refuse", "echo", "loop"}
  PROVE  /\ Service!Heard(c)
         /\ c \in Barred <=> GetClientIp \in BannedIps
         /\ Busy' = IF pc' = "loop" THEN "nobody" ELSE c
<1>1. TypeOK /\ ServeInv /\ TableInv
  BY DEF IndInv
<1>2. /\ HasClient /\ c = Client /\ clientAddr = ip[c]
      /\ read'[c] # <<>> /\ \A d \in Conns : d # c => read'[d] = read[d]
  BY <1>1, ReceiveFacts
<1>3. pc \in {"recv", "receiving"} /\ Line = <<c>> \o queue /\ Busy = "nobody"
  BY <1>2 DEF Receives, Line, Busy
<1>4. Line # <<>> /\ c = Head(Line) /\ queue = Tail(Line)
  <2>1. queue \in Seq(Conns)
    BY <1>1 DEF TypeOK
  <2>2. <<c>> \o queue # <<>> /\ Head(<<c>> \o queue) = c /\ Tail(<<c>> \o queue) = queue
    BY <2>1, Preceded
  <2> QED
    BY <1>3, <2>2
<1>5. HasClient' /\ Client' = c
  BY <1>2 DEF HasClient, Client, kernel
<1>6. Line' = queue /\ Busy' = IF pc' = "loop" THEN "nobody" ELSE c
  BY <1>5 DEF Line, Busy, kernel
<1>7. read' = [read EXCEPT ![c] = read'[c]]
  BY <1>1, <1>2 DEF Receives, TypeOK
<1>8. Stage' = Stage /\ Known' = Known /\ Barred' = Barred
  <2>1. pc \notin {"start", "logger", "socket"} /\ pc' \notin {"start", "logger", "socket"}
    BY <1>3
  <2> QED
    BY <2>1 DEF Stage, Known, Barred, Listening, kernel
<1>9. c \in Barred <=> GetClientIp \in BannedIps
  BY <1>1, <1>2, ServedAddress DEF Barred
<1> QED
  BY <1>2, <1>3, <1>4, <1>6, <1>7, <1>8, <1>9 DEF Service!Heard

\* One reply, or one that a reset has made fail.
LEMMA Replying ==
  ASSUME IndInv, NEW c \in Conns, HasClient, c = Client, pc \in {"refuse", "echo"},
         Sends(c, IF pc = "refuse" THEN BannedMessage ELSE buf)
  PROVE  /\ Busy = c
         /\ c \in Barred <=> pc = "refuse"
         /\ out' \in {out, [out EXCEPT ![c] = IF c \in Barred THEN BannedMessage ELSE read[c]]}
<1>1. TypeOK /\ ServeInv
  BY DEF IndInv
<1>2. out[c] = <<>> /\ buf = read[c] /\ (pc = "refuse" <=> ip[c] \in BannedIps)
  BY <1>1 DEF ServeInv
<1>3. <<>> \o BannedMessage = BannedMessage /\ <<>> \o buf = buf
  BY <1>1, ConcatEmptySeq DEF TypeOK, BannedMessage, Tokens
<1> QED
  BY <1>1, <1>2, <1>3 DEF Busy, Barred, Sends, TypeOK

\* Every step of the server is a step of the service or is not seen by it.
LEMMA NextService == IndInv /\ OpenInv /\ [Next]_vars => ServiceStep
<1> SUFFICES ASSUME IndInv, OpenInv, [Next]_vars PROVE ServiceStep
  OBVIOUS
<1>0. TypeOK /\ BootInv /\ TableInv /\ ServeInv
  BY DEF IndInv
<1>1. CASE Main \/ RunServer \/ AcceptSleeps
  BY <1>1, Unseen
  DEF Main, RunServer, AcceptSleeps, members, kernel, network, history, Starting
<1>2. CASE OpenLog
  <2>1. ~Listening /\ ~Listening'
    BY <1>0, <1>2 DEF OpenLog, BootInv, Listening, members, TypeOK
  <2>2. Stage' = Stage /\ Line' = Line /\ Busy' = Busy /\ Muted' = Muted
    BY <1>2, <2>1 DEF OpenLog, Stage, Line, Busy, Muted
  <2>3. Known' = Known /\ Barred' = Barred
    BY <1>2 DEF OpenLog, Known, Barred, network
  <2> QED
    BY <1>2, <2>2, <2>3 DEF OpenLog, ServiceStep, Service!vars, history
<1>3. CASE LogFails \/ SendRaisesSigpipe \/ Exit \/ SignalKills
  <2>1. \E how : ProcessEnds(how) /\ UNCHANGED <<members, ip, history>>
    BY <1>3 DEF LogFails, SendRaisesSigpipe, Exit, SignalKills
  <2>2. PICK how : ProcessEnds(how) /\ UNCHANGED <<members, ip, history>>
    BY <2>1
  <2>3. queue' = <<>> /\ ~Listening' /\ pc' = "dead" /\ CloseFds(Fd)
    BY <1>0, <2>2, EndsListening DEF ProcessEnds
  <2> QED
    BY <2>2, <2>3, Closing DEF history
<1>4. CASE Listen
  <2>1. ~Listening /\ Listening' /\ queue = <<>> /\ pc \in Starting
    BY <1>0, <1>4 DEF Listen, BootInv, Starting, Listening, TypeOK, LowestFree
  <2>2. /\ Stage = "starting" /\ Stage' = "open"
        /\ Line' = Line /\ Busy' = Busy /\ Muted' = Muted
    BY <1>4, <2>1 DEF Listen, Stage, Line, Busy, Muted
  <2>3. Known' = Known /\ Barred' = Barred
    BY <1>4 DEF Listen, Known, Barred, network
  <2> QED
    BY <1>4, <2>2, <2>3 DEF Listen, ServiceStep, Service!Next, Service!Open, history
<1>5. CASE SetupFails
  <2>1. ~Listening /\ ~Listening' /\ queue = <<>>
    BY <1>0, <1>5 DEF SetupFails, BootInv, Listening, Starting, members, kernel
  <2>2. /\ Stage = "starting" /\ Stage' = "closed"
        /\ Line' = <<>> /\ Busy' = "nobody" /\ Muted' = FALSE
    BY <1>5, <2>1 DEF SetupFails, Stage, Line, Busy, Muted, kernel
  <2>3. Known' = Known /\ Barred' = Barred
    BY <1>5 DEF SetupFails, Known, Barred, network
  <2> QED
    BY <1>5, <2>2, <2>3 DEF SetupFails, ServiceStep, Service!Next, Service!Close, history
<1>6. CASE AcceptReturns
  <2>1. /\ Listening /\ Listening' /\ HasClient'
        /\ Client' = Head(queue) /\ <<Head(queue)>> \o Tail(queue) = queue
    <3>1. queue \in Seq(Conns) /\ queue # <<>>
      BY <1>0, <1>6 DEF AcceptReturns, TypeOK
    <3>2. Head(queue) \in Conns /\ <<Head(queue)>> \o Tail(queue) = queue
      BY <3>1, FirstAndRest
    <3> QED
      BY <1>0, <1>6, <3>2
      DEF AcceptReturns, LowestFree, Listening, HasClient, Client, TypeOK
  <2>2. Stage' = Stage /\ Line' = Line /\ Busy' = Busy /\ Muted' = Muted
    BY <1>6, <2>1 DEF AcceptReturns, Stage, Line, Busy, Muted
  <2>3. Known' = Known /\ Barred' = Barred
    BY <1>6 DEF AcceptReturns, Known, Barred, network
  <2> QED
    BY <1>6, <2>2, <2>3 DEF AcceptReturns, ServiceStep, Service!vars
<1>7. CASE AcceptFails \/ SignalInAccept
  <2>1. AcceptError
    BY <1>7 DEF AcceptFails, AcceptRefused, AcceptFaults, SignalInAccept
  <2>2. queue' = <<>> /\ ~Listening' /\ ~HasClient'
    BY <1>0, <2>1, CloseListener DEF AcceptError, HasClient, Fd
  <2> QED
    BY <2>1, <2>2, Closing DEF AcceptError, history
<1>8. ASSUME NEW c \in Conns, RecvFromBanned(c) PROVE ServiceStep
  <2>1. /\ Service!Heard(c) /\ c \in Barred
        /\ Busy' = IF pc' = "loop" THEN "nobody" ELSE c
    BY <1>8, HeardFacts DEF RecvFromBanned, flags, kernel
  <2>2. Busy = "nobody"
    BY <2>1 DEF Service!Heard
  <2>3. CASE ExtraLogs
    <3>1. Muted' = Muted /\ Busy' = c
      BY <1>8, <2>1, <2>3 DEF RecvFromBanned, Muted, Listening, kernel
    <3> QED
      BY <2>1, <3>1 DEF ServiceStep, Service!Next, Service!Attend
  <2>4. CASE ~ExtraLogs
    <3>1. Muted' = TRUE /\ Busy' = Busy
      BY <1>0, <1>8, <2>1, <2>2, <2>4
      DEF RecvFromBanned, Receives, OpenInv, Muted, Listening, kernel
    <3> QED
      BY <2>1, <3>1 DEF ServiceStep, Service!Next, Service!Disregard
  <2> QED
    BY <2>3, <2>4
<1>9. ASSUME NEW c \in Conns, RecvIgnored(c) PROVE ServiceStep
  <2>1. /\ Service!Heard(c)
        /\ Busy' = IF pc' = "loop" THEN "nobody" ELSE c
    BY <1>9, HeardFacts DEF RecvIgnored, flags, kernel
  <2>2. Busy = "nobody"
    BY <2>1 DEF Service!Heard
  <2>3. Muted = TRUE /\ Muted' = TRUE /\ Busy' = Busy
    BY <1>9, <2>1, <2>2 DEF RecvIgnored, Receives, OpenInv, Muted, Listening, kernel
  <2> QED
    BY <2>1, <2>3 DEF ServiceStep, Service!Next, Service!Disregard
<1>10. ASSUME NEW c \in Conns, RecvMessage(c) PROVE ServiceStep
  <2>1. /\ Service!Heard(c)
        /\ Busy' = IF pc' = "loop" THEN "nobody" ELSE c
    BY <1>10, HeardFacts DEF RecvMessage, kernel
  <2>2. ~Muted /\ Muted' = Muted /\ Busy' = c
    BY <1>10, <2>1 DEF RecvMessage, Muted, Listening, kernel
  <2> QED
    BY <2>1, <2>2 DEF ServiceStep, Service!Next, Service!Attend
<1>11. CASE RecvNothing \/ SignalInRecv
  <2>1. /\ pc \in {"recv", "receiving"} /\ pc' = "loop"
        /\ UNCHANGED <<members, kernel, network, history>>
    BY <1>11 DEF RecvNothing, SignalInRecv
  <2>2. Stage' = Stage /\ Busy' = Busy /\ Busy = "nobody" /\ Muted' = Muted
    BY <2>1 DEF Stage, Busy, Muted, Listening, members, kernel
  <2>3. Known' = Known /\ Barred' = Barred
    BY <2>1 DEF Known, Barred, network
  <2>4. CASE HasClient
    <3>1. Line = <<Client>> \o queue /\ Line' = queue
      BY <2>1, <2>4 DEF Line, kernel
    <3>2. Client \in Conns /\ queue \in Seq(Conns)
      BY <1>0, <2>4 DEF HasClient, Client, TypeOK
    <3>3. <<Client>> \o queue # <<>> /\ Tail(<<Client>> \o queue) = queue
      BY <3>2, Preceded
    <3> QED
      BY <2>1, <2>2, <2>3, <3>1, <3>3
      DEF ServiceStep, Service!Next, Service!PassOver, history
  <2>5. CASE ~HasClient
    <3>1. Line' = Line
      BY <2>1, <2>5 DEF Line, kernel
    <3> QED
      BY <2>1, <2>2, <2>3, <3>1 DEF ServiceStep, Service!vars, history
  <2> QED
    BY <2>4, <2>5
<1>12. CASE RecvSleeps
  BY <1>12, Unseen DEF RecvSleeps, members, kernel, network, history, Starting
<1>13. ASSUME NEW c \in Conns, Refuse(c) PROVE ServiceStep
  <2>1. /\ Busy = c /\ c \in Barred
        /\ out' \in {out, [out EXCEPT ![c] = BannedMessage]}
    BY <1>13, Replying DEF Refuse
  <2>2. Busy' = "nobody" /\ Muted' = TRUE
    BY <1>0, <1>13
    DEF Refuse, OpenInv, Busy, Muted, Listening, kernel
  <2>3. Stage' = Stage /\ Line' = Line /\ Known' = Known /\ Barred' = Barred
    BY <1>13 DEF Refuse, Stage, Line, Known, Barred, Listening, kernel, network
  <2> QED
    BY <1>13, <2>1, <2>2, <2>3 DEF Refuse, ServiceStep, Service!Next, Service!Reply
<1>14. ASSUME NEW c \in Conns, Echo(c) PROVE ServiceStep
  <2>1. /\ Busy = c /\ c \notin Barred
        /\ out' \in {out, [out EXCEPT ![c] = read[c]]}
    BY <1>14, Replying DEF Echo
  <2>2. Busy' = "nobody" /\ Muted' = Muted /\ Muted \in BOOLEAN
    BY <1>14 DEF Echo, Busy, Muted, Listening, members, kernel
  <2>3. Stage' = Stage /\ Line' = Line /\ Known' = Known /\ Barred' = Barred
    BY <1>14 DEF Echo, Stage, Line, Known, Barred, Listening, members, kernel, network
  <2> QED
    BY <1>14, <2>1, <2>2, <2>3 DEF Echo, ServiceStep, Service!Next, Service!Reply
<1>15. CASE Loop \/ DestroyOther \/ SignalNoted
  BY <1>15, Unseen
  DEF Loop, DestroyOther, SignalNoted, process, members, kernel, network, history, Starting
<1>16. CASE DestroyServer
  <2>1. queue' = <<>> /\ ~Listening' /\ pc' = "exit"
    BY <1>0, <1>16, CloseListener DEF DestroyServer
  <2> QED
    BY <1>16, <2>1, Closing DEF DestroyServer, history
<1>17. ASSUME NEW c \in Conns, NEW a \in IPs, PeerConnect(c, a) PROVE ServiceStep
  <2>1. Listening /\ Listening' /\ UNCHANGED <<pc, fds, clientFd, banned, read, out>>
    BY <1>17 DEF PeerConnect, Listening, process, members, history
  <2>2. Stage = "open" /\ Stage' = Stage /\ Busy' = Busy /\ Muted' = Muted
    BY <2>1 DEF Stage, Busy, Muted, HasClient, Client
  <2>3. Line' = Append(Line, c)
    <3>1. CASE pc \in {"recv", "receiving"} /\ HasClient
      <4>1. Client \in Conns /\ queue \in Seq(Conns)
        BY <1>0, <3>1 DEF HasClient, Client, TypeOK
      <4>2. Append(<<Client>> \o queue, c) = <<Client>> \o Append(queue, c)
        BY <4>1, Preceded
      <4> QED
        BY <1>17, <2>1, <3>1, <4>2 DEF PeerConnect, Line, HasClient, Client
    <3>2. CASE ~(pc \in {"recv", "receiving"} /\ HasClient)
      BY <1>17, <2>1, <3>2 DEF PeerConnect, Line, HasClient
    <3> QED
      BY <3>1, <3>2
  <2>4. c \notin Known /\ Known' = Known \cup {c}
    BY <1>0, <1>17 DEF PeerConnect, Known, TypeOK
  <2>5. Barred' \in {Barred, Barred \cup {c}}
    <3>1. ip[c] \notin BannedIps
      BY <1>17 DEF PeerConnect, OpenInv, BannedIps, NoAddress
    <3>2. \A d \in Conns : ip'[d] = IF d = c THEN a ELSE ip[d]
      BY <1>0, <1>17 DEF PeerConnect, TypeOK
    <3>3. CASE a \in BannedIps
      BY <3>1, <3>2, <3>3 DEF Barred
    <3>4. CASE a \notin BannedIps
      BY <3>1, <3>2, <3>4 DEF Barred
    <3> QED
      BY <3>3, <3>4
  <2> QED
    BY <2>1, <2>2, <2>3, <2>4, <2>5 DEF ServiceStep, Service!Next, Service!Arrive
<1>18. ASSUME NEW c \in Conns, NEW m \in Payloads, PeerSend(c, m) PROVE ServiceStep
  BY <1>18, Unseen DEF PeerSend, process, members, kernel, history, Starting
<1>19. ASSUME NEW c \in Conns, PeerFin(c) \/ PeerReset(c) PROVE ServiceStep
  BY <1>0, <1>19, Unseen
  DEF PeerFin, PeerReset, TypeOK, process, members, kernel, history, Starting
<1>20. CASE Gone \/ UNCHANGED vars
  BY <1>20, Unseen
  DEF Gone, vars, process, members, kernel, network, history, Starting
<1> QED
  BY <1>1, <1>2, <1>3, <1>4, <1>5, <1>6, <1>7, <1>8, <1>9, <1>10, <1>11, <1>12,
     <1>13, <1>14, <1>15, <1>16, <1>17, <1>18, <1>19, <1>20
  DEF Next, ServerStep, Signal, PeerStep

-----------------------------------------------------------------------------
\* What the mapping relies on holds in every reachable state.
LEMMA OpenAlways == Spec => []OpenInv
<1>1. Init => OpenInv
  BY DEF Init, OpenInv, Listening
<1> QED
  BY <1>1, Inductive, NextOpen, PTL DEF Spec

\* The server implements the service: in the order of arrival, one at a time,
\* heard once, and answered once with its own bytes or with the notice
\* (RunServer, SetupClientConnection, ReadFromClient, ~TcpServer).
THEOREM ServerImplementsService == Spec => RefinesService
<1>1. IndInv /\ OpenInv /\ [Next]_vars => [Service!Next]_(Service!vars)
  BY NextService DEF ServiceStep
<1> QED
  BY <1>1, InitService, Inductive, OpenAlways, PTL
  DEF Spec, RefinesService, Service!Spec
=============================================================================
