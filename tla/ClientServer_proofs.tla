------------------------ MODULE ClientServer_proofs ------------------------
(* Theorems about the server and a client program together, for every set  *)
(* of connections of the client and of others, every address, build, size  *)
(* of table, backlog and payload.  What was proved of each program alone   *)
(* is used for it here: every step of the two is a step of each or leaves  *)
(* it alone, and what relates them is an invariant of its own.             *)
EXTENDS ClientServer, TcpServer_proofs

\* The client with what was proved of it.
UserProofs == INSTANCE TcpClient_proofs WITH
    FdLimit <- ClientFdLimit,
    Faults <- {},
    pc <- cPc,
    status <- cStatus,
    fds <- cFds,
    link <- cLink,
    inbox <- cInbox

\* The connection of the call, if there is one: its address, the client's view
\* of it, and the bytes on it.
MeetInv ==
    /\ home \in Homes /\ conn \in Own \cup {"none"}
    /\ conn = "none" <=> cLink = "none"
    /\ conn # "none" => link[conn] # "none" /\ ip[conn] = home
    /\ \A c \in Conns : link[c] = "none" => inbox[c] = <<>>

\* The server reads nothing on it but the message that was sent, and all of it.
MessageInv ==
    conn # "none" =>
        /\ sent \in {"none", "random", "RELOAD", "SHUTDOWN"}
        /\ sent = "none" => read[conn] = <<>> /\ inbox[conn] = <<>>
        /\ sent # "none" =>
              \/ read[conn] = <<>> /\ inbox[conn] \in {<<>>, Wire(sent)}
              \/ read[conn] = Wire(sent)

\* What reaches the client is what the server did.
AnswerInv ==
    /\ reply # "none" =>
          /\ conn # "none" /\ out[conn] # <<>>
          /\ reply = "notice" <=> CStringIs(out[conn], ClientNotice)
    /\ conn # "none" /\ cLink # "up" => link[conn] = "gone"

\* The kernel of a client that runs keeps its connections open, and what it sent
\* on one waits, whole, for the first recv.
SentInv ==
    /\ cPc # "dead" => \A c \in Own : link[c] \in {"none", "up", "gone"}
    /\ conn # "none" /\ sent # "none" /\ link[conn] = "up" /\ read[conn] = <<>> =>
          inbox[conn] = Wire(sent)

\* Only a reply provokes a reset after the end of a client.
ResetInv == \A c \in Own : link[c] = "finrst" => out[c] # <<>>

\* After an answered SHUTDOWN there is no way back to accept.
StoppedInv ==
    /\ ~running => pc \in {"start", "echo", "loop", "exit", "dead"}
    /\ (\E c \in Conns : ip[c] = AdminIp /\ Says(read[c], Shutdown) /\ out[c] # <<>>)
          => pc \in {"loop", "exit", "dead"}

-----------------------------------------------------------------------------
(* The client's half of a step.                                            *)

\* An initial state of the one instance of TcpClient is one of the other.
LEMMA SameInit == User!Init => UserProofs!Init
<1>1. \A S : User!Cardinality(S) = UserProofs!Cardinality(S)
  BY DEF User!Cardinality, UserProofs!Cardinality
<1> QED
  BY DEF User!Init, User!Fd, UserProofs!Init, UserProofs!Fd

\* So is a step.
LEMMA SameNext == User!Next => UserProofs!Next
<1> USE DEF User!Fd, UserProofs!Fd, User!OpenAs, UserProofs!OpenAs,
            User!locals, UserProofs!locals, User!connection, UserProofs!connection,
            User!history, UserProofs!history, User!counts, UserProofs!counts
<1>1. \A S : User!Cardinality(S) = UserProofs!Cardinality(S)
  BY DEF User!Cardinality, UserProofs!Cardinality
<1>2. CASE User!Click \/ User!Main
  <2>1. UserProofs!Click \/ UserProofs!Main
    BY <1>2, <1>1
    DEF User!Click, UserProofs!Click, User!Main, UserProofs!Main, User!Calls,
        UserProofs!Calls
  <2> QED
    BY <2>1 DEF UserProofs!Next, UserProofs!User, UserProofs!ClientStep, UserProofs!Server
<1>3. CASE User!Quit \/ User!Kill \/ User!MainReturns \/ User!SendRaisesSigpipe
  <2>1. \/ UserProofs!Quit
        \/ UserProofs!Kill
        \/ UserProofs!MainReturns
        \/ UserProofs!SendRaisesSigpipe
    BY <1>3
    DEF User!Quit, UserProofs!Quit, User!Kill, UserProofs!Kill, User!MainReturns,
        UserProofs!MainReturns, User!SendRaisesSigpipe, UserProofs!SendRaisesSigpipe,
        User!ProcessEnds, UserProofs!ProcessEnds, User!Without, UserProofs!Without
  <2> QED
    BY <2>1 DEF UserProofs!Next, UserProofs!User, UserProofs!ClientStep, UserProofs!Server
<1>4. CASE User!ConstructUrandomThrows \/ User!GenerateRandomThrows
          \/ User!SocketFails
  <2>1. \/ UserProofs!ConstructUrandomThrows
        \/ UserProofs!GenerateRandomThrows
        \/ UserProofs!SocketFails
    BY <1>4
    DEF User!ConstructUrandomThrows, UserProofs!ConstructUrandomThrows,
        User!GenerateRandomThrows, UserProofs!GenerateRandomThrows, User!SocketFails,
        UserProofs!SocketFails, User!Throws, UserProofs!Throws, User!CallFails,
        UserProofs!CallFails, User!TableFull, UserProofs!TableFull, User!ProcessEnds,
        UserProofs!ProcessEnds, User!Without, UserProofs!Without
  <2> QED
    BY <2>1 DEF UserProofs!Next, UserProofs!User, UserProofs!ClientStep, UserProofs!Server
<1>5. CASE User!ConstructUrandom \/ User!OpenRandom \/ User!CreateSocket
  <2>1. \/ UserProofs!ConstructUrandom
        \/ UserProofs!OpenRandom
        \/ UserProofs!CreateSocket
    BY <1>5
    DEF User!ConstructUrandom, UserProofs!ConstructUrandom, User!OpenRandom,
        UserProofs!OpenRandom, User!CreateSocket, UserProofs!CreateSocket, User!Opens,
        UserProofs!Opens
  <2> QED
    BY <2>1 DEF UserProofs!Next, UserProofs!User, UserProofs!ClientStep, UserProofs!Server
<1>6. CASE User!OpenRandomFails \/ User!ReadRandomFails \/ User!GenerateRandom
  <2>1. \/ UserProofs!OpenRandomFails
        \/ UserProofs!ReadRandomFails
        \/ UserProofs!GenerateRandom
    BY <1>6
    DEF User!OpenRandomFails, UserProofs!OpenRandomFails, User!ReadRandomFails,
        UserProofs!ReadRandomFails, User!GenerateRandom, UserProofs!GenerateRandom,
        User!CallFails, UserProofs!CallFails, User!TableFull, UserProofs!TableFull,
        User!Without, UserProofs!Without
  <2> QED
    BY <2>1 DEF UserProofs!Next, UserProofs!User, UserProofs!ClientStep, UserProofs!Server
<1>7. CASE User!Connect \/ User!ConnectFails \/ User!SendMessageToServer
  <2>1. \/ UserProofs!Connect
        \/ UserProofs!ConnectFails
        \/ UserProofs!SendMessageToServer
    BY <1>7
    DEF User!Connect, UserProofs!Connect, User!ConnectFails, UserProofs!ConnectFails,
        User!SendMessageToServer, UserProofs!SendMessageToServer, User!Without,
        UserProofs!Without, User!Message, UserProofs!Message
  <2> QED
    BY <2>1 DEF UserProofs!Next, UserProofs!User, UserProofs!ClientStep, UserProofs!Server
<1>8. CASE User!RecvReply \/ User!RecvNothing
  <2>1. UserProofs!RecvReply \/ UserProofs!RecvNothing
    BY <1>8
    DEF User!RecvReply, UserProofs!RecvReply, User!RecvNothing, UserProofs!RecvNothing,
        User!Returns, UserProofs!Returns, User!Without, UserProofs!Without
  <2> QED
    BY <2>1 DEF UserProofs!Next, UserProofs!User, UserProofs!ClientStep, UserProofs!Server
<1>9. CASE User!ServerCloses \/ User!ServerResets \/ User!Gone
  <2>1. \/ UserProofs!ServerCloses
        \/ UserProofs!ServerResets
        \/ UserProofs!Gone
    BY <1>9
    DEF User!ServerCloses, UserProofs!ServerCloses, User!ServerResets,
        UserProofs!ServerResets, User!Gone, UserProofs!Gone, User!vars, UserProofs!vars
  <2> QED
    BY <2>1 DEF UserProofs!Next, UserProofs!User, UserProofs!ClientStep, UserProofs!Server
<1>10. ASSUME NEW c \in User!Commands, User!Choose(c) PROVE UserProofs!Next
  <2>1. c \in UserProofs!Commands /\ UserProofs!Choose(c)
    BY <1>10 DEF User!Commands, UserProofs!Commands, User!Choose, UserProofs!Choose
  <2> QED
    BY <2>1 DEF UserProofs!Next, UserProofs!User
<1>11. ASSUME NEW r \in User!Replies, User!ServerAnswers(r) PROVE UserProofs!Next
  <2>1. r \in UserProofs!Replies /\ UserProofs!ServerAnswers(r)
    BY <1>11 DEF User!Replies, UserProofs!Replies, User!ServerAnswers, UserProofs!ServerAnswers
  <2> QED
    BY <2>1 DEF UserProofs!Next, UserProofs!Server
<1> QED
  BY <1>2, <1>3, <1>4, <1>5, <1>6, <1>7, <1>8, <1>9, <1>10, <1>11
  DEF User!Next, User!User, User!ClientStep, User!Server

\* Every step of the two is a step of the client or leaves it alone.
LEMMA ClientHalf == [CNext]_allvars => [User!Next]_(User!vars)
<1> SUFFICES ASSUME [CNext]_allvars PROVE User!Next \/ UNCHANGED User!vars
  OBVIOUS
<1>1. CASE UNCHANGED client
  BY <1>1 DEF client, User!vars, User!locals, User!connection, User!history, User!counts
<1>2. CASE Click \/ Leaves
  BY <1>2 DEF Click, Leaves, User!Next, User!User, User!ClientStep
<1>3. CASE Choose
  <2>1. PICK c \in Picks : User!Choose(c)
    BY <1>3 DEF Choose
  <2>2. c \in User!Commands
    BY ClientAssumption DEF User!Commands
  <2> QED
    BY <2>1, <2>2 DEF User!Next, User!User
<1>4. CASE ClientStep
  BY <1>4 DEF ClientStep, Works, Connect, ConnectFails, SendMessageToServer, Stops,
              User!Next, User!ClientStep
<1>5. CASE Network
  <2>1. {"notice", "other"} \subseteq User!Replies
    BY DEF User!Replies
  <2> QED
    BY <1>5, <2>1 DEF Network, Delivers, Breaks, User!Next, User!Server
<1>6. ASSUME ~Click, ~Choose, ~Leaves, ~ClientStep, ~Network PROVE UNCHANGED client
  BY <1>6 DEF CNext, Serves, Interrupts, Hangs, Bounces, Others, AllGone, allvars
<1> QED
  BY <1>1, <1>2, <1>3, <1>4, <1>5, <1>6

\* So the client starts with its invariant,
LEMMA ClientInit == CInit => UserProofs!ClientInv
BY UserProofs!InitClient, SameInit, ClientAssumption DEF CInit

\* and with every step of the two.
LEMMA ClientNext == UserProofs!ClientInv /\ [CNext]_allvars => UserProofs!ClientInv'
<1> SUFFICES ASSUME UserProofs!ClientInv, [CNext]_allvars PROVE UserProofs!ClientInv'
  OBVIOUS
<1>1. User!Next \/ UNCHANGED User!vars
  BY ClientHalf
<1>2. [UserProofs!Next]_(UserProofs!vars)
  <2>1. CASE User!Next
    BY <2>1, SameNext
  <2>2. CASE UNCHANGED User!vars
    BY <2>2 DEF User!vars, User!locals, User!connection, User!history, User!counts,
                UserProofs!vars, UserProofs!locals, UserProofs!connection,
                UserProofs!history, UserProofs!counts
  <2> QED
    BY <1>1, <2>1, <2>2
<1> QED
  BY <1>2, UserProofs!NextClient, ClientAssumption

-----------------------------------------------------------------------------
(* The server's half of a step.                                            *)

\* What a client sends.
Spoken == {"random", "RELOAD", "SHUTDOWN"}

\* Where the client sends, the message is one of them.
LEMMA MessageSpoken ==
  ASSUME UserProofs!ClientInv, cPc = "send"
  PROVE  User!Message \in Spoken
<1>1. /\ ~faulty => randomValue = "random"
      /\ build \in Builds /\ command \in User!Commands
  BY DEF UserProofs!ClientInv, UserProofs!ValueInv, UserProofs!TypeOK,
         UserProofs!Commands, User!Commands
<1>2. ~faulty
  BY Zenon DEF UserProofs!ClientInv, UserProofs!ValueInv
<1> QED
  BY <1>1, <1>2, ClientAssumption DEF User!Message, User!Commands, Spoken

\* It is short enough to be read at once, and is no notice.
LEMMA WireFacts ==
  ASSUME NEW m \in Spoken
  PROVE  /\ Wire(m) \in Payloads /\ Wire(m) \in Seq(Tokens) /\ Wire(m) # <<>>
         /\ Len(Wire(m)) < BufCap
         /\ ~CStringIs(Wire(m), ClientNotice)
<1>1. Wire(m) \in Payloads /\ Wire(m) \in Seq(Tokens) /\ Wire(m) # <<>>
  BY WireAssumption, PayloadAssumption DEF Spoken
<1>2. Len(Wire(m)) <= 2 /\ Len(Wire(m)) >= 1 /\ Wire(m)[1] # "BANNED"
  BY DEF Wire, Shutdown, Spoken
<1>3. Len(Wire(m)) < BufCap
  BY <1>2, CommandAssumption, SizeAssumption DEF Shutdown
<1>4. ~CStringIs(Wire(m), ClientNotice)
  <2>1. SUFFICES ASSUME IsPrefix(ClientNotice, Wire(m)) PROVE FALSE
    BY DEF CStringIs
  <2>2. SubSeq(ClientNotice, 1, 1) = SubSeq(Wire(m), 1, 1)
    BY <2>1 DEF IsPrefix, ClientNotice
  <2>3. SubSeq(ClientNotice, 1, 1)[1] = "BANNED"
    BY DEF ClientNotice
  <2>4. SubSeq(Wire(m), 1, 1)[1] = Wire(m)[1]
    BY <1>1, <1>2
  <2> QED
    BY <1>2, <2>2, <2>3, <2>4
<1> QED
  BY <1>1, <1>3, <1>4

\* What the client does by itself.
Alone == Choose \/ Works \/ ConnectFails \/ Stops \/ Leaves

\* That leaves the connection and the server alone.
LEMMA AloneFacts == Alone => UNCHANGED <<vars, home, conn, cLink, sent, reply>>
<1> SUFFICES ASSUME Alone PROVE UNCHANGED <<vars, home, conn, cLink, sent, reply>>
  OBVIOUS
<1>1. UNCHANGED <<vars, home, conn>>
  BY DEF Alone, Choose, Works, ConnectFails, Stops, Leaves
<1>2. CASE Choose
  BY <1>2 DEF Choose, User!Choose, User!connection, User!history
<1>3. CASE Works
  BY <1>3
  DEF Works, User!ConstructUrandom, User!OpenRandom, User!OpenRandomFails,
      User!GenerateRandom, User!CreateSocket, User!RecvReply, User!RecvNothing,
      User!connection, User!history
<1>4. CASE ConnectFails
  BY <1>4 DEF ConnectFails, User!ConnectFails, User!connection, User!history
<1>5. CASE Stops
  BY <1>5
  DEF Stops, User!MainReturns, User!ConstructUrandomThrows, User!GenerateRandomThrows,
      User!SocketFails, User!SendRaisesSigpipe, User!Throws, User!connection,
      User!history
<1>6. CASE Leaves
  BY <1>6 DEF Leaves, User!Quit, User!Kill, User!connection, User!history
<1> QED
  BY <1>1, <1>2, <1>3, <1>4, <1>5, <1>6 DEF Alone

\* A program that is gone takes no step of its own.
LEMMA AliveFacts == Alone \/ Click \/ SendMessageToServer => cPc # "dead"
<1>1. Choose \/ Leaves => cPc # "dead"
  BY DEF Choose, Leaves, User!Choose, User!Quit, User!Kill
<1>2. Works \/ ConnectFails => cPc # "dead"
  BY DEF Works, ConnectFails, User!ConstructUrandom, User!OpenRandom, User!OpenRandomFails,
         User!GenerateRandom, User!CreateSocket, User!RecvReply, User!RecvNothing,
         User!ConnectFails
<1>3. Stops => cPc # "dead"
  BY DEF Stops, User!MainReturns, User!ConstructUrandomThrows, User!GenerateRandomThrows,
         User!SocketFails, User!SendRaisesSigpipe
<1>4. Click \/ SendMessageToServer => cPc # "dead"
  BY DEF Click, SendMessageToServer, User!Click, User!Main, User!SendMessageToServer
<1> QED
  BY <1>1, <1>2, <1>3, <1>4 DEF Alone

\* Every step of the two is a step of the server's specification or a stutter.
LEMMA ServerHalf == UserProofs!ClientInv /\ MeetInv /\ [CNext]_allvars => [Next]_vars
<1> SUFFICES ASSUME UserProofs!ClientInv, MeetInv, [CNext]_allvars PROVE [Next]_vars
  OBVIOUS
<1>0. Own \subseteq Conns
  BY OwnAssumption
<1>1. CASE UNCHANGED vars
  BY <1>1
<1>2. CASE Alone \/ Click \/ Network \/ AllGone \/ UNCHANGED allvars
  BY <1>2, AloneFacts DEF Click, Network, Delivers, Breaks, AllGone, allvars
<1>3. ASSUME NEW c \in Own, Connect(c) PROVE Next
  <2>1. home \in IPs
    BY HomesAssumption DEF MeetInv
  <2> QED
    BY <1>0, <1>3, <2>1 DEF Connect, Next, PeerStep
<1>4. CASE SendMessageToServer
  <2>1. cPc = "send"
    BY <1>4 DEF SendMessageToServer, User!SendMessageToServer
  <2>2. Wire(User!Message) \in Payloads
    BY <2>1, MessageSpoken, WireFacts
  <2>3. UNCHANGED vars \/ (conn \in Own /\ PeerSend(conn, Wire(User!Message)))
    BY <1>4 DEF SendMessageToServer
  <2>4. conn \in Own /\ PeerSend(conn, Wire(User!Message)) => Next
    BY <1>0, <2>2 DEF Next, PeerStep
  <2> QED
    BY <2>3, <2>4
<1>5. CASE Serves \/ Interrupts
  BY <1>5 DEF Serves, Interrupts, Next
<1>6. ASSUME NEW c \in Own, Hangs(c) \/ Bounces(c) PROVE Next
  BY <1>0, <1>6 DEF Hangs, Bounces, Next, PeerStep
<1>7. CASE Others
  BY <1>7, WireAssumption DEF Others, Next, PeerStep
<1> QED
  BY <1>1, <1>2, <1>3, <1>4, <1>5, <1>6, <1>7 DEF CNext, ClientStep, Alone

-----------------------------------------------------------------------------
(* What a step of the server does to a connection.                         *)

ServerKeeps ==
    \A c \in Conns :
        /\ link'[c] = link[c] \/ (link[c] # "none" /\ link'[c] = "gone")
        /\ ip'[c] = ip[c]
        /\ Receives(c) \/ (inbox'[c] = inbox[c] /\ read'[c] = read[c])

\* Every such step does this.
LEMMA ServerKeepsAll == IndInv /\ (ServerStep \/ Signal) => ServerKeeps
<1> SUFFICES ASSUME IndInv, ServerStep \/ Signal PROVE ServerKeeps
  OBVIOUS
<1>0. TypeOK /\ TableInv
  BY DEF IndInv
<1>1. CASE UNCHANGED <<link, ip, inbox, read>>
  BY <1>1 DEF ServerKeeps
<1>2. CASE \/ Main \/ OpenLog \/ Listen \/ SetupFails \/ RunServer \/ AcceptReturns
           \/ AcceptSleeps \/ RecvNothing \/ RecvSleeps \/ Loop \/ DestroyOther
           \/ SignalInRecv \/ SignalNoted
  BY <1>1, <1>2
  DEF Main, OpenLog, Listen, SetupFails, RunServer, AcceptReturns, AcceptSleeps,
      RecvNothing, RecvSleeps, Loop, DestroyOther, SignalInRecv, SignalNoted, network,
      history
<1>3. ASSUME NEW c \in Conns, Refuse(c) \/ Echo(c) PROVE ServerKeeps
  BY <1>1, <1>3 DEF Refuse, Echo, network
<1>4. CASE \/ LogFails \/ AcceptFails \/ SendRaisesSigpipe \/ DestroyServer \/ Exit
           \/ SignalKills \/ SignalInAccept
  <2>1. (\E F : CloseFds(F)) /\ UNCHANGED <<ip, inbox, read>>
    BY <1>4
    DEF LogFails, AcceptFails, AcceptRefused, AcceptFaults, SendRaisesSigpipe, DestroyServer, Exit, SignalKills,
        SignalInAccept, AcceptError, ProcessEnds, history
  <2> QED
    BY <1>0, <2>1, CloseFdsFacts DEF ServerKeeps
<1>5. ASSUME NEW c \in Conns, RecvFromBanned(c) \/ RecvIgnored(c) \/ RecvMessage(c)
      PROVE  ServerKeeps
  <2>1. Receives(c) /\ UNCHANGED <<link, ip>>
    BY <1>5 DEF RecvFromBanned, RecvIgnored, RecvMessage
  <2>2. \A d \in Conns : d # c => inbox'[d] = inbox[d] /\ read'[d] = read[d]
    BY <1>0, <2>1 DEF Receives, TypeOK
  <2> QED
    BY <2>1, <2>2 DEF ServerKeeps
<1> QED
  BY <1>2, <1>3, <1>4, <1>5 DEF ServerStep, Signal

\* What fits the buffer is read at once.
LEMMA ReadsWhole ==
  ASSUME IndInv, NEW c \in Conns, Receives(c), Len(inbox[c]) < BufCap
  PROVE  read[c] = <<>> /\ read'[c] = inbox[c]
<1>1. TypeOK /\ ServeInv
  BY DEF IndInv
<1>2. read[c] = <<>> /\ buf' = read'[c]
  BY <1>1, ReceiveFacts
<1>3. inbox[c] \in Seq(Tokens)
  BY <1>1 DEF TypeOK
<1>4. buf' = SubSeq(inbox[c], 1, Len(inbox[c]))
  BY DEF Receives
<1>5. SubSeq(inbox[c], 1, Len(inbox[c])) = inbox[c]
  BY <1>3
<1> QED
  BY <1>2, <1>4, <1>5

\* What a step of another peer does to the connections.
OthersKeep ==
    \A c \in Conns :
        /\ c \in Own => link'[c] = link[c] /\ ip'[c] = ip[c] /\ inbox'[c] = inbox[c]
        /\ link[c] # "none" => link'[c] # "none" /\ ip'[c] = ip[c]
        /\ link'[c] = "none" => link[c] = "none" /\ inbox'[c] = inbox[c]

\* Every such step does this.
LEMMA OthersFacts == IndInv /\ Others =>
    /\ OthersKeep
    /\ UNCHANGED <<pc, running, read, out, home, conn, client>>
<1> SUFFICES ASSUME IndInv, Others
             PROVE  OthersKeep /\ UNCHANGED <<pc, running, read, out, home, conn, client>>
  OBVIOUS
<1>0. TypeOK
  BY DEF IndInv
<1>1. ASSUME NEW c \in Conns \ Own, NEW a \in IPs, PeerConnect(c, a)
      PROVE  OthersKeep /\ UNCHANGED <<pc, running, read, out>>
  BY <1>0, <1>1
  DEF PeerConnect, OthersKeep, TypeOK, process, flags, members, history
<1>2. ASSUME NEW c \in Conns \ Own, NEW m \in OtherPayloads, PeerSend(c, m)
      PROVE  OthersKeep /\ UNCHANGED <<pc, running, read, out>>
  BY <1>0, <1>2 DEF PeerSend, OthersKeep, TypeOK, process, flags, members, history
<1>3. ASSUME NEW c \in Conns \ Own, PeerFin(c) \/ PeerReset(c)
      PROVE  OthersKeep /\ UNCHANGED <<pc, running, read, out>>
  BY <1>0, <1>3 DEF PeerFin, PeerReset, OthersKeep, TypeOK, process, flags, members, history
<1> QED
  BY <1>1, <1>2, <1>3 DEF Others

\* What the end of a client does to them.
LEMMA EndFacts ==
  ASSUME IndInv, NEW c \in Own, Hangs(c) \/ Bounces(c)
  PROVE  /\ UNCHANGED <<pc, running, ip, inbox, read, out, home, conn, client>>
         /\ link[c] \in {"up", "fin"} /\ link'[c] \in {"fin", "rst", "finrst"}
         /\ link'[c] = "finrst" => out[c] # <<>>
         /\ \A d \in Conns : d # c => link'[d] = link[d]
<1>1. TypeOK /\ c \in Conns
  BY OwnAssumption DEF IndInv
<1> QED
  BY <1>1 DEF Hangs, Bounces, PeerFin, PeerReset, TypeOK, process, flags, members, history

-----------------------------------------------------------------------------
(* What a step of the client does to the connection.                       *)

\* A call begins without a connection.
LEMMA ClickFacts == Click =>
    /\ conn' = "none" /\ cLink' = "none" /\ sent' = "none" /\ reply' = "none"
    /\ UNCHANGED <<vars, home>>
BY DEF Click, User!Click, User!Main, User!Calls

\* Its connection is a new one, from the address where the client runs.
LEMMA ConnectFacts ==
  ASSUME IndInv, UserProofs!ClientInv, NEW c \in Own, Connect(c)
  PROVE  /\ conn' = c /\ cLink' = "up" /\ link[c] = "none" /\ link'[c] = "up"
         /\ ip'[c] = home /\ read[c] = <<>>
         /\ \A d \in Conns : d # c => link'[d] = link[d] /\ ip'[d] = ip[d]
         /\ sent' = "none" /\ reply' = "none"
         /\ UNCHANGED <<pc, running, inbox, read, out, home>>
<1>1. TypeOK /\ TableInv /\ c \in Conns
  BY OwnAssumption DEF IndInv
<1>2. cPc = "connect" /\ cLink' = "up" /\ UNCHANGED <<sent, reply>>
  BY DEF Connect, User!Connect, User!history
<1>3. sent = "none" /\ reply = "none"
  BY <1>2 DEF UserProofs!ClientInv, UserProofs!VerdictInv
<1>4. PeerConnect(c, home) /\ conn' = c /\ home' = home
  BY DEF Connect
<1> QED
  BY <1>1, <1>2, <1>3, <1>4 DEF PeerConnect, TypeOK, TableInv, process, flags, members, history

\* Its message is the first on that connection.
LEMMA SendFacts ==
  ASSUME IndInv, UserProofs!ClientInv, MeetInv, SendMessageToServer
  PROVE  /\ sent = "none" /\ reply = "none" /\ reply' = "none"
         /\ sent' = (IF cLink \in {"up", "fin"} THEN User!Message ELSE "none")
         /\ User!Message \in Spoken
         /\ UNCHANGED <<pc, running, link, ip, read, out, home, conn, cLink>>
         /\ IF conn \in Own /\ link[conn] = "up"
            THEN inbox' = [inbox EXCEPT ![conn] = @ \o Wire(User!Message)]
            ELSE inbox' = inbox
<1>1. /\ cPc = "send" /\ UNCHANGED <<reply, cLink>>
      /\ sent' = IF cLink \in {"up", "fin"} THEN User!Message ELSE sent
  BY DEF SendMessageToServer, User!SendMessageToServer, User!connection
<1>2. sent = "none" /\ reply = "none"
  BY <1>1 DEF UserProofs!ClientInv, UserProofs!VerdictInv
<1>3. /\ UNCHANGED <<pc, running, link, ip, read, out, home, conn>>
      /\ IF conn \in Own /\ link[conn] = "up"
         THEN inbox' = [inbox EXCEPT ![conn] = @ \o Wire(User!Message)]
         ELSE inbox' = inbox
  BY DEF SendMessageToServer, PeerSend, vars, process, flags, members, kernel, network,
         history
<1> QED
  BY <1>1, <1>2, <1>3, MessageSpoken

\* What arrives is what the server sent, or the end that it made.
LEMMA NetworkFacts == Network =>
    /\ conn \in Own /\ cLink # "none" /\ cLink' # "none"
    /\ UNCHANGED <<vars, home, conn, sent>>
    /\ \/ /\ out[conn] # <<>> /\ cLink' = cLink
          /\ reply' = IF CStringIs(out[conn], ClientNotice) THEN "notice" ELSE "other"
       \/ link[conn] = "gone" /\ cLink' # "up" /\ reply' = reply
<1> SUFFICES ASSUME Network
             PROVE  /\ conn \in Own /\ cLink # "none" /\ cLink' # "none"
                    /\ UNCHANGED <<vars, home, conn, sent>>
                    /\ \/ /\ out[conn] # <<>> /\ cLink' = cLink
                          /\ reply' = IF CStringIs(out[conn], ClientNotice)
                                      THEN "notice" ELSE "other"
                       \/ link[conn] = "gone" /\ cLink' # "up" /\ reply' = reply
  OBVIOUS
<1>1. CASE Delivers
  BY <1>1 DEF Delivers, User!ServerAnswers
<1>2. CASE Breaks
  BY <1>2 DEF Breaks, User!ServerCloses, User!ServerResets, User!history
<1> QED
  BY <1>1, <1>2 DEF Network

-----------------------------------------------------------------------------
(* Each part of what relates the two is kept by every step.                *)

\* Every step keeps what the two know of the connection.
LEMMA NextMeet ==
  IndInv /\ UserProofs!ClientInv /\ MeetInv /\ [CNext]_allvars => MeetInv'
<1> SUFFICES ASSUME IndInv, UserProofs!ClientInv, MeetInv, [CNext]_allvars PROVE MeetInv'
  OBVIOUS
<1>0. Own \subseteq Conns \ {"none"}
  BY OwnAssumption
<1>1. CASE Alone
  BY <1>1, AloneFacts DEF MeetInv, vars, network
<1>2. CASE Click
  BY <1>2, ClickFacts DEF MeetInv, vars, network
<1>3. ASSUME NEW c \in Own, Connect(c) PROVE MeetInv'
  BY <1>0, <1>3, ConnectFacts DEF MeetInv
<1>4. CASE SendMessageToServer
  BY <1>0, <1>4, SendFacts DEF MeetInv, IndInv, TypeOK
<1>5. CASE Serves \/ Interrupts
  <2>1. ServerKeeps /\ UNCHANGED <<home, conn, cLink>>
    BY <1>5, ServerKeepsAll DEF Serves, Interrupts, client
  <2>2. \A c \in Conns : Receives(c) => inbox[c] # <<>>
    BY DEF Receives
  <2> QED
    BY <1>0, <2>1, <2>2 DEF MeetInv, ServerKeeps
<1>6. CASE Network
  BY <1>6, NetworkFacts DEF MeetInv, vars, network
<1>7. ASSUME NEW c \in Own, Hangs(c) \/ Bounces(c) PROVE MeetInv'
  BY <1>0, <1>7, EndFacts DEF MeetInv, client
<1>8. CASE Others
  BY <1>0, <1>8, OthersFacts DEF MeetInv, OthersKeep, client
<1>9. CASE UNCHANGED allvars
  BY <1>9 DEF MeetInv, allvars, vars, network, client
<1> QED
  BY <1>1, <1>2, <1>3, <1>4, <1>5, <1>6, <1>7, <1>8, <1>9
  DEF CNext, ClientStep, Alone, AllGone

\* Every step keeps what the server may read on it.
LEMMA NextMessage ==
  IndInv /\ UserProofs!ClientInv /\ MeetInv /\ MessageInv /\ AnswerInv /\ [CNext]_allvars
      => MessageInv'
<1> SUFFICES ASSUME IndInv, UserProofs!ClientInv, MeetInv, MessageInv, AnswerInv,
                    [CNext]_allvars
             PROVE  MessageInv'
  OBVIOUS
<1>0. Own \subseteq Conns \ {"none"} /\ (conn # "none" => conn \in Conns)
  BY OwnAssumption DEF MeetInv
<1>1. CASE Alone
  BY <1>1, AloneFacts DEF MessageInv, vars, network, history
<1>2. CASE Click
  BY <1>2, ClickFacts DEF MessageInv
<1>3. ASSUME NEW c \in Own, Connect(c) PROVE MessageInv'
  BY <1>0, <1>3, ConnectFacts DEF MessageInv, MeetInv
<1>4. CASE SendMessageToServer
  <2>1. CASE conn \in Own /\ link[conn] = "up"
    <3>1. inbox[conn] = <<>> /\ read[conn] = <<>>
      BY <1>0, <1>4, <2>1, SendFacts DEF MessageInv
    <3>2. inbox'[conn] = <<>> \o Wire(User!Message)
      BY <1>0, <1>4, <2>1, <3>1, SendFacts DEF IndInv, TypeOK
    <3>3. inbox'[conn] = Wire(User!Message)
      BY <1>4, <3>2, SendFacts, WireFacts, ConcatEmptySeq
    <3>4. cLink = "up"
      BY <1>0, <2>1 DEF AnswerInv
    <3> QED
      BY <1>4, <3>1, <3>3, <3>4, SendFacts DEF MessageInv, Spoken
  <2>2. CASE ~(conn \in Own /\ link[conn] = "up")
    BY <1>0, <1>4, <2>2, SendFacts DEF MessageInv, Spoken
  <2> QED
    BY <2>1, <2>2
<1>5. CASE Serves \/ Interrupts
  <2>1. ServerKeeps /\ UNCHANGED <<conn, sent>>
    BY <1>5, ServerKeepsAll DEF Serves, Interrupts, client
  <2>2. CASE conn # "none" /\ Receives(conn)
    <3>1. inbox[conn] # <<>> /\ read[conn] = <<>>
      BY <1>0, <2>2, ReceiveFacts DEF Receives, IndInv
    <3>2. sent \in Spoken /\ inbox[conn] = Wire(sent)
      BY <2>2, <3>1, WireFacts DEF MessageInv, Spoken
    <3>3. read'[conn] = Wire(sent)
      BY <1>0, <2>2, <3>2, WireFacts, ReadsWhole
    <3> QED
      BY <2>1, <2>2, <3>2, <3>3 DEF MessageInv, Spoken
  <2>3. CASE ~(conn # "none" /\ Receives(conn))
    BY <1>0, <2>1, <2>3 DEF MessageInv, ServerKeeps
  <2> QED
    BY <2>2, <2>3
<1>6. CASE Network
  BY <1>6, NetworkFacts DEF MessageInv, vars, network, history
<1>7. ASSUME NEW c \in Own, Hangs(c) \/ Bounces(c) PROVE MessageInv'
  BY <1>7, EndFacts DEF MessageInv, client
<1>8. CASE Others
  BY <1>0, <1>8, OthersFacts DEF MessageInv, MeetInv, OthersKeep, client
<1>9. CASE UNCHANGED allvars
  BY <1>9 DEF MessageInv, allvars, vars, network, history, client
<1> QED
  BY <1>1, <1>2, <1>3, <1>4, <1>5, <1>6, <1>7, <1>8, <1>9
  DEF CNext, ClientStep, Alone, AllGone

\* Every step keeps what may reach the client.
LEMMA NextAnswer ==
  IndInv /\ UserProofs!ClientInv /\ MeetInv /\ AnswerInv /\ [CNext]_allvars => AnswerInv'
<1> SUFFICES ASSUME IndInv, UserProofs!ClientInv, MeetInv, AnswerInv, [CNext]_allvars
             PROVE  AnswerInv'
  OBVIOUS
<1>0. Own \subseteq Conns \ {"none"} /\ (conn # "none" => conn \in Conns /\ conn \in Own)
  BY OwnAssumption DEF MeetInv
<1>1. CASE Alone
  BY <1>1, AloneFacts DEF AnswerInv, vars, network, history
<1>2. CASE Click
  BY <1>2, ClickFacts DEF AnswerInv
<1>3. ASSUME NEW c \in Own, Connect(c) PROVE AnswerInv'
  BY <1>0, <1>3, ConnectFacts DEF AnswerInv
<1>4. CASE SendMessageToServer
  BY <1>4, SendFacts DEF AnswerInv
<1>5. CASE Serves \/ Interrupts
  <2>1. ServerKeeps /\ UNCHANGED <<conn, reply, cLink>>
    BY <1>5, ServerKeepsAll DEF Serves, Interrupts, client
  <2>2. \A c \in Conns : out[c] # <<>> => out'[c] = out[c]
    BY ServerHalf, OutSettled DEF IndInv
  <2> QED
    BY <1>0, <2>1, <2>2 DEF AnswerInv, ServerKeeps
<1>6. CASE Network
  BY <1>0, <1>6, NetworkFacts DEF AnswerInv, vars, network, history
<1>7. ASSUME NEW c \in Own, Hangs(c) \/ Bounces(c) PROVE AnswerInv'
  BY <1>0, <1>7, EndFacts DEF AnswerInv, client
<1>8. CASE Others
  BY <1>0, <1>8, OthersFacts DEF AnswerInv, OthersKeep, client
<1>9. CASE UNCHANGED allvars
  BY <1>9 DEF AnswerInv, allvars, vars, network, history, client
<1> QED
  BY <1>1, <1>2, <1>3, <1>4, <1>5, <1>6, <1>7, <1>8, <1>9
  DEF CNext, ClientStep, Alone, AllGone

\* Every step keeps what was sent.
LEMMA NextSent ==
  IndInv /\ UserProofs!ClientInv /\ MeetInv /\ MessageInv /\ AnswerInv /\ SentInv
      /\ [CNext]_allvars
      => SentInv'
<1> SUFFICES ASSUME IndInv, UserProofs!ClientInv, MeetInv, MessageInv, AnswerInv, SentInv,
                    [CNext]_allvars
             PROVE  SentInv'
  OBVIOUS
<1>0. Own \subseteq Conns \ {"none"} /\ (conn # "none" => conn \in Conns /\ conn \in Own)
  BY OwnAssumption DEF MeetInv
<1>1. CASE Alone
  BY <1>1, AloneFacts, AliveFacts DEF SentInv, vars, network, history
<1>2. CASE Click
  BY <1>2, ClickFacts, AliveFacts DEF SentInv, vars, network
<1>3. ASSUME NEW c \in Own, Connect(c) PROVE SentInv'
  <2>1. cPc # "dead"
    BY <1>3 DEF Connect, User!Connect
  <2> QED
    BY <1>0, <1>3, <2>1, ConnectFacts DEF SentInv
<1>4. CASE SendMessageToServer
  <2>1. /\ cPc # "dead" /\ UNCHANGED <<link, read, conn>> /\ sent = "none"
        /\ sent' \in {"none", User!Message}
    BY <1>4, SendFacts, AliveFacts
  <2>2. ASSUME conn # "none", link[conn] = "up" PROVE inbox'[conn] = Wire(User!Message)
    <3>1. inbox[conn] = <<>>
      BY <2>1, <2>2 DEF MessageInv
    <3>2. inbox'[conn] = <<>> \o Wire(User!Message)
      BY <1>0, <1>4, <2>2, <3>1, SendFacts DEF IndInv, TypeOK
    <3> QED
      BY <1>4, <3>2, SendFacts, WireFacts, ConcatEmptySeq
  <2> QED
    BY <2>1, <2>2 DEF SentInv
<1>5. CASE Serves \/ Interrupts
  <2>1. ServerKeeps /\ UNCHANGED <<conn, sent, cPc>>
    BY <1>5, ServerKeepsAll DEF Serves, Interrupts, client
  <2>2. conn # "none" /\ Receives(conn) => read'[conn] # <<>>
    BY <1>0, ReceiveFacts DEF IndInv
  <2>3. \A c \in Own : link'[c] = link[c] \/ link'[c] = "gone"
    BY <1>0, <2>1 DEF ServerKeeps
  <2>4. ASSUME conn # "none", sent # "none", link'[conn] = "up", read'[conn] = <<>>
        PROVE  inbox'[conn] = Wire(sent)
    BY <1>0, <2>1, <2>2, <2>3, <2>4 DEF ServerKeeps, SentInv
  <2> QED
    BY <2>1, <2>3, <2>4 DEF SentInv
<1>6. CASE Network
  <2>1. cPc # "dead"
    BY <1>6 DEF Network, Delivers, Breaks
  <2> QED
    BY <1>6, <2>1, NetworkFacts DEF SentInv, vars, network, history
<1>7. ASSUME NEW c \in Own, Hangs(c) \/ Bounces(c) PROVE SentInv'
  <2>1. cPc = "dead" /\ cPc' = cPc
    BY <1>7 DEF Hangs, Bounces, SentInv, client
  <2>2. UNCHANGED <<inbox, read, conn, sent>> /\ link'[c] # "up"
    BY <1>7, EndFacts DEF client
  <2>3. \A d \in Conns : d # c => link'[d] = link[d]
    BY <1>7, EndFacts
  <2> QED
    BY <1>0, <2>1, <2>2, <2>3 DEF SentInv
<1>8. CASE Others
  BY <1>0, <1>8, OthersFacts DEF SentInv, OthersKeep, client
<1>9. CASE UNCHANGED allvars
  BY <1>9 DEF SentInv, allvars, vars, network, history, client
<1> QED
  BY <1>1, <1>2, <1>3, <1>4, <1>5, <1>6, <1>7, <1>8, <1>9
  DEF CNext, ClientStep, Alone, AllGone

\* Every step keeps the reason of a reset.
LEMMA NextReset ==
  IndInv /\ UserProofs!ClientInv /\ MeetInv /\ ResetInv /\ [CNext]_allvars => ResetInv'
<1> SUFFICES ASSUME IndInv, UserProofs!ClientInv, MeetInv, ResetInv, [CNext]_allvars
             PROVE  ResetInv'
  OBVIOUS
<1>0. Own \subseteq Conns
  BY OwnAssumption
<1>1. CASE Alone \/ Click \/ Network \/ UNCHANGED allvars
  <2>1. UNCHANGED <<link, out>>
    BY <1>1, AloneFacts, ClickFacts, NetworkFacts DEF allvars, vars, network, history
  <2> QED
    BY <2>1 DEF ResetInv
<1>2. ASSUME NEW c \in Own, Connect(c) PROVE ResetInv'
  BY <1>0, <1>2, ConnectFacts DEF ResetInv
<1>3. CASE SendMessageToServer
  BY <1>3, SendFacts DEF ResetInv
<1>4. CASE Serves \/ Interrupts
  <2>1. ServerKeeps
    BY <1>4, ServerKeepsAll DEF Serves, Interrupts
  <2>2. \A c \in Conns : out[c] # <<>> => out'[c] = out[c]
    BY ServerHalf, OutSettled DEF IndInv
  <2> QED
    BY <1>0, <2>1, <2>2 DEF ResetInv, ServerKeeps
<1>5. ASSUME NEW c \in Own, Hangs(c) \/ Bounces(c) PROVE ResetInv'
  BY <1>0, <1>5, EndFacts DEF ResetInv
<1>6. CASE Others
  BY <1>0, <1>6, OthersFacts DEF ResetInv, OthersKeep
<1> QED
  BY <1>1, <1>2, <1>3, <1>4, <1>5, <1>6 DEF CNext, ClientStep, Alone, AllGone

\* The connections on which SHUTDOWN was obeyed and answered.
Obeyed(c) == ip[c] = AdminIp /\ Says(read[c], Shutdown) /\ out[c] # <<>>

\* There is a new one only when Echo leads to the end of main's loop body.
LEMMA ObeyedFacts == IndInv /\ [Next]_vars =>
    \A c \in Conns : Obeyed(c)' => Obeyed(c) \/ pc' = "loop"
<1> SUFFICES ASSUME IndInv, [Next]_vars, pc' # "loop", NEW c \in Conns, Obeyed(c)'
             PROVE  Obeyed(c)
  OBVIOUS
<1>0. ~Says(<<>>, Shutdown)
  BY DEF Says, IsPrefix, Shutdown
<1>1. CASE Quiet
  BY <1>0, <1>1 DEF Quiet, Obeyed
<1>2. ASSUME NEW d \in Conns, RecvFromBanned(d) \/ RecvIgnored(d) \/ RecvMessage(d)
      PROVE  Obeyed(c)
  <2>1. Receives(d) /\ UNCHANGED <<clientFd, fds, link, ip, out>>
    BY <1>2 DEF RecvFromBanned, RecvIgnored, RecvMessage, kernel
  <2> QED
    BY <2>1, JustRead DEF Obeyed
<1>3. ASSUME NEW d \in Conns, Refuse(d) \/ Echo(d) PROVE FALSE
  BY <1>3 DEF Refuse, Echo
<1> QED
  BY <1>1, <1>2, <1>3, QuietSteps

\* Every step keeps the server stopped.
LEMMA NextStopped ==
  IndInv /\ AnsweredInv /\ AnsweredInv' /\ StoppedInv /\ [Next]_vars => StoppedInv'
<1> SUFFICES ASSUME IndInv, AnsweredInv, AnsweredInv', StoppedInv, [Next]_vars
             PROVE  StoppedInv'
  OBVIOUS
<1> DEFINE Ending == {"loop", "exit", "dead"}
           Stopped == \E c \in Conns : Obeyed(c)
<1>0. TypeOK /\ BootInv /\ TableInv /\ ~Says(<<>>, Shutdown)
  BY DEF IndInv, Says, IsPrefix, Shutdown
<1>1. Stopped' => Stopped \/ pc' = "loop"
  BY ObeyedFacts
<1>2. ASSUME pc' = pc \/ pc' \in Ending, running' = running PROVE StoppedInv'
  BY <1>1, <1>2 DEF StoppedInv, Obeyed
<1>3. Stopped => ~running /\ pc \in Ending
  BY DEF StoppedInv, AnsweredInv, Obeyed
<1>4. ASSUME pc \notin Ending, running, running' = running, pc' # "loop"
      PROVE  StoppedInv'
  BY <1>1, <1>3, <1>4 DEF StoppedInv, Obeyed
<1>5. CASE Main
  <2>1. \A c \in Conns : read[c] = <<>> /\ read' = read /\ ip' = ip /\ out' = out
    BY <1>0, <1>5 DEF Main, BootInv, TableInv, Starting, network, history
  <2>2. running' = TRUE /\ pc' = "logger"
    BY <1>5 DEF Main
  <2> QED
    BY <1>0, <2>1, <2>2 DEF StoppedInv
<1>6. CASE OpenLog \/ Listen \/ RunServer \/ AcceptReturns \/ AcceptSleeps \/ RecvSleeps
  <2>1. /\ pc \in {"logger", "socket", "run", "accept", "accepting", "recv"}
        /\ running' = running /\ pc' # "loop"
    BY <1>6 DEF OpenLog, Listen, RunServer, AcceptReturns, AcceptSleeps, RecvSleeps, flags
  <2>2. running
    BY <2>1 DEF StoppedInv
  <2> QED
    BY <1>4, <2>1, <2>2
<1>7. CASE AcceptFails \/ SignalInAccept
  <2>1. /\ pc \in {"accept", "accepting"} /\ running' = running /\ pc' = "recv"
    BY <1>7 DEF AcceptFails, AcceptRefused, AcceptFaults, SignalInAccept, AcceptError, flags
  <2>2. running
    BY <2>1 DEF StoppedInv
  <2> QED
    BY <1>4, <2>1, <2>2
<1>8. CASE \/ LogFails \/ SetupFails \/ RecvNothing \/ SendRaisesSigpipe \/ DestroyServer
           \/ DestroyOther \/ Exit \/ SignalKills \/ SignalInRecv \/ SignalNoted \/ Gone
           \/ UNCHANGED vars
  <2>1. (pc' = pc \/ pc' \in Ending) /\ running' = running
    BY <1>8
    DEF LogFails, SetupFails, RecvNothing, SendRaisesSigpipe, DestroyServer, DestroyOther,
        Exit, SignalKills, SignalInRecv, SignalNoted, Gone, ProcessEnds, vars, process,
        flags
  <2> QED
    BY <1>2, <2>1
<1>9. CASE Loop
  <2>1. /\ pc = "loop" /\ running' = running
        /\ pc' \in Ending \/ (running /\ pc' = "run")
    BY <1>9 DEF Loop, flags
  <2> QED
    BY <1>1, <1>2, <1>3, <2>1 DEF StoppedInv, Obeyed
<1>10. ASSUME NEW c \in Conns, RecvFromBanned(c) PROVE StoppedInv'
  <2>1. pc \in {"recv", "receiving"} /\ running' = running /\ pc' \in {"refuse", "loop"}
    BY <1>10 DEF RecvFromBanned, Receives, flags
  <2>2. running
    BY <2>1 DEF StoppedInv
  <2> QED
    BY <1>2, <1>4, <2>1, <2>2
<1>11. ASSUME NEW c \in Conns, RecvIgnored(c) \/ Refuse(c) \/ Echo(c) PROVE StoppedInv'
  <2>1. pc' = "loop" /\ running' = running
    BY <1>11 DEF RecvIgnored, Refuse, Echo, flags
  <2> QED
    BY <1>2, <2>1
<1>12. ASSUME NEW c \in Conns, RecvMessage(c) PROVE StoppedInv'
  <2>1. pc \in {"recv", "receiving"} /\ pc' = "echo"
    BY <1>12 DEF RecvMessage, Receives
  <2> QED
    BY <1>1, <1>3, <2>1 DEF StoppedInv, Obeyed
<1>13. CASE PeerStep
  <2>1. UNCHANGED <<pc, running>>
    BY <1>13 DEF PeerStep, PeerConnect, PeerSend, PeerFin, PeerReset, process, flags
  <2> QED
    BY <1>2, <2>1
<1> QED
  BY <1>5, <1>6, <1>7, <1>8, <1>9, <1>10, <1>11, <1>12, <1>13
  DEF Next, ServerStep, Signal

-----------------------------------------------------------------------------
(* The invariant of the two.                                               *)

BothInv ==
    /\ IndInv /\ AnsweredInv /\ UserProofs!ClientInv
    /\ MeetInv /\ MessageInv /\ AnswerInv /\ SentInv /\ ResetInv /\ StoppedInv
    /\ HeldInv /\ NoneUnheard

\* It holds of every initial state,
LEMMA InitBoth == CInit => BothInv
<1> SUFFICES ASSUME CInit PROVE BothInv
  OBVIOUS
<1>1. /\ Init /\ IndInv /\ UserProofs!ClientInv
      /\ home \in Homes /\ conn = "none" /\ cLink = "none" /\ reply = "none"
  BY InitInd, ClientInit DEF CInit, User!Init
<1>2. /\ \A c \in Conns : inbox[c] = <<>> /\ out[c] = <<>> /\ link[c] = "none"
      /\ pc = "start" /\ queue = <<>>
  BY <1>1 DEF Init
<1>3. Own \subseteq Conns
  BY OwnAssumption
<1> QED
  BY <1>1, <1>2, <1>3
  DEF BothInv, AnsweredInv, Answering, MeetInv, MessageInv, AnswerInv, SentInv, ResetInv,
      StoppedInv, HeldInv, NoneUnheard, Unheard

\* is kept by every step,
LEMMA NextBoth == BothInv /\ [CNext]_allvars => BothInv'
<1> SUFFICES ASSUME BothInv, [CNext]_allvars PROVE BothInv'
  OBVIOUS
<1>1. /\ IndInv /\ AnsweredInv /\ UserProofs!ClientInv
      /\ MeetInv /\ MessageInv /\ AnswerInv /\ SentInv /\ ResetInv /\ StoppedInv
      /\ HeldInv /\ NoneUnheard
  BY DEF BothInv
<1>2. [Next]_vars
  BY <1>1, ServerHalf
<1>3. IndInv' /\ AnsweredInv'
  BY <1>1, <1>2, NextInd, NextAnswered
<1>4. UserProofs!ClientInv'
  BY <1>1, ClientNext
<1>5. MeetInv' /\ MessageInv' /\ AnswerInv' /\ SentInv' /\ ResetInv'
  BY <1>1, NextMeet, NextMessage, NextAnswer, NextSent, NextReset
<1>6. StoppedInv'
  BY <1>1, <1>2, <1>3, NextStopped
<1>7. HeldInv' /\ NoneUnheard'
  BY <1>1, <1>2, NextHeld, NextHeard DEF IndInv
<1> QED
  BY <1>3, <1>4, <1>5, <1>6, <1>7 DEF BothInv

\* and so holds always.
LEMMA BothAlways == CSpec => []BothInv
BY InitBoth, NextBoth, PTL DEF CSpec

-----------------------------------------------------------------------------
(* The theorems.                                                           *)

\* The two together behave, each for itself, as TcpServer and TcpClient say: a
\* program of the whole adds nothing to either, and keeps what was proved of it.
THEOREM EachKeepsItsSpec == CSpec => Spec /\ User!Spec
<1>1. CInit => Init /\ User!Init
  BY DEF CInit
<1>2. BothInv /\ [CNext]_allvars => [Next]_vars
  BY ServerHalf DEF BothInv
<1>3. [CNext]_allvars => [User!Next]_(User!vars)
  BY ClientHalf
<1> QED
  BY <1>1, <1>2, <1>3, BothAlways, PTL DEF CSpec, Spec, User!Spec

\* What a client that has returned knows of its message and of the reply.
LEMMA VerdictFacts ==
  ASSUME UserProofs!ClientInv, cPc \in {"idle", "return"}
  PROVE  /\ result = "success" => sent # "none" /\ reply = "other"
         /\ result = "failure" => sent = "none" \/ reply # "other"
         /\ cLink # "up" \/ reply # "none"
         /\ reply # "none" => sent # "none"
         /\ reply \in {"none", "notice", "other"}
<1>1. /\ result # "none" => (result = "success" <=> sent # "none" /\ reply = "other")
      /\ cLink # "up" \/ reply # "none"
      /\ reply # "none" => sent # "none"
  BY DEF UserProofs!ClientInv, UserProofs!VerdictInv, UserProofs!Served
<1>2. reply \in {"none", "notice", "other"}
  BY DEF UserProofs!ClientInv, UserProofs!TypeOK, UserProofs!Replies
<1> QED
  BY <1>1, <1>2

\* What the reply of the server says of the client.
LEMMA ReplyFacts ==
  ASSUME BothInv, reply # "none", sent # "none"
  PROVE  /\ conn \in Conns /\ ip[conn] = home /\ sent \in Spoken
         /\ reply = "notice" <=> home \in BannedIps
         /\ home \notin BannedIps => read[conn] = Wire(sent) /\ out[conn] = read[conn]
<1>1. /\ conn \in Conns /\ conn # "none" /\ ip[conn] = home /\ out[conn] # <<>>
      /\ reply = "notice" <=> CStringIs(out[conn], ClientNotice)
  BY OwnAssumption DEF BothInv, MeetInv, AnswerInv
<1>2. /\ sent \in Spoken
      /\ read[conn] = <<>> \/ read[conn] = Wire(sent)
  BY <1>1 DEF BothInv, MessageInv, Spoken
<1>3. out[conn] = IF home \in BannedIps THEN BannedMessage ELSE read[conn]
  BY <1>1 DEF BothInv, IndInv, ReplyIntegrity
<1>4. CASE home \in BannedIps
  <2>1. CStringIs(BannedMessage, ClientNotice)
    BY DEF CStringIs, IsPrefix, BannedMessage, ClientNotice
  <2> QED
    BY <1>1, <1>2, <1>3, <1>4, <2>1
<1>5. CASE home \notin BannedIps
  <2>1. out[conn] = read[conn] /\ read[conn] = Wire(sent)
    BY <1>1, <1>2, <1>3, <1>5
  <2> QED
    BY <1>1, <1>2, <1>5, <2>1, WireFacts
<1> QED
  BY <1>4, <1>5

\* What ConnectToServer returned and what the server did agree: success for the
\* exact echo of the message, failure for a ban or a dropped connection.
THEOREM VerdictsAgree == CSpec => []VerdictAgrees
<1>1. BothInv => VerdictAgrees
  <2> SUFFICES ASSUME BothInv, cPc \in {"idle", "return"}
               PROVE  /\ result = "success" =>
                             /\ home \notin BannedIps
                             /\ read[conn] = Wire(sent) /\ out[conn] = read[conn]
                      /\ result = "failure" /\ conn # "none" =>
                             \/ home \in BannedIps /\ reply = "notice"
                             \/ link[conn] = "gone"
    BY DEF VerdictAgrees, Said
  <2>1. UserProofs!ClientInv /\ AnswerInv
    BY DEF BothInv
  <2>2. ASSUME result = "success"
        PROVE  /\ home \notin BannedIps
               /\ read[conn] = Wire(sent) /\ out[conn] = read[conn]
    BY <2>1, <2>2, VerdictFacts, ReplyFacts
  <2>3. ASSUME result = "failure", conn # "none"
        PROVE  (home \in BannedIps /\ reply = "notice") \/ link[conn] = "gone"
    <3>1. CASE cLink # "up"
      BY <2>1, <2>3, <3>1 DEF AnswerInv
    <3>2. CASE reply # "none"
      BY <2>1, <2>3, <3>2, VerdictFacts, ReplyFacts
    <3> QED
      BY <2>1, <3>1, <3>2, VerdictFacts
  <2> QED
    BY <2>2, <2>3
<1> QED
  BY <1>1, BothAlways, PTL

\* The administrator who is told that SHUTDOWN succeeded has stopped the server.
THEOREM ToldMeansStopped == CSpec => []ToldShutdownStops
<1>1. BothInv => ToldShutdownStops
  <2> SUFFICES ASSUME BothInv, cPc \in {"idle", "return"}, result = "success",
                      sent = "SHUTDOWN", home = AdminIp
               PROVE  ~running /\ pc \in {"loop", "exit", "dead"}
    BY DEF ToldShutdownStops, Said
  <2>1. UserProofs!ClientInv /\ AnswerInv /\ AnsweredInv /\ StoppedInv
    BY DEF BothInv
  <2>2. reply # "none" /\ sent # "none"
    BY <2>1, VerdictFacts
  <2>3. conn \in Conns /\ ip[conn] = AdminIp /\ out[conn] # <<>>
    BY <2>1, <2>2, ReplyFacts DEF AnswerInv
  <2>4. Says(read[conn], Shutdown)
    BY <2>2, ReplyFacts DEF Says, Wire, AdminIp, BannedIps
  <2> QED
    BY <2>1, <2>3, <2>4 DEF AnsweredInv, StoppedInv
<1> QED
  BY <1>1, BothAlways, PTL

\* No connection of a KCNet client makes the server die of SIGPIPE.
THEOREM NeverKills == CSpec => ClientNeverKills
<1> DEFINE Spared == status # "killed" /\ status' = "killed" /\ pc # "start" => Client \notin Own
<1>1. BothInv /\ [CNext]_allvars => [Spared]_allvars
  <2> SUFFICES ASSUME BothInv, [CNext]_allvars, status # "killed", status' = "killed",
                      pc # "start", Client \in Own
               PROVE  FALSE
    OBVIOUS
  <2>1. [Next]_vars /\ ResetInv /\ ServeInv
    BY ServerHalf DEF BothInv, IndInv
  <2>2. SendRaisesSigpipe
    <3>1. CASE SendRaisesSigpipe
      BY <3>1
    <3>2. CASE \/ Main \/ OpenLog \/ LogFails \/ Listen \/ SetupFails \/ RunServer
               \/ AcceptReturns \/ AcceptSleeps \/ AcceptFails
      BY <3>2
      DEF Main, OpenLog, LogFails, Listen, SetupFails, RunServer, AcceptReturns,
          AcceptSleeps, AcceptFails, AcceptRefused, AcceptFaults, AcceptError, ProcessEnds
    <3>3. ASSUME NEW c \in Conns, \/ RecvFromBanned(c) \/ RecvIgnored(c) \/ RecvMessage(c)
                                  \/ Refuse(c) \/ Echo(c)
          PROVE  FALSE
      BY <3>3 DEF RecvFromBanned, RecvIgnored, RecvMessage, Refuse, Echo
    <3>4. CASE \/ RecvNothing \/ RecvSleeps \/ Loop \/ DestroyServer \/ DestroyOther \/ Exit
      BY <3>4
      DEF RecvNothing, RecvSleeps, Loop, DestroyServer, DestroyOther, Exit, ProcessEnds
    <3>5. CASE Signal
      BY <3>5
      DEF Signal, SignalKills, SignalInAccept, SignalInRecv, SignalNoted, AcceptError,
          process
    <3>6. CASE PeerStep
      BY <3>6 DEF PeerStep, PeerConnect, PeerSend, PeerFin, PeerReset, process
    <3>7. CASE Gone \/ UNCHANGED vars
      BY <3>7 DEF Gone, vars, process
    <3> QED
      BY <2>1, <3>1, <3>2, <3>3, <3>4, <3>5, <3>6, <3>7 DEF Next, ServerStep
  <2>3. pc \in {"refuse", "echo"} /\ link[Client] = "finrst"
    BY <2>2 DEF SendRaisesSigpipe
  <2> QED
    BY <2>1, <2>3 DEF ResetInv, ServeInv
<1> QED
  BY <1>1, BothAlways, PTL DEF CSpec, ClientNeverKills

\* A client that waits in recv has not been forgotten: until the ban flag mutes
\* the server, what it waits for is under way or RunServer still comes to it.
THEOREM NeverLeftWaiting == CSpec => []NeverForgotten
<1>1. BothInv => NeverForgotten
  <2> SUFFICES ASSUME BothInv, cPc = "recv", cLink = "up", ~banned,
                      out[conn] = <<>>, link[conn] # "gone", ~Answering(conn),
                      pc # "exit", ~(pc = "loop" /\ quit)
               PROVE  /\ inbox[conn] = Wire(sent)
                      /\ conn \in ToSet(queue) \/ Hearing(conn)
    BY DEF NeverForgotten
  <2>1. conn # "none" /\ conn \in Own /\ conn \in Conns /\ link[conn] # "none"
    BY OwnAssumption DEF BothInv, MeetInv
  <2>2. sent # "none"
    BY DEF BothInv, UserProofs!ClientInv, UserProofs!VerdictInv
  <2>3. link[conn] = "up"
    BY <2>1 DEF BothInv, SentInv
  <2>4. Lives
    <3>1. pc \notin Starting /\ pc # "dead"
      BY <2>1, <2>3 DEF BothInv, IndInv, BootInv, HeldInv
    <3> QED
      BY <3>1 DEF BothInv, IndInv, TypeOK, Pcs, Starting, Serving, Lives
  <2>5. read[conn] = <<>>
    BY <2>1, <2>3, <2>4 DEF BothInv, IndInv, SilentInv
  <2>6. inbox[conn] = Wire(sent)
    BY <2>1, <2>2, <2>3, <2>5 DEF BothInv, SentInv
  <2>7. Awaited(conn)
    BY <2>1, <2>3, <2>5 DEF BothInv, NoneUnheard, Unheard
  <2> QED
    BY <2>6, <2>7 DEF Awaited
<1> QED
  BY <1>1, BothAlways, PTL
=============================================================================
