-------------------------- MODULE TcpClient_proofs --------------------------
(* Theorems about the client, for either build, every size of the          *)
(* descriptor table and every set of calls that may fail, with proofs.     *)
EXTENDS TcpClient, FiniteSetTheorems, TLAPS

Calling == {"generate", "read", "socket", "connect", "send", "recv"}

\* The locals of a call name the descriptors it opened.
OwnInv ==
    /\ pc \in Calling => fd_ \in Fd /\ OpenAs("member") = {fd_}
    /\ pc \notin Calling => OpenAs("member") = {}
    /\ pc = "read" => fd \in OpenAs("random")
    /\ pc = "connect" => sock \in OpenAs("socket")
    /\ pc \in {"send", "recv"} =>
          /\ sock = -1 \/ sock \in OpenAs("socket")
          /\ sock = -1 <=> link = "none"

HasSocket == pc = "connect" \/ (pc \in {"send", "recv"} /\ sock # -1)

\* GenerateRandom and ConnectToServer hold one descriptor that is not counted
\* as a leak yet.
CountInv ==
    pc # "dead" =>
        /\ Cardinality(OpenAs("random")) = generated + (IF pc = "read" THEN 1 ELSE 0)
        /\ Cardinality(OpenAs("socket")) =
               answered + (IF HasSocket THEN 1 ELSE 0)

\* What a call has opened it has taken from the room that it found.
RoomInv ==
    /\ pc = "construct" => Cardinality(OpenAs("free")) = room
    /\ pc = "generate" => Cardinality(OpenAs("free")) = room - 1
    /\ pc \in {"read", "socket"} => Cardinality(OpenAs("free")) >= room - 2

\* The value is random as long as only a full table makes calls fail: the text
\* of an error finds the table full when it comes to the socket.
ValueInv ==
    /\ pc \in {"connect", "send"} /\ ~faulty => randomValue = "random"
    /\ pc = "socket" /\ ~faulty => randomValue = "random" \/ TableFull
    /\ pc \in {"socket", "connect", "send"} => randomValue # "none"
    /\ Faults = {} => ~faulty
    /\ build = "console" => command = "URANDOM_MESSAGE"
    /\ build = "gui" => pc \notin {"main", "return"}
    /\ build = "console" => pc # "idle"

\* What the call knows of its message and of the reply.
Served == sent # "none" /\ reply = "other"
VerdictInv ==
    /\ pc \in {"construct", "generate", "read", "socket", "connect", "send"} =>
          sent = "none" /\ reply = "none" /\ inbox = "none" /\ result = "none"
    /\ pc = "recv" => result = "none" /\ inbox = reply /\ (link = "up" => sent # "none")
    /\ pc \in {"construct", "generate", "read", "socket", "connect"} => link = "none"
    /\ inbox # "none" \/ reply # "none" => sent # "none"
    /\ pc = "return" => result # "none"
    /\ pc # "dead" => status = "none"
    /\ link = "none" => sent = "none" /\ reply = "none"
    /\ pc \in {"idle", "return"} /\ result # "none" => (result = "success" <=> Served)
    /\ pc \in {"idle", "main", "return"} => link # "up" \/ reply # "none"
    /\ pc = "dead" /\ status # "killed" => link # "up" \/ sent = "none" \/ reply # "none"
    /\ build = "console" /\ pc = "dead" /\ status # "killed" =>
          (status = "success" <=> Served)

ClientInv ==
    /\ TypeOK /\ OwnInv /\ CountInv /\ RoomInv /\ ValueInv /\ VerdictInv
    /\ SendsWhatWasChosen /\ EndsOnlyWhenStarved

-----------------------------------------------------------------------------
(* Descriptors and how many there are.                                     *)

\* The entries of the table are finitely many.
LEMMA TableFinite ==
  ASSUME NEW e
  PROVE  /\ IsFiniteSet(OpenAs(e))
         /\ Cardinality(OpenAs(e)) \in Nat /\ Cardinality(OpenAs(e)) <= FdLimit
         /\ IsFiniteSet(OpenAs(e)')
         /\ Cardinality(OpenAs(e)') \in Nat
<1>1. IsFiniteSet(Fd) /\ Cardinality(Fd) = FdLimit
  BY FS_Interval, FdAssumption DEF Fd
<1>2. OpenAs(e) \in SUBSET Fd /\ OpenAs(e)' \in SUBSET Fd
  BY DEF OpenAs
<1> QED
  BY <1>1, <1>2, FS_Subset, FS_CardinalityType

\* What opening does to the table.
LEMMA OpensFacts ==
  ASSUME TypeOK, NEW e \in FdEntries \ {"free"}, NEW n, Opens(e, n)
  PROVE  /\ n \in Fd /\ n \in OpenAs("free") /\ n \in OpenAs(e)'
         /\ fds' \in [Fd -> FdEntries]
         /\ OpenAs(e)' = OpenAs(e) \cup {n}
         /\ OpenAs("free")' = OpenAs("free") \ {n}
         /\ \A f \in FdEntries \ {e, "free"} : OpenAs(f)' = OpenAs(f)
         /\ Cardinality(OpenAs(e)') = Cardinality(OpenAs(e)) + 1
         /\ Cardinality(OpenAs("free")') = Cardinality(OpenAs("free")) - 1
<1>1. n \in Fd /\ n \in OpenAs("free") /\ n \notin OpenAs(e)
  BY DEF Opens, OpenAs
<1>2. /\ fds' \in [Fd -> FdEntries] /\ n \in OpenAs(e)'
      /\ OpenAs(e)' = OpenAs(e) \cup {n}
      /\ OpenAs("free")' = OpenAs("free") \ {n}
      /\ \A f \in FdEntries \ {e, "free"} : OpenAs(f)' = OpenAs(f)
  BY <1>1 DEF Opens, OpenAs, TypeOK
<1>3. /\ Cardinality(OpenAs(e)') = Cardinality(OpenAs(e)) + 1
      /\ Cardinality(OpenAs("free")') = Cardinality(OpenAs("free")) - 1
  <2>1. Cardinality(OpenAs(e) \cup {n}) = Cardinality(OpenAs(e)) + 1
    BY <1>1, TableFinite, FS_AddElement
  <2>2. Cardinality(OpenAs("free") \ {n}) = Cardinality(OpenAs("free")) - 1
    BY <1>1, TableFinite, FS_RemoveElement
  <2> QED
    BY <1>2, <2>1, <2>2
<1> QED
  BY <1>1, <1>2, <1>3

\* What closing does to the table.
LEMMA WithoutFacts ==
  ASSUME TypeOK, NEW F, fds' = Without(F)
  PROVE  /\ fds' \in [Fd -> FdEntries]
         /\ \A e \in FdEntries \ {"free"} : OpenAs(e)' = OpenAs(e) \ F
         /\ \A n \in Fd : fds'[n] = IF n \in F THEN "free" ELSE fds[n]
BY DEF Without, OpenAs, TypeOK, FdEntries

\* Closing one descriptor more or less.
LEMMA CountWithout ==
  ASSUME NEW e, NEW n
  PROVE  Cardinality(OpenAs(e) \ {n}) =
             Cardinality(OpenAs(e)) - (IF n \in OpenAs(e) THEN 1 ELSE 0)
<1>1. IsFiniteSet(OpenAs(e)) /\ Cardinality(OpenAs(e)) \in Nat
  BY TableFinite
<1>2. Cardinality(OpenAs(e) \ {n}) =
          IF n \in OpenAs(e) THEN Cardinality(OpenAs(e)) - 1 ELSE Cardinality(OpenAs(e))
  BY <1>1, FS_RemoveElement
<1> QED
  BY <1>1, <1>2

\* A descriptor has one entry.
LEMMA OneEntry ==
  ASSUME NEW d, NEW e, d # e, NEW n, n \in OpenAs(d)
  PROVE  n \in Fd /\ n \notin OpenAs(e)
BY DEF OpenAs

\* The end of the process leaves no descriptor.
LEMMA EndsFacts ==
  ASSUME TypeOK, NEW how, ProcessEnds(how)
  PROVE  /\ pc' = "dead" /\ status' = how
         /\ fds' \in [Fd -> FdEntries]
         /\ \A e \in FdEntries \ {"free"} : OpenAs(e)' = {}
<1>1. \A e : OpenAs(e) \ Fd = {}
  BY DEF OpenAs
<1> QED
  BY <1>1, WithoutFacts DEF ProcessEnds

\* The actions by which the process ends.
Dies == \/ Quit \/ Kill \/ MainReturns \/ ConstructUrandomThrows \/ GenerateRandomThrows
        \/ SocketFails \/ SendRaisesSigpipe

LEMMA DiesFacts ==
  ASSUME TypeOK, Dies
  PROVE  /\ pc' = "dead" /\ fds' \in [Fd -> FdEntries]
         /\ status' \in Statuses /\ faulty' \in BOOLEAN
         /\ \A e \in FdEntries \ {"free"} : OpenAs(e)' = {}
         /\ faulty => faulty'
         /\ Faults = {} /\ ~faulty => ~faulty'
         /\ UNCHANGED <<build, choice, locals, connection, sent, reply, room, counts>>
<1> USE DEF Statuses, history
<1>1. CASE Quit \/ Kill \/ SendRaisesSigpipe
  <2>1. PICK how \in Statuses : ProcessEnds(how)
    BY <1>1 DEF Quit, Kill, SendRaisesSigpipe
  <2>2. UNCHANGED <<build, choice, locals, connection, history>>
    BY <1>1 DEF Quit, Kill, SendRaisesSigpipe
  <2>3. faulty \in BOOLEAN
    BY DEF TypeOK
  <2> QED
    BY <2>1, <2>2, <2>3, EndsFacts
<1>2. CASE MainReturns
  <2>1. ProcessEnds(result) /\ result \in Statuses
    BY <1>2 DEF MainReturns, TypeOK
  <2>2. UNCHANGED <<build, choice, locals, connection, history>>
    BY <1>2 DEF MainReturns
  <2>3. faulty \in BOOLEAN
    BY DEF TypeOK
  <2> QED
    BY <2>1, <2>2, <2>3, EndsFacts
<1>3. CASE ConstructUrandomThrows \/ GenerateRandomThrows \/ SocketFails
  <2>1. /\ \E how \in Statuses : ProcessEnds(how)
        /\ \E call : CallFails(call)
        /\ UNCHANGED <<build, choice, locals, connection, sent, reply, room, counts>>
    BY <1>3 DEF ConstructUrandomThrows, GenerateRandomThrows, SocketFails, Throws
  <2>2. PICK how \in Statuses : ProcessEnds(how)
    BY <2>1
  <2>3. /\ faulty' \in BOOLEAN /\ (faulty => faulty')
        /\ Faults = {} /\ ~faulty => ~faulty'
    <3>1. faulty \in BOOLEAN
      BY DEF TypeOK
    <3>2. faulty' = faulty \/ (faulty' = TRUE /\ Faults # {})
      BY <2>1, Zenon DEF CallFails
    <3>3. CASE faulty' = faulty
      BY <3>1, <3>3, Zenon
    <3>4. CASE faulty' = TRUE /\ Faults # {}
      BY <3>1, <3>4
    <3> QED
      BY <3>2, <3>3, <3>4, Zenon
  <2> QED
    BY <2>1, <2>2, <2>3, EndsFacts
<1> QED
  BY <1>1, <1>2, <1>3 DEF Dies

-----------------------------------------------------------------------------
(* Each part of ClientInv is kept by every step.                           *)

\* Every step keeps the types.
LEMMA NextType == TypeOK /\ OwnInv /\ CountInv /\ [Next]_vars => TypeOK'
<1> SUFFICES ASSUME TypeOK, OwnInv, CountInv, [Next]_vars PROVE TypeOK'
  OBVIOUS
<1> USE DEF locals, connection, counts, history
<1>1. CASE Dies
  <2>1. /\ pc' = "dead" /\ fds' \in [Fd -> FdEntries]
        /\ status' \in Statuses /\ faulty' \in BOOLEAN
        /\ UNCHANGED <<build, choice, locals, connection, sent, reply, room, counts>>
    BY <1>1, DiesFacts
  <2> QED
    BY <2>1 DEF TypeOK, Pcs
<1>2. CASE Click \/ Main
  <2>1. Cardinality(OpenAs("free")) \in 0 .. FdLimit
    BY TableFinite, FdAssumption
  <2>2. command' \in Commands
    BY <1>2 DEF Click, Main, TypeOK
  <2>3. Calls
    BY <1>2 DEF Click, Main
  <2> QED
    BY <2>1, <2>2, <2>3 DEF Calls, TypeOK, Pcs, Values, Messages
<1>3. ASSUME NEW c \in Commands, Choose(c) PROVE TypeOK'
  BY <1>3 DEF Choose, TypeOK
<1>4. CASE ConstructUrandom
  <2>1. fd_' \in Fd /\ fds' \in [Fd -> FdEntries]
    BY <1>4, OpensFacts DEF ConstructUrandom, FdEntries
  <2> QED
    BY <1>4, <2>1 DEF ConstructUrandom, TypeOK, Pcs
<1>5. CASE OpenRandom
  <2>1. fd' \in Fd /\ fds' \in [Fd -> FdEntries]
    BY <1>5, OpensFacts DEF OpenRandom, FdEntries
  <2> QED
    BY <1>5, <2>1 DEF OpenRandom, TypeOK, Pcs
<1>6. CASE OpenRandomFails
  <2>1. faulty' \in BOOLEAN
    BY <1>6 DEF OpenRandomFails, CallFails, TypeOK
  <2> QED
    BY <1>6, <2>1 DEF OpenRandomFails, TypeOK, Pcs, Values, ErrorTexts
<1>7. CASE ReadRandomFails
  <2>1. fds' \in [Fd -> FdEntries]
    BY <1>7, WithoutFacts DEF ReadRandomFails
  <2> QED
    BY <1>7, <2>1 DEF ReadRandomFails, TypeOK, Pcs, Values, ErrorTexts
<1>8. CASE GenerateRandom
  <2>1. generated + 1 = Cardinality(OpenAs("random")) /\ generated \in Nat
    BY <1>8 DEF GenerateRandom, CountInv, TypeOK
  <2>2. generated + 1 \in 0 .. FdLimit
    BY <2>1, TableFinite, FdAssumption
  <2> QED
    BY <1>8, <2>2 DEF GenerateRandom, TypeOK, Pcs, Values
<1>9. CASE CreateSocket
  <2>1. sock' \in Fd /\ fds' \in [Fd -> FdEntries]
    BY <1>9, OpensFacts DEF CreateSocket, FdEntries
  <2> QED
    BY <1>9, <2>1 DEF CreateSocket, TypeOK, Pcs
<1>10. CASE Connect
  BY <1>10 DEF Connect, TypeOK, Pcs
<1>11. CASE ConnectFails
  <2>1. fds' \in [Fd -> FdEntries]
    BY <1>11, WithoutFacts DEF ConnectFails
  <2> QED
    BY <1>11, <2>1 DEF ConnectFails, TypeOK, Pcs
<1>12. CASE SendMessageToServer
  <2>1. Message \in Messages
    BY DEF Message, TypeOK, Messages, Commands
  <2>2. sent' \in Messages
    BY <1>12, <2>1 DEF SendMessageToServer, TypeOK
  <2> QED
    BY <1>12, <2>2 DEF SendMessageToServer, TypeOK, Pcs
<1>13. CASE RecvReply
  <2>1. answered + 1 = Cardinality(OpenAs("socket")) /\ answered \in Nat
    <3>1. sock # -1
      BY <1>13 DEF RecvReply, Fd
    <3> QED
      BY <1>13, <3>1 DEF RecvReply, CountInv, HasSocket, TypeOK
  <2>2. answered + 1 \in 0 .. FdLimit
    BY <2>1, TableFinite, FdAssumption
  <2>3. /\ fds' \in [Fd -> FdEntries] /\ pc' \in {"idle", "return"}
        /\ result' \in {"success", "failure"}
    BY <1>13, WithoutFacts DEF RecvReply, Returns
  <2> QED
    BY <1>13, <2>2, <2>3 DEF RecvReply, Returns, TypeOK, Pcs
<1>14. CASE RecvNothing
  <2>1. /\ fds' \in [Fd -> FdEntries] /\ pc' \in {"idle", "return"}
        /\ result' = "failure"
    BY <1>14, WithoutFacts DEF RecvNothing, Returns
  <2> QED
    BY <1>14, <2>1 DEF RecvNothing, Returns, TypeOK, Pcs
<1>15. ASSUME NEW r \in Replies, ServerAnswers(r) PROVE TypeOK'
  BY <1>15 DEF ServerAnswers, TypeOK
<1>16. CASE ServerCloses \/ ServerResets
  BY <1>16 DEF ServerCloses, ServerResets, TypeOK
<1>17. CASE Gone \/ UNCHANGED vars
  BY <1>17 DEF Gone, vars, TypeOK
<1> QED
  BY <1>1, <1>2, <1>3, <1>4, <1>5, <1>6, <1>7, <1>8, <1>9, <1>10, <1>11, <1>12,
     <1>13, <1>14, <1>15, <1>16, <1>17
  DEF Next, User, ClientStep, Server, Dies

\* Every step keeps what the locals name.
LEMMA NextOwn == TypeOK /\ OwnInv /\ VerdictInv /\ [Next]_vars => OwnInv'
<1> SUFFICES ASSUME TypeOK, OwnInv, VerdictInv, [Next]_vars PROVE OwnInv'
  OBVIOUS
<1> USE DEF locals, connection, counts, history, Calling, FdEntries
<1>1. CASE Dies
  BY <1>1, DiesFacts DEF OwnInv
<1>2. CASE Click \/ Main
  BY <1>2 DEF Click, Main, Calls, OwnInv, OpenAs
<1>3. ASSUME NEW c \in Commands, Choose(c) PROVE OwnInv'
  BY <1>3 DEF Choose, OwnInv, OpenAs
<1>4. CASE ConstructUrandom
  BY <1>4, OpensFacts DEF ConstructUrandom, OwnInv
<1>5. CASE OpenRandom
  BY <1>5, OpensFacts DEF OpenRandom, OwnInv
<1>6. CASE OpenRandomFails
  BY <1>6 DEF OpenRandomFails, OwnInv, OpenAs
<1>7. CASE ReadRandomFails
  <2>1. fd \notin OpenAs("member")
    BY <1>7, OneEntry DEF ReadRandomFails, OwnInv
  <2>2. fds' = Without({fd})
    BY <1>7, Zenon DEF ReadRandomFails
  <2>3. OpenAs("member")' = OpenAs("member")
    BY <2>1, <2>2, WithoutFacts
  <2> QED
    BY <1>7, <2>3 DEF ReadRandomFails, OwnInv
<1>8. CASE GenerateRandom
  BY <1>8 DEF GenerateRandom, OwnInv, OpenAs
<1>9. CASE CreateSocket
  BY <1>9, OpensFacts DEF CreateSocket, OwnInv
<1>10. CASE Connect
  BY <1>10 DEF Connect, OwnInv, OpenAs, Fd
<1>11. CASE ConnectFails
  <2>1. sock \notin OpenAs("member")
    BY <1>11, OneEntry DEF ConnectFails, OwnInv
  <2> QED
    BY <1>11, <2>1, WithoutFacts DEF ConnectFails, OwnInv, VerdictInv
<1>12. CASE SendMessageToServer
  BY <1>12 DEF SendMessageToServer, OwnInv, OpenAs
<1>13. CASE RecvReply \/ RecvNothing
  <2>1. PICK F : /\ fd_ \in F /\ fds' = Without(F)
                 /\ pc' \in {"idle", "return"}
    BY <1>13 DEF RecvReply, RecvNothing, Returns
  <2>2. OpenAs("member")' = {}
    BY <1>13, <2>1, WithoutFacts DEF RecvReply, RecvNothing, OwnInv
  <2> QED
    BY <2>1, <2>2 DEF OwnInv
<1>14. ASSUME NEW r \in Replies, ServerAnswers(r) PROVE OwnInv'
  BY <1>14 DEF ServerAnswers, OwnInv, OpenAs
<1>15. CASE ServerCloses \/ ServerResets
  BY <1>15 DEF ServerCloses, ServerResets, OwnInv, OpenAs
<1>16. CASE Gone \/ UNCHANGED vars
  BY <1>16 DEF Gone, vars, OwnInv, OpenAs
<1> QED
  BY <1>1, <1>2, <1>3, <1>4, <1>5, <1>6, <1>7, <1>8, <1>9, <1>10, <1>11, <1>12,
     <1>13, <1>14, <1>15, <1>16
  DEF Next, User, ClientStep, Server, Dies

\* Every step keeps the account of the descriptors.
LEMMA NextCount == TypeOK /\ OwnInv /\ CountInv /\ [Next]_vars => CountInv'
<1> SUFFICES ASSUME TypeOK, OwnInv, CountInv, [Next]_vars PROVE CountInv'
  OBVIOUS
<1> USE DEF locals, connection, counts, history, FdEntries, HasSocket
<1>1. CASE Dies
  BY <1>1, DiesFacts DEF CountInv
<1>2. CASE Click \/ Main
  BY <1>2 DEF Click, Main, Calls, CountInv, OpenAs
<1>3. ASSUME NEW c \in Commands, Choose(c) PROVE CountInv'
  BY <1>3 DEF Choose, CountInv, OpenAs
<1>4. CASE ConstructUrandom
  BY <1>4, OpensFacts DEF ConstructUrandom, CountInv
<1>5. CASE OpenRandom
  BY <1>5, OpensFacts DEF OpenRandom, CountInv, TypeOK
<1>6. CASE OpenRandomFails
  BY <1>6 DEF OpenRandomFails, CountInv, OpenAs
<1>7. CASE ReadRandomFails
  <2>1. fd \in OpenAs("random") /\ fd \notin OpenAs("socket")
    BY <1>7, OneEntry DEF ReadRandomFails, OwnInv
  <2>2. fds' = Without({fd})
    BY <1>7, Zenon DEF ReadRandomFails
  <2>3. /\ OpenAs("random")' = OpenAs("random") \ {fd}
        /\ OpenAs("socket")' = OpenAs("socket")
    BY <2>1, <2>2, WithoutFacts
  <2>4. Cardinality(OpenAs("random")') = Cardinality(OpenAs("random")) - 1
    BY <2>1, <2>3, CountWithout
  <2>5. /\ pc = "read" /\ pc' = "socket"
        /\ generated' = generated /\ answered' = answered
    BY <1>7, Zenon DEF ReadRandomFails
  <2>6. Cardinality(OpenAs("random")) = generated + 1
    BY <2>5 DEF CountInv
  <2>7. generated \in Int
    BY DEF TypeOK
  <2>8. Cardinality(OpenAs("random")') = generated' + 0
    BY <2>4, <2>5, <2>6, <2>7
  <2>9. Cardinality(OpenAs("socket")') = answered' + 0
    BY <2>3, <2>5 DEF CountInv
  <2> QED
    BY <2>5, <2>8, <2>9 DEF CountInv
<1>8. CASE GenerateRandom
  BY <1>8 DEF GenerateRandom, CountInv, OpenAs, TypeOK
<1>9. CASE CreateSocket
  BY <1>9, OpensFacts DEF CreateSocket, CountInv, TypeOK
<1>10. CASE Connect
  <2>1. sock # -1
    BY <1>10 DEF Connect, OwnInv, OpenAs, Fd
  <2> QED
    BY <1>10, <2>1 DEF Connect, CountInv, OpenAs
<1>11. CASE ConnectFails
  <2>1. sock \in OpenAs("socket") /\ sock \notin OpenAs("random")
    BY <1>11, OneEntry DEF ConnectFails, OwnInv
  <2>2. /\ OpenAs("socket")' = OpenAs("socket") \ {sock}
        /\ OpenAs("random")' = OpenAs("random")
    BY <1>11, <2>1, WithoutFacts DEF ConnectFails
  <2>3. Cardinality(OpenAs("socket")') = Cardinality(OpenAs("socket")) - 1
    BY <2>1, <2>2, CountWithout
  <2> QED
    BY <1>11, <2>2, <2>3 DEF ConnectFails, CountInv, TypeOK
<1>12. CASE SendMessageToServer
  BY <1>12 DEF SendMessageToServer, CountInv, OpenAs
<1>13. CASE RecvReply
  <2>1. fd_ \notin OpenAs("socket") /\ fd_ \notin OpenAs("random")
    BY <1>13, OneEntry DEF RecvReply, OwnInv, Calling
  <2>2. fds' = Without({fd_}) /\ pc' \in {"idle", "return"} /\ sock # -1
    BY <1>13 DEF RecvReply, Returns, Fd
  <2>3. OpenAs("socket")' = OpenAs("socket") /\ OpenAs("random")' = OpenAs("random")
    BY <2>1, <2>2, WithoutFacts
  <2> QED
    BY <1>13, <2>2, <2>3 DEF RecvReply, CountInv, TypeOK
<1>14. CASE RecvNothing
  <2>1. fd_ \notin OpenAs("socket") /\ fd_ \notin OpenAs("random")
    BY <1>14, OneEntry DEF RecvNothing, OwnInv, Calling
  <2>2. sock \notin OpenAs("random") /\ (sock \in OpenAs("socket") <=> sock # -1)
    BY <1>14, OneEntry DEF RecvNothing, OwnInv, OpenAs, Fd
  <2>3. /\ OpenAs("socket")' = OpenAs("socket") \ {sock}
        /\ OpenAs("random")' = OpenAs("random")
    BY <1>14, <2>1, <2>2, WithoutFacts DEF RecvNothing, Returns
  <2>4. Cardinality(OpenAs("socket")') =
            Cardinality(OpenAs("socket")) - (IF sock # -1 THEN 1 ELSE 0)
    BY <2>2, <2>3, CountWithout
  <2>5. pc = "recv" /\ pc' \in {"idle", "return"} /\ UNCHANGED <<generated, answered>>
    BY <1>14 DEF RecvNothing, Returns
  <2> QED
    BY <2>3, <2>4, <2>5 DEF CountInv, TypeOK
<1>15. ASSUME NEW r \in Replies, ServerAnswers(r) PROVE CountInv'
  BY <1>15 DEF ServerAnswers, CountInv, OpenAs
<1>16. CASE ServerCloses \/ ServerResets
  BY <1>16 DEF ServerCloses, ServerResets, CountInv, OpenAs
<1>17. CASE Gone \/ UNCHANGED vars
  BY <1>17 DEF Gone, vars, CountInv, OpenAs
<1> QED
  BY <1>1, <1>2, <1>3, <1>4, <1>5, <1>6, <1>7, <1>8, <1>9, <1>10, <1>11, <1>12,
     <1>13, <1>14, <1>15, <1>16, <1>17
  DEF Next, User, ClientStep, Server, Dies

\* What the steps that only go on with a call leave alone.
LEMMA KeepsFaulty == TypeOK /\ [Next]_vars =>
    /\ faulty' \in BOOLEAN /\ (faulty => faulty')
    /\ Faults = {} /\ ~faulty => ~faulty'
<1> SUFFICES ASSUME TypeOK, [Next]_vars
             PROVE  /\ faulty' \in BOOLEAN /\ (faulty => faulty')
                    /\ Faults = {} /\ ~faulty => ~faulty'
  OBVIOUS
<1>1. faulty \in BOOLEAN
  BY DEF TypeOK
<1>2. CASE Dies
  BY <1>2, DiesFacts
<1>3. CASE OpenRandomFails \/ ReadRandomFails
  <2>1. faulty' = faulty \/ (faulty' = TRUE /\ Faults # {})
    BY <1>3, Zenon DEF OpenRandomFails, ReadRandomFails, CallFails
  <2>2. CASE faulty' = faulty
    BY <1>1, <2>2, Zenon
  <2>3. CASE faulty' = TRUE /\ Faults # {}
    BY <1>1, <2>3
  <2> QED
    BY <2>1, <2>2, <2>3, Zenon
<1>4. CASE ~Dies /\ ~OpenRandomFails /\ ~ReadRandomFails
  <2>1. faulty' = faulty
    BY <1>4 DEF Next, User, ClientStep, Server, Gone, vars, history, Dies, Choose, Click,
                Main, Calls, ConstructUrandom, OpenRandom, GenerateRandom, CreateSocket,
                Connect, ConnectFails, SendMessageToServer, RecvReply, RecvNothing,
                ServerAnswers, ServerCloses, ServerResets
  <2> QED
    BY <1>1, <2>1, Zenon
<1> QED
  BY <1>2, <1>3, <1>4, Zenon

\* Every step keeps the room.
LEMMA NextRoom == TypeOK /\ RoomInv /\ [Next]_vars => RoomInv'
<1> SUFFICES ASSUME TypeOK, RoomInv, [Next]_vars PROVE RoomInv'
  OBVIOUS
<1> USE DEF history, FdEntries
<1>0. room \in Int /\ Cardinality(OpenAs("free")) \in Int
  BY TableFinite, FdAssumption DEF TypeOK
<1>1. CASE Dies
  BY <1>1, DiesFacts DEF RoomInv
<1>2. CASE Click \/ Main
  BY <1>2 DEF Click, Main, Calls, RoomInv, OpenAs
<1>3. ASSUME NEW c \in Commands, Choose(c) PROVE RoomInv'
  BY <1>3 DEF Choose, RoomInv
<1>4. CASE ConstructUrandom
  BY <1>4, OpensFacts DEF ConstructUrandom, RoomInv
<1>5. CASE OpenRandom
  <2>1. Cardinality(OpenAs("free")') = Cardinality(OpenAs("free")) - 1
    BY <1>5, OpensFacts DEF OpenRandom
  <2> QED
    BY <1>0, <1>5, <2>1 DEF OpenRandom, RoomInv
<1>6. CASE OpenRandomFails
  <2>1. pc = "generate" /\ pc' = "socket" /\ fds' = fds /\ room' = room
    BY <1>6, Zenon DEF OpenRandomFails
  <2> QED
    BY <1>0, <2>1 DEF RoomInv, OpenAs
<1>7. CASE ReadRandomFails
  <2>1. pc = "read" /\ pc' = "socket" /\ fds' = Without({fd}) /\ room' = room
    BY <1>7, Zenon DEF ReadRandomFails
  <2>2. OpenAs("free") \subseteq OpenAs("free")'
    BY <2>1 DEF Without, OpenAs, TypeOK
  <2>3. Cardinality(OpenAs("free")) <= Cardinality(OpenAs("free")')
    BY <2>2, TableFinite, FS_Subset
  <2> QED
    BY <1>0, <2>1, <2>3, TableFinite DEF RoomInv
<1>8. CASE GenerateRandom
  BY <1>8 DEF GenerateRandom, RoomInv, OpenAs
<1>9. CASE CreateSocket \/ Connect \/ ConnectFails \/ SendMessageToServer \/ RecvReply
           \/ RecvNothing
  <2>1. pc' \in {"connect", "send", "recv", "idle", "return"}
    BY <1>9 DEF CreateSocket, Connect, ConnectFails, SendMessageToServer, RecvReply,
                RecvNothing, Returns
  <2> QED
    BY <2>1 DEF RoomInv
<1>10. ASSUME NEW r \in Replies, ServerAnswers(r) PROVE RoomInv'
  BY <1>10 DEF ServerAnswers, RoomInv, OpenAs
<1>11. CASE ServerCloses \/ ServerResets
  BY <1>11 DEF ServerCloses, ServerResets, RoomInv, OpenAs
<1>12. CASE Gone \/ UNCHANGED vars
  BY <1>12 DEF Gone, vars, RoomInv, OpenAs
<1> QED
  BY <1>1, <1>2, <1>3, <1>4, <1>5, <1>6, <1>7, <1>8, <1>9, <1>10, <1>11, <1>12
  DEF Next, User, ClientStep, Server, Dies

\* Every step keeps what the value is, and which build has which controls.
LEMMA NextValue == TypeOK /\ ValueInv /\ [Next]_vars => ValueInv'
<1> SUFFICES ASSUME TypeOK, ValueInv, [Next]_vars PROVE ValueInv'
  OBVIOUS
<1> USE DEF locals, history
<1>0. /\ faulty' \in BOOLEAN /\ (faulty => faulty')
      /\ Faults = {} => ~faulty'
  BY KeepsFaulty, Zenon DEF ValueInv
<1>1. CASE Dies
  BY <1>0, <1>1, DiesFacts DEF ValueInv
<1>2. CASE Click \/ Main
  BY <1>0, <1>2 DEF Click, Main, Calls, ValueInv
<1>3. ASSUME NEW c \in Commands, Choose(c) PROVE ValueInv'
  BY <1>0, <1>3 DEF Choose, ValueInv
<1>4. CASE ConstructUrandom \/ OpenRandom \/ GenerateRandom
  BY <1>0, <1>4 DEF ConstructUrandom, OpenRandom, GenerateRandom, ValueInv
<1>5. CASE OpenRandomFails
  <2>1. /\ pc' = "socket" /\ fds' = fds /\ build' = build /\ command' = command
        /\ TableFull \/ faulty' = TRUE
        /\ randomValue' = "Failed to open /dev/urandom"
    BY <1>5, Zenon DEF OpenRandomFails, CallFails
  <2>2. ~faulty' => TableFull'
    BY <2>1 DEF TableFull, OpenAs
  <2> QED
    BY <1>0, <2>1, <2>2 DEF ValueInv
<1>6. CASE ReadRandomFails
  <2>1. /\ pc' = "socket" /\ build' = build /\ command' = command /\ faulty' = TRUE
        /\ randomValue' = "Failed to read random bytes"
    BY <1>6, Zenon DEF ReadRandomFails
  <2> QED
    BY <1>0, <2>1 DEF ValueInv
<1>7. CASE CreateSocket
  <2>1. ~TableFull
    BY <1>7 DEF CreateSocket, Opens, TableFull
  <2> QED
    BY <1>0, <1>7, <2>1 DEF CreateSocket, ValueInv
<1>8. CASE Connect \/ ConnectFails \/ SendMessageToServer
  BY <1>0, <1>8 DEF Connect, ConnectFails, SendMessageToServer, ValueInv
<1>9. CASE RecvReply \/ RecvNothing
  BY <1>0, <1>9 DEF RecvReply, RecvNothing, Returns, ValueInv
<1>10. ASSUME NEW r \in Replies, ServerAnswers(r) PROVE ValueInv'
  BY <1>0, <1>10 DEF ServerAnswers, ValueInv, TableFull, OpenAs
<1>11. CASE ServerCloses \/ ServerResets
  BY <1>0, <1>11 DEF ServerCloses, ServerResets, ValueInv, TableFull, OpenAs
<1>12. CASE Gone \/ UNCHANGED vars
  BY <1>0, <1>12 DEF Gone, vars, ValueInv, TableFull, OpenAs
<1> QED
  BY <1>1, <1>2, <1>3, <1>4, <1>5, <1>6, <1>7, <1>8, <1>9, <1>10, <1>11, <1>12
  DEF Next, User, ClientStep, Server, Dies

\* Every step keeps what the call knows of its message and of the reply.
LEMMA NextVerdict == TypeOK /\ OwnInv /\ ValueInv /\ VerdictInv /\ [Next]_vars => VerdictInv'
<1> SUFFICES ASSUME TypeOK, OwnInv, ValueInv, VerdictInv, [Next]_vars PROVE VerdictInv'
  OBVIOUS
<1> USE DEF locals, connection, history, Served
<1>1. CASE Quit \/ Kill
  BY <1>1 DEF Quit, Kill, ProcessEnds, ValueInv, VerdictInv
<1>2. CASE MainReturns
  BY <1>2 DEF MainReturns, ProcessEnds, VerdictInv
<1>3. CASE ConstructUrandomThrows \/ GenerateRandomThrows \/ SocketFails
  <2>1. /\ pc \in {"construct", "read", "socket"} /\ pc' = "dead"
        /\ status' \in {"aborted", "failure"}
        /\ sent' = sent /\ reply' = reply /\ inbox' = inbox /\ link' = link
    BY <1>3, Zenon DEF ConstructUrandomThrows, GenerateRandomThrows, SocketFails,
                       Throws, ProcessEnds
  <2> QED
    BY <2>1 DEF VerdictInv
<1>4. CASE SendRaisesSigpipe
  BY <1>4 DEF SendRaisesSigpipe, ProcessEnds, VerdictInv
<1>5. CASE Click \/ Main
  BY <1>5 DEF Click, Main, Calls, VerdictInv
<1>6. ASSUME NEW c \in Commands, Choose(c) PROVE VerdictInv'
  BY <1>6 DEF Choose, VerdictInv
<1>7. CASE ConstructUrandom \/ OpenRandom \/ GenerateRandom \/ CreateSocket \/ ConnectFails
  BY <1>7 DEF ConstructUrandom, OpenRandom, GenerateRandom, CreateSocket, ConnectFails,
              VerdictInv
<1>8. CASE OpenRandomFails \/ ReadRandomFails
  <2>1. /\ pc \in {"generate", "read"} /\ pc' = "socket"
        /\ sent' = sent /\ reply' = reply /\ inbox' = inbox /\ link' = link
        /\ result' = result /\ status' = status
    BY <1>8, Zenon DEF OpenRandomFails, ReadRandomFails
  <2> QED
    BY <2>1 DEF VerdictInv
<1>9. CASE Connect
  BY <1>9 DEF Connect, VerdictInv
<1>10. CASE SendMessageToServer
  <2>1. Message # "none"
    BY <1>10 DEF SendMessageToServer, Message, ValueInv, TypeOK, Commands
  <2> QED
    BY <1>10, <2>1 DEF SendMessageToServer, VerdictInv
<1>11. CASE RecvReply
  <2>1. inbox # "none" /\ inbox = reply /\ sent # "none" /\ reply \in {"notice", "other"}
    BY <1>11 DEF RecvReply, VerdictInv, TypeOK, Replies
  <2> QED
    BY <1>11, <2>1 DEF RecvReply, Returns, VerdictInv
<1>12. CASE RecvNothing
  <2>1. link # "up" \/ reply # "none"
    BY <1>12 DEF RecvNothing, OwnInv, VerdictInv, TypeOK
  <2>2. ~Served
    BY <1>12 DEF RecvNothing, OwnInv, VerdictInv, TypeOK
  <2>3. inbox # "none" \/ reply # "none" => sent # "none"
    BY DEF VerdictInv
  <2> QED
    BY <1>12, <2>1, <2>2, <2>3 DEF RecvNothing, Returns, VerdictInv
<1>13. ASSUME NEW r \in Replies, ServerAnswers(r) PROVE VerdictInv'
  BY <1>13 DEF ServerAnswers, VerdictInv, Replies
<1>14. CASE ServerCloses \/ ServerResets
  BY <1>14 DEF ServerCloses, ServerResets, VerdictInv
<1>15. CASE Gone \/ UNCHANGED vars
  BY <1>15 DEF Gone, vars, VerdictInv
<1> QED
  BY <1>1, <1>2, <1>3, <1>4, <1>5, <1>6, <1>7, <1>8, <1>9, <1>10, <1>11, <1>12,
     <1>13, <1>14, <1>15
  DEF Next, User, ClientStep, Server

\* Every step but the send leaves what was sent, or forgets it.
LEMMA NextSends ==
  TypeOK /\ ValueInv /\ VerdictInv /\ SendsWhatWasChosen /\ [Next]_vars => SendsWhatWasChosen'
<1> SUFFICES ASSUME TypeOK, ValueInv, VerdictInv, SendsWhatWasChosen, [Next]_vars
             PROVE  SendsWhatWasChosen'
  OBVIOUS
<1> USE DEF locals, history
<1>0. faulty' \in BOOLEAN /\ (faulty => faulty')
  BY KeepsFaulty
<1>1. CASE sent' = "none"
  BY <1>1 DEF SendsWhatWasChosen
<1>2. CASE sent' = sent /\ command' = command
  BY <1>0, <1>2 DEF SendsWhatWasChosen
<1>3. CASE SendMessageToServer
  <2>1. command \in Commands /\ build \in Builds
    BY DEF TypeOK
  <2>2. faulty' = faulty /\ command' = command /\ pc = "send"
    BY <1>3 DEF SendMessageToServer
  <2>3. sent' = Message \/ sent' = "none"
    BY <1>3 DEF SendMessageToServer, VerdictInv
  <2>4. ~faulty => randomValue = "random" /\ (build = "console" => command = "URANDOM_MESSAGE")
    BY <2>2 DEF ValueInv
  <2> QED
    BY <2>1, <2>2, <2>3, <2>4 DEF SendsWhatWasChosen, Message, Commands
<1>4. CASE Dies
  <2>1. sent' = sent /\ command' = command
    BY <1>4, DiesFacts
  <2> QED
    BY <1>2, <2>1
<1>5. CASE OpenRandomFails \/ ReadRandomFails
  <2>1. sent' = sent /\ command' = command
    BY <1>5, Zenon DEF OpenRandomFails, ReadRandomFails
  <2> QED
    BY <1>2, <2>1
<1>6. ASSUME ~Dies, ~OpenRandomFails, ~ReadRandomFails, ~SendMessageToServer
      PROVE  sent' = "none" \/ (sent' = sent /\ command' = command)
  BY <1>6 DEF Next, User, ClientStep, Server, Gone, vars, Dies, Choose, Click,
              Main, Calls, ConstructUrandom, OpenRandom, GenerateRandom, CreateSocket,
              Connect, ConnectFails, RecvReply, RecvNothing, Returns,
              ServerAnswers, ServerCloses, ServerResets
<1> QED
  BY <1>1, <1>2, <1>3, <1>4, <1>5, <1>6

\* A call that ends itself found little room.
LEMMA NextStarved ==
  TypeOK /\ RoomInv /\ VerdictInv /\ EndsOnlyWhenStarved /\ [Next]_vars => EndsOnlyWhenStarved'
<1> SUFFICES ASSUME TypeOK, RoomInv, VerdictInv, EndsOnlyWhenStarved, [Next]_vars,
                    status' \in {"aborted", "failure"}, result' = "none", ~faulty'
             PROVE  room' < 3
  BY Zenon DEF EndsOnlyWhenStarved
<1> USE DEF locals, history
<1>0. faulty' \in BOOLEAN /\ (faulty => faulty')
  BY KeepsFaulty
<1>1. CASE Quit \/ Kill \/ SendRaisesSigpipe
  <2>1. status' \in {"success", "killed"}
    BY <1>1 DEF Quit, Kill, SendRaisesSigpipe, ProcessEnds
  <2> QED
    BY <2>1
<1>2. CASE MainReturns
  <2>1. result' # "none"
    BY <1>2 DEF MainReturns, VerdictInv
  <2> QED
    BY <2>1
<1>3. CASE ConstructUrandomThrows \/ GenerateRandomThrows \/ SocketFails
  <2>1. /\ pc \in {"construct", "read", "socket"}
        /\ TableFull \/ faulty' = TRUE
        /\ room' = room
    BY <1>3, Zenon DEF ConstructUrandomThrows, GenerateRandomThrows, SocketFails,
                       Throws, CallFails
  <2>2. OpenAs("free") = {}
    BY <2>1 DEF TableFull
  <2>3. Cardinality(OpenAs("free")) = 0
    BY <2>2, FS_EmptySet
  <2>4. room \in Int
    BY FdAssumption DEF TypeOK
  <2> QED
    BY <2>1, <2>3, <2>4 DEF RoomInv
<1>4. ASSUME ~Dies, pc # "dead" PROVE FALSE
  <2>1. status = "none"
    BY <1>4 DEF VerdictInv
  <2>2. status' = status
    BY <1>4 DEF Next, User, ClientStep, Server, Gone, vars, Dies, Choose, Click,
              Main, Calls, ConstructUrandom, OpenRandom, OpenRandomFails, ReadRandomFails,
              GenerateRandom, CreateSocket, Connect, ConnectFails, SendMessageToServer,
              RecvReply, RecvNothing, Returns, ServerAnswers, ServerCloses, ServerResets
  <2> QED
    BY <2>1, <2>2
<1>5. ASSUME ~Dies, pc = "dead" PROVE room' < 3
  <2>1. status' = status /\ result' = result /\ room' = room /\ faulty' = faulty
    <3>1. \/ UNCHANGED vars \/ ServerCloses \/ ServerResets
          \/ \E r \in Replies : ServerAnswers(r)
      BY <1>5 DEF Next, User, ClientStep, Server, Gone, Dies, Choose, Click,
              Main, ConstructUrandom, OpenRandom, OpenRandomFails, ReadRandomFails,
              GenerateRandom, CreateSocket, Connect, ConnectFails, SendMessageToServer,
              RecvReply, RecvNothing
    <3> QED
      BY <3>1 DEF vars, ServerCloses, ServerResets, ServerAnswers
  <2> QED
    BY <2>1, Zenon DEF EndsOnlyWhenStarved
<1> QED
  BY <1>1, <1>2, <1>3, <1>4, <1>5 DEF Dies

-----------------------------------------------------------------------------
(* The inductive invariant.                                                *)

\* It holds in every initial state.
LEMMA InitClient == Init => ClientInv
<1> SUFFICES ASSUME Init PROVE ClientInv
  OBVIOUS
<1> USE DEF Init
<1>1. fds \in [Fd -> {"free", "std"}]
  OBVIOUS
<1>2. OpenAs("member") = {} /\ OpenAs("random") = {} /\ OpenAs("socket") = {}
  BY <1>1 DEF OpenAs
<1>3. room \in 0 .. FdLimit /\ 0 \in 0 .. FdLimit
  BY FdAssumption
<1>4. TypeOK
  BY <1>1, <1>3 DEF TypeOK, Pcs, Statuses, Values, Messages, Commands, FdEntries
<1>5. OwnInv /\ RoomInv /\ ValueInv
  BY <1>2, BuildsAssumption DEF OwnInv, Calling, RoomInv, ValueInv
<1>6. CountInv
  BY <1>2, FS_EmptySet DEF CountInv, HasSocket
<1>7. VerdictInv
  BY DEF VerdictInv
<1>8. SendsWhatWasChosen /\ EndsOnlyWhenStarved
  BY DEF SendsWhatWasChosen, EndsOnlyWhenStarved
<1> QED
  BY <1>4, <1>5, <1>6, <1>7, <1>8 DEF ClientInv

\* Every step keeps it.
LEMMA NextClient == ClientInv /\ [Next]_vars => ClientInv'
BY NextType, NextOwn, NextCount, NextRoom, NextValue, NextVerdict, NextSends, NextStarved
DEF ClientInv

\* So it holds always.
LEMMA ClientAlways == Spec => []ClientInv
BY InitClient, NextClient, PTL DEF Spec

-----------------------------------------------------------------------------
(* The theorems.                                                           *)

\* Every variable keeps its type; with CountInv, this bounds what a client can
\* leak by the size of its descriptor table.
THEOREM TypesOK == Spec => []TypeOK
<1>1. ClientInv => TypeOK
  BY DEF ClientInv
<1> QED
  BY <1>1, ClientAlways, PTL

\* Between two calls of ConnectToServer every descriptor is accounted for: one
\* leaked per generated value, one per reply, none by any error path.
THEOREM DescriptorsAreAccounted == Spec => []DescriptorsAccounted
<1>1. ClientInv => DescriptorsAccounted
  <2> SUFFICES ASSUME ClientInv, pc \in {"idle", "return"}
               PROVE  /\ Cardinality(OpenAs("random")) = generated
                      /\ Cardinality(OpenAs("socket")) = answered
                      /\ OpenAs("member") = {}
    BY DEF DescriptorsAccounted
  <2>1. generated \in Nat /\ answered \in Nat
    BY DEF ClientInv, TypeOK
  <2>2. OpenAs("member") = {}
    BY DEF ClientInv, OwnInv, Calling
  <2>3. /\ Cardinality(OpenAs("random")) = generated + 0
        /\ Cardinality(OpenAs("socket")) = answered + 0
    BY DEF ClientInv, CountInv, HasSocket
  <2> QED
    BY <2>1, <2>2, <2>3
<1> QED
  BY <1>1, ClientAlways, PTL

\* Unless a call fails with room left in the table, the chosen message is what
\* goes out: the text that GenerateRandom returns for an error never does.
THEOREM SendsTheChosen == Spec => []SendsWhatWasChosen
<1>1. ClientInv => SendsWhatWasChosen
  BY DEF ClientInv
<1> QED
  BY <1>1, ClientAlways, PTL

\* EXIT_SUCCESS is returned, and is the exit status of the console build, when
\* the server answered with something else than the ban notice, and only then.
THEOREM SuccessIsServed == Spec => []SuccessMeansServed
<1>1. ClientInv => SuccessMeansServed
  BY DEF ClientInv, VerdictInv, SuccessMeansServed, Served
<1> QED
  BY <1>1, ClientAlways, PTL

\* A client that ends itself in the middle of a call had room for less than
\* the three descriptors that a call holds at once.
THEOREM EndsStarved == Spec => []EndsOnlyWhenStarved
<1>1. ClientInv => EndsOnlyWhenStarved
  BY DEF ClientInv
<1> QED
  BY <1>1, ClientAlways, PTL

\* A call closes only what it opened.
THEOREM ClosesItsOwn == Spec => ClosesOnlyItsOwn
<1> DEFINE Closes ==
      pc' = "dead" \/ \A n \in Fd :
          fds'[n] # fds[n] /\ fds[n] # "free" =>
              fds[n] # "std" /\ n \in {fd_, fd, sock}
<1>1. ClientInv /\ [Next]_vars => [Closes]_vars
  <2> SUFFICES ASSUME ClientInv, Next PROVE Closes
    OBVIOUS
  <2> USE DEF locals, connection, history
  <2>0. TypeOK /\ OwnInv
    BY DEF ClientInv
  <2>1. CASE Dies
    BY <2>0, <2>1, DiesFacts
  <2>2. ASSUME NEW e, NEW n, Opens(e, n) PROVE Closes
    BY <2>0, <2>2 DEF Opens, OpenAs, TypeOK
  <2>3. CASE ConstructUrandom \/ OpenRandom \/ CreateSocket
    BY <2>2, <2>3 DEF ConstructUrandom, OpenRandom, CreateSocket
  <2>4. ASSUME NEW F, fds' = Without(F),
               \A n \in F \cap Fd : fds[n] # "std" /\ n \in {fd_, fd, sock}
        PROVE  Closes
    BY <2>4 DEF Without
  <2>5. CASE ReadRandomFails
    <3>1. pc = "read" /\ fds' = Without({fd})
      BY <2>5, Zenon DEF ReadRandomFails
    <3>2. fds[fd] # "std"
      BY <2>0, <3>1 DEF OwnInv, OpenAs
    <3> QED
      BY <2>4, <3>1, <3>2
  <2>6. CASE ConnectFails
    <3>1. fds' = Without({sock}) /\ fds[sock] # "std"
      BY <2>0, <2>6 DEF ConnectFails, OwnInv, OpenAs
    <3> QED
      BY <2>4, <3>1
  <2>7. CASE RecvReply \/ RecvNothing
    <3>1. pc = "recv" /\ (fds' = Without({fd_}) \/ fds' = Without({fd_, sock}))
      BY <2>7 DEF RecvReply, RecvNothing, Returns
    <3>2. fds[fd_] # "std" /\ (sock \in Fd => fds[sock] # "std")
      BY <2>0, <3>1 DEF OwnInv, Calling, OpenAs, Fd
    <3> QED
      BY <2>4, <3>1, <3>2
  <2>8. CASE fds' = fds
    BY <2>8
  <2>9. CASE OpenRandomFails
    BY <2>8, <2>9, Zenon DEF OpenRandomFails
  <2>10. ASSUME ~Dies, ~ConstructUrandom, ~OpenRandom, ~CreateSocket, ~ReadRandomFails,
                ~ConnectFails, ~RecvReply, ~RecvNothing, ~OpenRandomFails
         PROVE  fds' = fds
    BY <2>10 DEF Next, User, ClientStep, Server, Gone, vars, Dies, Choose, Click, Main,
                 Calls, GenerateRandom, Connect, SendMessageToServer, ServerAnswers,
                 ServerCloses, ServerResets
  <2> QED
    BY <2>1, <2>3, <2>5, <2>6, <2>7, <2>8, <2>9, <2>10
<1> QED
  BY <1>1, ClientAlways, PTL DEF Spec, ClosesOnlyItsOwn

=============================================================================
