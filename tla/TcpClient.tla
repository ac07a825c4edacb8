----------------------------- MODULE TcpClient -----------------------------
(***************************************************************************)
(* The client of KCNet on Linux: TcpClient::ConnectToServer, the client    *)
(* half of OpensslTest and the Urandom generator, running against the      *)
(* descriptor table of the process and one server.  It is built with a     *)
(* window (the command choice and the "Send message" button of             *)
(* TcpClientFrame; everything runs on the GUI thread, so a click is        *)
(* served, or hangs, before the next event) or, without WXWIDGETS_GUI, as  *)
(* a console program that calls ConnectToServer once.                      *)
(*                                                                         *)
(* One action is one system call that can fail or block; the code up to    *)
(* the next such call belongs to it.  A message is one value.  An error    *)
(* that the window build shows in a dialog is taken to be dismissed.       *)
(***************************************************************************)
EXTENDS Integers, FiniteSets

CONSTANTS
    Builds,      \* "gui", "console" or both: which program is run
    FdLimit,     \* RLIMIT_NOFILE: descriptors are 0 .. FdLimit-1
    Faults       \* the calls that may fail with room left in the table

ASSUME FdAssumption == FdLimit \in Nat /\ FdLimit >= 3
ASSUME BuildsAssumption == Builds \subseteq {"gui", "console"}
ASSUME FaultsAssumption == Faults \subseteq {"open", "read", "socket"}

Commands == {"URANDOM_MESSAGE", "RELOAD_COMMAND", "SHUTDOWN_COMMAND"}
ErrorTexts == {"Failed to open /dev/urandom", "Failed to read random bytes"}
Replies == {"notice", "other"}     \* bannedMessage, or any other bytes

VARIABLES
    \* the program and its process: control point and, when it is gone, why
    build, pc, status,
    \* tcpMessageChoice, and the parameter of ConnectToServer
    choice, command,
    \* fd_ of the Urandom object, fd of GenerateRandom, the other locals and
    \* the value that the last call returned
    fd_, fd, randomValue, sock, result,
    \* the descriptor table of the process
    fds,
    \* the connection of the last call: its state, and the unread reply
    link, inbox,
    \* history: what the last call sent and was answered, the free descriptors
    \* it found, whether a call failed with room left, and the number of
    \* random values generated and of replies read
    sent, reply, room, faulty, generated, answered

locals == <<command, fd_, fd, randomValue, sock, result>>
connection == <<link, inbox>>
counts == <<generated, answered>>
history == <<sent, reply, room, faulty, counts>>
vars == <<build, pc, status, choice, locals, fds, connection, history>>

-----------------------------------------------------------------------------
(* The descriptor table.  An entry names what opened it: the constructor of *)
(* Urandom ("member"), GenerateRandom ("random"), create_tcp_client.       *)

Fd == 0 .. FdLimit - 1
FdEntries == {"free", "std", "member", "random", "socket"}
OpenAs(e) == {n \in Fd : fds[n] = e}

TableFull == OpenAs("free") = {}

\* open and socket return the lowest number that is free.
Opens(e, n) ==
    /\ n \in OpenAs("free")
    /\ \A m \in OpenAs("free") : n <= m
    /\ fds' = [fds EXCEPT ![n] = e]

\* A call fails: no descriptor is free, or for a reason of its own.
CallFails(call) ==
    \/ TableFull /\ faulty' = faulty
    \/ call \in Faults /\ faulty' = TRUE

\* close() of the numbers in F; those that are not open are ignored (EBADF).
Without(F) == [n \in Fd |-> IF n \in F THEN "free" ELSE fds[n]]

\* An uncaught exception, exit or a signal: the kernel closes everything.
ProcessEnds(how) ==
    /\ pc' = "dead"
    /\ status' = how
    /\ fds' = Without(Fd)

Init ==
    /\ build \in Builds /\ status = "none"
    /\ pc = IF build = "gui" THEN "idle" ELSE "main"
    /\ choice = "URANDOM_MESSAGE" /\ command = "URANDOM_MESSAGE"
    /\ fd_ = -1 /\ fd = -1
    /\ randomValue = "none" /\ sock = -1 /\ result = "none"
    /\ \E std \in {{0, 1, 2}, {1, 2}} :
          fds = [n \in Fd |-> IF n \in std THEN "std" ELSE "free"]
    /\ link = "none" /\ inbox = "none"
    /\ sent = "none" /\ reply = "none" /\ room = FdLimit
    /\ faulty = FALSE
    /\ generated = 0 /\ answered = 0

-----------------------------------------------------------------------------
(* The frame, whose events are handled one at a time, and only when idle;  *)
(* and main of the console build.                                          *)

\* OnChoiceClick.
Choose(c) ==
    /\ pc = "idle"
    /\ choice' = c
    /\ UNCHANGED <<build, pc, status, locals, fds, connection, history>>

\* OnQuit closes the only frame, which ends the event loop.
Quit ==
    /\ pc = "idle"
    /\ ProcessEnds("success")
    /\ UNCHANGED <<build, choice, locals, connection, history>>

\* The user ends the program from outside, hung in recv or not: a SIGINT in the
\* console, or the window manager's offer to end a window that does not respond.
Kill ==
    /\ pc # "dead"
    /\ ProcessEnds("killed")
    /\ UNCHANGED <<build, choice, locals, connection, history>>

\* ConnectToServer is called: its locals are new.
Calls ==
    /\ pc' = "construct"
    /\ fd_' = -1 /\ fd' = -1
    /\ randomValue' = "none" /\ sock' = -1 /\ result' = "none"
    /\ link' = "none" /\ inbox' = "none"
    /\ sent' = "none" /\ reply' = "none"
    /\ room' = Cardinality(OpenAs("free"))
    /\ UNCHANGED <<build, status, choice, fds, faulty, counts>>

\* Mutant: the choice counts from one.
ClickOffByOne ==
    /\ pc = "idle"
    /\ command' = CASE choice = "URANDOM_MESSAGE"  -> "RELOAD_COMMAND"
                    [] choice = "RELOAD_COMMAND"   -> "SHUTDOWN_COMMAND"
                    [] choice = "SHUTDOWN_COMMAND" -> "LAST_COMMAND"
    /\ Calls

\* The button's handler calls ConnectToServer with the current selection.
Click ==
    /\ pc = "idle"
    /\ command' = choice
    /\ Calls

\* main of the console build: connectionEnabled is set and never cleared.
Main ==
    /\ pc = "main"
    /\ command' = command
    /\ Calls

\* Its exit status is what ConnectToServer returned.
MainReturns ==
    /\ pc = "return"
    /\ ProcessEnds(result)
    /\ UNCHANGED <<build, choice, locals, connection, history>>

-----------------------------------------------------------------------------
(* Urandom: the constructor, and GenerateRandom.                           *)

ConstructUrandom ==
    /\ pc = "construct"
    /\ Opens("member", fd_')
    /\ pc' = "generate"
    /\ UNCHANGED <<build, status, choice, command, fd, randomValue, sock, result,
                   connection, history>>

\* The constructor of Urandom, urandom_string or read_exact throws; neither
\* ConnectToServer nor the handler catches it.
Throws(call) ==
    /\ CallFails(call)
    /\ ProcessEnds("aborted")
    /\ UNCHANGED <<build, choice, locals, connection, sent, reply, room, counts>>

ConstructUrandomThrows == pc = "construct" /\ Throws("open")

OpenRandom ==
    /\ pc = "generate"
    /\ Opens("random", fd')
    /\ pc' = "read"
    /\ UNCHANGED <<build, status, choice, command, fd_, randomValue, sock, result,
                   connection, history>>

\* Mutant: the Urandom object lives only as long as GenerateRandom.
OpenRandomFailsAlone ==
    /\ pc = "generate"
    /\ CallFails("open")
    /\ randomValue' = "Failed to open /dev/urandom"
    /\ fds' = Without({fd_})
    /\ pc' = "socket"
    /\ UNCHANGED <<build, status, choice, command, fd_, fd, sock, result, connection,
                   sent, reply, room, counts>>

\* The text of the error is returned as if it were the value.
OpenRandomFails ==
    /\ pc = "generate"
    /\ CallFails("open")
    /\ randomValue' = "Failed to open /dev/urandom"
    /\ pc' = "socket"
    /\ UNCHANGED <<build, status, choice, command, fd_, fd, sock, result, fds, connection,
                   sent, reply, room, counts>>

\* read returns fewer than RANDOM_BYTES: close(fd), and again the text.
ReadRandomFails ==
    /\ pc = "read"
    /\ "read" \in Faults /\ faulty' = TRUE
    /\ randomValue' = "Failed to read random bytes"
    /\ fds' = Without({fd})
    /\ pc' = "socket"
    /\ UNCHANGED <<build, status, choice, command, fd_, fd, sock, result, connection,
                   sent, reply, room, counts>>

\* Mutant: a static rng, which keeps its descriptor.
GenerateRandomKeepsRng ==
    /\ pc = "read"
    /\ ~TableFull
    /\ \E n \in Fd : Opens("random", n)
    /\ randomValue' = "random"
    /\ generated' = generated + 1
    /\ pc' = "socket"
    /\ UNCHANGED <<build, status, choice, command, fd_, fd, sock, result, connection,
                   sent, reply, room, faulty, answered>>

\* Five urandom_string and the local rng open and close one descriptor each,
\* one after the other; close(fd) comes after the return and is never reached.
GenerateRandom ==
    /\ pc = "read"
    /\ ~TableFull
    /\ randomValue' = "random"
    /\ generated' = generated + 1
    /\ pc' = "socket"
    /\ UNCHANGED <<build, status, choice, command, fd_, fd, sock, result, fds, connection,
                   sent, reply, room, faulty, answered>>

GenerateRandomThrows == pc = "read" /\ \E call \in {"open", "read"} : Throws(call)

-----------------------------------------------------------------------------
(* ConnectToServer after the random value: create_tcp_client, one send, one *)
(* recv.                                                                    *)

CreateSocket ==
    /\ pc = "socket"
    /\ Opens("socket", sock')
    /\ pc' = "connect"
    /\ UNCHANGED <<build, status, choice, command, fd_, fd, randomValue, result,
                   connection, history>>

\* socket fails: exit(EXIT_FAILURE) from the middle of the click.
SocketFails ==
    /\ pc = "socket"
    /\ CallFails("socket")
    /\ ProcessEnds("failure")
    /\ UNCHANGED <<build, choice, locals, connection, sent, reply, room, counts>>

Connect ==
    /\ pc = "connect"
    /\ link' = "up"
    /\ pc' = "send"
    /\ UNCHANGED <<build, status, choice, locals, fds, inbox, history>>

\* Mutant: create_tcp_client gives EXIT_SUCCESS, 0, for "no connection".
ConnectFailsAsZero ==
    /\ pc = "connect"
    /\ fds' = Without({sock})
    /\ sock' = 0
    /\ pc' = "send"
    /\ UNCHANGED <<build, status, choice, command, fd_, fd, randomValue, result,
                   connection, history>>

\* inet_pton or connect fails: close(sockfd), return -1.  ConnectToServer does
\* not look at it: send, recv and close on -1 do nothing.
ConnectFails ==
    /\ pc = "connect"
    /\ fds' = Without({sock})
    /\ sock' = -1
    /\ pc' = "send"
    /\ UNCHANGED <<build, status, choice, command, fd_, fd, randomValue, result,
                   connection, history>>

\* The switch on the command, which the console build does not have.  Its
\* default would need a choice of -1, which SetSelection(0) rules out.
Message ==
    CASE build = "console"            -> randomValue
      [] command = "URANDOM_MESSAGE"  -> randomValue
      [] command = "RELOAD_COMMAND"   -> "RELOAD"
      [] command = "SHUTDOWN_COMMAND" -> "SHUTDOWN"

\* send: on no socket EBADF, on a reset connection ECONNRESET, both ignored.
SendMessageToServer ==
    /\ pc = "send"
    /\ link # "finrst"
    /\ sent' = IF link \in {"up", "fin"} THEN Message ELSE sent
    /\ pc' = "recv"
    /\ UNCHANGED <<build, status, choice, locals, fds, connection, reply, room, faulty,
                   counts>>

\* send on a connection that ended and was then reset: EPIPE and SIGPIPE.
SendRaisesSigpipe ==
    /\ pc = "send"
    /\ link = "finrst"
    /\ ProcessEnds("killed")
    /\ UNCHANGED <<build, choice, locals, connection, history>>

\* Return from ConnectToServer closes the descriptors in F, one of which is
\* that of the Urandom object.
Returns(value, F) ==
    /\ result' = value
    /\ fds' = Without(F)
    /\ pc' = IF build = "gui" THEN "idle" ELSE "return"
    /\ UNCHANGED <<build, status, choice, command, fd_, fd, randomValue, sock>>

\* bytes_read > 0: both branches return without close(sock).
RecvReply ==
    /\ pc = "recv"
    /\ sock \in Fd
    /\ inbox # "none"
    /\ Returns(IF inbox = "notice" THEN "failure" ELSE "success", {fd_})
    /\ answered' = answered + 1
    /\ inbox' = "none"
    /\ UNCHANGED <<link, sent, reply, room, faulty, generated>>

\* Mutants: end of stream taken for "no data yet" or for success, close(sock)
\* left out.
RecvNothingOnlyOnError ==
    /\ pc = "recv"
    /\ ~(sock \in Fd /\ (inbox # "none" \/ link \in {"up", "fin"}))
    /\ Returns("failure", {fd_, sock})
    /\ UNCHANGED <<connection, history>>

RecvNothingSucceeds ==
    /\ pc = "recv"
    /\ ~(sock \in Fd /\ (inbox # "none" \/ link = "up"))
    /\ Returns("success", {fd_, sock})
    /\ UNCHANGED <<connection, history>>

RecvNothingOpen ==
    /\ pc = "recv"
    /\ ~(sock \in Fd /\ (inbox # "none" \/ link = "up"))
    /\ Returns("failure", {fd_})
    /\ UNCHANGED <<connection, history>>

\* recv returns 0 (end of stream) or -1 (reset, EBADF): close(sock).
RecvNothing ==
    /\ pc = "recv"
    /\ ~(sock \in Fd /\ (inbox # "none" \/ link = "up"))
    /\ Returns("failure", {fd_, sock})
    /\ UNCHANGED <<connection, history>>

-----------------------------------------------------------------------------
(* The server, as TcpServer promises it: it answers only a message it read, *)
(* and at most once; it may end or reset the connection at any time.       *)

ServerAnswers(r) ==
    /\ link = "up"
    /\ sent # "none"
    /\ reply = "none"
    /\ reply' = r /\ inbox' = r
    /\ UNCHANGED <<build, pc, status, choice, locals, fds, link, sent, room, faulty, counts>>

ServerCloses ==
    /\ link = "up"
    /\ link' = "fin"
    /\ UNCHANGED <<build, pc, status, choice, locals, fds, inbox, history>>

ServerResets ==
    /\ link \in {"up", "fin"}
    /\ link' = IF link = "up" THEN "rst" ELSE "finrst"
    /\ UNCHANGED <<build, pc, status, choice, locals, fds, inbox, history>>

-----------------------------------------------------------------------------
User == Click \/ Quit \/ Kill \/ \E c \in Commands : Choose(c)

ClientStep ==
    \/ Main \/ MainReturns
    \/ ConstructUrandom \/ ConstructUrandomThrows
    \/ OpenRandom \/ OpenRandomFails \/ ReadRandomFails
    \/ GenerateRandom \/ GenerateRandomThrows
    \/ CreateSocket \/ SocketFails \/ Connect \/ ConnectFails
    \/ SendMessageToServer \/ SendRaisesSigpipe
    \/ RecvReply \/ RecvNothing

Server == ServerCloses \/ ServerResets \/ \E r \in Replies : ServerAnswers(r)

\* The process is gone: the only state in which nothing is left to happen.
Gone == pc = "dead" /\ UNCHANGED vars

Next == User \/ ClientStep \/ Server \/ Gone

Spec == Init /\ [][Next]_vars

\* The kernel schedules the client; the user and the server may do nothing.
FairSpec == Spec /\ WF_vars(ClientStep)

-----------------------------------------------------------------------------
(* Types.                                                                  *)

Pcs == {"idle", "main", "construct", "generate", "read", "socket", "connect",
        "send", "recv", "return", "dead"}
Statuses == {"none", "success", "failure", "aborted", "killed"}
Values == {"none", "random"} \cup ErrorTexts
Messages == Values \cup {"RELOAD", "SHUTDOWN"}

\* Every variable stays in its type.
TypeOK ==
    /\ build \in Builds /\ pc \in Pcs /\ status \in Statuses
    /\ choice \in Commands /\ command \in Commands
    /\ fd_ \in Fd \cup {-1} /\ fd \in Fd \cup {-1} /\ sock \in Fd \cup {-1}
    /\ randomValue \in Values
    /\ result \in {"none", "success", "failure"}
    /\ fds \in [Fd -> FdEntries]
    /\ link \in {"none", "up", "fin", "rst", "finrst"}
    /\ inbox \in Replies \cup {"none"}
    /\ sent \in Messages /\ reply \in Replies \cup {"none"}
    /\ room \in 0 .. FdLimit /\ faulty \in BOOLEAN
    /\ generated \in 0 .. FdLimit /\ answered \in 0 .. FdLimit

-----------------------------------------------------------------------------
(* Safety.                                                                 *)

\* After a call of ConnectToServer the descriptors beyond the standard ones are exactly one
\* per generated value (GenerateRandom returns before its close) and one per
\* reply that was read (ConnectToServer returns before its close): no error
\* path leaks, and nothing that was closed is still counted.
DescriptorsAccounted ==
    pc \in {"idle", "return"} =>
        /\ Cardinality(OpenAs("random")) = generated
        /\ Cardinality(OpenAs("socket")) = answered
        /\ OpenAs("member") = {}

\* As long as only a full descriptor table makes calls fail, the message on
\* the wire is the one that was chosen.  The text that GenerateRandom returns
\* when its open fails is never sent, because fd_ still holds the last
\* descriptor and so socket fails too and ends the program.
SendsWhatWasChosen ==
    sent # "none" /\ ~faulty =>
        sent = CASE command = "URANDOM_MESSAGE"  -> "random"
                 [] command = "RELOAD_COMMAND"   -> "RELOAD"
                 [] command = "SHUTDOWN_COMMAND" -> "SHUTDOWN"

\* ConnectToServer returns EXIT_SUCCESS when the server answered its message
\* with something else than the ban notice, and only then, wherever the
\* connection was refused, ended or reset; and a console client that was not
\* killed tells its caller the same, however it ended.
SuccessMeansServed ==
    LET served == sent # "none" /\ reply = "other"
    IN  /\ pc \in {"idle", "return"} /\ result # "none" =>
               (result = "success" <=> served)
        /\ build = "console" /\ pc = "dead" /\ status # "killed" =>
               (status = "success" <=> served)

\* The client ends itself in the middle of a call only if the call found fewer
\* than three free descriptors: for fd_, fd, and one more.
EndsOnlyWhenStarved ==
    status \in {"aborted", "failure"} /\ result = "none" /\ ~faulty => room < 3

\* The close() calls of a click hit what that click opened: not the standard
\* streams, and not what an earlier click left open.
ClosesOnlyItsOwn ==
    [][pc' = "dead" \/ \A n \in Fd :
          fds'[n] # fds[n] /\ fds[n] # "free" =>
              fds[n] # "std" /\ n \in {fd_, fd, sock}]_vars

-----------------------------------------------------------------------------
(* Liveness.                                                               *)

\* A server that answers or closes every connection sooner or later.
LivelyServer == WF_vars(ServerCloses \/ \E r \in Replies : ServerAnswers(r))

\* The GUI thread comes back from every click, provided the server answers or
\* closes: recv has no timeout.
ClickReturns == LivelyServer => (pc # "idle" ~> pc \in {"idle", "dead"})

-----------------------------------------------------------------------------
(* What the repository says of the client and its code does not do.        *)

\* urandom_test.cpp, at the end of GenerateRandom: "Close the file descriptor".
RandomFdClosed == pc \in {"idle", "return"} => OpenAs("random") = {}

\* tcp_client.cpp: "Now this sends a value from /dev/urandom to the server".
RandomValueSent ==
    command = "URANDOM_MESSAGE" /\ sent # "none" => sent = "random"
=============================================================================
