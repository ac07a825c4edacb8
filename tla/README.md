# KCNet-Networking-CPP: TLA+ models and proofs

KCNet is a TCP server and a client, built with a wxWidgets window or as a
console program. The server accepts one
connection after another, reads one message from it, bans, obeys or echoes it,
and goes on to the next. The client sends a random string, `RELOAD` or
`SHUTDOWN` when its button is pressed (from the console, a random string when it
is started) and says whether it was answered.

The programs are small, and most of what can go wrong in them cannot be seen in
one function: which descriptor a variable still names, which client a flag
belongs to, where a signal arrives, what the next call finds when this one has
failed. The models keep all of that (system calls, their failures, the
descriptor table, the flags, static objects, signals, peers) and leave out what
messages, logs and windows look like.

## Inventory

| Part | Source | State | Operations | Meets |
| --- | --- | --- | --- | --- |
| Server process | `TcpServer/src/main.cpp`, `util/tcp_server.cpp`, `openssl_test.cpp` | `quit`, `isServerRunning`, `server_fd`, `client_fd`, `client_address`, `connectionPacket`, the descriptor table | construct, `RunServer` = accept, recv, (ban or command), send; loop test; destructors; `got_signal` | the kernel, peers, SIGINT, Util and Logger |
| Util, Logger | `TcpServer/src/util/util.cpp`, `logger.cpp` | the running flag; the log file | get and set; open, log, destroy | lifetimes tied to `TcpServer` by static destruction order |
| Client | `TcpClient/src/main.cpp`, `util/tcp_client.cpp`, `openssl_test.cpp`, `wxwidgets_test.*` | the command choice, `sock`, the descriptor table | choose, click (or `main`) = generate, connect, send, recv; quit, return | Urandom, the server |
| Urandom | `TcpClient/src/urandom_test.*` | `fd_`, `fd` | open, read, close; pick from an alphabet, shuffle | the client |
| base64 | `lib/base64/include/base64.hpp` | none | encode, decode | Urandom (the encoded value is discarded) |
| Coroutine experiment | `TcpServer/src/util/coroutine_test.*` | a coroutine handle | suspend, resume, destroy | nothing: its call is commented out |
| TLS server and client | parts of the files above | | | compiled out (`SECURE_SERVER_TEST`) |
| RSA, curl, TOML, files, config, argh, scripts | the rest | | | no part in the exchange |

How the parts interact: the client connects, sends once and blocks in `recv`;
the server serves one connection at a time and never closes it; `got_signal`
sets a flag that `main` reads at one place; `~TcpServer` uses `Logger` while
statics are being destroyed; both programs depend on the lowest-free rule of the
descriptor table, because they keep descriptor numbers longer than what the
numbers name.

What is hard here (each with its line and its properties under `hazards` in
`PROJECT.json`): SIGINT between a test and a sleep; a ban flag that outlives the
client that raised it; an address that outlives its connection; descriptors that
are never closed, and what the two programs do when the table is full; closing
numbers that may name something else by now; commands split or followed by more
bytes; blocking calls without a timeout; the order in which statics die.

## Modules

### TcpServer

The server process of the insecure build, with `EXTRA_LOGS` as a constant. One
action is one call that can block, fail or be interrupted, together with the
code up to the next such call:

| Actions | Code |
| --- | --- |
| `Main`, `OpenLog`, `LogFails`, `Listen`, `SetupFails` | `main` up to the loop; the constructors of Util, Logger and TcpServer; `create_tcp_socket` |
| `RunServer`, `AcceptReturns`, `AcceptSleeps`, `AcceptFails` | `RunServer` and `SetupClientConnection` |
| `RecvFromBanned`, `RecvIgnored`, `RecvMessage`, `RecvNothing`, `RecvSleeps`, `Refuse`, `Echo`, `SendRaisesSigpipe` | `ReadFromClient` and `SendNonBlocking`, path by path |
| `Loop`, `DestroyServer`, `DestroyOther`, `Exit` | the two loop tests, `exit`, the destructors |
| `SignalKills`, `SignalInAccept`, `SignalInRecv`, `SignalNoted` | SIGINT before `sigaction`, in a sleeping call (`sa_flags` is 0, so `EINTR`), anywhere else |
| `PeerConnect`, `PeerSend`, `PeerFin`, `PeerReset` | the peers, which are external |

`serverFd`, `clientFd`, `clientAddr`, `banned`, `userIp`, `quit`, `running` are
the program's variables; `statics` is the list of live static objects in the
order of their construction; `fds` maps descriptor numbers to what they name;
`queue` is the accept queue; `link`, `ip` and `inbox` are the connections;
`read`, `out`, `lateAccepts` and `faulted` are history.

Abstractions. A message is a sequence of tokens, the pieces in which TCP may
deliver it; `"NUL"` is a zero byte. `RELOAD` has no branch of its own because it
only prints. `accept` may fail for every reason it has: with `EMFILE` when the
table is full, `EBADF` once the listener is closed and `EINTR` in its sleep
(`AcceptRefused`, `SignalInAccept`), and with `ENFILE`, `ENOMEM`, `ENOBUFS` or
`ECONNABORTED` on a good socket with descriptors to spare, before or after a sleep
(`AcceptFaults`, remembered in `faulted`); the code treats all alike. `recv` fails
only for want of a connection, by a reset or by `EINTR`. A reply fits the
send buffer: `OneExchangePerConnection` shows that nothing was sent on the
connection before, so `SendNonBlocking`'s partial write cannot happen. `recv`
after a reset still delivers the bytes that had arrived. Descriptors 1 and 2 are
open at the start, 0 may be closed. The members of `TcpServer` start at zero,
because the object is a function-local static.

### TcpClient

The client. In the window build `Choose`, `Click` and `Quit` are the events; in
the console build `Main` makes one call and `MainReturns` makes its result the
exit status. `Kill` is the user's way out of either, hung in `recv` or not. A call runs
through `construct`, `generate`, `read`, `socket`, `connect`, `send` and `recv`
on the one thread before the next event. `ConstructUrandom`, `OpenRandom`,
`GenerateRandom` and their failures are `Urandom`; `CreateSocket`, `SocketFails`,
`Connect`, `ConnectFails` are `create_tcp_client`; `SendMessageToServer`,
`RecvReply`, `RecvNothing` are the rest of `ConnectToServer`. `ServerAnswers`,
`ServerCloses` and `ServerResets` are a server that answers at most one message
per connection and only what it has read; `ReplyIntegrity` and
`OneExchangePerConnection` of TcpServer show that this server does.

`fd_`, `fd`, `randomValue`, `sock`, `command`, `choice` are the program's
variables and `fds` its descriptor table, in which an entry names the call that
opened it. The five calls of `urandom_string` and the local `rng` open and close
one descriptor after the other and are one step. `Faults` says which calls may
fail although a descriptor is free (`ENFILE`, `EIO`, `ENOBUFS`), and `faulty`
remembers that one did. An exception that leaves the button's handler, or the
console's `main`, ends the program. An error that is shown in a dialog is taken to
be dismissed.

### ClientServer

`ClientServer` puts the server of TcpServer, one client program (`User`, an
instance of TcpClient with its own `pc`, descriptor table and so on, here `cPc`,
`cFds`, ...) and other peers on one network. Each action is an action of one
program together with what it does to the connection they share: `Connect` is the
client's `Connect` and the server's `PeerConnect`; `SendMessageToServer` puts
`Wire(Message)` into the server's `inbox`; `Delivers` takes what the server sent
to the client, as the notice if it is the client's own copy of the words
(`ClientNotice`) and as another reply if not; `Breaks` is the end of the server's
side, which comes after what was sent on it unless it is a reset; `Hangs` and
`Bounces` are what the kernel of a dead client does: a FIN, a reset if it holds a
reply that nobody read, a reset for a reply that comes later. `Works`, `Stops`
and `Leaves` concern the client alone, `Serves` and `Interrupts` the server
alone, and `Others` are peers that send, end and reset as they like.

### OneShotService and TcpServerService

`OneShotService` says what the server promises in eight variables and no
descriptors: connections wait in one line, are heard one at a time and at most
once, in the order they came, and are answered at most once, with their own
message or, when barred, with a notice; after a barred one the service is muted.
`TcpServerService` maps TcpServer to it: the line is the accept queue behind the
connection that `RunServer` has accepted and not read, `busy` is the connection
whose message is in the buffer, `open` is a listening `server_fd`.
`RefinesService` is what one `client_fd`, one `client_address` and one buffer for
everybody put at risk.

### Base64 and Urandom

The pure parts of `GenerateRandom`, which TcpClient takes as one value. `Base64`
runs `to_base64` and `from_base64` one loop turn per action: `to_base64`,
`EncodeGroup` and `EncodeTail` are `encode_into`; `DecodeEmpty`, `WrongSize`,
`WrongPadding`, `from_base64`, `DecodeGroup`, `DecodeTail` and
`InvalidCharacter` are `decode_into`, with its buffers, pointers (`bytes`,
`curr`), counter (`i`) and tables. A character is its place in the alphabet; the
tables are written as the arithmetic that their 256 entries follow, those of a
little-endian and those of a big-endian build (`endian`), with the bytes that each
takes from a decoded word (`decidx`).

`Urandom` is `random_password_counts` (`random_from_alphabet` three times, then
`Shuffle`), `read_exact`, one `read` per action, and `urandom_string`. A
byte is its place in what `/dev/urandom` gave, so that a character remembers which
byte chose it and a byte that was never read is recognised.

### Model-checking modules

`MCTcpServer`, `MCTcpClient` and `MCClientServer` give values to the constants.
`MCStrings` extends Base64 and Urandom, runs a call of either and gives values to
their constants. An operator under a
comment that starts with "Mutant" is a wrong version of the action below it; it
is used by no specification, and shows that a property depends on the code.

## Runs

| Run | Instance | Shows |
| --- | --- | --- |
| `server_safety` | 2 connections, 3 addresses, 2 payloads, 6 descriptors, backlog 1 | all safety properties of the server, and `RefinesService` |
| `server_commands` | 1 connection, `SHUTDOWN` in two pieces and bytes after a NUL, buffer of 3 tokens | what counts as a command |
| `server_live` | 2 connections, `SHUTDOWN` only, the build without `EXTRA_LOGS` | what ends the server and drains its queue |
| `server_sigint`, `server_ban`, `server_badfd`, `server_close` | as `server_safety` | four statements of the repository that the code does not keep |
| `client_click` | both builds, 9 descriptors, all faults | all properties of the client |
| `client_leak`, `client_text` | as `client_click` | two more such statements |
| `client_strings` | both byte orders, byte strings to length 7, texts to length 8, passwords to length 5 | the codec and the random strings |
| `client_server` | 1 connection of the client, 1 of another peer, 2 addresses, 6 descriptors on each side, backlog 0, both builds | what the client's verdict says of the server, and what can make its call hang |

Bounds. Two connections are enough for one to be served while another is
queued, for a banned one to come before or after another, and, with six
descriptors of which three or four are taken before the first connection, for
the table to be full at the second or third `accept`; standard input may be
closed, which adds one free number and the case of descriptor 0. In
`server_safety` the two connections are interchangeable (`ConnsAlike`): no
definition orders or chooses them, and none of its properties is about liveness.
`MaxInbox` bounds the bytes waiting in a socket; in `server_commands` it exceeds
`BufCap`, so one `recv` may leave a rest behind. The client needs no bound on clicks: its
descriptor table of nine leaves room for three answered clicks and for all ways of
running out at each of the calls that open something. The strings of
`client_strings` cover every length modulo 3 and 4 with no, one and two whole
groups before it, every place of padding and of a foreign byte, and bytes and
characters with bits on both sides of every cut; passwords of five characters
have 120 orders.

`client_server` has one connection of the client's, so one call that gets
through (and calls that do not, before it); the other peer comes before or after
it, holds up the accept queue (of one place, so a call can also time out), sends,
ends, resets or never says anything, from the banned or the administrator's
address. Further bounds, each named in the module: both programs start with
standard input (TcpServer and TcpClient are checked without); `Picks` leaves the
preselected command and `SHUTDOWN`; `CallsLeft` stops clicks once the connection
is used; `Matters` leaves out what the other peer does when the server is done
with it; `Leaves` kills no client that has no connection. A client message is one
segment. The theorems below do without all the sizes;
`Backlog`, `Picks`, the number of connections and the tables are any.

What the safety properties say of the server: a peer never gets bytes of another
peer (`ReplyIntegrity`); only the ban flag makes the server silent
(`OnlyBanSilences`), and it always tells a banned address (`BannedAreTold`); it
stops only on SIGINT or on the administrator's `SHUTDOWN` (`StopsOnlyWhenTold`),
and an answered `SHUTDOWN` has stopped it (`AnsweredShutdownStops`); after SIGINT
it accepts at most once more (`AtMostOneLateAccept`); descriptor 0 is never the
listener (`ServerFdNotZero`); the logger is there when `~TcpServer` uses it
(`LoggerOutlivesServer`); the listener is lost only by an `accept` that failed
of itself, was interrupted or met a full table, never through a client, a message
or another failure (`ListenerLossExplained`); and no `close` hits a file
(`ClosesOnlySockets`).

And of the client: between clicks exactly one descriptor per generated value and
one per reply is left open (`DescriptorsAccounted`); a click closes only what it
opened (`ClosesOnlyItsOwn`); success is reported exactly when the server answered
with something else than the ban notice (`SuccessMeansServed`); the client dies
in a click only if it found fewer than three free descriptors
(`EndsOnlyWhenStarved`); and the text that `GenerateRandom` returns when its open
fails never reaches the server on a full table, because `fd_` still holds the
last descriptor and `socket` fails next (`SendsWhatWasChosen`). The last one
would be lost if the `Urandom` object were scoped more tightly, or if `sock`
were opened first.

Of the two together (`client_server`): a client that reports success is not
banned, and the server read exactly its message and echoed it; one that reports
failure on a connection was told of its ban or was dropped by the server
(`VerdictAgrees`; the client only compares the reply with its own copy of the
notice). An administrator whose client reports success for `SHUTDOWN` has stopped
the server (`ToldShutdownStops`). Whatever becomes of a client, its connection
never makes the server die of SIGPIPE (`ClientNeverKills`): a peer must end, be
reset and be sent to, and the only thing that resets a client's connection after
its end is the one reply. And when no other peer holds up the queue, nothing but
the ban flag can make a call hang (`HangsOnlyWhenMuted`), which is the one
deadlock of the system: the server has forgotten the connection, still holds its
descriptor, and the client waits for a reply or an end. `NeverForgotten` is the
part of this that is about safety: at every moment that a call waits in `recv`
and the flag is down, there is something to wait for.

Of the strings: `encode_into` returns the bits of its input in their order, then
zeros, in as few characters as hold them (`EncodesTheBits`), `decode_into` gives
the input back (`RoundTrip`), takes exactly the well-formed texts
(`AcceptsBase64Only`) and returns their bits (`DecodesTheBits`), ignoring those
that padding leaves over. The reference is one bit of a byte string or of a text
by its place (`DataBit`, `TextBit`), and knows neither groups nor tables. And no
pointer leaves a buffer (`InBounds`). A password has the numbers of digits, letters and symbols
asked for (`ChosenCounts`), each character has a random byte of its own however
short the reads (`OwnRandomByte`), and the shuffle gives each of the n! orders
for exactly one sequence of indices (`EveryOrderOnce`). That the indices and
characters themselves are equally likely is not claimed: `x % i` and
`byte % size` favour small values a little.

Fairness. Both programs are single-threaded and the kernel schedules them, so
`FairSpec` assumes weak fairness of the program's own steps and of nothing else.
What a liveness property needs of others is written in it as a premise:
`PatientUser` repeats Ctrl-C, `LivelyPeers` close their connections in the end,
`LivelyServer` answers or closes. `CFairSpec` assumes the same of both programs
(`ClientStep`, `Serves`) and that the network delivers (`Arrives`: the reply, the
end of the stream or a reset, but not a reset after the end); `HangsOnlyWhenMuted`
has the premise `LivelyOthers`, that other peers end their connections. Without the first, `RepeatedSigintEndsServer`
is what `server_sigint` refutes; without the others, one silent peer holds up the
queue, and a silent server freezes the window.

### What the code does not keep

* `Readme.md:13`, cleans up with a SIGINT: a SIGINT between the test of `quit`
  and the sleep in `accept` or `recv` is noted and then slept through.
* `tcp_server.h:100`, a packet for each user: one packet for all; after the banned
  address has written, everyone's messages are ignored, `SHUTDOWN` included.
* `tcp_server.cpp:491-493`, Bad file descriptor only when non-blocking: also, for
  every `accept` to come, after one `accept` on the blocking socket has failed.
  The run shows it without a fault of the kernel's, from the descriptors that the
  server never closes.
* `tcp_server.cpp:104`, close connections: the last one only.
* `urandom_test.cpp:248`, close the file descriptor: after the return.
* `tcp_client.cpp:232`, a value from /dev/urandom: or the text of an error.

## Proofs

`TcpServer_proofs` proves, for every set of connections and addresses, every
table size, backlog, buffer and payload, and for `EXTRA_LOGS` on or off, that the
server's specification implies `TypeOK`, `ReplyIntegrity`, `OnlyBanSilences`,
`StopsOnlyWhenTold`, `AtMostOneLateAccept`, `ServerFdNotZero`,
`LoggerOutlivesServer`, `ListenerLossExplained`, `OneExchangePerConnection`
and `ClosesOnlySockets`. The assumptions are those of module TcpServer: the sets
do not overlap with the words that mark special values, there are at least three
descriptors, payloads are nonempty sequences of tokens, and the buffer is longer
than `SHUTDOWN`.

None of these is inductive alone; `IndInv` is. Its parts are

* `StaticsInv`: which static objects live at which control point, in which order;
* `BootInv`: before the listener exists the table holds only the standard
  streams and the log, which has taken number 0 if that was free; afterwards the
  listener is `server_fd` and not 0;
* `TableInv`: a connection is in one place, a descriptor or a position of the
  queue, and while it waits nothing has been read from it;
* `ServeInv`: while a connection is served, `client_address` is its address,
  nothing was read or sent before, and the buffer is what was read from it. This
  is what makes one shared address and one shared buffer safe, and it needs
  `TableInv`, since a connection accepted twice would break it;
* `ToldInv`, `LateInv`, `LostInv`, `SilentInv`: the reason for a stop, for a late
  accept, for a lost listener and for a silence, carried from where it arises. For
  the listener it is `faulted`, `quit`, or that no number but the listener's is
  free, which stays so because such a server opens and closes nothing more;
* `SocketsInv`: `server_fd` and `client_fd` name a socket of the server or
  nothing, so the destructor and the failed accept can close them.

`NextInd` has a lemma per part and a case per action; `PTL` closes the temporal
step. TLC checked `IndInv` on the instance of `server_safety` before the proof.

Its second part proves `BannedAreTold`, for builds with `EXTRA_LOGS`
(others do not send the notice), and `AnsweredShutdownStops`. All steps but five
are `Quiet`, they change nothing that the two speak of (`QuietSteps`); the five
are those that read a message or send a reply. `AnsweredInv` carries the second
from the moment the message is read, when the flag is cleared, to the echo.

Its third part proves `NobodyForgotten`: a connection that is open, or that
brought bytes, and was never read is in the accept queue or at `recv`, as long as
the server is not about to end (`NoneUnheard`). An interrupted or failed `accept`
closes the listener, and the queue with it, so what has to be shown is that
whoever it takes from the queue is told so. `HeldInv` is what it needs: a
connection that is not over has a descriptor or a place in the queue, only a
listening socket has a queue, and a process that is gone has neither. TLC checked
both parts on the instance of `server_safety` first.

`TcpServerService_proofs` proves `RefinesService`: the initial states map to the
initial state of the service, and each step of the server to one step of it or to
none. `OpenInv` adds to `IndInv` what the mapping relies on: only a listening
socket has a queue, and a connection that was accepted found it listening and
still does, because only a failed `accept` closes it.

`TcpClient_proofs` proves `TypeOK`, `DescriptorsAccounted`, `SendsWhatWasChosen`,
`SuccessMeansServed`, `EndsOnlyWhenStarved` and `ClosesOnlyItsOwn`, for either
build, any size of table and any set of calls that may fail. `ClientInv` consists
of

* `OwnInv`: `fd_`, `fd` and `sock` name, where they are used, descriptors that
  this call opened. What a call closes follows from it;
* `CountInv`: how many descriptors `GenerateRandom` and `ConnectToServer` have left
  open, one more while they hold one that may still be closed. It also bounds the
  counters, which cannot exceed the table, so it gives `TypeOK` their range;
* `RoomInv`: how many are free, from what the call found when it started;
* `ValueInv`: the value is random unless the table is full, in which case `socket`
  will fail;
* `VerdictInv`: what is known of the message and of the reply at each point.

`ClientServer_proofs` proves `VerdictAgrees`, `ToldShutdownStops`,
`ClientNeverKills` and `NeverForgotten`, for any number of connections of the client and of others, any
backlog, tables, addresses and payloads. It uses what was proved of the parts:
`EachKeepsItsSpec` says that a behaviour of the two is one of the server and one of
the client, so `IndInv`, `AnsweredInv`, `HeldInv`, `NoneUnheard` and `ClientInv` hold; `BothInv` adds what
relates them. `MeetInv`: the connection of the call is the server's connection from
the client's address. `MessageInv`: nothing is on it but the one message, and the
server reads all of it at once. `SentInv`: until the server reads it, all of it is
there, and only a client that is gone ends its connections. `AnswerInv`: what reached the client is what the
server sent, and a connection that ended was ended by the server. `ResetInv`: only a
connection that has got its reply is reset after its end. `StoppedInv`: after an
answered `SHUTDOWN` there is no way back to `accept`. `NeverForgotten` joins
`SentInv`, `NoneUnheard` and the server's `SilentInv`: a message that was not read
is still before `RunServer`, one that was read and is not answered is being
answered, or the ban flag is up. Its assumptions are those of
the modules, that the client's addresses and messages are among those of the
peers, and that no call of the client fails while descriptors are free.

Three modules are about the codec, for byte strings and texts of every length and
for either byte order. `Base64_proofs` proves `TypeOK` and `InBounds`: `CodecInv`
says how far each pointer is from the loop counter, so that what the loop and the
rest still read and write is there. `Base64RoundTrip_proofs` proves `RoundTrip`.
`GroupDecoded` is its arithmetic: the four characters that stand for three bytes
give a word below `bad_char` with those bytes at the indices `decidx0` to
`decidx2`; a rest of one or two bytes is a group whose other bytes are zero.
`RoundInv` carries it through the loops: the groups of the text in front of
`encode_into`'s counter are those of the data and what is behind is still padding,
and what `decode_into` has written is the data up to there.
`Base64Accepts_proofs` proves `AcceptsBase64Only`. `decode_into` counts the `=` of
the last four characters wherever they are and never looks at their places; as
all the others must be in the alphabet for the words to be valid, the counted ones
can only be at the end (`PaddingPlaced`).

The two theorems about bits rest on the same arithmetic. A bit of a string is a
bit of one of its groups of three bytes or four characters (`GroupBit`), and the
bits of a group are found by case on the place, so that each case is linear.
`EncodesEveryBit` reads them off `RoundInv`; `DecodesEveryBit` has an invariant of
its own, `BitsInv`, since a text that `encode_into` did not make may have any bits
in front of its padding. `RoundInv` and `AcceptInv` were checked by TLC on the
instance of `client_strings` first.

`Urandom_proofs` proves `RandomTypeOK`, `OwnRandomByte`, `ChosenCounts` and
`EveryOrderOnce`, for every request, every length and every way in which reads fall
short. `RandomInv` consists of the first two and

* `Starting`: an idle call has drawn nothing;
* `Filling`: while the alphabets are read, the characters made so far are those of
  the alphabets that came before, each chosen by the byte at its own place; the
  bytes in the buffer are the next ones, and what was not read is zero;
* `Shuffling`: the string is what the drawn indices make of the one that the three
  alphabets gave, and the loop counter says how many are still to be drawn.

TLC checked it on the instance of `client_strings` before the proof.

`ReplayIsBijection` is Fisher-Yates for strings of any length: a sequence of indices
determines an order and each order comes from exactly one. A place that the loop has
left is never touched again (`OrdersSettle`), so two sequences that differ first at
some turn differ in what that turn leaves behind (`ReplayInjective`); and the index
for a given order is where the wanted character is at that turn
(`ReplaySurjective`). These are inductions over the turns. The library's induction
theorems take an operator and cannot be used, so the induction is the existence of a
least counterexample (`Least`), which follows from the well-foundedness of the order
of the numbers. `ChosenCounts` follows: the order is a bijection, so it keeps the
number of characters of each class (`CountOfClass`).

Only model-checked: the liveness properties, which are out of the prover's reach:
`ShutdownEndsServer`, `RepeatedSigintEndsServer`, `QueueDrains`, `ClickReturns` and
`HangsOnlyWhenMuted`, of which `NeverForgotten` is the part that can be proved.

## Not modelled

* The TLS paths (`RunServerSecure`, `ConnectToServerSecure` and the rest under
  `SECURE_SERVER_TEST`), which are compiled out.
* `AcceptAll`, the coroutine experiment, `urandom_u64`, `urandom_bounded` and the
  helpers of Util that nothing calls.
* `SendNonBlocking`'s partial write and `EAGAIN`: the socket is blocking, the reply
  is short and the first on its connection (`OneExchangePerConnection`).
* The RSA, curl, TOML and file helpers and the getters of Config, which keep no
  state that the exchange depends on; argh, which is vendored and only read for
  flags; layout, menus, logo and dice of the window; scripts; what is logged.
* Windows, SIGTERM and other signals, and a second server on the port beyond the
  failure of `bind`.

## Plan

What is left is small: a client whose message takes several segments (the server
would echo and judge only the first), and two client programs at once.
