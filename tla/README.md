# Verification of secure-messaging

TLA+ models of the secure-messaging server, its clients and their supporting
parts, TLC runs that check them on small instances, and TLAPS proofs of the
results that matter most for every instance. Source paths below are those of the
repository; `Server.cpp` is `src/Server/Server.cpp` and so on.

The repository is in the middle of a refactoring. `Network/SecureChannel.h`, which
the server and the client both include, is not in it, nor is the older `TcpSocket`
they were written against. `docs/todo.txt` lists "Reimplement behavior" of
`SecureChannel` as open. The models take `Server.cpp`, `SessionManager.cpp` and
`Client.cpp` as they stand and describe the channel by what these files expect of it.
A paste of a test sits in the middle of a word in `Client.cpp:57-82`; the model is of the code
around it (line 57 continued at line 82).

## 1. Inventory

| Component | State | Operations | Properties that make it correct |
|---|---|---|---|
| `SessionManager` | `_sessions`: fd to session (channel, user name, authenticated), `_user_to_fd` | `Create`, `Destroy`, `Authenticate`, `Unauthenticate`, queries | the two maps agree; one login per user; a login and its connection end together |
| `AccountRegistry` | `_accounts`: name to digest | `Register`, `Contains`, `MatchingPassword` | the policy holds for every account; the accepted password, and only it, opens the account |
| `Server` | one thread; epoll's events; the message buffer | `HandleEvents` and what it calls: accept and key exchange, close, `Ping`, `Register`, `Login`, `SendChat`, response | no event is lost or handled for the wrong connection; each request gets its one response; chats are authentic, in order, for the right client; descriptors are neither leaked nor closed twice |
| `Client` | channel, `_inbox`, `_connected` | `Connect`, `SendRequest` / `GetResponse`, `GetUnread`, `Disconnect` | responses are matched to requests although chats come in between; calls return |
| `SecureChannel` (absent) | socket, key | `EstablishKey`, `Send`, `Receive` | external: whole messages, in order |
| `ThreadPool` | job queue, mutex, condition variable, flag, threads | `Enqueue`, `Busy`, worker loop, destructor | no lost wake-up; jobs start in order; the destructor returns, and nothing of the pool is used after it |
| Messages, `ByteReader`, `ByteWriter` | a cursor in a byte vector | `Serialize`, `Deserialize` of 12 messages | reading gives back what was written; no access beyond the buffer |
| `TcpSocket`, `TcpClient`, `TcpListener` | a descriptor, address, port; behind it the kernel's file | `Connect`, `Listen`, `Accept`, `Send`, `Receive`, `Close`, move | a descriptor has one owner and is closed once; the address, the port and the errors an object reports are true; a port can be used again |
| `KeyAgreement`, `SecureKey`, `Hash` | keys, salt | `Agree`, `Encrypt`, `Decrypt` | both sides derive the same key; sizes fit |
| `IpAddress` | 32 bits | packing, printing | the four bytes come out as they went in, for a reader and for the kernel |
| `Logger`, `ConsoleLog` | shared target, level | `Write` and its levels | lines are whole |
| `ClientCLI` | a `Client`, the last line read | `Run`, `BuildCommand`, `RunCommand`, `ParseCommandArguments` | what the server reads is what was typed; every request was typed; `quit` is always reached |

How they interact. The server owns a `SessionManager` and an `AccountRegistry` and
calls them from its one thread; it also owns a `ThreadPool` but gives it no jobs.
A `ClientCLI` owns a `Client` and turns
lines into calls of it. Clients are separate processes, joined to the server by TCP connections through
the kernel's socket buffers and, on the server's side, an epoll instance. The
listening socket is level-triggered (`Server.cpp:20`), client descriptors are
edge-triggered (`Server.cpp:97`), and one event leads to one blocking receive (`Server.cpp:68`).
Everything the server does for a client, sending to *other* clients included,
happens inside the handling of one event.

What is hard here: events that outlive or precede what they are about; a descriptor number that
is closed and reused; handlers that block in a send or in the key exchange while clients come,
send and hang up; two maps that must be changed together; chats that arrive between a request
and its response; the condition variable of the pool; sockets that are moved, reconnected and
closed while other threads get the numbers they give up; a stream of input that ends.
`PROJECT.json` lists these hazards one by one, each at its line and with the properties that
would notice it going wrong.

## 2. Plan

The order is by importance; each step is checked, then proved as far as it can be.

1. **SessionManager**, the abstract **LoginDirectory** it implements, and the proofs
   (done).
2. **AccountRegistry** and its proofs (done).
3. **Transport**, **Server**, **Client** and their composition **SecureMessaging**, with
   the proofs of every safety property (done): `UsesSessionManager` carries the theorems of
   step 1 over to the system; descriptors, requests, chats and events have inductive
   invariants of their own.
4. **ThreadPool** and the proofs of its safety properties (done).
5. **Serialization** and **Messages** (done): the layouts, the reused buffer, what a failed
   attempt leaves behind; proofs for every buffer and every string.
6. **Sockets** and the abstract **DescriptorOwnership** they implement, with six theorems,
   `IpAddress` included (done).
7. **ClientCLI** and its proofs (done): the loop, the splitting of a line, the end of the input.

What is left: every safety property that a passing run checks is proved. The properties the code
violates (section 5) and the liveness properties stay with TLC. Key
agreement and logging were in an earlier plan and are not any more, for the reasons in section 7.

Abstract specifications: `LoginDirectory` (what the server expects of
`SessionManager`) and `DescriptorOwnership` (what the owners of sockets expect of the
classes). There are twelve runs.

## 3. Modules

| Module | What it is |
|---|---|
| `Descriptors` | the file descriptors all the others speak of |
| `Maps` | `std::map`'s `emplace` (which keeps an existing entry) and `erase` |
| `LoginDirectory` | abstract: live connections and who is logged in on them |
| `SessionManager` | the component; its `Directory` refinement mapping |
| `SessionManagerProofs` | its theorems |
| `AccountRegistry`, `AccountRegistryProofs` | the component, its theorems |
| `Transport` | external: sockets, epoll, the secure channel's queues |
| `Server` | extends `Transport` and `SessionManager`, whose operations its handlers call; uses `AccountRegistry` through `INSTANCE` |
| `Client` | extends `Server` with the clients and what their users may do |
| `Filter` | the elements of a sequence that are in a set, as a function (for `epoll_wait`) |
| `SecureMessaging` | the composed system, its fairness and its properties |
| `SecureMessagingProofs` | its types and descriptors: theorems |
| `RequestProofs` | extends it and `SessionManagerProofs`: requests, logins, chats, events |
| `ThreadPool`, `ThreadPoolProofs` | the component, its theorems |
| `Serialization` | `ByteReader` and `ByteWriter` as cursors |
| `Messages`, `MessagesProofs` | the twelve layouts and the message buffer, its theorems |
| `DescriptorOwnership` | abstract: open descriptors and who owns them |
| `Sockets`, `SocketsProofs` | the socket classes, `IpAddress` and the kernel's side of them; theorems |
| `ClientCLI`, `ClientCLIProofs` | extends `Messages` with the loop that reads lines; its theorems |
| `MC*` | constants for TLC |

Definitions called "Mutant of ..." are wrong versions of a definition that follows
them. No specification uses them; each shows that a property notices a plausible bug of that kind.

**SessionManager.** A session is its name and its flag; the channel is represented by
the descriptor, which it owns. `Create` is the branch in which the key exchange
succeeds; the other changes nothing in the table. `SessionNext` is every sequence of calls.
`LoginOnce` is an assumption about the callers that some properties need: nobody
authenticates a session that is authenticated already, and nobody calls `Unauthenticate`.
The server calls `Unauthenticate` nowhere, but lets a client log in as often as it likes
(see section 5).

**AccountRegistry.** Strings are values with a length and a set of character classes,
which is all the policy looks at; `int` error bits are sets of bits. `accepted` is a
history variable. Saving and loading are stubs nobody calls.

**Transport.** Per client a queue of messages in each direction; a backlog of
connections for `accept`; epoll's registered descriptors and its ready list. An edge
(new data, a hang-up, a reset) puts a registered descriptor on the ready list if it is not
there; `epoll_wait` takes the entries that still have something to report, at most
`MaxEvents`, and leaves a level-triggered descriptor in the list. `Cap` is how many
messages fit between the server and a client's receive: all the buffers on the way as one.

A client that has hung up answers what still reaches it with a reset: a send of the server draws
one, and a close with something unread, or on its way, sends one itself. The reset arrives some
time later (`ResetArrives`), once per connection, and is an edge. From then on a send fails at
once (`SendSucceeds`), and nothing more happens on the connection that could be an edge. What the
client had sent before stays readable, as in the Linux kernel. `reset` follows this for each
descriptor; that it says `behind` instead of `arrived` when a request was unread at that moment is
history, for the properties. A client that dies and resets in one is `HangUp` with `ResetArrives`
right behind it. Whether the channel's failing send also raises SIGPIPE cannot be seen, as it is
not in the repository; the end of the process is `Stop`.

**Server.** `HandleEvents` is cut where its thread may block, and nowhere else:

| Code | Action |
|---|---|
| `epoll_wait` (41) | `EpollWait` |
| `Accept` (51) | `Accept`, `AcceptFails` |
| `EstablishConnection` (88-101) | `EstablishConnection`, `EstablishFails` |
| receive without a message, `CloseConnection` (103-110) | `CloseConnection` |
| receive, `HandleBufferedRequest`, `HandleRequest` up to a send | `HandlePing`, `HandleOther`, `HandleRegister`, `HandleLogin`, `HandleSendChat` |
| the send of the `ReceiveChat` (195) | `ForwardChat`, `ForwardFails` |
| `SendResponse` (72) | `SendResponse` |
| the end of the process | `Stop` |

`pc` tells which of them is next; `batch` holds the events still to be handled, the current one
first. While the server is blocked, clients go on: they connect, send, receive and hang up. A
send to a client that has hung up reports success until its reset has arrived, and failure after
that; `SendResponse` only logs which (lines 72-75). `HandleEvents`' last `else`
(line 81, an event for a descriptor without a session) has no action: `EventsAreFresh` says
that it is never reached. Whether a forwarded chat fits the message buffer depends on its size
and on the two names (`Fits`).

**Client.** One `Client` object each. `SendRequest` blocks until the response; it is the
step that sends, then one `GetResponse` per message, a chat going to the inbox. `Send`'s -1
counts as true in `Client.cpp:47`, so a failed send shows in the receive after it, as `Disconnected`.
`HangUp` is the object's destruction or the end of its process at any moment, which
is also how `Disconnect`, which only clears a flag, ends in `ClientCLI`. What a user
requests is any of the commands of `ClientCLI` at any time the client is connected and not
waiting. `re` in a response and `to` in a chat are history fields that are not on the wire. `GetResponse`'s
branches for a message that cannot be read or is neither chat nor response have no action: the
server sends nothing of the kind.

**ThreadPool.** What a thread does while it holds the mutex is one step. `Enqueue` is two,
`Push` and `NotifyOne`, because it notifies after releasing the mutex. Jobs may enqueue;
workers may wake spuriously.

**Serialization and Messages.** A reader or writer is a cursor: the bytes, a position and
whether a call has failed, after which the callers' `&&` chains make no more. A message is its
type and its strings. `Serialize` writes the header (the type, and of a list the number of its
strings) and then each string behind its length, over
what is in the buffer; `Deserialize` reads them, and may also throw where `resize` does. Server
and client send the whole buffer, so one variable, `bytes`, follows it back and forth. `Server`
and `Client` use messages as records; `Fits` there is the one place where a size matters to
them.

**Sockets.** An object is its `_sockfd`, `_address` and `_port`; which objects exist is `live`.
All threads of the process are one: what the code does between two system calls that can fail
is a step, so `Connect` is three (`ConnectBegins` closes the old descriptor, `ConnectOpens` is
`socket()`, `ConnectReturns` or `ConnectFails` the rest), and `connecting` holds the objects in
the middle of it; the others may use the number just given up. `Accept` is one step, but models
its two moves through `MovedFrom`, so that what the code leaves in the moved objects decides
whether their destructors close the new connection.

Behind each descriptor is a file (`file`), the kernel's state: what kind of socket it is, its
local end (the remote one for a socket that `Connect` connected), `SO_REUSEADDR`, blocking or
not, how many connections wait, and its link: up, closed by the peer (`eof`), with an error
that waits to be reported (`reset`: ECONNRESET; `broken`: EPIPE), or with the error reported
and gone (`over`). `lingering` is TIME_WAIT. `socket()` and `accept()` return the lowest free
number. `SendKills` is SIGPIPE: the process ends, the kernel closes everything, and the next
process starts. The bytes `Send` and `Receive` carry are left out; the errors they report are
computed from the file (`SendErrors`, `ReceiveErrors`, `AcceptErrors`).

**ClientCLI.** The six keywords are one byte each, as lines are only cut at spaces and their
first words compared. `typed` is what is still to come from the input and `terminated` whether
its last line ends with a newline. `GetLine` is `std::getline`: it empties the string before it
reads, and does not touch it if the stream had already met its end. A turn of the loop is one
step up to where `SendRequest` blocks; the answer, chats before it or the loss of the
connection are the others. The request is really written into the client's buffer (`Messages`'
`Send`), over what the last answer left there, so a request that is too long is refused where
`Serialize` refuses it.

## 4. Runs

| Run | Instance | Shows |
|---|---|---|
| `tables` | `SessionManager` with 2 descriptors and 2 users, every call; `AccountRegistry` with 8 names and 8 passwords on both sides of every limit | names exactly on authenticated sessions, also after a second login or `Unauthenticate`; the policy and the password check |
| `server_safety` | 2 clients, 2 descriptors, 2 users (one with a longer name), 2 chats each, the second too long for some, 2 messages of room, `LoginOnce` | ten invariants, below |
| `login_once` | 3 clients for 2 descriptors, 2 users, 1 event at a time, all requests but chats, `LoginOnce` | the two maps, single login, truthful refusals; the server calls `SessionManager` as the theorems assume, and the whole system implements `LoginDirectory` |
| `sockets` | 2 clients, 2 listeners, 2 descriptors, addresses 0.0.0.0 and 127.0.0.1, port 5555, 1 waiting connection | one owner per descriptor; true addresses, ports and errors; the port can be used again; the refinement of `DescriptorOwnership` |
| `client_cli` | every line of up to 7 words and spaces, every sequence of up to 3 of 11 lines, with or without the last newline; a buffer of 6 bytes, 1 chat before an answer | what is received, what is sent, and that `quit` ends it |
| `liveness` | 2 clients, 1 user, registrations, logins and chats, 1 message of room, the server may stop | requests, connection attempts and lost logins end |
| `messages` | 12 types, 3 strings (one too long for most messages), lists of up to 2, a buffer of 10 bytes, 16 values to a byte, 2 bytes to a length | what is written is read back, by its own type only; a message is refused only if it does not fit, and then nothing readable is left |
| `thread_pool` | 3 workers, 4 jobs | wake-ups, order, destruction, and no use after it |
| `login_again`, `dead_sessions`, `stalled_server`, `lost_hang_up` | small | where the code and what is said of it disagree, section 5 |

Safety of the composed system: `SessionsOwnDescriptors` (the open descriptors are exactly
those of the sessions and of the connection being established), `EventsAreFresh` (no
event is for a session that an earlier event of its batch ended or replaced, and
the blocking receive it leads to has something to return), `NoLostWakeup` (edge-triggering
with one receive per event leaves no connection or request unnoticed, and no hang-up but the one
described next), `ResponseMatchesRequest`, `ChatsAreAuthentic`, `ChatsInOrder`,
`ChatsReachRecipients`, `SelfChatComesFirst` and `LoginsEndUnlessReset` (when the server has
nothing left to do, a login whose client is gone is one of that kind). Only `ChatsReachRecipients`
and `SelfChatComesFirst` need `LoginOnce`; the run has it for its size, and the theorems of section
6 prove the others without it. In `login_once`: `MapsAgree`, `SingleLogin`, `RefusalIsTruthful`,
`UsesSessionManager` (the system's steps are, seen in the two maps, steps of `SessionManager`, so
what is proved of that module for any instance is true of the server) and `ImplementsDirectory`.

*What `NoLostWakeup` says, and does not.* One receive per edge is a known trap. A client
sends its next request only after the response to the last, so two requests never
wait on one descriptor. What can wait together is a request and a hang-up, for which there may be
one event only. The server receives the request and sends its response to a client that has gone.
If that connection has not been reset yet, the response draws the reset, which is an edge of its
own, and the next receive finds the hang-up; until then it is a hang-up that nothing announces, but
something will (`reset` is `coming`). If the reset came while the server had taken the event or
was handling the request, it has put the descriptor on the ready list again. But if it came
while the request was unread and its entry still in the list (`behind`), its edge is the same
entry, the send fails here without a trace on the connection, and nothing announces the hang-up
any more: the client died with a chat or a response unread, or an earlier forwarded chat had drawn
the reset. `IsUnannounced` are these two cases. The first of them ends, which is why
`LoginsEndUnlessReset` has the second only; that the second happens is the run `lost_hang_up`. A
mutant that omits a response shows the dependence on it.

*Bounds.* Two descriptors are enough for reuse after a close, and for an event of one
connection behind the close of another; three clients make them compete. `MaxEvents` is 2 so
that a batch has an event behind the current one, and 1 in `login_once`, where three clients
make more events than one call returns. `Backlog` is 1 or 2: 2 where `ConnectsEnd` needs a
second connection waiting behind the first. `Cap` is 1 or 2, so that the server does block.
`MayHangUp` is false in `stalled_server` only, whose counterexample needs no hang-up.
`MaxChats` is 2 where order matters. Ping and malformed requests, which change nothing but
are answered, are in `login_once`. With its one user `liveness` has chats of a user with itself only; what two users' chats
and resets do to each other is left to the safety runs. Clients, and users with names of equal length, are interchangeable; symmetry is
used in runs of safety properties only.

In `messages`, lengths have two bytes, so that their order and the larger values left by
strings in their place occur, and a byte has room for the 12 type ids; nothing in the code
depends on 256 or 8. `Canonical` also looks at every buffer one byte away from a reachable one.

In `sockets`, two descriptors are what it takes for one to be given up by one object and got by
another while a third object waits for its own; two listeners at one port, with the wildcard
address, for every way `bind` and `listen` can fail. Objects of a class are interchangeable. In
`client_cli` the buffer holds a login of two one-byte words but not a chat of two, so that a
request is refused between others.

*Deadlock.* Checked everywhere but in `liveness`, where the server may stop, in `thread_pool`,
where the destructor finishes, and in `client_cli`, where `Run` returns.

*Fairness.* `Run()` is an endless loop on its own thread, so a server that can take a
step takes one; a client that waits is inside `recv()` and gets what has come; a reset on its way
arrives. Users
are not obliged to do anything, in particular not to send another request, and that is when a
client reads. So what depends on a client reading is conditional (`ClientsDrain`), as is a connection
attempt on a free descriptor. For the pool: each thread is scheduled, gets the mutex
eventually (weak fairness of its whole loop) and its jobs return; spurious wake-ups
are never relied on. For the command line: the loop takes what has been typed (`TakeLine`) and a call of the
client comes back (`Outcome`), which `liveness` shows of a server that is there, and of one that is gone.

## 5. What the runs found

* `login_again`. A session that logs in twice keeps the first name in `_user_to_fd`
  (`SessionManager.cpp:58`), and `Destroy` erases the last name only (line 18). As long as a
  session has that descriptor, this one or a later one of some stranger, the first user is
  refused with "A user is already logged in under that account" (`Server.cpp:185`) although
  logged in nowhere; `tests/singlelogin.cpp:20` expects that login to succeed. The other
  properties that need `LoginOnce` fail without it for the same reason: chats to the first user
  go to the stranger (`ChatsReachRecipients`), and with three clients and three descriptors the
  user can log in on two connections while the descriptor is free (`SingleLogin`), which
  `tests/singlelogin.cpp:17` says is refused. Hence `LoginOnce` in the runs and theorems that
  need it.
* `dead_sessions`. `Destroy` leaves a session without a login where it is
  (`SessionManager.cpp:17`), and with it the descriptor, while `docs/hierarchy.txt:28` says
  that the manager stores live connections.
* `stalled_server`. The thread that answers everybody blocks in a send to a client that is
  idle.
* `lost_hang_up`. A client's end is never noticed if its connection was reset while a request of
  it was unread: the one receive of the one event (`Server.cpp:68`) returns the request, and the
  send of the response fails without another edge (lines 72, 118). The session, its descriptor and
  the login stay, and the user is refused from then on; `tests/singlelogin.cpp:20` expects the login to
  succeed once the first client is gone. Receiving until nothing is left, or closing when
  `SendResponse` fails, would do. `NoLostWakeup`, `LoginsEndUnlessReset` and `LostLoginsEnd` say
  that it is the only such case.

Some behaviour no text of the repository speaks about, and so no run refutes, is still worth
knowing. It is in the models as it is in the code:

* `IsConnected` is true of a socket whose `Connect` failed, and, as reading `SO_ERROR` clears
  it, of a lost connection from the second call on. `ErrorsAreTruthful` therefore only says
  that what is reported lost is lost.
* The peer's close (`Receive` returns 0) and ECONNRESET are never `Error::Disconnected`;
  `Accept` on a closed listener is `Unexpected`.
* A `Listen` whose `listen()` fails leaves the object bound, and every later `Listen` of it
  fails in `bind`.
* A socket that connects to 0.0.0.0 is connected to this host and `GetRemoteAddress` is empty.
* A socket that connects again is blocking again.
* `Send` on a socket that is not connected, or whose error has been taken, raises SIGPIPE.
* At the end of its input the command line prints parse failures for ever, or, if the last line
  has no newline, sends that line's request for ever (`RequestsAreTyped` is about input that
  ends with one).
* A chat loses one space at its end; spaces elsewhere are kept.

## 6. Proofs

`SessionManagerProofs` proves, for any set of descriptors and users:

* `SessionTypeInvariant`: the types and `NamedIffAuthenticated`, inductive together.
* `MapsAlwaysAgree`: `LoginOnce => []MapsAgree`. `SingleLogin` is not inductive on its own, as
  nothing in it says that a login refused by the index is also refused by the table.
  `MapsAgree` is the strengthening: index and table are inverse to each other. The lemma
  `MapsAgreeStep` has one step per operation.
* `SingleLoginHolds` and `RefusalIsTruthfulHolds` follow from it.
* `SessionManagerImplementsDirectory`: `Create`, `Authenticate` and `Destroy` are `Open`,
  `Login` and `Leave` or stutter (lemma `DirectoryStep`).

The assumptions are that the empty name is no user's, and `LoginOnce` where stated.

`AccountRegistryProofs` proves the three invariants of `AccountRegistry` for any names and passwords.
Each is inductive; `RegisterCases` says what a `Register` does to the table, `AcceptedObeyPolicy`
what it means that no error bit is set. Assumed is only that lengths are numbers and the character
classes the five named (`StringAssumption`).

`SecureMessagingProofs` and `RequestProofs` prove every safety property of the composed system, for
any sets of clients, descriptors and users, any backlog, batch size and room in the
channels. The invariants build on each other, and each is inductive given those before it:

* `CoreInvariant`: the types; what the server's thread holds at each of its stops (`Thread`: in
  the middle of a handler the current event is an established connection's, and so on); that the
  open descriptors are those of the sessions and of the key exchange under way, each with a client
  of its own (`Ownership`); and that no channel overfills (`Room`), without which a send would
  leave the types. `SystemTypes` and `DescriptorsOwned` follow. The step lemmas have one step per
  action; what an action does not touch is said once, by footprints.
* `RequestInvariant`: a client that waits has its request in exactly one place (`Requesting`): in
  its channel, in the handler, or answered in the channel back. `ResponseMatchesRequest` says only
  the last of these, and is not inductive. `Links` says that messages are only on the way
  between clients and the descriptors linked to them.
* `TableInvariant`: a session with a name belongs to a client that has logged in under it
  (`LoginInv`), and under `LoginOnce` the two maps agree. `ServerUsesSessionManager` follows: each
  step of the system is, in the two maps, a step of `SessionManager`; with it, the theorem that
  `SessionManager` refines `LoginDirectory` gives `SystemImplementsDirectory`. `SystemMapsAgree`,
  `SystemSingleLogin` and `SystemRefusalIsTruthful` are proved of the system itself and so hold
  with the server's stop as well.
* `ChatInvariant`: a chat that is on its way to a client or has reached it (`Held`) was sent by a
  client logged in under the name it carries (`Authentic`) and has a number its sender has already
  given (`Sent`); a chat that is not yet forwarded is its sender's last and new to everybody
  (`Flight`); and the chats of one sender are in the order of their numbers over the inbox and the
  channel behind it (`Ordered`).
  `ChatsAlwaysAuthentic` and `ChatsAlwaysInOrder` follow; `ChatsAlwaysReachRecipients` and
  `SelfChatsAlwaysComeFirst` need `MapsAgree` too (`Delivered`, `SelfChats`).
* `EventInvariant`: only sessions are registered, and every session with a login is (`Registered`);
  the ready list and the batch have no entry twice and none that is not watched (`Entries`); an
  event that is not handled yet has its input still (`Fresh`); only a connection whose client has
  hung up is reset, `arrived` means that no request is left, and a reset that came while the request
  was handled is in the ready list (`Resets`); a watched descriptor with input is
  in the ready list or the batch, or its hang-up is unannounced (`Woken`, see section 4).
  `EventsAlwaysFresh`, `NoWakeupLost` and `LoginsAlwaysEndUnlessReset` follow. `Woken` needs
  `RequestInvariant`, as two requests never wait on one descriptor, and `Resets` for the send of a
  response: either it draws the reset, or the reset came `behind` and is an exception, or it is in
  the list already.

Assumed are the constants' own assumptions, `LoginOnce` where stated, and `~MayStop` in
`ServerUsesSessionManager` and `SystemImplementsDirectory`, as a process that ends empties the
maps at once, which is no call of `SessionManager`.

`ThreadPoolProofs` proves, for any finite number of workers and any set of jobs: `PoolTypeInvariant`,
`JobsAlwaysStartInOrder` (on the two sequence lemmas `MoveHead` and `AppendToSecond`),
`NoSleeperEverAtJoin`, whose strengthening says that the flag is set as soon as the
destructor has begun, `NeverUsedAfterDestruction` (a worker that has exited has no job
and no notification to give, and the owner is in its destructor) and `NoNotificationLost`, which counts: a push brings
its own notification, a notification becomes an awake worker, and a worker leaves with a job or
sees the queue empty.

`MessagesProofs` proves the four properties of `Messages` for every byte base and width, buffer size and
set of strings. The inductive invariant, `BufferInvariant`, says that the buffer is of its size and
is what `Serialize` made of the last message and of some buffer before it. The four properties
follow from what `Serialize` and `Deserialize` do to any buffer. What their loops compute is given
by recursive functions (`Shifted`, `Joined`, `Written`, `ReadStrings`); that these have values, and
what holds after each turn, is proved by least counterexample (`Loop`, `Turns`, `Induction`). A
writer and a reader that match before a string match behind it (`Matches`), so a reader runs out
of bytes where the writer did. A length read back is the one written, which is where
`Shifted(MaxSize)[Width] = 0` (a size is a `uint64_t`) is needed. Assumed besides (`LayoutAssumption`)
is that a string of a message, and a list, can be allocated at all.

`ClientCLIProofs` proves the two safety properties of `ClientCLI` for every line. `SplitLoop` and
`SpacedLoop` are the inductions over the bytes of a line and its words; `ArgumentsJoin` says
that the arguments with one space between each two are the line, but for one space at its end, and
`CommandFacts` what that means for each command. `CommandLineInvariant` then says that while
the client waits, the buffer holds the request the last line typed (`Says`); with
`RoundTrip`'s lemma `BufferReads` that is what the server reads. Assumed is `LineAssumption`: the
keywords differ and have no space in them, a line is a string that can be allocated, and answers
and chats are messages of those types.

`SocketsProofs` proves, for any objects, descriptors, IPv4 addresses, ports and backlog:

* `SocketTypeInvariant` and `OneOwnerHolds`. The inductive invariant is `SocketInv`: the types,
  `OneOwner`, and that an object that does not exist holds nothing (`Unheld`), without which a
  construction could bring back a descriptor. The lemmas `TypeStep` and `OwnerStep` have one
  step per action; `ListenWorksOn` and `AcceptedIsKept` say what the two compound calls do to
  the files.
* `PortsAlwaysReusable` and `ErrorsAlwaysTruthful`, from `KernelInv`: every socket that can be
  in a listener's way has `SO_REUSEADDR`, lingering ends included, and a socket without a
  connection has no link.
* `AddressesAlwaysTrue`: inductive given `SocketInv`. `HonestOthers` is the argument: an object
  keeps telling the truth while others are changed, as they have other descriptors. It rests on
  `BytesReturn`: four bytes packed into an `IpAddress` reach the kernel as the same four, and
  only 0.0.0.0 is 0.
* `SocketsImplementOwnership`: every step is an `Acquire`, `Transfer`, `Release` or `Exit` of
  `DescriptorOwnership`, or a stutter (`OwnershipStep`).

Assumed is that descriptors are numbers from 0 up, no object is of both classes, and addresses
and ports are of their ranges (`SocketAssumption`).

Left to TLC: liveness (`RequestsEnd`, `ConnectsEnd`, `LostLoginsEnd`, `JobsStart`,
`DestructorReturns`, `QuitEndsRun`), for which the provers would need `ENABLED`, and
`SessionsAreLive`, `RequestsAnswered` and `LoginsEndWithConnections`, which the code violates. The library's induction theorems take an operator as a parameter,
which the provers cannot be given; the inductions here are by least counterexample in a set of
numbers, and the models' recursions are functions for that reason.

## 7. Not modelled

`KeyAgreement`, `SecureKey` and `Hash`: straight calls of CryptoPP, whose algorithms are not in
the repository and would all have to be invented; the protocol that would use them is
`SecureChannel`'s, which is not there either, and only two tests call them. `Logger`: the text
of a log, which nothing reads (lines of two threads may mix, as `Logger.cpp:44` writes each in
three calls without a lock); its target and level are set before the tests start a thread.
The bytes that `TcpClient` sends and receives, and short counts: no caller in the program says
what it does with the rest. `SecureChannel`'s insides and CryptoPP: not in the repository.
`AccountRegistry`'s files: stubs. The server's request limit: a field nobody reads. A client
that is connected and delays its key exchange, for which the channel's code would be needed:
the model takes construction and `Connect` as one step. Errors of `epoll_create1` and
`epoll_ctl`, which the code marks as to do.
