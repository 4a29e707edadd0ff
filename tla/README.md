# A TLA+ model of tcp-server-client

The repository holds a single-threaded key-value server on Linux epoll, a
command-line client, and the libraries both use. This directory models them
in TLA+, checks the models with TLC on small instances, and proves the safety
of the server's parts with TLAPS for all instances.

## 1. The system

### Components

| Component | Source | State | Operations |
|---|---|---|---|
| KeyValueStore | `src/store.cpp` | `data_` | set, get, erase, exists, count |
| Parser, executor | `src/protocol/parser.cpp`, `executor.cpp` | none | `parse_command`, `execute_command` |
| Framing | `src/protocol/framing.cpp` | a buffer passed in | `next_message`, `read_message`, `send_all` |
| UniqueFd | `src/net/unique_fd.cpp` | one descriptor or -1 | construct, move, self-move, destroy |
| Socket helpers | `src/net/socket.cpp` | none | `create_socket`, `set_nonblocking` |
| EventPoller | `src/net/event_poller.cpp` | the epoll set | create, add, modify, remove, `wait_one` |
| Connection | `src/server/connection.cpp`, `connection.hpp` | two buffers, two cursors, `read_eof`, `output_paused`, `last_progress` | `append_input`, `process_input`, `flush_output`, `update_backpressure`, predicates |
| Event loop | `apps/server.cpp` | the client map, the store | scan, wait, dispatch, `service_client`, `retire_client`, accept |
| Client | `apps/client.cpp` | socket, receive buffer | connect over the address list, request/reply loop |
| Blocking handler | `src/server/client_handler.cpp` | receive buffer | `handle_client` (not part of a built target) |

(Paths are relative to the repository root.) `apps/playground.cpp`, the
benchmark and the tests carry no logic of the system.

### How they interact

One thread runs `apps/server.cpp`. Each turn of its loop scans the clients
(retire the idle ones, visit the ones that hold a complete frame they may
execute), waits for *one* epoll event, and dispatches it. A visit
(`service_client`) is receive, execute, send, then register the interest the
buffers now call for; each part has its own budget. All clients share the
store; nothing else is shared, and nothing is persisted. The concurrency is
with the outside: bytes, a FIN or a reset may reach the kernel between any two
system calls, and a peer may stop reading at any time.

### What is hard

* A frame left in user space by a command budget raises no epoll event.
* A paused connection neither reads nor executes, and between the watermarks
  keeps its state; the interest mask must still wake it.
* Partial sends advance a cursor in a buffer that the next visit compacts and
  extends.
* EOF, reset, idle timeout and the two size limits all end a connection, at
  different points of a visit; only the first of them owes the peer anything.
* Commands mutate the store before the reply is checked against its limits.
* Sizes are `size_t`: the code subtracts them freely and relies on invariants.
* Descriptor numbers are reused as soon as a connection is closed.
* The scan erases entries of the map it iterates over.
* accept, registration and the wait fail in ways that concern one connection,
  or the whole process; what is already owned must be released exactly once.
* Peers that keep connecting, signals that interrupt every wait, and busy
  clients all compete with the timers and with each other for one thread.

### What makes each component correct

* Connection: cursors within buffers within caps; a reply always fits; the
  flag follows the watermarks.
* Visit: every received byte is parsed once and in order, every frame is
  executed once, every reply byte is sent once and in order; the mask is exact
  whenever the server may sleep; a half-close loses nothing.
* Loop: every complete frame is executed, every dead or finished connection is
  retired, no connection with work is dropped as idle.
* Accept, map and poller: the map, the descriptor table and the epoll set
  agree; capacity is respected; a slot is freed again.
* UniqueFd: each open descriptor has one owner and is closed once.
* Client: the k-th line printed answers the k-th request; it reports a
  connection only when it has one.

## 2. Modules

| Module | Models |
|---|---|
| `KeyValueStore` | the store, as operators on a function |
| `Protocol` | parser and executor over the words of a frame; `Answer`, what a server does with one frame |
| `Connection` | the record of a connection; one operator per accessor and per part of a method |
| `Session` | one connection inside the event loop, one step per system call or loop iteration, and its peer |
| `KvService` | the abstract service: per client a byte stream in and one out, lines executed atomically |
| `SessionRefinement` | the mapping under which a session implements `KvService` |
| `SessionReference` | properties against a reference that replays the peer's stream, and liveness |
| `UniqueFd` | owners of descriptor numbers and a kernel that reuses numbers |
| `EventLoop` | `main` of the server with any number of clients, the descriptor table, the epoll set and the peers |
| `EventLoopRefinement` | the mappings under which the event loop implements `KvService` and `UniqueFd` |
| `Framing` | `next_message` and one round of `read_message` and of `send_all` |
| `Client` | `main` of the client against the actions of `KvService` |
| `Handler` | `handle_client`, and the mapping under which it implements `KvService` |
| `MCSession`, `MCEventLoop`, `MCClient`, `MCHandler` | the instances TLC checks (`UniqueFd` needs none) |
| `ProtocolProofs`, `ConnectionProofs`, `FramingProofs` | lemmas about byte strings and the operators of `Protocol`, `Connection` and `Framing` |
| `SessionProofs`, `EventLoopProofs`, `UniqueFdProofs`, `ClientProofs`, `HandlerProofs` | inductive invariants, theorems and refinement proofs |

`Session` and `EventLoop` extend `Connection`, which extends `Protocol` and
`KeyValueStore`; `Framing` extends `Protocol`; `Client` and `Handler` extend
`Framing`. `KvService` is the hinge: three servers implement it, and the
client is checked against it. Its clients in `Returning` may come back after
their connection is over, with nothing of the old one on the new one
(`Return`); these are the reconnecting peers of `EventLoop`, and there are none
for `Session`, `Handler` and `Client`, which are about one connection.

### State and actions of Session

`conn` and `store` are the server's objects; `interest` is the mask in epoll;
`pc`, `back`, `readable`, `attempt` and `reason` are the thread's position, the
step after the visit, `ready_event.readable`, the loop counter and what
`service_client` returns. `idle` is `now - last_progress` in units of the
wait's timeout. `rx`, `fin`, `rst`, `tx` are the kernel's queues and flags for
the socket; `stream`, `sent`, `got` belong to the peer; `done` counts executed
frames and nothing reads it but properties.

| Actions | Code |
|---|---|
| ScanExpired, ScanRunnable, ScanQuiet | the scan, `server.cpp:220-240` |
| WaitReady, WaitBroken, WaitElsewhere | `wait_one` and dispatch, `server.cpp:242-274`, with the error and hangup returns of `service_client` |
| RecvBytes, RecvEof, RecvInterrupted, RecvError, RecvStop | the recv loop, `server.cpp:80-118` |
| ProcessBegin, ExecFrame, ProcessEnd | `process_input`, `connection.cpp:36-92` |
| SendBytes, SendInterrupted, SendError, SendStop | `flush_output`, `connection.cpp:94-136` |
| FinishDrained, FinishKeep, FinishUnmodified | the end of a visit, `server.cpp:140-160` |
| RetireClient | `retire_client` |
| PeerSend, PeerShutdown, PeerRead, PeerReset | the peer and TCP (external) |

Modelling decisions:

* Bytes are members of `Byte`; `Tokens` (what `istringstream >>` extracts) and
  `CountText` (`std::to_string`) are parameters about which only this is
  assumed: words are texts no longer than the frame, and rendered numbers fit
  in a reply. The instances give each command word one byte and each key one
  byte.
* `size_t` arithmetic is modelled with integers. `BufferBounds`, checked and
  proved, says that none of the subtractions the code performs is negative, so
  the two agree.
* Other clients appear only through `WaitElsewhere`: the wait ended with
  somebody else's event, a timeout or `EINTR`. What they do to the store, the
  slots and the thread is in `EventLoop`.
* A wait that does not sleep (`timeout_ms == 0`) takes no tick; any other may
  take one, also when it ends with this connection's event. Time spent in
  visits is not counted.
* `send() == 0` is treated like a send error by the code and is part of
  `SendError`. Bytes already received, and a FIN behind them, can still be read
  after a reset, as on Linux; a reset discards what the peer has not read.
* Closing a socket that holds unread input makes TCP reset the connection: the
  peer may lose any suffix of the replies it has not read (`RetireClient`).
* The process exits of the loop (failed `epoll_wait`, unknown descriptor) are
  in `EventLoop`; they concern all clients at once.
* The two defensive branches that refuse input or a reply for lack of room are
  modelled inside `RecvBytes` and `ExecFrame` although they are unreachable:
  that they are is one of the results.

### State and actions of EventLoop

`main` is a record of the locals of `main` and of the visit it is in: position
(`pc`), why it returned (`exit`), the descriptors of `listener` and `poller`,
the map entries the scan has not reached (`todo`), `runnable_remains`, the
event being dispatched, the descriptor visited and a loop counter. `clients`
is the map, with the idle time beside each connection; `file`, `epoll`,
`queue` and `sock` are the kernel: descriptor table, registrations, the
listener's queue and one connection per peer.

| Actions | Code |
|---|---|
| create_socket, ConfigureListener, CreatePoller, RegisterListener, StartupFails | startup, `server.cpp:164-215`, with `socket.cpp` and `EventPoller::create` |
| Unwind | the destructors of main's locals after a return |
| ScanExpired, ScanRunnable, ScanQuiet, ScanEnd | the scan, `server.cpp:219-240`, in any order of the map |
| WaitEvent, WaitNothing, WaitFails | `wait_one` and its errors, `server.cpp:242-257` |
| DispatchBroken, DispatchClient, DispatchListener | `server.cpp:258-279` and the first returns of `service_client` |
| AcceptReturns, AcceptInterrupted, AcceptAborted, AcceptFails, AcceptDone | `accept` and its errors, `server.cpp:281-315` |
| AcceptFull, AcceptUnusable, AcceptEmplaces | what becomes of the local owner: refused at capacity, refused because `set_nonblocking` fails, or moved into the map, `server.cpp:315-332` |
| AcceptClient, AcceptUnwatched, AttemptEnds | registration, its failure, the end of the attempt, `server.cpp:333-345` |
| VisitRecv, VisitRecvError, VisitExec, VisitFails, VisitEnds | `service_client`, over the operators of `Connection` |
| PeerConnect, PeerStep | the peers and TCP (external) |

It is coarser than `Session` where `Session` has looked already: the recv
calls of a visit are one step with every possible number of calls, sends and
re-registration are one step with every possible number of bytes, and a peer
sends whole lines. A frame is still one step, so that visits that stop at
their command budget interleave. Two branches that `Session` models are left
out here as unreachable: the refusal of a reply for lack of room
(`RoomForEveryReply`), and the return "input buffer limit" after `append_input`
(`server.cpp:97-99`), since a call asks for no more than the room. The exits the code calls
impossible are kept (inside `DispatchClient`, `DispatchListener` and
`AcceptEmplaces`): that they are impossible is a result. One part of it is
taken from the kernel instead: `Broken` never reports error or hangup of a
listening socket, so of `server.cpp:276` only the readability is tested.

An accept attempt is as many steps as it has owners. After `AcceptReturns` the
descriptor is open and belongs to the local `client` (label "accepted", its
number in `main.fd`), also when the server is full; `AcceptEmplaces` moves it
into the map ("emplaced"), where it stays unwatched until `AcceptClient`
registers it, or is erased by `AcceptUnwatched`, after which the empty `client`
is destroyed ("attempted").

A peer sends any of the texts in `Script[p]`, any number of times, as long as
the kernel's receive queue (`RecvQueue`) has room: nothing limits how long a
client stays busy. The peers in `Ending` may half-close or reset, those in
`Reconnecting` come back. The kernel hands out the lowest free number, and
closing a socket removes its registration, as `retire_client` relies on when
`DEL` fails.

Time passes in waits only, not while the scan reads the clock client by client
(`server.cpp:226`), and `idle` stops at `kIdleTimeout`: beyond it the code
makes no difference either.

### UniqueFd, Framing, Client and Handler

`UniqueFd` lets any objects be constructed (empty, or from the result of any
system call), moved, assigned and destroyed in any order. `open` is the
process's descriptor table; a number that was closed may be handed out again.

`Framing` has no state. A call of `read_message` or `send_all` is a loop in
the source and a series of steps in `Client` and `Handler`, one per successful
system call; `EINTR` changes nothing. Both sockets are blocking, so a step is
simply not enabled while the kernel has nothing to give or no room.

`Client` follows `client.cpp`: `getaddrinfo`, one `TryAddress` per address,
`CheckSocket`, and then `getline`, `SendSome`, `Recv`, `PrintReply` in turn,
with `SendFails`, `Disconnected` and the end of input as the ways out and
`Close` as the destructor. The server's part is `Execute` and `Lose` of
`KvService`; `OthersExecute` is any other client. `log`, `asked` and `printed`
only record. `send_all` passes no `MSG_NOSIGNAL`, so where `send` fails the
model lets the process be killed as well as print "send failed!".

`Handler` follows `client_handler.cpp` in the same way. The file is in the
repository but in no built target.

## 3. Runs

| Run | Question | Result |
|---|---|---|
| `session_safety` | every interleaving of the server's steps with the peer's, six streams | 0.8 million states, no violation |
| `session_stalling_peer` | liveness against a peer that may stop at any time | holds |
| `session_patient_peer` | liveness for a peer that finishes and keeps reading | holds |
| `eventloop_slots` | three peers, two slots, every failure of main's calls | 1.9 million states, no violation |
| `eventloop_service` | a writer and a reader of one key that send for ever and may reconnect: the shared service | 0.4 million states, refinement holds |
| `eventloop_sharing` | two clients that send for ever, one of them comes and goes: is each served? | holds |
| `eventloop_backlog` | one slot, two peers in the queue: is each connection answered? | holds |
| `eventloop_idle` | two clients that may send for ever: does a silent one leave? | holds |
| `unique_fd` | four owners, three numbers, every order of operations | no violation |
| `client_session` | three lines over two fragmented streams, other writers, a server that may go | no violation |
| `client_connect` | does the client report that it could not connect? | violated: see Findings |
| `blocking_handler` | the blocking handler against a peer that pipelines | refinement holds |

`session_safety` checks the type invariant and

* `BufferBounds`, `NeverResponseLimit`, `NoExecutionUnderPressure`: caps, the
  reservation above the high watermark, backpressure;
* `NothingStranded`, `NeverExpiredWhileRunnable`: the interest mask and the
  idle timer against frames held in user space;
* `EofAfterLastFrame`: reads stop at a complete frame, so EOF is never seen
  past one. The check `!has_complete_frame()` in `server.cpp:143` is therefore
  always true after EOF: a safe redundancy;
* `RepliesExactlyOnce`, `InputConserved`, `RejectsOnlyOversized`,
  `DrainedMeansAnswered`: the bytes of both directions against a reference
  that cuts the peer's stream at its newlines and answers line by line;
* `ImplementsService`: refinement of `KvService`.

The runs of `EventLoop` check

* `EveryClientWatched`: at every wait, epoll, the map and the descriptor table
  agree, and every mask is the one the buffers call for;
* `NoInvariantExit`, `ScanIteratorsValid`: reuse of numbers, and erasure during
  the scan or between emplacement and registration;
* `WithinCapacity`: at most `kMaxClients` clients, and at most three
  descriptors beside theirs. The third is real: a full server has accepted a
  connection, and holds its descriptor, before it refuses it;
* `TimersServed`: no wait begins with an expired client;
* `ImplementsOwnership`: main's locals and the map follow the discipline of
  `UniqueFd`, on every path through startup, refusal, failure and exit;
* `ImplementsSharedService`: all clients together see `KvService`;
* `EveryClientServed`: a client with a complete line, in its buffer or in the
  kernel, has a line executed again, whatever the others send and however often
  they connect. Only its own paused output, the failure of its connection or
  the end of `main` excuse the server;
* `EveryConnectionAnswered`: no connection is left in the queue;
* `SlotsFreed`: a client that stops sending gives up its slot, whether or not it
  reads its replies and however busy the others are. A client that keeps
  sending may keep its slot for ever (`server.cpp:92`), so a full server may
  stay full: the property is about each client that falls silent.

`client_session` checks `RepliesPaired`, `OneRequestInDoubt` (what the
repository's README says of a lost connection) and `LineAnswered`;
`unique_fd` checks `ExactlyOneOwner`; `blocking_handler` checks
`HandlerImplementsService`.

Bounds of the sessions. The input cap is 6 bytes, the read buffer 5, the command budget 2, the
watermarks 2 and 5, the output cap 11 (the smallest the static_assert allows
with a reply allowance of 6), the kernel's send queue 2, call budgets 2, the
idle timeout 1 tick. With these the instances reach: a frame of exactly the
cap, one byte more than the cap, frames split at every byte, a budget that
leaves runnable frames at the wait, a pause between the watermarks, sends cut
at every byte, `EINTR` that uses up a whole budget, and a reset, a half-close
or an expiry at every point of a visit. The constants keep the order relations
of the real ones; the proofs do not depend on the values.

Bounds of the event loop. Two slots and three peers give a refusal at
capacity, a slot and a descriptor number taken over by another peer, and two
accepts in one report of the listener; the listener, the poller, two clients
and a connection about to be refused take five descriptor numbers, and a sixth
would show a leak. The two peers that only connect are interchangeable, hence
the symmetry. A command budget of 1 and two frames make a visit stop with runnable
input, so that the scan has to go on with it. The kernel's send queue holds
one reply and the high watermark is below two, so that a client can be paused.
In `eventloop_service` both clients may connect again, on a descriptor number
the other or their own old connection had.

In `eventloop_sharing` both peers have a slot, one sends two lines at a time
and the other one, without end, and the second may connect again after the
server has dropped it; budgets of one make every scan and every accept stop
early. No time passes there (`Elapse = {0}`): a tick could only end a starved
client's wait by dropping it as idle, and the property would then hold for the
wrong reason. In `eventloop_idle` time passes, and `kIdleTimeout` is two ticks,
so that bytes moved can put the expiry off; elsewhere it is one. A wait may
take no tick. In `eventloop_backlog` one slot and an accept budget of one leave
a second connection in the queue after each attempt.

Bounds of the client: chunks of two bytes and replies of two or three, so that
every message can be split; up to two addresses; three lines, among them the
empty line. Bounds of the handler: the peer sends at most ten bytes
(`MaxBytes`) in chunks of two and four, one of which ends one line and holds
another; a chunk of the handler is two bytes, as is the kernel's send queue, so
that reads and replies are cut. Its alphabet has five letters because TLC
evaluates the assumption about words (`LineAssumption`) on every string.

Deadlock is checked only in `unique_fd`. Everywhere else the system may stop:
a session or a client ends, main returns, and peers need not do anything.

### Findings

`client_connect` (expected violation). The address loop of `client.cpp` moves
each new socket into `socket_fd` before it calls `connect()`, and leaves it
there when `connect()` fails. After the last failure `socket_fd.valid()` is
true, so the message "connect() failed" and the return of lines 51-54 are
skipped; the client prints "connected to server" and reads a line, whose
`send` then fails or raises SIGPIPE. The error is reported only when no socket
could be created at all.

Fairness. The thread never stops (`WF` on the server's steps). epoll keeps
ready descriptors on a list it serves in rotation and `wait_one` takes one
event per call, so a descriptor that is ready again and again is reported
(`SF` on `WaitReady` and `WaitBroken`). The steady clock advances (`SF` on a
tick). Nothing is assumed of the peer in `session_stalling_peer`. In
`session_patient_peer` the peer sends, half-closes and reads eventually, no
full tick passes without bytes moving (otherwise the idle timer may end any
session), and system calls are not interrupted for ever.

`eventloop_idle` assumes the thread and the clock only (`ThreadAndClock`).
`eventloop_sharing` and `eventloop_backlog` assume the same of epoll as above,
and that not every recv on a descriptor and not every accept is interrupted
(`SF` on a recv that moves bytes, per descriptor, and on an accept that takes a
connection off the queue). Nothing is assumed of the peers: they may send for
ever, stop, stay away or never read. `client_session` assumes that the
client's process runs and that the server executes a complete line or drops
the connection, which is what `EveryClientServed` shows; not that anybody types
a line.

## 4. Proofs

Every theorem holds for all values of the constants that satisfy the
assumptions of the modules. Five specifications have proofs.

| Theorem | States |
|---|---|
| `SessionProofs`: `TypeCorrect`, `Bounded`, `RoomForEveryReply`, `NoStrandedWork`, `ExpiryIsQuiet`, `EofComesLast`, `PressureRespected` | the invariants and the action property of `Session` |
| `SessionProofs`: `SessionRefines` | `Session` implements `KvService` |
| `SessionProofs`: `ExactlyOnce`, `Conserved`, `OnlyOversized`, `DrainedAnswered` | the properties of `Session` against the reference |
| `EventLoopProofs`: `TypeCorrect`, `IteratorsValid`, `InvariantExitsUnreachable`, `CapacityRespected`, `ClientsWatched`, `TimersAlwaysServed` | the type and the safety invariants of `EventLoop` |
| `EventLoopProofs`: `OwnershipRefined` | `EventLoop` implements `UniqueFd` |
| `EventLoopProofs`: `SharedServiceRefined` | `EventLoop` implements `KvService`, for all its clients at once |
| `UniqueFdProofs`: `Ownership` | `ExactlyOneOwner` |
| `ClientProofs`: `EveryReplyPaired`, `AtMostOneInDoubt` | the safety invariants of `Client` |
| `HandlerProofs`: `HandlerRefines` | `Handler` implements `KvService` |

Each module also states its inductive invariant as a theorem (`Invariance`;
`EndsInvariance`, `PaceKept`, `WatchInvariance`, `TypesInvariance` and
`StreamsInvariance` for the further ones).

### Assumptions

`AlphabetAssumption`, `AllowanceAssumption` (a frame's allowance does not
exceed a reply's), `FixedRepliesAssumption`, `TokensAssumption`,
`WatermarkAssumption` (the `static_assert`, and low below high water),
`SessionAssumption` and `EventLoopAssumption` (budgets and sizes positive, `Fd`
a finite set of naturals), `ClientAssumption` and `LineAssumption` (the words
of a line are texts, also of a line longer than the server's input allowance,
which neither the client nor the blocking handler enforces). All hold of the
constants in the source, and TLC evaluates them on every run.

### One session

None of the properties is inductive alone; `Inv` adds

* `BoundedStore`: the store is finite and every value is shorter than the
  input allowance, because it came from one frame. This is what bounds the
  reply to GET.
* `Reclaimed`: no sent prefix is left in the output while frames execute, so
  the buffer's size is the pending size.
* `FlagSettled`: `output_paused` agrees with the watermarks everywhere except
  between a send and the end of its visit. As a send resets the idle clock,
  it also agrees whenever the clock is not at zero, which is what
  `ExpiryIsQuiet` needs. With `Reclaimed` it gives `RoomForEveryReply`: an
  unpaused connection holds less than the high watermark, and the
  static_assert leaves room for one more reply.
* `InputOpen`: after `process_input` a full buffer contains a frame; so a
  connection that is not paused, not at EOF and without a frame can read.
* `MaskExact`: the mask matches the buffers between visits.
* `IdleQuiet`: when the idle clock has run out there is no runnable input.

`InitInv` and `StepInv` show that `Inv` is inductive, one lemma per group of
actions; the operator lemmas are in `ConnectionProofs`.

`SessionRefines` maps the bytes in the kernel and in the buffers, end to end,
to the two streams of `KvService`. The lemmas `ServiceExecutes`,
`ServiceSends` and so on say once which changes of the three mapped values are
steps of the service; the others show, per action, which change it makes.
`UnseenSteps`, `RecvBytesUnseen`, `RecvEofUnseen` and `SendBytesUnseen` are the
stuttering steps: bytes move between kernel and buffer and none is lost,
replayed or reordered. `ExecFrameSeen` needs `RoomForEveryReply`'s argument (a
refused reply would be an executed line without an answer). `FinishSeen` and
`RetireSeen` need the invariant `Ends`: EOF is read only behind the peer's last
byte, so the tail that is dropped is all of the stream that is left and holds
no line; and a session retired as drained owes its peer nothing, so that
destroying it is no step of the service at all.

### A session against the reference

`Reference(s)` replays a stream: its n-th value is the position, the store and
the replies after n complete frames, by a recursive function. No induction
theorem of the library can be used here, so what an induction would give comes
from `Climb`: a set of numbers with 0 that has each successor up to n contains
`0..n`, since otherwise it would miss a least one (`Least`). With it:

* `ReferenceFacts`: the function exists and its values are the next frame's;
* `ReferencePos`, `ReferenceEnds`: positions stay inside the stream, and after
  the last complete frame nothing changes any more;
* `ReferencePrefix`: a prefix of the stream has the same reference as long as
  the frames end inside it. `DrainedMeansAnswered` speaks of the bytes that
  arrived and the others of the peer's whole stream; this connects the two.

The invariant `Paced`, on top of `Inv` and `Ends`, says that the session keeps
pace with the reference of the whole stream at `done` frames:

* `Counted`: the frames executed end within what has arrived;
* `Replied`: the store is the reference's, and what the peer has read, the
  kernel holds and the session holds are the reference's replies (a beginning
  of them once the client is lost);
* `Taken`: the unconsumed input and the kernel's queue are the stream after
  those frames, until EOF drops a tail without a newline;
* `Unfailed`, `Left` and the last conjunct carry what a visit or a closed
  session has ended with. The properties are about `reason`, which outlives
  the buffers: a refusal stays one for an oversized frame although the peer
  goes on sending, and a session closed as drained has left no frame behind.

The properties are not inductive without it. `RepliesExactlyOnce` alone does
not say that the next frame in the buffer is the reference's next one
(`FrameIsNext` needs `Taken`), and `InputConserved` says nothing of a closed
session. `WindowLine` is the step in between: the first line of a part of the
stream is the line of the stream at that position. The bytes a step moves were
computed for the refinement already; the lemmas `ExecFrameMoves`,
`FinishMoves`, `RetireMoves` and `PeerMoves` say it once for both. TLC finds no violation of `Paced` with the constants of `session_safety`.

### The event loop

For any number of peers, slots and descriptors. The first invariant has

* `Owned`: the open descriptors are those of the map, the listener, the poller
  and, between accept and its refusal or emplacement, the local `client`, no
  number in two of the four. As accept returns a free number (`LowestFree`, from
  the well-foundedness of the naturals), it is not in the map: no "already has
  an owner". With `Slots` it gives the bound of `CapacityRespected`.
* `Watched`: epoll holds only owned descriptors, and the listener for reading
  only. With one event per wait and nothing between the wait and its dispatch
  (`Reported`), the event's descriptor is the listener or in the map: no
  "unknown client descriptor", and the listener is never reported for another
  reason than readability.
* `Iterators`: the scan has left the entry it visits, so that erasing it
  leaves the rest of `todo` in the map; the entry being registered is there.
* `Slots`, `Fresh`, `Fields`: the count of clients, what startup has not
  constructed yet, and the shape of `main`.

The second, `Watch`, holds while the loop runs:

* `Attachments`: epoll is registered for the map and the listener and nothing
  else, every client's descriptor is attached to an accepted connection, no
  two to the same one, and every mask but that of the client being visited is
  the one its buffers call for. With nobody being visited at a wait this is
  `EveryClientWatched`. It does not hold between emplacement and registration.
* `Incoming`: what accept has returned is an open connection that no other
  entry refers to; once emplaced, `Attachments` holds of all other entries and
  only the registration of this one is missing.
* `Queued`: a socket in the listener's queue is there once and not accepted
  yet; without it an accept could attach two descriptors to one connection.
* `Timers`: the clients the scan has passed have not expired. It holds during
  a visit made by the scan, and not during one made for an event; but such a
  visit is followed by a new scan, so `TimersServed` holds at every wait.
* `Records`: the shape of the map's entries and of the sockets.

The third, `Types`, is about the data, and holds in every state:

* `Entries`: every connection in the map has its buffers within their caps
  (`Sound`) and its flag in agreement with the watermarks (`Settled`). A visit
  breaks and restores the second one within its last step, as no other thread
  looks in between.
* `Place`: while frames execute the output has been reclaimed; with `Settled`
  and `BoundedStore` every reply fits, as in one session. What accept has
  returned is a peer's connection.
* `Sockets`, `Tables`, `Locals`: the kernel's side, the descriptor tables and
  `main`'s variables.

`VisitRecv` takes all recv calls of a visit in one step, with a function
`Received` defined by recursion over their number. `ReceivedFacts` shows that
it is defined and that each of its values is the next call's, from a chain
of calls of every length (`Chains`) and, where an induction is needed, from a
least counterexample (`Least`).

`OwnershipRefined` maps the listener, the poller, `client` of the accept loop
and the entries of the map to objects of `UniqueFd`. Each action constructs one
owner, moves one into another (`AcceptEmplaces`), destroys one, or changes none:
the return of `main` destroys one object after the other, and a refused
connection is closed by the destructor of `client`.

`SharedServiceRefined` maps, for each peer, the kernel's queues of its
connection and the buffers of the entry whose descriptor refers to it to the
two streams of `KvService`. It rests on a fourth invariant, `Streams`, which
unlike `Watch` holds in every state, also while the destructors of `main` run:

* `Seats`: every entry's descriptor refers to an open connection and no two to
  the same one, and a queued connection is in the queue once. So a peer has one
  entry or none, and a step that changes one entry is seen by one client.
* `Ended`: EOF is read behind everything the peer has sent, as `Ends` for one
  session; the tail dropped with the connection is no line.
* `Gone`: a connection the server has closed holds nothing unread, and one it
  has closed in good order had ended. `Return` requires as much of a client
  that comes back.

`StepSeen` proves `Streams` inductive and the refinement together, from the
first three (`Incoming` says that the connection being accepted has no other
entry). Startup, the waits, and the steps that accept, emplace and register a
connection are seen by nobody; `VisitRecv` moves
bytes from kernel to buffer, over any number of recv calls (`ReceivedMoves`,
by a least counterexample again); `VisitExec` is `Execute`; the last step of a
visit is a stutter, `DropTail` or `Lose`; retiring, refusing and returning from
`main` are `Lose` or nothing for one client after the other. In each case the
lemma also says that the streams of all other peers stay as they are
(`OthersKeep`), which is what keeps a reused descriptor number from leaking
bytes between connections.

### Descriptors, client and handler

`Ownership` is inductive with the type as it stands.

`ClientProofs` has the invariant `Inv`: `Histories` (what was typed, executed
and printed have advanced together, at most one line apart) and `Streams`.
When every line has its reply both streams and the buffers are empty; when a
line is outstanding and not executed, the server's stream holds a beginning of
it (with what `send_all` has left, on a live connection, exactly the line);
when it is executed, what the client has read and what is on its way are a
beginning of its reply. The pairing of replies is a consequence, and the place
where it would break is `PrintReply`: a newline in the buffer has to be the end
of this reply.

`HandlerProofs` shows that every step of `handle_client` maps to a step of
`KvService` or to a stutter, from an invariant that says only what is in hand
where (no reply outside `send_all`, no input after the return).

### How the modules are written for the prover

Updates of a record inside a function are written `![p] = [@ EXCEPT ...]`, one
index at a time, and the refinement mappings build the one-client functions of
`KvService` with a named operator (`OfPeer`). Operators seen through
`INSTANCE` are new symbols to the prover; `SameProtocol` says once that they
are the old ones.

### Only model-checked

Liveness: `EveryFrameServed`, `EventuallyRetired`, `HalfCloseAnswered`,
`PressureReleased`, `EveryClientServed`, `EveryConnectionAnswered`, `SlotsFreed`
and `LineAnswered`. It needs fairness and `ENABLED`, which are out of the
prover's reach. Every invariant, action property and refinement that a passing
run checks is also a theorem.

## 5. Not modelled

* `apps/playground.cpp`, a demonstration of `UniqueFd` with no state of its
  own; the benchmark, a load generator; the tests, which were read as
  statements of intent.
* Logging (`report_error`, `kLogConnections`), the text of error messages, and
  `getsockopt(SO_ERROR)`, which only feeds a message.
* Exhaustion of memory: an exception from a string or map would end the
  process; no code handles it.
* The time spent in visits and in the scan: the clock advances in waits only.
  `NeverExpiredWhileRunnable` rests on it.

## 6. Plan

1. *(done)* KeyValueStore, Protocol, Connection, Session; KvService and the
   refinement; the inductive invariant and its theorems.
2. *(done)* UniqueFd, EventLoop with its refinements, Framing, Client,
   Handler; ownership and the event loop's core invariant proved.
3. *(done)* `EveryClientWatched` and `TimersServed`; the refinements of
   `KvService` by `Session`, `Handler` and `EventLoop` and of `UniqueFd` by
   `EventLoop`; the client's properties; `TypeOK` of `EventLoop`, through the
   recv calls of a visit one by one.
4. *(done)* The properties of a session against the reference, by least
   counterexamples instead of an induction.
5. Open: liveness, once the prover can handle it.
