------------------------------ MODULE EventLoop ------------------------------
(***************************************************************************)
(* main of apps/server.cpp with any number of clients: startup, the scan   *)
(* of the client map, the wait for one event, its dispatch, accept, and    *)
(* every way out, over the kernel's descriptor table and epoll set.        *)
(* Session looks at one connection system call by system call; here a      *)
(* visit is three kinds of steps (receive, execute one frame, send and     *)
(* re-register), a peer sends whole lines, and what matters is how clients *)
(* share the thread, the store, the slots and the descriptor numbers.      *)
(* Maps are functions; set and erased of KeyValueStore add and remove.     *)
(***************************************************************************)
EXTENDS Connection

CONSTANTS
    kMaxClients, kAcceptBudget, kIdleTimeout,
    kReadCallBudget, kReadBufferSize,
    kWriteBytes,        \* kWriteCallBudget * kWriteChunkBytes
    Fd,                 \* descriptor numbers the process may use
    SendQueue,          \* reply bytes the kernel holds for one peer
    RecvQueue,          \* bytes of one peer the kernel holds for the server
    Elapse,             \* ticks that may pass in one wait: 0, 1 or both
    Peers,
    Script,             \* what each peer may send at once, any number of times
    Ending,             \* the peers that may half-close or reset
    Reconnecting        \* the peers that come back after a connection ends

ASSUME EventLoopAssumption ==
    /\ {kMaxClients, kAcceptBudget, kIdleTimeout, kReadCallBudget,
        kReadBufferSize, kWriteBytes, SendQueue, RecvQueue} \subseteq Nat \ {0}
    /\ Fd \subseteq Nat /\ IsFiniteSet(Fd)
    /\ Elapse \subseteq {0, 1}
    /\ Script \in [Peers -> SUBSET Seq(Byte)]
    /\ Ending \subseteq Peers /\ Reconnecting \subseteq Peers
    /\ Peers \cap {"listener", "epoll"} = {}

VARIABLES
    main,       \* the locals of main and of the service_client it calls
    clients,    \* the unordered_map: descriptor -> Connection and idle ticks
    store,      \* the shared KeyValueStore
    file,       \* kernel: descriptor -> "listener", "epoll" or a peer
    epoll,      \* kernel: descriptor -> registered file and interest
    queue,      \* kernel: connections not accepted yet
    sock        \* kernel: the connection of each peer, with its two queues

vars == <<main, clients, store, file, epoll, queue, sock>>

NoEvent == [fd |-> -1, readable |-> FALSE, broken |-> FALSE]

NewSocket == [state |-> "new", nonblocking |-> FALSE, rx |-> <<>>,
              fin |-> FALSE, rst |-> FALSE, tx |-> <<>>]

(* listener and poller hold -1 until they are constructed; todo are the
   entries the scan's iterator has not reached; runnable is
   runnable_remains; fd is the connection being visited or accepted, event
   what service_client was called with; attempt counts commands or accepts. *)
Init ==
    /\ main = [pc |-> "socket", exit |-> "", listener |-> -1, poller |-> -1,
               todo |-> {}, runnable |-> FALSE, event |-> NoEvent, fd |-> -1,
               attempt |-> 0]
    /\ clients = EmptyStore /\ store = EmptyStore
    /\ file = EmptyStore /\ epoll = EmptyStore /\ queue = <<>>
    /\ sock = [p \in Peers |-> NewSocket]

-----------------------------------------------------------------------------
(* The kernel: the lowest free number is handed out; the last close of a
   file removes its registration.                                          *)

Free == Fd \ DOMAIN file

Lowest == CHOOSE n \in Free : \A m \in Free : n <= m

(* The server closes p's socket, replies tx handed over: with unread input
   TCP resets the connection and any suffix of the replies may be lost.    *)
Shut(p, state, tx) ==
    \E kept \in IF sock[p].rx = <<>> THEN {Len(tx)} ELSE 0..Len(tx) :
        sock' = [sock EXCEPT ![p] = [@ EXCEPT !.state = state, !.rx = <<>>,
                                              !.tx = SubSeq(tx, 1, kept)]]

close(fd, state, tx) ==
    /\ file' = erased(file, fd)
    /\ epoll' = erased(epoll, fd)
    /\ Shut(file[fd], state, tx)

-----------------------------------------------------------------------------
(* Startup in the order of main, whose every call may fail, and the end.   *)

Goto(label) == main' = [main EXCEPT !.pc = label]

Exit(why) == main' = [main EXCEPT !.pc = "exit", !.exit = why]

create_socket ==
    /\ main.pc = "socket" /\ Free # {}
    /\ main' = [main EXCEPT !.pc = "configure", !.listener = Lowest]
    /\ file' = set(file, Lowest, "listener")
    /\ UNCHANGED <<clients, store, epoll, queue, sock>>

(* setsockopt, bind, listen and set_nonblocking.                           *)
ConfigureListener ==
    /\ main.pc = "configure"
    /\ Goto("create")
    /\ UNCHANGED <<clients, store, file, epoll, queue, sock>>

CreatePoller ==
    /\ main.pc = "create" /\ Free # {}
    /\ main' = [main EXCEPT !.pc = "register", !.poller = Lowest]
    /\ file' = set(file, Lowest, "epoll")
    /\ UNCHANGED <<clients, store, epoll, queue, sock>>

(* Mutant of added: ADD is forgotten.                                      *)
not_added(fd) == epoll

(* poller.add(fd, {.read = true})                                          *)
added(fd) == set(epoll, fd, [file |-> file'[fd], read |-> TRUE, write |-> FALSE])

RegisterListener ==
    /\ main.pc = "register"
    /\ Goto("scan")
    /\ file' = file
    /\ epoll' = added(main.listener)
    /\ UNCHANGED <<clients, store, queue, sock>>

StartupFails ==
    /\ main.pc \in {"socket", "configure", "create", "register"}
    /\ Exit("startup")
    /\ UNCHANGED <<clients, store, file, epoll, queue, sock>>

(* The destructors of main's locals after a return, last constructed first;
   closing the listener drops the connections nobody accepted.             *)
Unwind ==
    /\ main.pc = "exit"
    /\ \/ /\ \E fd \in DOMAIN clients :
                /\ clients' = erased(clients, fd)
                /\ close(fd, "lost", sock[file[fd]].tx)
          /\ UNCHANGED <<main, queue>>
       \/ /\ DOMAIN clients = {} /\ main.poller # -1
          /\ main' = [main EXCEPT !.poller = -1]
          /\ file' = erased(file, main.poller) /\ epoll' = EmptyStore
          /\ UNCHANGED <<clients, queue, sock>>
       \/ /\ main.poller = -1 /\ queue # <<>>
          /\ queue' = Tail(queue)
          /\ Shut(Head(queue), "lost", <<>>)
          /\ UNCHANGED <<main, clients, file, epoll>>
       \/ /\ main.poller = -1 /\ queue = <<>>
          /\ main' = [main EXCEPT !.listener = -1, !.pc = "stopped"]
          /\ file' = erased(file, main.listener)
          /\ UNCHANGED <<clients, epoll, queue, sock>>
    /\ UNCHANGED store

-----------------------------------------------------------------------------
(* The scan, the wait and the dispatch                                     *)

(* The top of the outer loop, over the map as this step leaves it.         *)
NextTurn ==
    main' = [main EXCEPT !.pc = "scan", !.todo = DOMAIN clients', !.runnable = FALSE,
                         !.event = NoEvent, !.fd = -1, !.attempt = 0]

(* service_client has returned: to the scan, or to the outer loop.         *)
VisitOver(still) ==
    IF main.event = NoEvent
    THEN main' = [main EXCEPT !.pc = "scan", !.runnable = @ \/ still, !.fd = -1,
                              !.attempt = 0]
    ELSE NextTurn

(* Mutant of retire_client: neither DEL nor close reaches the kernel.      *)
erase_only(fd, state, tx) ==
    clients' = erased(clients, fd) /\ UNCHANGED <<store, file, epoll, queue, sock>>

retire_client(fd, state, tx) ==
    /\ close(fd, state, tx)
    /\ clients' = erased(clients, fd)
    /\ UNCHANGED <<store, queue>>

(* Mutant of Expired: a client is spared while it has replies to fetch.     *)
ExpiredDrained(fd) ==
    clients[fd].idle >= kIdleTimeout /\ ~has_pending_output(clients[fd].conn)

Expired(fd) == clients[fd].idle >= kIdleTimeout

(* Mutant of passed: the iterator does not leave the entry it is about to
   erase.                                                                  *)
passed_late(fd) == main.todo \ ({fd} \cap DOMAIN clients')

(* it++ before the entry may be erased                                     *)
passed(fd) == main.todo \ {fd}

Scanning(fd) == main.pc = "scan" /\ fd \in main.todo

ScanExpired(fd) ==
    /\ Scanning(fd) /\ Expired(fd)
    /\ retire_client(fd, "lost", sock[file[fd]].tx)
    /\ main' = [main EXCEPT !.todo = passed(fd)]

(* service_client(poller, connection, {}, store) receives nothing.         *)
ScanRunnable(fd) ==
    /\ Scanning(fd) /\ ~Expired(fd) /\ has_runnable_input(clients[fd].conn)
    /\ clients' = [clients EXCEPT ![fd].conn = begin_processing(@)]
    /\ main' = [main EXCEPT !.pc = "exec", !.todo = passed(fd), !.fd = fd]
    /\ UNCHANGED <<store, file, epoll, queue, sock>>

ScanQuiet(fd) ==
    /\ Scanning(fd) /\ ~Expired(fd) /\ ~has_runnable_input(clients[fd].conn)
    /\ main' = [main EXCEPT !.todo = main.todo \ {fd}]
    /\ UNCHANGED <<clients, store, file, epoll, queue, sock>>

ScanEnd ==
    /\ main.pc = "scan" /\ main.todo = {}
    /\ Goto("wait")
    /\ UNCHANGED <<clients, store, file, epoll, queue, sock>>

(* timeout_ms is 0 while a buffered command can run.                       *)
LetPass ==
    \E ticks \in (IF main.runnable THEN {0} ELSE Elapse) :
        clients' = [fd \in DOMAIN clients |->
                      [clients[fd] EXCEPT !.idle = Lesser(@ + ticks, kIdleTimeout)]]

(* What wait_one reports of a registration; broken is EPOLLERR or EPOLLHUP. *)
Readable(reg) ==
    IF reg.file = "listener" THEN queue # <<>>
    ELSE reg.read /\ (sock[reg.file].rx # <<>> \/ sock[reg.file].fin)

Broken(reg) == reg.file # "listener" /\ sock[reg.file].rst

Writable(reg) == reg.write /\ Len(sock[reg.file].tx) < SendQueue

WaitEvent(fd) ==
    /\ main.pc = "wait" /\ fd \in DOMAIN epoll
    /\ Readable(epoll[fd]) \/ Broken(epoll[fd]) \/ Writable(epoll[fd])
    /\ main' = [main EXCEPT !.pc = "dispatch",
                            !.event = [fd |-> fd, readable |-> Readable(epoll[fd]),
                                       broken |-> Broken(epoll[fd])]]
    /\ LetPass
    /\ UNCHANGED <<store, file, epoll, queue, sock>>

(* Mutant of WaitNothing: an interrupted wait is simply repeated.          *)
WaitAgain ==
    main.pc = "wait" /\ LetPass /\ UNCHANGED <<main, store, file, epoll, queue, sock>>

(* Timeout, or EINTR, which goes back to the outer loop as well.           *)
WaitNothing ==
    /\ main.pc = "wait"
    /\ LetPass
    /\ NextTurn
    /\ UNCHANGED <<store, file, epoll, queue, sock>>

WaitFails ==
    /\ main.pc = "wait"
    /\ Exit("poller wait")
    /\ UNCHANGED <<clients, store, file, epoll, queue, sock>>

DispatchBroken ==
    /\ main.pc = "dispatch" /\ main.event.fd \in DOMAIN clients /\ main.event.broken
    /\ retire_client(main.event.fd, "lost", sock[file[main.event.fd]].tx)
    /\ NextTurn

DispatchClient ==
    /\ main.pc = "dispatch" /\ main.event.fd # main.listener
    /\ IF main.event.fd \in DOMAIN clients
       THEN ~main.event.broken /\ main' = [main EXCEPT !.pc = "recv", !.fd = main.event.fd]
       ELSE Exit("unknown client descriptor")
    /\ UNCHANGED <<clients, store, file, epoll, queue, sock>>

DispatchListener ==
    /\ main.pc = "dispatch" /\ main.event.fd = main.listener
    /\ IF main.event.readable /\ ~main.event.broken THEN Goto("accept")
       ELSE Exit("listener reported an unexpected event")
    /\ UNCHANGED <<clients, store, file, epoll, queue, sock>>

-----------------------------------------------------------------------------
(* The accept loop.  An attempt goes through the labels "accepted" (the local
   UniqueFd client owns main.fd), "emplaced" (the map owns it, client is
   empty) and, where an owner is destroyed before client, "attempted".     *)

Accepting == main.pc = "accept" /\ main.attempt < kAcceptBudget

Attempted == main' = [main EXCEPT !.attempt = @ + 1]

AcceptReturns ==
    /\ Accepting /\ queue # <<>> /\ Free # {}
    /\ main' = [main EXCEPT !.pc = "accepted", !.fd = Lowest, !.attempt = @ + 1]
    /\ queue' = Tail(queue)
    /\ file' = set(file, Lowest, Head(queue))
    /\ sock' = [sock EXCEPT ![Head(queue)].state = "open"]
    /\ UNCHANGED <<clients, store, epoll>>

(* continue, or the end of the body: client is destroyed.                  *)
NextAttempt == main' = [main EXCEPT !.pc = "accept", !.fd = -1]

(* Mutant of Refused: what accept returned is not closed.                  *)
RefusedLeaking == NextAttempt /\ UNCHANGED <<clients, store, file, epoll, queue, sock>>

(* The local owner closes the descriptor at the end of the attempt.        *)
Refused ==
    /\ close(main.fd, "lost", <<>>)
    /\ NextAttempt
    /\ UNCHANGED <<clients, store, queue>>

(* Mutant of Full: one client too many.                                    *)
FullTooLate == Cardinality(DOMAIN clients) > kMaxClients

Full == Cardinality(DOMAIN clients) >= kMaxClients

AcceptFull == main.pc = "accepted" /\ Full /\ Refused

(* set_nonblocking fails.                                                  *)
AcceptUnusable == main.pc = "accepted" /\ ~Full /\ Refused

set_nonblocking(p) == sock' = [sock EXCEPT ![p].nonblocking = TRUE]

(* set_nonblocking succeeds; try_emplace moves client into the new entry, or
   finds one there: main returns, and client closes its number.            *)
AcceptEmplaces ==
    /\ main.pc = "accepted" /\ ~Full
    /\ \/ /\ main.fd \in DOMAIN clients
          /\ close(main.fd, "lost", <<>>)
          /\ Exit("accepted descriptor already has an owner")
          /\ UNCHANGED clients
       \/ /\ main.fd \notin DOMAIN clients
          /\ set_nonblocking(file[main.fd])
          /\ clients' = set(clients, main.fd, [conn |-> NewConnection, idle |-> 0])
          /\ Goto("emplaced")
          /\ UNCHANGED <<file, epoll>>
    /\ UNCHANGED <<store, queue>>

AcceptClient ==
    /\ main.pc = "emplaced"
    /\ file' = file
    /\ epoll' = added(main.fd)
    /\ NextAttempt
    /\ UNCHANGED <<clients, store, queue, sock>>

(* Mutant of AcceptUnwatched: the entry stays.                             *)
AcceptStranded ==
    /\ main.pc = "emplaced" /\ Goto("attempted")
    /\ UNCHANGED <<clients, store, file, epoll, queue, sock>>

(* poller.add fails and the entry is erased, before client goes.           *)
AcceptUnwatched ==
    /\ main.pc = "emplaced"
    /\ close(main.fd, "lost", <<>>)
    /\ clients' = erased(clients, main.fd)
    /\ Goto("attempted")
    /\ UNCHANGED <<store, queue>>

AttemptEnds ==
    /\ main.pc = "attempted" /\ NextAttempt
    /\ UNCHANGED <<clients, store, file, epoll, queue, sock>>

(* Mutant of AcceptInterrupted: the result of accept is not tested.        *)
AcceptUntested ==
    /\ Accepting /\ Attempted
    /\ clients' = set(clients, -1, [conn |-> NewConnection, idle |-> 0])
    /\ UNCHANGED <<store, file, epoll, queue, sock>>

(* EINTR, which uses up an attempt.                                        *)
AcceptInterrupted ==
    /\ Accepting /\ Attempted
    /\ UNCHANGED <<clients, store, file, epoll, queue, sock>>

(* One of the errors that concern the pending connection only.             *)
AcceptAborted ==
    /\ Accepting /\ queue # <<>> /\ Attempted
    /\ queue' = Tail(queue)
    /\ Shut(Head(queue), "lost", <<>>)
    /\ UNCHANGED <<clients, store, file, epoll>>

(* Any other error, among them EMFILE.                                     *)
AcceptFails ==
    /\ Accepting /\ Exit("accept")
    /\ UNCHANGED <<clients, store, file, epoll, queue, sock>>

(* Mutant of AcceptDone: the loop ends only when the queue is drained.     *)
AcceptUntilDrained ==
    /\ main.pc = "accept" /\ (main.attempt = kAcceptBudget \/ queue = <<>>)
    /\ UNCHANGED <<clients, store, file, epoll, queue, sock>>
    /\ IF queue = <<>> THEN NextTurn ELSE main' = [main EXCEPT !.attempt = 0]

(* EAGAIN, or the budget is spent.                                         *)
AcceptDone ==
    /\ main.pc = "accept" /\ (main.attempt = kAcceptBudget \/ queue = <<>>)
    /\ UNCHANGED <<clients, store, file, epoll, queue, sock>>
    /\ NextTurn

-----------------------------------------------------------------------------
(* service_client                                                          *)

conn == clients[main.fd].conn

peer == file[main.fd]

(* One successful recv call, on a connection and the kernel's queue.       *)
recv_call(before) ==
    LET room == kMaxInputBytes - pending_input_bytes(before.conn)
        bytes == Lesser(Lesser(room, kReadBufferSize), Len(before.rx))
    IN  IF ~can_read(before.conn) THEN before
        ELSE [conn |-> append_input(before.conn, SubSeq(before.rx, 1, bytes)),
              rx |-> SubSeq(before.rx, bytes + 1, Len(before.rx))]

(* The two after n successful calls.                                       *)
Received ==
    LET Take[n \in 0..kReadCallBudget] ==
          IF n = 0 THEN [conn |-> conn, rx |-> sock[peer].rx] ELSE recv_call(Take[n - 1])
    IN  Take

(* EOF or an error is met by a call within the budget on an empty queue.   *)
ReadsOn(n) == n < kReadCallBudget /\ can_read(Received[n].conn) /\ Received[n].rx = <<>>

(* The recv loop and the start of process_input.  Any number of attempts
   may be lost to EINTR.                                                   *)
VisitRecv ==
    /\ main.pc = "recv"
    /\ \E n \in (IF main.event.readable THEN 0..kReadCallBudget ELSE {0}), eof \in BOOLEAN :
          /\ eof => main.event.readable /\ ReadsOn(n) /\ sock[peer].fin
          /\ clients' = [clients EXCEPT ![main.fd] =
                [conn |-> begin_processing([Received[n].conn EXCEPT !.read_eof = @ \/ eof]),
                 idle |-> IF Received[n].rx = sock[peer].rx THEN @.idle ELSE 0]]
          /\ sock' = [sock EXCEPT ![peer].rx = Received[n].rx]
    /\ Goto("exec")
    /\ UNCHANGED <<store, file, epoll, queue>>

VisitRecvError ==
    /\ main.pc = "recv" /\ main.event.readable /\ sock[peer].rst
    /\ \E n \in 0..kReadCallBudget : ReadsOn(n)
    /\ retire_client(main.fd, "lost", <<>>)
    /\ VisitOver(FALSE)

Executing == main.attempt < kCommandBudget /\ has_runnable_input(conn)

(* One frame.  That its reply fits is shown in Session (NeverResponseLimit). *)
VisitExec ==
    /\ main.pc = "exec" /\ Executing
    /\ \E newline \in 1..Len(conn.input_buffer) :
          /\ IsNewline(conn.input_buffer, conn.input_cursor, newline)
          /\ LET answer == Answer(frame_at(conn, newline), store) IN
                /\ store' = answer.store
                /\ clients' = [clients EXCEPT ![main.fd].conn =
                      queue_response(consume_frame(@, newline), response_of(answer.text))]
    /\ Attempted
    /\ UNCHANGED <<file, epoll, queue, sock>>

Processed == end_processing(conn)

(* A full buffer without a newline, or a failed send.                      *)
VisitFails ==
    /\ main.pc = "exec" /\ ~Executing
    /\ input_exhausted(Processed) \/ (has_pending_output(Processed) /\ sock[peer].rst)
    /\ retire_client(main.fd, "lost", sock[peer].tx)
    /\ VisitOver(FALSE)

(* What a visit may leave after sending n bytes, for every n the kernel and
   the budget allow; 0 is EAGAIN or a budget lost to EINTR.                *)
Flushed ==
    {[conn |-> settle(end_flush(advance_output(Processed, n))),
      tx |-> sock[peer].tx \o SubSeq(pending_output(Processed), 1, n),
      idle |-> IF n = 0 THEN clients[main.fd].idle ELSE 0] :
        n \in 0..(IF sock[peer].rst THEN 0
                  ELSE Lesser(Lesser(pending_output_bytes(Processed), kWriteBytes),
                              SendQueue - Len(sock[peer].tx)))}

(* Mutant of Drained: queued replies do not delay the retirement.          *)
DrainedEarly(c) == AtEnd(c)

Drained(c) == AtEnd(c) /\ ~has_pending_output(c)

(* The orderly end, a new registration, or epoll_ctl(MOD) failing.         *)
VisitEnds ==
    /\ main.pc = "exec" /\ ~Executing /\ ~input_exhausted(Processed)
    /\ \E after \in Flushed :
          \/ /\ Drained(after.conn)
             /\ retire_client(main.fd, "closed", after.tx)
             /\ VisitOver(FALSE)
          \/ /\ ~Drained(after.conn)
             /\ clients' = [clients EXCEPT ![main.fd] = [@ EXCEPT !.conn = after.conn,
                                                                  !.idle = after.idle]]
             /\ sock' = [sock EXCEPT ![peer].tx = after.tx]
             /\ epoll' = [epoll EXCEPT ![main.fd] = [@ EXCEPT !.read = can_read(after.conn),
                                                              !.write = has_pending_output(after.conn)]]
             /\ VisitOver(has_runnable_input(after.conn))
             /\ UNCHANGED <<store, file, queue>>
          \/ /\ ~Drained(after.conn)
             /\ retire_client(main.fd, "lost", after.tx)
             /\ VisitOver(FALSE)

-----------------------------------------------------------------------------
(* The peers                                                               *)

Listening == main.listener # -1 /\ main.pc \notin {"configure", "exit"}

Connected(p) == sock[p].state \in {"queued", "open"} /\ ~sock[p].rst

PeerConnect(p) ==
    /\ sock[p].state = "new" /\ Listening
    /\ sock' = [sock EXCEPT ![p].state = "queued"]
    /\ queue' = Append(queue, p)
    /\ UNCHANGED <<main, clients, store, file, epoll>>

(* What else a peer may do to its connection; it may send for ever, as long
   as the kernel has room.                                                 *)
PeerStep(p) ==
    /\ \/ /\ Connected(p) /\ ~sock[p].fin
          /\ \E line \in Script[p] :
                /\ Len(sock[p].rx) + Len(line) <= RecvQueue
                /\ sock' = [sock EXCEPT ![p].rx = @ \o line]
       \/ /\ p \in Ending /\ Connected(p) /\ ~sock[p].fin
          /\ sock' = [sock EXCEPT ![p].fin = TRUE]
       \/ /\ p \in Ending /\ Connected(p)
          /\ sock' = [sock EXCEPT ![p] = [@ EXCEPT !.rst = TRUE, !.tx = <<>>]]
       \/ /\ sock[p].tx # <<>>
          /\ sock' = [sock EXCEPT ![p].tx = <<>>]
       \/ /\ p \in Reconnecting /\ sock[p].state \in {"closed", "lost"}
          /\ sock' = [sock EXCEPT ![p] = NewSocket]
    /\ UNCHANGED <<main, clients, store, file, epoll, queue>>

-----------------------------------------------------------------------------
Start ==
    \/ create_socket \/ ConfigureListener \/ CreatePoller \/ RegisterListener
    \/ StartupFails

Scan == ScanEnd \/ \E fd \in Fd : ScanExpired(fd) \/ ScanRunnable(fd) \/ ScanQuiet(fd)

Wait == WaitNothing \/ WaitFails \/ \E fd \in Fd : WaitEvent(fd)

Dispatch == DispatchBroken \/ DispatchClient \/ DispatchListener

Accept ==
    \/ AcceptReturns \/ AcceptFull \/ AcceptUnusable \/ AcceptEmplaces \/ AcceptClient
    \/ AcceptUnwatched \/ AttemptEnds \/ AcceptInterrupted \/ AcceptAborted
    \/ AcceptFails \/ AcceptDone

Visit == VisitRecv \/ VisitRecvError \/ VisitExec \/ VisitFails \/ VisitEnds

Server == Start \/ Unwind \/ Scan \/ Wait \/ Dispatch \/ Accept \/ Visit

Next == Server \/ \E p \in Peers : PeerConnect(p) \/ PeerStep(p)

Spec == Init /\ [][Next]_vars

(* The thread goes on until main returns, and the clock runs on.           *)
ThreadAndClock ==
    /\ WF_vars(Server)
    /\ SF_vars(Wait /\ \E fd \in DOMAIN clients : clients'[fd].idle > clients[fd].idle)

(* epoll serves its ready list in rotation, so a descriptor that is ready
   again and again is reported; not every recv on a descriptor and not every
   accept is interrupted.  Nothing is asked of the peers.                  *)
Fairness ==
    /\ ThreadAndClock
    /\ \A fd \in Fd : SF_vars(WaitEvent(fd))
    /\ \A fd \in Fd : SF_vars(main.fd = fd /\ VisitRecv /\ sock' # sock)
    /\ SF_vars(Accept /\ queue' # queue)

TimedSpec == Spec /\ ThreadAndClock

FairSpec == Spec /\ Fairness

-----------------------------------------------------------------------------
(* What main may have returned for.                                        *)
Exits == {"", "startup", "poller wait", "accept", "unknown client descriptor",
          "listener reported an unexpected event",
          "accepted descriptor already has an owner"}

TypeOK ==
    /\ main \in [pc : {"socket", "configure", "create", "register", "scan", "wait",
                       "dispatch", "accept", "accepted", "emplaced", "attempted",
                       "recv", "exec", "exit", "stopped"},
                 exit : Exits, listener : Fd \cup {-1}, poller : Fd \cup {-1},
                 todo : SUBSET Fd, runnable : BOOLEAN,
                 event : [fd : Fd \cup {-1}, readable : BOOLEAN, broken : BOOLEAN],
                 fd : Fd \cup {-1}, attempt : 0..(kCommandBudget + kAcceptBudget)]
    /\ \A m \in {clients, file, epoll} : DOMAIN m \subseteq Fd
    /\ \A fd \in DOMAIN clients : clients[fd].idle \in 0..kIdleTimeout
    /\ \A fd \in DOMAIN file : file[fd] \in Peers \cup {"listener", "epoll"}
    /\ \A i \in 1..Len(queue) : queue[i] \in Peers
    /\ \A p \in Peers : /\ Len(sock[p].tx) <= SendQueue
                        /\ sock[p].state \in {"new", "queued", "open", "closed", "lost"}

(* When the thread waits, epoll watches the listener and exactly the
   descriptors in the map, each for its present owner's socket, which is
   nonblocking, and with the interest its buffers call for: no owned socket
   is out of reach of readiness and no interest is stale
   (server.cpp:333-339, "Erase it if no readiness can reach it", and 151-159). *)
EveryClientWatched ==
    main.pc = "wait" =>
        /\ DOMAIN epoll = DOMAIN clients \cup {main.listener}
        /\ \A fd \in DOMAIN clients :
              /\ epoll[fd].file = file[fd] /\ sock[file[fd]].nonblocking
              /\ [read |-> epoll[fd].read, write |-> epoll[fd].write]
                   = wanted_interest(clients[fd].conn)

(* main never returns because an event names a descriptor nobody owns,
   because accept hands out a number the map still holds, or because the
   listener is ready for nothing (server.cpp:264-267, 276-279, 329-332).
   That a listening socket reports neither error nor hangup is not a result
   but what Broken takes from the kernel.                                  *)
NoInvariantExit == main.exit \in {"", "startup", "poller wait", "accept"}

(* Never more than kMaxClients clients, and never more than three descriptors
   beside theirs: the listener, the poller, and the connection that accept
   has returned, which a full server opens before it refuses it
   (server.cpp:284, 315-319).                                              *)
WithinCapacity ==
    /\ Cardinality(DOMAIN clients) <= kMaxClients
    /\ Cardinality(DOMAIN file) <= kMaxClients + 3

(* What the scan's iterator has still to reach is in the map, and so is the
   connection a visit or a registration works on: no step uses an erased
   entry (server.cpp:222-240, 333-338).                                    *)
ScanIteratorsValid ==
    /\ main.pc \in {"scan", "exec"} => main.todo \subseteq DOMAIN clients
    /\ main.pc \in {"recv", "exec", "emplaced"} => main.fd \in DOMAIN clients

(* The thread never begins to wait with a client whose idle time is up:
   interruptions and a stream of events do not skip the timers
   (server.cpp:225-229, 247-250).                                          *)
TimersServed == main.pc = "wait" => \A fd \in DOMAIN clients : ~Expired(fd)

EntryOf(p) == {fd \in DOMAIN clients : file[fd] = p}

(* A complete line of p waits in its buffer or in the kernel, and no unread
   replies hold it back.                                                   *)
HasWork(p) ==
    \E fd \in EntryOf(p) :
        /\ ~clients[fd].conn.output_paused
        /\ HasNewline(pending_input(clients[fd].conn) \o sock[p].rx, 0)

(* A line of p has just been executed.                                     *)
Served(p) == main.pc = "exec" /\ main.attempt > 0 /\ main.fd \in EntryOf(p)

(* A line a client has sent leads to the execution of one of its lines,
   whatever the others send for ever and however often they connect, unless
   its own connection fails or the server stops.  Where no time passes
   (Elapse = {0}) the idle timer cannot end the wait of a starved client
   (server.cpp:219-243, 273, 282).                                         *)
EveryClientServed ==
    \A p \in Peers :
        HasWork(p) ~> Served(p) \/ sock[p].state # "open" \/ sock[p].rst \/ main.exit # ""

(* A connection does not stay in the listener's queue: it is accepted,
   refused or dropped (server.cpp:281-345).                                *)
EveryConnectionAnswered ==
    \A p \in Peers : sock[p].state = "queued" ~> sock[p].state # "queued"

Sends(p) == Len(sock'[p].rx) > Len(sock[p].rx)

(* A client that falls silent gives up its slot at some time, whether or not
   it ever reads its replies and however busy the others are; one that keeps
   sending may keep it (server.cpp:92, 225-229).                           *)
SlotsFreed ==
    \A p \in Peers :
        <>[][~Sends(p)]_vars => (EntryOf(p) # {} ~> EntryOf(p) = {} \/ main.exit # "")
=============================================================================
