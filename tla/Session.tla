------------------------------ MODULE Session ------------------------------
(***************************************************************************)
(* One client connection inside the event loop of apps/server.cpp, from    *)
(* its registration to its retirement: the scan of the loop, the wait, the *)
(* dispatch of one event and every step of service_client, interleaved     *)
(* with a peer that sends, half-closes, resets and reads when it likes.    *)
(* The server's thread is one process; a step is one system call or one    *)
(* iteration of a user-space loop.  The other clients appear only through  *)
(* what they do to this one: they use up waits (WaitElsewhere).            *)
(***************************************************************************)
EXTENDS Connection

CONSTANTS
    kReadCallBudget, kReadBufferSize,     \* service_client's recv loop
    kWriteCallBudget, kWriteChunkBytes,   \* flush_output's send loop
    kIdleTimeout,       \* in ticks of the wait's timeout (kTimerPollMs)
    SendQueue,          \* bytes the kernel and the peer hold unread for us
    Streams,            \* what a peer may want to send
    Elapse              \* ticks that may pass in one wait: 0, 1 or both

ASSUME SessionAssumption ==
    /\ kReadCallBudget \in Nat \ {0} /\ kReadBufferSize \in Nat \ {0}
    /\ kWriteCallBudget \in Nat \ {0} /\ kWriteChunkBytes \in Nat \ {0}
    /\ kIdleTimeout \in Nat \ {0} /\ SendQueue \in Nat \ {0}
    /\ \A s \in Streams : s \in Seq(Byte)
    /\ Elapse \subseteq {0, 1}

VARIABLES
    conn,       \* the Connection the server owns
    store,      \* the KeyValueStore shared by all connections
    interest,   \* what epoll is asked to report for this descriptor
    pc,         \* where the server's thread is
    back,       \* the loop step that follows the visit in progress
    readable,   \* ready_event.readable of the visit in progress
    attempt,    \* the loop counter of the recv, command or send loop
    reason,     \* what service_client returned; "" is nullptr
    idle,       \* ticks since last_progress
    rx, fin,    \* kernel: bytes received and not read; the peer's FIN
    rst,        \* kernel: the connection was reset
    tx,         \* kernel: bytes accepted by send, not yet read by the peer
    stream, sent, got,  \* peer: what it wants to send, has sent, has read
    done        \* history: frames executed

serverVars == <<conn, store, interest, pc, back, readable, attempt, reason, idle, done>>
kernelVars == <<rx, fin, rst, tx>>
peerVars == <<stream, sent, got>>
vars == <<serverVars, kernelVars, peerVars>>

NoInterest == [read |-> FALSE, write |-> FALSE]

(* clients.try_emplace and poller.add(fd, {.read = true})                  *)
Init ==
    /\ conn = NewConnection
    /\ store = EmptyStore
    /\ interest = [read |-> TRUE, write |-> FALSE]
    /\ pc = "scan" /\ back = "scan"
    /\ readable = FALSE /\ attempt = 0 /\ reason = "" /\ idle = 0
    /\ rx = <<>> /\ fin = FALSE /\ rst = FALSE /\ tx = <<>>
    /\ stream \in Streams /\ sent = 0 /\ got = <<>>
    /\ done = 0

-----------------------------------------------------------------------------
(* The scan of the clients at the top of the loop                          *)

Fail(why) == pc' = "retire" /\ reason' = why

(* Mutant of ScanExpired: queued replies keep a connection alive.          *)
ScanExpiredDrained ==
    /\ pc = "scan"
    /\ idle >= kIdleTimeout /\ ~has_pending_output(conn)
    /\ Fail("idle timeout")
    /\ UNCHANGED <<conn, store, interest, back, readable, attempt, idle, done,
                   kernelVars, peerVars>>

ScanExpired ==
    /\ pc = "scan"
    /\ idle >= kIdleTimeout
    /\ Fail("idle timeout")
    /\ UNCHANGED <<conn, store, interest, back, readable, attempt, idle, done,
                   kernelVars, peerVars>>

(* Mutant of ScanRunnable: only kernel events lead to a visit.             *)
ScanSkipsRunnable ==
    /\ pc = "scan"
    /\ idle < kIdleTimeout
    /\ has_runnable_input(conn)
    /\ pc' = "wait"
    /\ UNCHANGED <<conn, store, interest, back, readable, attempt, reason, idle,
                   done, kernelVars, peerVars>>

(* service_client(poller, connection, {}, store)                           *)
ScanRunnable ==
    /\ pc = "scan"
    /\ idle < kIdleTimeout
    /\ has_runnable_input(conn)
    /\ pc' = "recv" /\ back' = "wait"
    /\ readable' = FALSE /\ attempt' = 0
    /\ UNCHANGED <<conn, store, interest, reason, idle, done, kernelVars, peerVars>>

ScanQuiet ==
    /\ pc = "scan"
    /\ idle < kIdleTimeout
    /\ ~has_runnable_input(conn)
    /\ pc' = "wait"
    /\ UNCHANGED <<conn, store, interest, back, readable, attempt, reason, idle,
                   done, kernelVars, peerVars>>

-----------------------------------------------------------------------------
(* poller.wait_one: a level-triggered report of this descriptor, or
   nothing for it (timeout, EINTR, or another descriptor's event).         *)

ReadyToRead == interest.read /\ (rx # <<>> \/ fin)

ReadyToWrite == interest.write /\ Len(tx) < SendQueue

(* Mutant of Sleeps: the wait ignores buffered commands.                   *)
SleepsAlways == Elapse

(* timeout_ms is 0 while a buffered command can run: such a wait does not
   sleep.  Any other wait may let a whole tick pass, even one that ends
   with an event.                                                          *)
Sleeps == IF has_runnable_input(conn) THEN {0} ELSE Elapse

LetPass(ticks) == idle' = Lesser(idle + ticks, kIdleTimeout)

WaitReady ==
    /\ pc = "wait"
    /\ ~rst
    /\ ReadyToRead \/ ReadyToWrite
    /\ pc' = "recv" /\ back' = "scan"
    /\ readable' = ReadyToRead /\ attempt' = 0
    /\ \E ticks \in Sleeps : LetPass(ticks)
    /\ UNCHANGED <<conn, store, interest, reason, done, kernelVars, peerVars>>

(* EPOLLERR and EPOLLHUP are reported whatever the interest; the pending
   error may have been consumed, which leaves the hangup alone.            *)
WaitBroken ==
    /\ pc = "wait"
    /\ rst
    /\ \E why \in {"socket error event", "full hangup"} : Fail(why)
    /\ UNCHANGED <<conn, store, interest, back, readable, attempt, idle, done,
                   kernelVars, peerVars>>

WaitElsewhere ==
    /\ pc = "wait"
    /\ \E ticks \in Sleeps : LetPass(ticks)
    /\ pc' = "scan"
    /\ UNCHANGED <<conn, store, interest, back, readable, attempt, reason, done,
                   kernelVars, peerVars>>

-----------------------------------------------------------------------------
(* service_client: the recv loop                                           *)

Reading == attempt < kReadCallBudget /\ readable /\ can_read(conn)

(* Mutant of requested_input: the room left in the buffer is ignored.      *)
requested_whole_chunk == kReadBufferSize

requested_input ==
    Lesser(kMaxInputBytes - pending_input_bytes(conn), kReadBufferSize)

RecvBytes ==
    /\ pc = "recv" /\ Reading
    /\ rx # <<>>
    /\ LET received == Lesser(requested_input, Len(rx))
           bytes == SubSeq(rx, 1, received)
       IN  /\ rx' = SubSeq(rx, received + 1, Len(rx))
           /\ conn' = append_input(conn, bytes)
           /\ IF input_fits(conn, bytes)
              THEN pc' = pc /\ reason' = reason
              ELSE Fail("input buffer limit")
    /\ attempt' = attempt + 1
    /\ idle' = 0
    /\ UNCHANGED <<store, interest, back, readable, done, fin, rst, tx, peerVars>>

(* A reset behind the FIN may show as EOF or as an error.                  *)
RecvEof ==
    /\ pc = "recv" /\ Reading
    /\ rx = <<>> /\ fin
    /\ conn' = [conn EXCEPT !.read_eof = TRUE]
    /\ pc' = "process" /\ readable' = FALSE /\ attempt' = 0
    /\ UNCHANGED <<store, interest, back, reason, idle, done, kernelVars, peerVars>>

(* EINTR consumes an attempt.                                              *)
RecvInterrupted ==
    /\ pc = "recv" /\ Reading
    /\ attempt' = attempt + 1
    /\ UNCHANGED <<conn, store, interest, pc, back, readable, reason, idle, done,
                   kernelVars, peerVars>>

RecvError ==
    /\ pc = "recv" /\ Reading
    /\ rst
    /\ Fail("receive error")
    /\ UNCHANGED <<conn, store, interest, back, readable, attempt, idle, done,
                   kernelVars, peerVars>>

(* EAGAIN, or the loop's condition no longer holds.                        *)
RecvStop ==
    /\ pc = "recv"
    /\ Reading => rx = <<>> /\ ~fin /\ ~rst
    /\ pc' = "process" /\ readable' = FALSE /\ attempt' = 0
    /\ UNCHANGED <<conn, store, interest, back, reason, idle, done, kernelVars,
                   peerVars>>

-----------------------------------------------------------------------------
(* service_client: process_input("", store)                                *)

ProcessBegin ==
    /\ pc = "process"
    /\ conn' = begin_processing(conn)
    /\ pc' = "exec"
    /\ UNCHANGED <<store, interest, back, readable, attempt, reason, idle, done,
                   kernelVars, peerVars>>

Executing == attempt < kCommandBudget /\ has_runnable_input(conn)

ExecFrame ==
    /\ pc = "exec" /\ Executing
    /\ \E newline \in 1..Len(conn.input_buffer) :
          /\ IsNewline(conn.input_buffer, conn.input_cursor, newline)
          /\ LET answer == Answer(frame_at(conn, newline), store)
                 response == response_of(answer.text)
                 rest == consume_frame(conn, newline)
             IN  /\ store' = answer.store
                 /\ IF output_fits(rest, response)
                    THEN /\ conn' = queue_response(rest, response)
                         /\ pc' = pc /\ reason' = reason
                    ELSE /\ conn' = rest
                         /\ Fail("response buffer limit")
    /\ attempt' = attempt + 1
    /\ done' = done + 1
    /\ UNCHANGED <<interest, back, readable, idle, kernelVars, peerVars>>

ProcessEnd ==
    /\ pc = "exec" /\ ~Executing
    /\ conn' = end_processing(conn)
    /\ IF input_exhausted(end_processing(conn))
       THEN Fail("input buffer limit")
       ELSE pc' = "flush" /\ reason' = reason
    /\ attempt' = 0
    /\ UNCHANGED <<store, interest, back, readable, idle, done, kernelVars, peerVars>>

-----------------------------------------------------------------------------
(* service_client: flush_output                                            *)

Sending == attempt < kWriteCallBudget /\ has_pending_output(conn)

requested_output == Lesser(pending_output_bytes(conn), kWriteChunkBytes)

SendBytes ==
    /\ pc = "flush" /\ Sending
    /\ ~rst /\ Len(tx) < SendQueue
    /\ \E accepted \in 1..Lesser(requested_output, SendQueue - Len(tx)) :
          /\ tx' = tx \o SubSeq(pending_output(conn), 1, accepted)
          /\ conn' = advance_output(conn, accepted)
    /\ attempt' = attempt + 1
    /\ idle' = 0
    /\ UNCHANGED <<store, interest, pc, back, readable, reason, done,
                   rx, fin, rst, peerVars>>

SendInterrupted ==
    /\ pc = "flush" /\ Sending
    /\ attempt' = attempt + 1
    /\ UNCHANGED <<conn, store, interest, pc, back, readable, reason, idle, done,
                   kernelVars, peerVars>>

SendError ==
    /\ pc = "flush" /\ Sending
    /\ rst
    /\ Fail("send error")
    /\ UNCHANGED <<conn, store, interest, back, readable, attempt, idle, done,
                   kernelVars, peerVars>>

(* EAGAIN, a spent budget, or a drained queue.                             *)
SendStop ==
    /\ pc = "flush"
    /\ Sending => ~rst /\ Len(tx) = SendQueue
    /\ conn' = end_flush(conn)
    /\ pc' = "finish" /\ attempt' = 0
    /\ UNCHANGED <<store, interest, back, readable, reason, idle, done,
                   kernelVars, peerVars>>

-----------------------------------------------------------------------------
(* service_client: the end of the visit, and retire_client                 *)

(* Mutant of FinishDrained: queued replies do not hold the connection.     *)
FinishUndrained ==
    /\ pc = "finish"
    /\ conn' = settle(conn)
    /\ AtEnd(conn')
    /\ Fail("read EOF and output drained")
    /\ UNCHANGED <<store, interest, back, readable, attempt, idle, done,
                   kernelVars, peerVars>>

FinishDrained ==
    /\ pc = "finish"
    /\ conn' = settle(conn)
    /\ AtEnd(conn') /\ ~has_pending_output(conn')
    /\ Fail("read EOF and output drained")
    /\ UNCHANGED <<store, interest, back, readable, attempt, idle, done,
                   kernelVars, peerVars>>

(* Mutant of FinishKeep: the interest mask of the last visit stays.        *)
FinishStaleMask ==
    /\ pc = "finish"
    /\ conn' = settle(conn)
    /\ ~(AtEnd(conn') /\ ~has_pending_output(conn'))
    /\ pc' = back /\ back' = "scan"
    /\ UNCHANGED <<store, interest, readable, attempt, reason, idle, done,
                   kernelVars, peerVars>>

FinishKeep ==
    /\ pc = "finish"
    /\ conn' = settle(conn)
    /\ ~(AtEnd(conn') /\ ~has_pending_output(conn'))
    /\ interest' = wanted_interest(conn')
    /\ pc' = back /\ back' = "scan"
    /\ UNCHANGED <<store, readable, attempt, reason, idle, done,
                   kernelVars, peerVars>>

(* epoll_ctl(MOD) failed: the connection is given up.                      *)
FinishUnmodified ==
    /\ pc = "finish"
    /\ conn' = settle(conn)
    /\ ~(AtEnd(conn') /\ ~has_pending_output(conn'))
    /\ Fail("interest update failed")
    /\ UNCHANGED <<store, interest, back, readable, attempt, idle, done,
                   kernelVars, peerVars>>

(* Closing a socket with unread bytes makes TCP reset the connection, and
   the peer may lose any suffix of what it has not read.                   *)
RetireClient ==
    /\ pc = "retire"
    /\ pc' = "closed"
    /\ conn' = NewConnection
    /\ interest' = NoInterest
    /\ rx' = <<>>
    /\ \E kept \in (IF rx = <<>> THEN {Len(tx)} ELSE 0..Len(tx)) :
          tx' = SubSeq(tx, 1, kept)
    /\ UNCHANGED <<store, back, readable, attempt, reason, idle, done, fin, rst,
                   peerVars>>

-----------------------------------------------------------------------------
(* The peer                                                                *)

PeerSend ==
    /\ pc # "closed" /\ ~fin /\ ~rst
    /\ sent < Len(stream)
    /\ rx' = Append(rx, stream[sent + 1])
    /\ sent' = sent + 1
    /\ UNCHANGED <<serverVars, fin, rst, tx, stream, got>>

PeerShutdown ==
    /\ pc # "closed" /\ ~fin /\ ~rst
    /\ fin' = TRUE
    /\ UNCHANGED <<serverVars, rx, rst, tx, peerVars>>

PeerRead ==
    /\ tx # <<>> /\ ~rst
    /\ got' = Append(got, Head(tx))
    /\ tx' = Tail(tx)
    /\ UNCHANGED <<serverVars, rx, fin, rst, stream, sent>>

PeerReset ==
    /\ pc # "closed" /\ ~rst
    /\ rst' = TRUE
    /\ tx' = <<>>
    /\ UNCHANGED <<serverVars, rx, fin, peerVars>>

-----------------------------------------------------------------------------
Scan == ScanExpired \/ ScanRunnable \/ ScanQuiet

Wait == WaitReady \/ WaitBroken \/ WaitElsewhere

Visit ==
    \/ RecvBytes \/ RecvEof \/ RecvInterrupted \/ RecvError \/ RecvStop
    \/ ProcessBegin \/ ExecFrame \/ ProcessEnd
    \/ SendBytes \/ SendInterrupted \/ SendError \/ SendStop
    \/ FinishDrained \/ FinishKeep \/ FinishUnmodified

Server == Scan \/ Wait \/ Visit \/ RetireClient

Peer == PeerSend \/ PeerShutdown \/ PeerRead \/ PeerReset

Next == Server \/ Peer

Spec == Init /\ [][Next]_vars

(* The thread never stops by itself; epoll's ready list is served in
   rotation, so a descriptor that stays ready is reported eventually; the
   clock runs on.  Nothing obliges a peer to do anything.                  *)
ServerFairness ==
    /\ WF_vars(Server)
    /\ SF_vars(WaitReady)
    /\ SF_vars(WaitBroken)
    /\ SF_vars(WaitElsewhere /\ idle' > idle)

FairSpec == Spec /\ ServerFairness

-----------------------------------------------------------------------------
PcValues == {"scan", "wait", "recv", "process", "exec", "flush", "finish",
             "retire", "closed"}

Reasons == {"", "idle timeout", "socket error event", "full hangup",
            "input buffer limit", "response buffer limit", "receive error",
            "send error", "interest update failed",
            "read EOF and output drained"}

(* Every variable has its type; in particular the store, which only frames
   write, maps texts to texts, and the kernel never holds more than its
   send queue.                                                             *)
TypeOK ==
    /\ conn \in ConnectionType
    /\ DOMAIN store \subseteq Text /\ \A k \in DOMAIN store : store[k] \in Text
    /\ interest \in [read : BOOLEAN, write : BOOLEAN]
    /\ pc \in PcValues /\ back \in {"scan", "wait"}
    /\ readable \in BOOLEAN /\ attempt \in Nat
    /\ reason \in Reasons /\ idle \in 0..kIdleTimeout
    /\ rx \in Seq(Byte) /\ fin \in BOOLEAN /\ rst \in BOOLEAN
    /\ tx \in Seq(Byte) /\ Len(tx) <= SendQueue
    /\ stream \in Streams /\ sent \in 0..Len(stream) /\ got \in Seq(Byte)
    /\ done \in Nat

(* The buffers keep within their caps and the cursors within the buffers,
   at every point of a visit.  Every size_t subtraction of the code
   (connection.hpp:61-69, connection.cpp:25, 73, server.cpp:85) therefore
   has a result that is not negative: none of them wraps around.           *)
BufferBounds == WithinBounds(conn)

(* The reservation above the high watermark is enough: no reply is ever
   refused for lack of room, so no mutation is executed and then left
   without its reply (connection.cpp:70-75, connection.hpp:32-37).         *)
NeverResponseLimit == reason # "response buffer limit"

(* Whenever the server may sleep on a connection, epoll is asked for
   exactly what the connection waits for, and there is something to wait
   for or a frame to run: the interest mask strands no work
   (server.cpp:151-159).                                                   *)
NothingStranded ==
    pc = "wait" =>
        /\ interest = wanted_interest(conn)
        /\ interest.read \/ interest.write \/ has_runnable_input(conn)

(* A connection that still has a frame to run is never retired as idle: no
   wait sleeps on it, and what made the frame runnable was progress on the
   socket (server.cpp:225-243, connection.cpp:107-109).                    *)
NeverExpiredWhileRunnable ==
    pc = "retire" /\ reason = "idle timeout" => ~has_runnable_input(conn)

(* EOF is never read past an unexecuted frame: reads stop at a complete
   frame, so when recv returns 0 the input holds an incomplete tail at most
   (server.cpp:102-106, connection.hpp:87-92).  The frames that
   server.cpp:142-143 takes care to preserve have all been executed.       *)
EofAfterLastFrame == conn.read_eof => ~has_complete_frame(conn)

(* No frame is executed while the peer leaves kOutputHighWater bytes or
   more unsent, whatever happened between two visits
   (connection.cpp:48-51, 77).                                             *)
NoExecutionUnderPressure ==
    [][done' # done => pending_output_bytes(conn) < kOutputHighWater]_vars
=============================================================================
