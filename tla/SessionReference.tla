-------------------------- MODULE SessionReference --------------------------
(***************************************************************************)
(* What one client may rely on, stated against a reference that knows      *)
(* nothing of buffers, cursors, budgets or watermarks: the byte stream cut *)
(* at its newlines and the frames answered one after the other.            *)
(***************************************************************************)
EXTENDS SessionRefinement, SequencesExt

Start == [pos |-> 0, store |-> EmptyStore, replies |-> <<>>]

(* One more complete frame of s is answered, if there is one: where the
   next one starts, the store, and every reply byte so far.                *)
Served(s, p) ==
    IF ~HasNewline(s, p.pos) THEN p
    ELSE LET nl == CHOOSE i \in 1..Len(s) : IsNewline(s, p.pos, i)
             a == Answer(SubSeq(s, p.pos + 1, nl - 1), p.store)
         IN  [pos |-> nl, store |-> a.store,
              replies |-> p.replies \o Append(a.text, NL)]

(* What the first n complete frames of s lead to.                          *)
Reference(s) ==
    LET After[n \in 0..Len(s)] == IF n = 0 THEN Start ELSE Served(s, After[n - 1])
    IN  After

Arrived == SubSeq(stream, 1, sent)

AfterDone == Reference(stream)[done]

AfterAll == Reference(Arrived)[sent]

-----------------------------------------------------------------------------
(* Frames are executed in order, each exactly once, and every reply byte is
   delivered in order, exactly once: what the peer has read, what the
   kernel holds and what output_buffer still holds are, end to end, the
   reference's replies to the frames executed so far
   (connection.cpp:43-47, 60-77, 104-110).                                 *)
RepliesExactlyOnce ==
    /\ store = AfterDone.store
    /\ IsPrefix(got \o tx, AfterDone.replies)
    /\ ~Lost => got \o tx \o pending_output(conn) = AfterDone.replies

(* No byte that arrived is skipped, replayed or reordered on its way to
   the parser: the unconsumed input and the kernel's queue are the stream
   after the frames executed, until EOF drops a tail without a newline
   (server.cpp:142-145).                                                   *)
InputConserved ==
    pc # "closed" =>
        LET rest == SubSeq(stream, AfterDone.pos + 1, sent) IN
        \/ pending_input(conn) \o rx = rest
        \/ /\ conn.read_eof /\ fin /\ pending_input(conn) = <<>> /\ rx = <<>>
           /\ ~HasNewline(rest, 0)

(* A connection is refused for its input only when its next frame really
   does not end within kMaxInputBytes bytes, newline included; a frame of
   exactly that size is served however it is fragmented
   (server.cpp:87-99, connection.cpp:86-90).                               *)
RejectsOnlyOversized ==
    reason = "input buffer limit" =>
        LET p == AfterDone.pos IN
        /\ sent - p >= kMaxInputBytes
        /\ ~HasNewline(SubSeq(stream, p + 1, p + kMaxInputBytes), 0)

(* When the server retires a half-closed connection as drained, every
   complete frame the peer sent before its FIN has been executed and every
   reply has been handed to the kernel (server.cpp:102-106, 142-149).      *)
DrainedMeansAnswered ==
    reason = "read EOF and output drained" =>
        /\ fin
        /\ store = AfterAll.store
        /\ ~Lost => got \o tx = AfterAll.replies

-----------------------------------------------------------------------------
(* The peer of the last two properties finishes its stream, half-closes
   and goes on reading, and signals do not interrupt every system call
   made for it (EINTR uses up the budgets of a visit).                     *)
PeerFairness ==
    /\ WF_vars(PeerSend) /\ WF_vars(PeerShutdown) /\ WF_vars(PeerRead)
    /\ SF_vars(RecvBytes \/ RecvEof) /\ SF_vars(SendBytes)

PatientSpec == FairSpec /\ PeerFairness

FramesArrived == Cardinality({i \in 1..sent : stream[i] = NL})

(* A frame whose last byte has arrived is executed, or the connection is
   retired: neither a command budget, nor backpressure, nor an interest
   mask strands it, even if the peer never sends or reads again
   (server.cpp:220-243, 151-154).                                          *)
EveryFrameServed ==
    done < FramesArrived ~> (done = FramesArrived \/ pc = "closed")

(* Half-close and reset both end in retirement, whatever the peer leaves
   unread: the idle timer frees the slot of a reader that stalls
   (server.cpp:226-228, 143-149).                                          *)
EventuallyRetired == (fin \/ rst) ~> (pc = "closed")

(* A peer that half-closes and keeps reading receives the reply to every
   complete frame it sent, unless it resets or oversteps the input limit,
   or epoll fails (server.cpp:102-106, 142-150).                           *)
HalfCloseAnswered ==
    fin ~> \/ got = AfterAll.replies
           \/ rst
           \/ reason \in {"input buffer limit", "interest update failed"}

(* A connection stopped by output pressure starts again once its peer
   reads: the two never wait for each other (connection.hpp:94-104).       *)
PressureReleased == conn.output_paused ~> (~conn.output_paused \/ rst)
=============================================================================
