--------------------------- MODULE SessionProofs ---------------------------
(***************************************************************************)
(* Safety of one session for every alphabet, stream, budget, watermark and *)
(* timeout that satisfies the assumptions.                                 *)
(***************************************************************************)
EXTENDS SessionReference, ConnectionProofs

(* process_input has dropped the sent prefix before it executes a frame.    *)
Reclaimed == pc = "exec" => conn.output_cursor = 0

(* Only a flush, which moves bytes and so resets the idle clock, makes
   output_paused disagree with the watermarks.                              *)
FlagSettled ==
    idle # 0 \/ pc \notin {"flush", "finish", "retire"} => Settled(conn)

(* After process_input, a full input buffer holds a frame.                  *)
InputOpen ==
    pc \in {"flush", "finish", "scan", "wait"} => ~input_exhausted(conn)

(* Between two visits epoll is asked for what the connection needs.         *)
MaskExact ==
    pc \in {"scan", "wait"} =>
        /\ interest = wanted_interest(conn)
        /\ interest.read \/ interest.write \/ has_runnable_input(conn)

(* The idle clock runs out only on a connection that has nothing to run.    *)
IdleQuiet == idle >= kIdleTimeout => ~has_runnable_input(conn)

(* The inductive invariant.                                                 *)
Inv ==
    /\ TypeOK
    /\ BufferBounds
    /\ BoundedStore(store)
    /\ NeverResponseLimit
    /\ Reclaimed
    /\ FlagSettled
    /\ InputOpen
    /\ MaskExact
    /\ IdleQuiet
    /\ NeverExpiredWhileRunnable
    /\ EofAfterLastFrame

-----------------------------------------------------------------------------
(* What the assumptions and the invariant say about the current state.      *)
LEMMA InvFacts ==
    ASSUME Inv
    PROVE  /\ Sound(conn)
           /\ stream \in Seq(Byte)
           /\ Len(rx) \in Nat /\ Len(tx) \in Nat
           /\ kIdleTimeout \in Nat /\ kIdleTimeout # 0
<1>1. rx \in Seq(Byte) /\ tx \in Seq(Byte) /\ stream \in Streams
    BY DEF Inv, TypeOK
<1>2. Len(rx) \in Nat /\ Len(tx) \in Nat
    BY <1>1, LenProperties
<1>3. stream \in Seq(Byte)
    BY <1>1, SessionAssumption
<1> QED
    BY <1>2, <1>3, SessionAssumption DEF Inv, TypeOK, BufferBounds, Sound

(* The predicates of a connection that depend on its input only, or on its
   output only.                                                             *)
LEMMA SameInput ==
    ASSUME NEW c, NEW d, d.input_buffer = c.input_buffer, d.input_cursor = c.input_cursor
    PROVE  /\ has_complete_frame(d) <=> has_complete_frame(c)
           /\ pending_input_bytes(d) = pending_input_bytes(c)
           /\ input_exhausted(d) <=> input_exhausted(c)
    BY DEF has_complete_frame, pending_input_bytes, input_exhausted

(* Likewise for the output.                                                 *)
LEMMA SameOutput ==
    ASSUME NEW c, NEW d, pending_output_bytes(d) = pending_output_bytes(c),
           d.output_paused = c.output_paused
    PROVE  /\ Settled(d) <=> Settled(c)
           /\ has_pending_output(d) <=> has_pending_output(c)
    BY DEF Settled, has_pending_output

(* The initial state.                                                       *)
LEMMA InitInv == Init => Inv
<1> SUFFICES ASSUME Init PROVE Inv
    OBVIOUS
<1>0. /\ conn = NewConnection /\ store = EmptyStore
      /\ pc = "scan" /\ back = "scan" /\ reason = ""
      /\ rx = <<>> /\ tx = <<>> /\ got = <<>> /\ stream \in Streams
    BY DEF Init
<1>n. attempt = 0 /\ idle = 0 /\ done = 0 /\ sent = 0
    BY DEF Init
<1>i. interest = [read |-> TRUE, write |-> FALSE]
    BY DEF Init
<1>1. /\ Sound(conn) /\ Settled(conn) /\ ~has_complete_frame(conn)
      /\ can_read(conn) /\ ~has_pending_output(conn)
    BY <1>0, NewConnectionSound
<1>2. BufferBounds /\ conn \in ConnectionType
    BY <1>1 DEF BufferBounds, Sound
<1>3. BoundedStore(store) /\ DOMAIN store = {}
    BY <1>0, FS_EmptySet DEF BoundedStore, EmptyStore
<1>4. <<>> \in Seq(Byte) /\ Len(<<>>) = 0
    BY EmptySeq
<1>5. stream \in Streams /\ Len(stream) \in Nat
    BY <1>0, LenProperties, SessionAssumption
<1>6. TypeOK
  <2>1. interest \in [read : BOOLEAN, write : BOOLEAN]
    BY <1>i
  <2>2. readable \in BOOLEAN /\ fin \in BOOLEAN /\ rst \in BOOLEAN
    BY DEF Init
  <2>3. kIdleTimeout \in Nat /\ SendQueue \in Nat
    BY SessionAssumption
  <2>4. attempt \in Nat /\ idle \in 0..kIdleTimeout /\ done \in Nat
    BY <1>n, <2>3
  <2>5. sent \in 0..Len(stream)
    BY <1>n, <1>5
  <2>z. Len(tx) = 0
    BY <1>0, <1>4
  <2>t. Len(tx) <= SendQueue
    BY <2>3, <2>z
  <2>6. pc \in PcValues /\ back \in {"scan", "wait"} /\ reason \in Reasons
    BY <1>0 DEF PcValues, Reasons
  <2> QED
    BY <1>0, <1>2, <1>3, <1>4, <1>5, <2>1, <2>2, <2>4, <2>5, <2>6, <2>t DEF TypeOK
<1>7. /\ Reclaimed /\ NeverResponseLimit /\ FlagSettled /\ NeverExpiredWhileRunnable
      /\ EofAfterLastFrame
    BY <1>0, <1>1, <1>n DEF Reclaimed, NeverResponseLimit, FlagSettled,
        NeverExpiredWhileRunnable, EofAfterLastFrame
<1>8. InputOpen
  <2>1. pending_input_bytes(conn) # kMaxInputBytes
    BY <1>1, PendingFacts, AllowanceAssumption DEF can_read
  <2> QED
    BY <2>1 DEF InputOpen, input_exhausted
<1>9. MaskExact
    BY <1>0, <1>1, <1>i DEF MaskExact, wanted_interest, can_read, has_pending_output
<1>10. IdleQuiet
    BY <1>1 DEF IdleQuiet, has_runnable_input
<1> QED
    BY <1>2, <1>3, <1>6, <1>7, <1>8, <1>9, <1>10 DEF Inv

-----------------------------------------------------------------------------
(* The peer touches kernel and peer state only.                             *)
LEMMA PeerInv == Inv /\ Peer => Inv'
<1> SUFFICES ASSUME Inv, Peer PROVE Inv'
    OBVIOUS
<1>1. UNCHANGED serverVars
    BY DEF Peer, PeerSend, PeerShutdown, PeerRead, PeerReset
<1>2. /\ BufferBounds' /\ BoundedStore(store)' /\ NeverResponseLimit' /\ Reclaimed'
      /\ FlagSettled' /\ InputOpen' /\ MaskExact' /\ IdleQuiet'
      /\ NeverExpiredWhileRunnable' /\ EofAfterLastFrame'
    BY <1>1 DEF Inv, serverVars, BufferBounds, NeverResponseLimit, Reclaimed,
        FlagSettled, InputOpen, MaskExact, IdleQuiet,
        NeverExpiredWhileRunnable, EofAfterLastFrame
<1>3. /\ rx' \in Seq(Byte) /\ fin' \in BOOLEAN /\ rst' \in BOOLEAN
      /\ tx' \in Seq(Byte) /\ Len(tx') <= SendQueue
      /\ stream' = stream /\ sent' \in 0..Len(stream) /\ got' \in Seq(Byte)
  <2>0. /\ rx \in Seq(Byte) /\ tx \in Seq(Byte) /\ got \in Seq(Byte)
        /\ fin \in BOOLEAN /\ rst \in BOOLEAN
        /\ Len(tx) <= SendQueue /\ Len(tx) \in Nat /\ SendQueue \in Nat
        /\ stream \in Seq(Byte) /\ Len(stream) \in Nat /\ sent \in 0..Len(stream)
    BY InvFacts, LenProperties, SessionAssumption DEF Inv, TypeOK
  <2>1. CASE PeerSend
    <3>1. stream[sent + 1] \in Byte
      BY <2>0, <2>1, ElementOfSeq DEF PeerSend
    <3>2. rx' \in Seq(Byte)
      BY <2>0, <2>1, <3>1, AppendProperties DEF PeerSend
    <3> QED
      BY <2>0, <2>1, <3>2 DEF PeerSend
  <2>2. CASE PeerShutdown
    BY <2>0, <2>2 DEF PeerShutdown, peerVars
  <2>3. CASE PeerRead
    <3>1. Head(tx) \in Byte /\ Tail(tx) \in Seq(Byte) /\ Len(Tail(tx)) = Len(tx) - 1
      BY <2>0, <2>3, HeadTailProperties DEF PeerRead
    <3>2. got' \in Seq(Byte)
      BY <2>0, <2>3, <3>1, AppendProperties DEF PeerRead
    <3> QED
      BY <2>0, <2>3, <3>1, <3>2 DEF PeerRead
  <2>4. CASE PeerReset
    <3>1. <<>> \in Seq(Byte) /\ Len(<<>>) = 0
      BY EmptySeq
    <3> QED
      BY <2>0, <2>4, <3>1 DEF PeerReset, peerVars
  <2> QED
    BY <2>1, <2>2, <2>3, <2>4 DEF Peer
<1>4. TypeOK'
    BY <1>1, <1>3 DEF Inv, TypeOK, serverVars
<1> QED
    BY <1>2, <1>4 DEF Inv

-----------------------------------------------------------------------------
(* The scan leaves the connection alone and starts a visit, a wait or a
   retirement from a settled state.                                         *)
LEMMA ScanInv == Inv /\ Scan => Inv'
<1> SUFFICES ASSUME Inv, Scan PROVE Inv'
    OBVIOUS
<1>1. UNCHANGED <<conn, store, interest, idle, done, kernelVars, peerVars>>
    BY DEF Scan, ScanExpired, ScanRunnable, ScanQuiet
<1>2. pc = "scan" /\ Settled(conn) /\ ~input_exhausted(conn)
    BY DEF Scan, ScanExpired, ScanRunnable, ScanQuiet, Inv, FlagSettled, InputOpen
<1>3. CASE ScanExpired
  <2>1. /\ pc' = "retire" /\ reason' = "idle timeout" /\ ~has_runnable_input(conn)
        /\ UNCHANGED <<back, readable, attempt>>
    BY <1>3 DEF ScanExpired, Fail, Inv, IdleQuiet
  <2>2. pc' \in PcValues /\ reason' \in Reasons
    BY <2>1 DEF PcValues, Reasons
  <2>3. TypeOK'
    BY <1>1, <2>1, <2>2 DEF Inv, TypeOK, kernelVars, peerVars
  <2> QED
    BY <1>1, <1>2, <2>1, <2>3 DEF Inv, BufferBounds, NeverResponseLimit, Reclaimed,
        FlagSettled, InputOpen, MaskExact, IdleQuiet,
        NeverExpiredWhileRunnable, EofAfterLastFrame
<1>4. CASE ScanRunnable
  <2>1. pc' = "recv" /\ back' = "wait" /\ reason' = reason
    BY <1>4 DEF ScanRunnable
  <2>2. readable' \in BOOLEAN
    BY <1>4 DEF ScanRunnable
  <2>3. attempt' \in Nat
    BY <1>4 DEF ScanRunnable
  <2>4. pc' \in PcValues
    BY <2>1 DEF PcValues
  <2>5. TypeOK'
    BY <1>1, <2>1, <2>2, <2>3, <2>4 DEF Inv, TypeOK, kernelVars, peerVars
  <2> QED
    BY <1>1, <1>2, <2>1, <2>5 DEF Inv, BufferBounds, NeverResponseLimit, Reclaimed,
        FlagSettled, InputOpen, MaskExact, IdleQuiet,
        NeverExpiredWhileRunnable, EofAfterLastFrame
<1>5. CASE ScanQuiet
  <2>1. pc' = "wait" /\ UNCHANGED <<back, readable, attempt, reason>>
    BY <1>5 DEF ScanQuiet
  <2>2. pc' \in PcValues
    BY <2>1 DEF PcValues
  <2>3. TypeOK'
    BY <1>1, <2>1, <2>2 DEF Inv, TypeOK, kernelVars, peerVars
  <2> QED
    BY <1>1, <1>2, <2>1, <2>3 DEF Inv, BufferBounds, NeverResponseLimit, Reclaimed,
        FlagSettled, InputOpen, MaskExact, IdleQuiet,
        NeverExpiredWhileRunnable, EofAfterLastFrame
<1> QED
    BY <1>3, <1>4, <1>5 DEF Scan

(* The idle clock moves only in a wait that may sleep, that is, on a
   connection without runnable input.                                       *)
LEMMA WaitInv == Inv /\ Wait => Inv'
<1> SUFFICES ASSUME Inv, Wait PROVE Inv'
    OBVIOUS
<1>1. UNCHANGED <<conn, store, interest, done, kernelVars, peerVars>>
    BY DEF Wait, WaitReady, WaitBroken, WaitElsewhere
<1>2. pc = "wait" /\ Settled(conn) /\ ~input_exhausted(conn)
    BY DEF Wait, WaitReady, WaitBroken, WaitElsewhere, Inv, FlagSettled, InputOpen
<1>3. idle \in 0..kIdleTimeout /\ kIdleTimeout \in Nat /\ Elapse \subseteq {0, 1}
    BY SessionAssumption DEF Inv, TypeOK
<1>4. ASSUME NEW ticks \in Sleeps, LetPass(ticks)
      PROVE  idle' \in 0..kIdleTimeout /\ IdleQuiet'
  <2>1. ticks \in {0, 1} /\ (has_runnable_input(conn) => ticks = 0)
    BY <1>3, <1>4 DEF Sleeps
  <2>2. idle' = IF idle + ticks <= kIdleTimeout THEN idle + ticks ELSE kIdleTimeout
    BY <1>4 DEF LetPass, Lesser
  <2>3. idle' \in 0..kIdleTimeout
    BY <1>3, <2>1, <2>2
  <2>4. CASE has_runnable_input(conn)
    <3>1. idle' = idle
      BY <1>3, <2>1, <2>2, <2>4
    <3> QED
      BY <1>1, <2>3, <3>1 DEF Inv, IdleQuiet
  <2>5. CASE ~has_runnable_input(conn)
    BY <1>1, <2>3, <2>5 DEF IdleQuiet
  <2> QED
    BY <2>4, <2>5
<1>5. CASE WaitReady
  <2>1. pc' = "recv" /\ back' = "scan" /\ reason' = reason
    BY <1>5 DEF WaitReady
  <2>2. idle' \in 0..kIdleTimeout /\ IdleQuiet'
    BY <1>4, <1>5 DEF WaitReady
  <2>3. readable' \in BOOLEAN
    BY <1>5 DEF WaitReady, ReadyToRead
  <2>4. attempt' \in Nat
    BY <1>5 DEF WaitReady
  <2>5. pc' \in PcValues
    BY <2>1 DEF PcValues
  <2>6. TypeOK'
    BY <1>1, <2>1, <2>2, <2>3, <2>4, <2>5 DEF Inv, TypeOK, kernelVars, peerVars
  <2> QED
    BY <1>1, <1>2, <2>1, <2>2, <2>6 DEF Inv, BufferBounds, NeverResponseLimit, Reclaimed,
        FlagSettled, InputOpen, MaskExact,
        NeverExpiredWhileRunnable, EofAfterLastFrame
<1>6. CASE WaitBroken
  <2>1. /\ pc' = "retire" /\ reason' \in {"socket error event", "full hangup"}
        /\ UNCHANGED <<back, readable, attempt, idle>>
    BY <1>6 DEF WaitBroken, Fail
  <2>2. pc' \in PcValues /\ reason' \in Reasons
    BY <2>1 DEF PcValues, Reasons
  <2>3. TypeOK'
    BY <1>1, <2>1, <2>2 DEF Inv, TypeOK, kernelVars, peerVars
  <2> QED
    BY <1>1, <1>2, <2>1, <2>3 DEF Inv, BufferBounds, NeverResponseLimit, Reclaimed,
        FlagSettled, InputOpen, MaskExact, IdleQuiet,
        NeverExpiredWhileRunnable, EofAfterLastFrame
<1>7. CASE WaitElsewhere
  <2>1. pc' = "scan" /\ UNCHANGED <<back, readable, attempt, reason>>
    BY <1>7 DEF WaitElsewhere
  <2>2. idle' \in 0..kIdleTimeout /\ IdleQuiet'
    BY <1>4, <1>7 DEF WaitElsewhere
  <2>3. pc' \in PcValues
    BY <2>1 DEF PcValues
  <2>4. TypeOK'
    BY <1>1, <2>1, <2>2, <2>3 DEF Inv, TypeOK, kernelVars, peerVars
  <2> QED
    BY <1>1, <1>2, <2>1, <2>2, <2>4 DEF Inv, BufferBounds, NeverResponseLimit, Reclaimed,
        FlagSettled, InputOpen, MaskExact,
        NeverExpiredWhileRunnable, EofAfterLastFrame
<1> QED
    BY <1>5, <1>6, <1>7 DEF Wait

-----------------------------------------------------------------------------
(* recv is asked for no more than the room that is left, so append_input
   always takes the chunk (server.cpp:85-99).                               *)
LEMMA RecvBytesInv == Inv /\ RecvBytes => Inv'
<1> SUFFICES ASSUME Inv, RecvBytes PROVE Inv'
    OBVIOUS
<1> DEFINE received == Lesser(requested_input, Len(rx))
           bytes == SubSeq(rx, 1, received)
<1>1. pc = "recv" /\ Settled(conn) /\ Sound(conn) /\ ~conn.read_eof
    BY InvFacts DEF RecvBytes, Reading, can_read, Inv, FlagSettled
<1>2. rx \in Seq(Byte) /\ Len(rx) \in Nat /\ attempt \in Nat
    BY InvFacts DEF Inv, TypeOK
<1>3. /\ received \in Nat /\ received <= Len(rx)
      /\ received <= kMaxInputBytes - pending_input_bytes(conn)
  <2>1. /\ pending_input_bytes(conn) \in 0..kMaxInputBytes
        /\ kMaxInputBytes \in Nat /\ kReadBufferSize \in Nat
    BY <1>1, PendingFacts, AllowanceAssumption, SessionAssumption
  <2> QED
    BY <1>2, <2>1 DEF requested_input, Lesser
<1> HIDE DEF received
<1>4. bytes \in Seq(Byte) /\ Len(bytes) = received
    BY <1>2, <1>3, PrefixFacts
<1>5. SubSeq(rx, received + 1, Len(rx)) \in Seq(Byte)
    BY <1>2, <1>3, SuffixFacts
<1> HIDE DEF bytes
<1> DEFINE a == append_input(conn, bytes)
<1>6. /\ Sound(a) /\ input_fits(conn, bytes)
      /\ a.output_buffer = conn.output_buffer /\ a.output_cursor = conn.output_cursor
      /\ a.output_paused = conn.output_paused /\ ~a.read_eof
    BY <1>1, <1>3, <1>4, AppendFacts
<1>7. pending_output_bytes(a) = pending_output_bytes(conn)
    BY <1>6 DEF pending_output_bytes
<1>8. Settled(a)
    BY <1>1, <1>6, <1>7, SameOutput
<1>9. /\ rx' = SubSeq(rx, received + 1, Len(rx)) /\ conn' = a
      /\ IF input_fits(conn, bytes) THEN pc' = pc /\ reason' = reason
                                    ELSE Fail("input buffer limit")
    BY DEF RecvBytes, received, bytes
<1> HIDE DEF a
<1>10. /\ conn' = a /\ rx' \in Seq(Byte) /\ pc' = "recv" /\ reason' = reason
    BY <1>1, <1>5, <1>6, <1>9
<1>11. /\ idle' = 0 /\ attempt' = attempt + 1
       /\ UNCHANGED <<store, interest, back, readable, done, fin, rst, tx, peerVars>>
    BY DEF RecvBytes
<1>12. attempt' \in Nat /\ idle' \in 0..kIdleTimeout /\ ~(idle' >= kIdleTimeout)
    BY <1>2, <1>11, SessionAssumption
<1>13. TypeOK'
    BY <1>6, <1>10, <1>11, <1>12 DEF Inv, TypeOK, peerVars, PcValues, Sound
<1> QED
    BY <1>6, <1>8, <1>10, <1>11, <1>12, <1>13 DEF Inv, BufferBounds, Sound,
        NeverResponseLimit, Reclaimed, FlagSettled, InputOpen, MaskExact, IdleQuiet,
        NeverExpiredWhileRunnable, EofAfterLastFrame

(* The other ends of the recv loop move no bytes.                           *)
LEMMA RecvOtherInv ==
    Inv /\ (RecvEof \/ RecvInterrupted \/ RecvError \/ RecvStop) => Inv'
<1> SUFFICES ASSUME Inv, RecvEof \/ RecvInterrupted \/ RecvError \/ RecvStop
             PROVE  Inv'
    OBVIOUS
<1>1. /\ pc = "recv"
      /\ UNCHANGED <<store, interest, back, idle, done, kernelVars, peerVars>>
    BY DEF RecvEof, RecvInterrupted, RecvError, RecvStop
<1>2. Settled(conn) /\ Sound(conn)
    BY <1>1, InvFacts DEF Inv, FlagSettled
<1>3. CASE RecvEof
  <2> DEFINE e == [conn EXCEPT !.read_eof = TRUE]
  <2>1. /\ e \in ConnectionType
        /\ e.input_buffer = conn.input_buffer /\ e.input_cursor = conn.input_cursor
        /\ e.output_buffer = conn.output_buffer /\ e.output_cursor = conn.output_cursor
        /\ e.output_paused = conn.output_paused
    BY <1>2 DEF Sound, ConnectionType
  <2>2. conn' = e /\ pc' = "process" /\ reason' = reason
    BY <1>3 DEF RecvEof
  <2> HIDE DEF e
  <2>3. Sound(e)
    BY <1>2, <2>1 DEF Sound, WithinBounds
  <2>4. pending_output_bytes(e) = pending_output_bytes(conn)
    BY <2>1 DEF pending_output_bytes
  <2>5. Settled(e)
    BY <1>2, <2>1, <2>4, SameOutput
  <2>6. /\ has_runnable_input(e) <=> has_runnable_input(conn)
        /\ ~has_complete_frame(e)
    BY <1>3, <2>1, SameInput DEF has_runnable_input, RecvEof, Reading, can_read
  <2>7. readable' \in BOOLEAN
    BY <1>3 DEF RecvEof
  <2>8. attempt' \in Nat
    BY <1>3 DEF RecvEof
  <2>9. TypeOK'
    BY <1>1, <2>1, <2>2, <2>7, <2>8
    DEF Inv, TypeOK, kernelVars, peerVars, PcValues
  <2> QED
    BY <1>1, <2>2, <2>3, <2>5, <2>6, <2>9 DEF Inv, BufferBounds, Sound,
        NeverResponseLimit, Reclaimed, FlagSettled, InputOpen, MaskExact, IdleQuiet,
        NeverExpiredWhileRunnable, EofAfterLastFrame
<1>4. CASE RecvInterrupted
  <2>1. UNCHANGED <<conn, pc, readable, reason>>
    BY <1>4 DEF RecvInterrupted
  <2>2. attempt' \in Nat
    BY <1>4 DEF RecvInterrupted, Inv, TypeOK
  <2>3. TypeOK'
    BY <1>1, <2>1, <2>2 DEF Inv, TypeOK, kernelVars, peerVars
  <2> QED
    BY <1>1, <1>2, <2>1, <2>3 DEF Inv, BufferBounds, NeverResponseLimit, Reclaimed,
        FlagSettled, InputOpen, MaskExact, IdleQuiet,
        NeverExpiredWhileRunnable, EofAfterLastFrame
<1>5. CASE RecvError
  <2>1. /\ UNCHANGED <<conn, readable, attempt>>
        /\ pc' = "retire" /\ reason' = "receive error"
    BY <1>5 DEF RecvError, Fail
  <2>2. TypeOK'
    BY <1>1, <2>1 DEF Inv, TypeOK, kernelVars, peerVars, PcValues, Reasons
  <2> QED
    BY <1>1, <1>2, <2>1, <2>2 DEF Inv, BufferBounds, NeverResponseLimit, Reclaimed,
        FlagSettled, InputOpen, MaskExact, IdleQuiet,
        NeverExpiredWhileRunnable, EofAfterLastFrame
<1>6. CASE RecvStop
  <2>1. UNCHANGED <<conn, reason>> /\ pc' = "process"
    BY <1>6 DEF RecvStop
  <2>2. readable' \in BOOLEAN
    BY <1>6 DEF RecvStop
  <2>3. attempt' \in Nat
    BY <1>6 DEF RecvStop
  <2>4. TypeOK'
    BY <1>1, <2>1, <2>2, <2>3 DEF Inv, TypeOK, kernelVars, peerVars, PcValues
  <2> QED
    BY <1>1, <1>2, <2>1, <2>4 DEF Inv, BufferBounds, NeverResponseLimit, Reclaimed,
        FlagSettled, InputOpen, MaskExact, IdleQuiet,
        NeverExpiredWhileRunnable, EofAfterLastFrame
<1> QED
    BY <1>3, <1>4, <1>5, <1>6

-----------------------------------------------------------------------------
(* process_input: the reservation above the high watermark is what lets
   every reply in (connection.cpp:36-92).                                   *)
LEMMA ProcessInv == Inv /\ (ProcessBegin \/ ExecFrame \/ ProcessEnd) => Inv'
<1> SUFFICES ASSUME Inv, ProcessBegin \/ ExecFrame \/ ProcessEnd PROVE Inv'
    OBVIOUS
<1>1. UNCHANGED <<interest, back, readable, idle, kernelVars, peerVars>>
    BY DEF ProcessBegin, ExecFrame, ProcessEnd
<1>2. Settled(conn) /\ Sound(conn) /\ attempt \in Nat /\ done \in Nat
    BY InvFacts DEF Inv, FlagSettled, ProcessBegin, ExecFrame, ProcessEnd, TypeOK
<1>3. CASE ProcessBegin
  <2> DEFINE b == begin_processing(conn)
  <2>1. /\ Sound(b) /\ Settled(b) /\ b.output_cursor = 0
        /\ has_complete_frame(b) <=> has_complete_frame(conn)
        /\ b.output_paused = conn.output_paused /\ b.read_eof = conn.read_eof
    BY <1>2, BeginFacts
  <2>2. has_runnable_input(b) => has_runnable_input(conn)
    BY <2>1 DEF has_runnable_input
  <2>3. /\ conn' = b /\ pc' = "exec"
        /\ UNCHANGED <<store, attempt, reason, done>>
    BY <1>3 DEF ProcessBegin
  <2> HIDE DEF b
  <2>4. TypeOK'
    BY <1>1, <2>1, <2>3 DEF Inv, TypeOK, kernelVars, peerVars, PcValues, Sound
  <2> QED
    BY <1>1, <2>1, <2>2, <2>3, <2>4 DEF Inv, BufferBounds, Sound, NeverResponseLimit,
        Reclaimed, FlagSettled, InputOpen, MaskExact, IdleQuiet,
        NeverExpiredWhileRunnable, EofAfterLastFrame
<1>4. CASE ExecFrame
  <2>1. /\ pc = "exec" /\ ~conn.output_paused /\ has_runnable_input(conn)
        /\ conn.output_cursor = 0 /\ ~conn.read_eof
    BY <1>4 DEF ExecFrame, Executing, has_runnable_input, Inv, Reclaimed,
        EofAfterLastFrame
  <2>2. ~(idle >= kIdleTimeout)
    BY <2>1 DEF Inv, IdleQuiet
  <2>3. PICK newline \in 1..Len(conn.input_buffer) :
          /\ IsNewline(conn.input_buffer, conn.input_cursor, newline)
          /\ LET answer == Answer(frame_at(conn, newline), store)
                 response == response_of(answer.text)
                 rest == consume_frame(conn, newline)
             IN  /\ store' = answer.store
                 /\ IF output_fits(rest, response)
                    THEN /\ conn' = queue_response(rest, response)
                         /\ pc' = pc /\ reason' = reason
                    ELSE /\ conn' = rest
                         /\ Fail("response buffer limit")
    BY <1>4 DEF ExecFrame
  <2> DEFINE frame == frame_at(conn, newline)
             answer == Answer(frame, store)
             rest == consume_frame(conn, newline)
             q == queue_response(rest, response_of(answer.text))
  <2>4. newline \in Nat
    BY <1>2, PendingFacts
  <2>5. frame \in Text /\ Len(frame) < kMaxInputBytes
    BY <1>2, <2>3, <2>4, FrameFacts
  <2>6. /\ answer.text \in Text /\ Len(answer.text) < kMaxResponseBytes
        /\ BoundedStore(answer.store)
    BY <2>5, AnswerBound DEF Inv
  <2> HIDE DEF frame, answer
  <2>7. /\ output_fits(rest, response_of(answer.text))
        /\ Sound(q) /\ Settled(q) /\ q.output_cursor = 0
        /\ q.read_eof = conn.read_eof
    BY <1>2, <2>1, <2>3, <2>4, <2>6, ExecuteFacts
  <2>8. /\ store' = answer.store
        /\ IF output_fits(rest, response_of(answer.text))
           THEN conn' = q /\ pc' = pc /\ reason' = reason
           ELSE conn' = rest /\ Fail("response buffer limit")
    BY <2>3 DEF frame, answer
  <2> HIDE DEF q, rest
  <2>9. conn' = q /\ pc' = "exec" /\ reason' = reason /\ BoundedStore(store')
    BY <2>1, <2>6, <2>7, <2>8
  <2>a. attempt' = attempt + 1 /\ done' = done + 1
    BY <1>4 DEF ExecFrame
  <2>10. attempt' \in Nat /\ done' \in Nat
    BY <1>2, <2>a
  <2>11. TypeOK'
    BY <1>1, <2>7, <2>9, <2>10
    DEF Inv, TypeOK, kernelVars, peerVars, PcValues, Sound, BoundedStore
  <2> QED
    BY <1>1, <2>1, <2>2, <2>7, <2>9, <2>11 DEF Inv, BufferBounds, Sound,
        NeverResponseLimit, Reclaimed, FlagSettled, InputOpen, MaskExact, IdleQuiet,
        NeverExpiredWhileRunnable, EofAfterLastFrame
<1>5. CASE ProcessEnd
  <2> DEFINE e == end_processing(conn)
  <2>1. /\ Sound(e) /\ (has_complete_frame(e) <=> has_complete_frame(conn))
        /\ e.output_buffer = conn.output_buffer /\ e.output_cursor = conn.output_cursor
        /\ e.output_paused = conn.output_paused /\ e.read_eof = conn.read_eof
    BY <1>2, EndProcessingFacts
  <2>2. pending_output_bytes(e) = pending_output_bytes(conn)
    BY <2>1 DEF pending_output_bytes
  <2>3. Settled(e)
    BY <1>2, <2>1, <2>2, SameOutput
  <2>4. has_runnable_input(e) <=> has_runnable_input(conn)
    BY <2>1 DEF has_runnable_input
  <2>5. /\ conn' = e /\ UNCHANGED <<store, done>>
        /\ \/ pc' = "flush" /\ reason' = reason /\ ~input_exhausted(e)
           \/ pc' = "retire" /\ reason' = "input buffer limit"
    BY <1>5 DEF ProcessEnd, Fail
  <2> HIDE DEF e
  <2>6. attempt' \in Nat
    BY <1>5 DEF ProcessEnd
  <2>7. TypeOK'
    BY <1>1, <2>1, <2>5, <2>6
    DEF Inv, TypeOK, kernelVars, peerVars, PcValues, Reasons, Sound
  <2> QED
    BY <1>1, <2>1, <2>3, <2>4, <2>5, <2>7 DEF Inv, BufferBounds, Sound,
        NeverResponseLimit, Reclaimed, FlagSettled, InputOpen, MaskExact, IdleQuiet,
        NeverExpiredWhileRunnable, EofAfterLastFrame
<1> QED
    BY <1>3, <1>4, <1>5

-----------------------------------------------------------------------------
(* flush_output: a send resets the idle clock, which is why the flag may
   disagree with the watermarks until the visit ends (connection.cpp:94-136). *)
LEMMA SendBytesInv == Inv /\ SendBytes => Inv'
<1> SUFFICES ASSUME Inv, SendBytes PROVE Inv'
    OBVIOUS
<1>1. /\ pc = "flush" /\ Sound(conn) /\ ~input_exhausted(conn)
      /\ attempt \in Nat /\ tx \in Seq(Byte) /\ Len(tx) \in Nat
    BY InvFacts DEF SendBytes, Inv, TypeOK, InputOpen
<1>2. PICK accepted \in 1..Lesser(requested_output, SendQueue - Len(tx)) :
          /\ tx' = tx \o SubSeq(pending_output(conn), 1, accepted)
          /\ conn' = advance_output(conn, accepted)
    BY DEF SendBytes
<1>3. /\ accepted \in Nat /\ accepted <= pending_output_bytes(conn)
      /\ accepted <= SendQueue - Len(tx)
  <2>1. /\ pending_output_bytes(conn) \in Nat /\ kWriteChunkBytes \in Nat
        /\ SendQueue \in Nat
    BY <1>1, PendingFacts, SessionAssumption, WatermarkAssumption
  <2> QED
    BY <1>1, <1>2, <2>1 DEF requested_output, Lesser
<1>4. pending_output(conn) \in Seq(Byte)
      /\ Len(pending_output(conn)) = pending_output_bytes(conn)
    BY <1>1, PendingFacts, SuffixFacts
    DEF pending_output, pending_output_bytes, Sound, WithinBounds
<1> DEFINE chunk == SubSeq(pending_output(conn), 1, accepted)
           a == advance_output(conn, accepted)
<1>5. chunk \in Seq(Byte) /\ Len(chunk) = accepted
    BY <1>3, <1>4, PrefixFacts
<1>6. tx' = tx \o chunk /\ conn' = a
    BY <1>2
<1>7. /\ Sound(a)
      /\ a.input_buffer = conn.input_buffer /\ a.input_cursor = conn.input_cursor
      /\ a.read_eof = conn.read_eof
    BY <1>1, <1>3, AdvanceFacts
<1> HIDE DEF chunk, a
<1>8. tx \o chunk \in Seq(Byte) /\ Len(tx \o chunk) = Len(tx) + Len(chunk)
    BY <1>1, <1>5, ConcatProperties
<1>9. tx' \in Seq(Byte) /\ Len(tx') <= SendQueue
    BY <1>1, <1>3, <1>5, <1>6, <1>8, SessionAssumption
<1>10. ~input_exhausted(a) /\ (has_complete_frame(a) <=> has_complete_frame(conn))
    BY <1>1, <1>7, SameInput
<1>11. /\ idle' = 0 /\ attempt' = attempt + 1
       /\ UNCHANGED <<store, interest, pc, back, readable, reason, done,
                      rx, fin, rst, peerVars>>
    BY DEF SendBytes
<1>12. attempt' \in Nat /\ idle' \in 0..kIdleTimeout /\ ~(idle' >= kIdleTimeout)
    BY <1>1, <1>11, SessionAssumption
<1>13. TypeOK'
    BY <1>6, <1>7, <1>9, <1>11, <1>12 DEF Inv, TypeOK, peerVars, Sound
<1> QED
    BY <1>1, <1>6, <1>7, <1>10, <1>11, <1>12, <1>13 DEF Inv, BufferBounds, Sound,
        NeverResponseLimit, Reclaimed, FlagSettled, InputOpen, MaskExact, IdleQuiet,
        NeverExpiredWhileRunnable, EofAfterLastFrame

(* The other ends of the send loop move no bytes.                           *)
LEMMA SendOtherInv == Inv /\ (SendInterrupted \/ SendError \/ SendStop) => Inv'
<1> SUFFICES ASSUME Inv, SendInterrupted \/ SendError \/ SendStop PROVE Inv'
    OBVIOUS
<1>1. /\ pc = "flush"
      /\ UNCHANGED <<store, interest, back, readable, idle, done, kernelVars, peerVars>>
    BY DEF SendInterrupted, SendError, SendStop
<1>2. /\ Sound(conn) /\ ~input_exhausted(conn) /\ (idle # 0 => Settled(conn))
      /\ attempt \in Nat
    BY <1>1, InvFacts DEF Inv, FlagSettled, InputOpen, TypeOK
<1>3. CASE SendInterrupted
  <2>1. UNCHANGED <<conn, pc, reason>>
    BY <1>3 DEF SendInterrupted
  <2>2. attempt' \in Nat
    BY <1>2, <1>3 DEF SendInterrupted
  <2>3. TypeOK'
    BY <1>1, <2>1, <2>2 DEF Inv, TypeOK, kernelVars, peerVars
  <2> QED
    BY <1>1, <1>2, <2>1, <2>3 DEF Inv, BufferBounds, NeverResponseLimit, Reclaimed,
        FlagSettled, InputOpen, MaskExact, IdleQuiet,
        NeverExpiredWhileRunnable, EofAfterLastFrame
<1>4. CASE SendError
  <2>1. UNCHANGED <<conn, attempt>> /\ pc' = "retire" /\ reason' = "send error"
    BY <1>4 DEF SendError, Fail
  <2>2. TypeOK'
    BY <1>1, <2>1 DEF Inv, TypeOK, kernelVars, peerVars, PcValues, Reasons
  <2> QED
    BY <1>1, <1>2, <2>1, <2>2 DEF Inv, BufferBounds, NeverResponseLimit, Reclaimed,
        FlagSettled, InputOpen, MaskExact, IdleQuiet,
        NeverExpiredWhileRunnable, EofAfterLastFrame
<1>5. CASE SendStop
  <2> DEFINE e == end_flush(conn)
  <2>1. /\ Sound(e) /\ pending_output_bytes(e) = pending_output_bytes(conn)
        /\ e.input_buffer = conn.input_buffer /\ e.input_cursor = conn.input_cursor
        /\ e.output_paused = conn.output_paused /\ e.read_eof = conn.read_eof
    BY <1>2, EndFlushFacts
  <2>2. conn' = e /\ pc' = "finish" /\ reason' = reason
    BY <1>5 DEF SendStop
  <2> HIDE DEF e
  <2>3. /\ ~input_exhausted(e) /\ (idle # 0 => Settled(e))
        /\ has_complete_frame(e) <=> has_complete_frame(conn)
    BY <1>2, <2>1, SameInput, SameOutput
  <2>4. has_runnable_input(e) <=> has_runnable_input(conn)
    BY <2>1, <2>3 DEF has_runnable_input
  <2>5. attempt' \in Nat
    BY <1>5 DEF SendStop
  <2>6. TypeOK'
    BY <1>1, <2>1, <2>2, <2>5 DEF Inv, TypeOK, kernelVars, peerVars, PcValues, Sound
  <2> QED
    BY <1>1, <2>1, <2>2, <2>3, <2>4, <2>6 DEF Inv, BufferBounds, Sound,
        NeverResponseLimit, Reclaimed, FlagSettled, InputOpen, MaskExact, IdleQuiet,
        NeverExpiredWhileRunnable, EofAfterLastFrame
<1> QED
    BY <1>3, <1>4, <1>5

-----------------------------------------------------------------------------
(* The end of a visit settles the flag, keeps what can still be used, and
   leaves a connection that is not finished something to wait for or to run
   (server.cpp:140-154).                                                    *)
LEMMA SettleFacts ==
    ASSUME NEW c, Sound(c), ~input_exhausted(c)
    PROVE  LET s == settle(c) IN
           /\ Sound(s) /\ Settled(s) /\ ~input_exhausted(s)
           /\ Settled(c) /\ has_runnable_input(s) => has_runnable_input(c)
           /\ s.read_eof = c.read_eof /\ (has_complete_frame(s) => has_complete_frame(c))
           /\ \/ AtEnd(s) /\ ~has_pending_output(s)
              \/ can_read(s) \/ has_pending_output(s) \/ has_runnable_input(s)
<1> DEFINE u == update_backpressure(c)
           s == settle(c)
<1>1. /\ Sound(u) /\ Settled(u)
      /\ u.input_buffer = c.input_buffer /\ u.input_cursor = c.input_cursor
      /\ u.read_eof = c.read_eof
      /\ Settled(c) => u.output_paused = c.output_paused
    BY BackpressureFacts
<1> HIDE DEF u
<1>2. /\ has_complete_frame(u) <=> has_complete_frame(c)
      /\ ~input_exhausted(u)
    BY <1>1, SameInput
<1>3. Settled(c) /\ has_runnable_input(u) => has_runnable_input(c)
    BY <1>1, <1>2 DEF has_runnable_input
<1>4. CASE AtEnd(u)
  <2> DEFINE d == drop_tail(u)
  <2>1. /\ Sound(d) /\ pending_input_bytes(d) = 0 /\ ~has_complete_frame(d)
        /\ d.output_buffer = u.output_buffer /\ d.output_cursor = u.output_cursor
        /\ d.read_eof = u.read_eof /\ d.output_paused = u.output_paused
    BY <1>1, DropTailFacts
  <2>2. s = d
    BY <1>4 DEF settle, u
  <2> HIDE DEF d
  <2>3. pending_output_bytes(d) = pending_output_bytes(u)
    BY <2>1 DEF pending_output_bytes
  <2>4. Settled(d)
    BY <1>1, <2>1, <2>3, SameOutput
  <2>5. ~input_exhausted(d) /\ ~has_runnable_input(d) /\ AtEnd(d)
    BY <1>4, <2>1, AllowanceAssumption DEF input_exhausted, has_runnable_input, AtEnd
  <2> QED
    BY <1>1, <2>1, <2>2, <2>4, <2>5 DEF s
<1>5. CASE ~AtEnd(u)
  <2>1. s = u
    BY <1>5 DEF settle, u
  <2>2. ASSUME ~has_pending_output(u) PROVE can_read(u) \/ has_runnable_input(u)
    <3>1. pending_output_bytes(u) = 0
      BY <2>2 DEF has_pending_output
    <3>2. ~u.output_paused
      BY <1>1, <3>1, WatermarkAssumption DEF Settled
    <3>3. CASE has_complete_frame(u)
      BY <3>2, <3>3 DEF has_runnable_input
    <3>4. CASE ~has_complete_frame(u)
      <4>1. ~u.read_eof
        BY <1>5, <3>4 DEF AtEnd
      <4>2. pending_input_bytes(u) < kMaxInputBytes
        BY <1>1, <1>2, <3>4, PendingFacts, AllowanceAssumption DEF input_exhausted
      <4> QED
        BY <3>2, <3>4, <4>1, <4>2 DEF can_read
    <3> QED
      BY <3>3, <3>4
  <2> QED
    BY <1>1, <1>2, <1>3, <2>1, <2>2 DEF s
<1> QED
    BY <1>4, <1>5

(* The end of the visit.                                                    *)
LEMMA FinishInv ==
    Inv /\ (FinishDrained \/ FinishKeep \/ FinishUnmodified) => Inv'
<1> SUFFICES ASSUME Inv, FinishDrained \/ FinishKeep \/ FinishUnmodified
             PROVE  Inv'
    OBVIOUS
<1> DEFINE s == settle(conn)
<1>1. /\ pc = "finish" /\ conn' = s
      /\ UNCHANGED <<store, readable, attempt, idle, done, kernelVars, peerVars>>
    BY DEF FinishDrained, FinishKeep, FinishUnmodified
<1>2. Sound(conn) /\ ~input_exhausted(conn) /\ (idle # 0 => Settled(conn))
    BY <1>1, InvFacts DEF Inv, FlagSettled, InputOpen
<1>3. /\ Sound(s) /\ Settled(s) /\ ~input_exhausted(s)
      /\ Settled(conn) /\ has_runnable_input(s) => has_runnable_input(conn)
      /\ s.read_eof = conn.read_eof
      /\ has_complete_frame(s) => has_complete_frame(conn)
      /\ \/ AtEnd(s) /\ ~has_pending_output(s)
         \/ can_read(s) \/ has_pending_output(s) \/ has_runnable_input(s)
    BY <1>2, SettleFacts
<1> HIDE DEF s
<1>4. BufferBounds' /\ conn' \in ConnectionType /\ BoundedStore(store)'
    BY <1>1, <1>3 DEF BufferBounds, Sound, Inv
<1>5. IdleQuiet'
  <2>1. SUFFICES ASSUME idle >= kIdleTimeout PROVE ~has_runnable_input(s)
    BY <1>1 DEF IdleQuiet
  <2>2. ~has_runnable_input(conn)
    BY <2>1 DEF Inv, IdleQuiet
  <2>3. idle # 0
    BY <2>1, InvFacts
  <2> QED
    BY <1>2, <1>3, <2>2, <2>3
<1>6. CASE FinishKeep
  <2>1. /\ ~(AtEnd(s) /\ ~has_pending_output(s))
        /\ interest' = wanted_interest(s)
        /\ pc' = back /\ back' = "scan" /\ reason' = reason
    BY <1>1, <1>6 DEF FinishKeep
  <2>2. pc' \in {"scan", "wait"}
    BY <2>1 DEF Inv, TypeOK
  <2>3. /\ interest' \in [read : BOOLEAN, write : BOOLEAN]
        /\ interest'.read <=> can_read(s)
        /\ interest'.write <=> has_pending_output(s)
    BY <2>1 DEF wanted_interest, can_read, has_pending_output
  <2>4. MaskExact'
    BY <1>1, <1>3, <2>1, <2>2, <2>3 DEF MaskExact
  <2>5. TypeOK'
    BY <1>1, <1>4, <2>1, <2>2, <2>3 DEF Inv, TypeOK, kernelVars, peerVars, PcValues
  <2> QED
    BY <1>1, <1>3, <1>4, <1>5, <2>1, <2>2, <2>4, <2>5 DEF Inv, NeverResponseLimit,
        Reclaimed, FlagSettled, InputOpen,
        NeverExpiredWhileRunnable, EofAfterLastFrame
<1>7. CASE FinishDrained \/ FinishUnmodified
  <2>1. /\ pc' = "retire" /\ UNCHANGED <<interest, back>>
        /\ reason' \in {"read EOF and output drained", "interest update failed"}
    BY <1>7 DEF FinishDrained, FinishUnmodified, Fail
  <2>2. TypeOK'
    BY <1>1, <1>4, <2>1 DEF Inv, TypeOK, kernelVars, peerVars, PcValues, Reasons
  <2> QED
    BY <1>1, <1>3, <1>4, <1>5, <2>1, <2>2 DEF Inv, NeverResponseLimit, Reclaimed,
        FlagSettled, InputOpen, MaskExact,
        NeverExpiredWhileRunnable, EofAfterLastFrame
<1> QED
    BY <1>6, <1>7

(* retire_client destroys the connection with its buffers.                  *)
LEMMA RetireInv == Inv /\ RetireClient => Inv'
<1> SUFFICES ASSUME Inv, RetireClient PROVE Inv'
    OBVIOUS
<1>1. /\ pc' = "closed" /\ conn' = NewConnection /\ interest' = NoInterest
      /\ rx' = <<>>
      /\ UNCHANGED <<store, back, readable, attempt, reason, idle, done, fin, rst, peerVars>>
    BY DEF RetireClient
<1>2. PICK kept \in 0..Len(tx) : tx' = SubSeq(tx, 1, kept)
    BY InvFacts DEF RetireClient
<1>3. tx \in Seq(Byte) /\ Len(tx) <= SendQueue /\ Len(tx) \in Nat
    BY InvFacts DEF Inv, TypeOK
<1>4. tx' \in Seq(Byte) /\ Len(tx') = kept
    BY <1>2, <1>3, PrefixFacts
<1>5. Len(tx') <= SendQueue
    BY <1>2, <1>3, <1>4, SessionAssumption
<1>6. rx' \in Seq(Byte)
    BY <1>1, EmptySeq
<1>7. /\ Sound(conn') /\ Settled(conn') /\ ~has_runnable_input(conn')
      /\ ~has_complete_frame(conn')
    BY <1>1, NewConnectionSound DEF has_runnable_input
<1>8. interest' \in [read : BOOLEAN, write : BOOLEAN]
    BY <1>1 DEF NoInterest
<1>9. TypeOK'
    BY <1>1, <1>4, <1>5, <1>6, <1>7, <1>8 DEF Inv, TypeOK, peerVars, PcValues, Sound
<1> QED
    BY <1>1, <1>7, <1>9 DEF Inv, BufferBounds, Sound, NeverResponseLimit, Reclaimed,
        FlagSettled, InputOpen, MaskExact, IdleQuiet,
        NeverExpiredWhileRunnable, EofAfterLastFrame

-----------------------------------------------------------------------------
(* Every step of the server or of the peer preserves the invariant.         *)
LEMMA StepInv == Inv /\ [Next]_vars => Inv'
<1> SUFFICES ASSUME Inv, [Next]_vars PROVE Inv'
    OBVIOUS
<1>1. CASE Peer
    BY <1>1, PeerInv
<1>2. CASE Scan
    BY <1>2, ScanInv
<1>3. CASE Wait
    BY <1>3, WaitInv
<1>4. CASE Visit
    BY <1>4, RecvBytesInv, RecvOtherInv, ProcessInv, SendBytesInv, SendOtherInv, FinishInv
    DEF Visit
<1>5. CASE RetireClient
    BY <1>5, RetireInv
<1>6. CASE UNCHANGED vars
  <2>1. UNCHANGED serverVars /\ UNCHANGED kernelVars /\ UNCHANGED peerVars
    BY <1>6 DEF vars
  <2>2. TypeOK'
    BY <2>1 DEF Inv, TypeOK, serverVars, kernelVars, peerVars
  <2> QED
    BY <2>1, <2>2 DEF serverVars, Inv, BufferBounds, NeverResponseLimit, Reclaimed,
        FlagSettled, InputOpen, MaskExact, IdleQuiet, NeverExpiredWhileRunnable,
        EofAfterLastFrame
<1> QED
    BY <1>1, <1>2, <1>3, <1>4, <1>5, <1>6 DEF Next, Server

(* The inductive invariant holds in every reachable state.                  *)
THEOREM Invariance == Spec => []Inv
<1>1. Init => Inv
    BY InitInv
<1>2. Inv /\ [Next]_vars => Inv'
    BY StepInv
<1> QED
    BY <1>1, <1>2, PTL DEF Spec

(* The variables keep their types, for every instance.                      *)
THEOREM TypeCorrect == Spec => []TypeOK
<1>1. Inv => TypeOK
    BY DEF Inv
<1> QED
    BY <1>1, Invariance, PTL

(* No buffer outgrows its cap, no cursor its buffer: the size_t
   subtractions of the code never wrap around.                              *)
THEOREM Bounded == Spec => []BufferBounds
<1>1. Inv => BufferBounds
    BY DEF Inv
<1> QED
    BY <1>1, Invariance, PTL

(* InputResult::OutputLimit is never returned: no executed mutation is left
   without its reply for lack of room.                                      *)
THEOREM RoomForEveryReply == Spec => []NeverResponseLimit
<1>1. Inv => NeverResponseLimit
    BY DEF Inv
<1> QED
    BY <1>1, Invariance, PTL

(* The interest mask is exact whenever the server may sleep, and never
   empty on a connection without runnable input.                            *)
THEOREM NoStrandedWork == Spec => []NothingStranded
<1>1. Inv => NothingStranded
    BY DEF Inv, MaskExact, NothingStranded
<1> QED
    BY <1>1, Invariance, PTL

(* The idle timeout never takes a connection with a frame to run.           *)
THEOREM ExpiryIsQuiet == Spec => []NeverExpiredWhileRunnable
<1>1. Inv => NeverExpiredWhileRunnable
    BY DEF Inv
<1> QED
    BY <1>1, Invariance, PTL

(* EOF is only read once every frame received has been executed.            *)
THEOREM EofComesLast == Spec => []EofAfterLastFrame
<1>1. Inv => EofAfterLastFrame
    BY DEF Inv
<1> QED
    BY <1>1, Invariance, PTL

(* No frame is executed at or above the high watermark.                     *)
THEOREM PressureRespected == Spec => NoExecutionUnderPressure
<1>1. Inv /\ [Next]_vars
        => [done' # done => pending_output_bytes(conn) < kOutputHighWater]_vars
  <2> SUFFICES ASSUME Inv, Next, done' # done
               PROVE  pending_output_bytes(conn) < kOutputHighWater
    OBVIOUS
  <2>1. ExecFrame
    BY DEF Next, Server, Peer, Scan, Wait, Visit, serverVars, PeerSend, PeerShutdown,
        PeerRead, PeerReset, ScanExpired, ScanRunnable, ScanQuiet, WaitReady,
        WaitBroken, WaitElsewhere, RecvBytes, RecvEof, RecvInterrupted, RecvError,
        RecvStop, ProcessBegin, ProcessEnd, SendBytes, SendInterrupted, SendError,
        SendStop, FinishDrained, FinishKeep, FinishUnmodified, RetireClient
  <2>2. Settled(conn) /\ ~conn.output_paused
    BY <2>1 DEF ExecFrame, Executing, has_runnable_input, Inv, FlagSettled
  <2>3. pending_output_bytes(conn) \in Int
    BY InvFacts, PendingFacts
  <2> QED
    BY <2>2, <2>3, WatermarkAssumption DEF Settled
<1> QED
    BY <1>1, Invariance, PTL DEF Spec, NoExecutionUnderPressure

-----------------------------------------------------------------------------
(* A session implements the abstract service                               *)

(* EOF was read after everything before it; a client that is retired as
   answered has nothing left in either direction; a closed connection holds
   nothing.                                                                 *)
Ends ==
    /\ conn.read_eof => fin /\ rx = <<>>
    /\ pc = "retire" /\ Answered =>
          conn.read_eof /\ pending_input(conn) = <<>> /\ pending_output(conn) = <<>>
    /\ pc = "closed" => conn = NewConnection /\ rx = <<>>

UpdatePeer(f, y) == [f EXCEPT !["peer"] = y]

(* The functions of the service have one client.                            *)
LEMMA OneClient ==
    ASSUME NEW x, NEW y
    PROVE  OfPeer(x)["peer"] = x /\ UpdatePeer(OfPeer(x), y) = OfPeer(y)
    BY DEF OfPeer, UpdatePeer

(* The service reads a stream and answers a line as Protocol does.          *)
LEMMA SameProtocol ==
    ASSUME NEW s, NEW n, NEW data
    PROVE  /\ Service!IsNewline(s, 0, n) = IsNewline(s, 0, n)
           /\ Service!HasNewline(s, 0) = HasNewline(s, 0)
           /\ Service!Answer(s, data) = Answer(s, data)
<1>1. Service!parse_command(s) = parse_command(s)
    BY DEF Service!parse_command, parse_command, Service!Command, Command, Service!nullopt, nullopt
<1>2. ASSUME NEW c PROVE Service!execute_command(c, data) = execute_command(c, data)
    BY DEF Service!execute_command, execute_command, Service!set, set, Service!get, get,
        Service!exists, exists, Service!erase, erase, Service!erased, erased,
        Service!count, count, Service!nullopt, nullopt
<1>3. Service!Answer(s, data) = Answer(s, data)
    BY <1>1, <1>2 DEF Service!Answer, Answer
<1>4. /\ Service!IsNewline(s, 0, n) = IsNewline(s, 0, n)
      /\ Service!HasNewline(s, 0) = HasNewline(s, 0)
    BY DEF Service!IsNewline, IsNewline, Service!HasNewline, HasNewline
<1> QED
    BY <1>3, <1>4

(* A line taken, executed and answered is a step of the service.            *)
LEMMA ServiceExecutes ==
    ASSUME Status' = Status,
           NEW n \in 1..Len(Inbox), IsNewline(Inbox, 0, n),
           NEW line, line = SubSeq(Inbox, 1, n - 1),
           store' = Answer(line, store).store,
           Inbox' = SubSeq(Inbox, n + 1, Len(Inbox)),
           Outbox' = IF Status = "lost" THEN Outbox
                     ELSE Outbox \o Append(Answer(line, store).text, NL)
    PROVE  Service!Next
<1>1. /\ OfPeer(Inbox)["peer"] = Inbox /\ OfPeer(Outbox)["peer"] = Outbox
      /\ OfPeer(Status)["peer"] = Status
    BY OneClient
<1>2. Service!IsNewline(Inbox, 0, n) /\ Service!Answer(line, store) = Answer(line, store)
    BY SameProtocol
<1>3. UpdatePeer(OfPeer(Inbox), SubSeq(Inbox, n + 1, Len(Inbox))) = OfPeer(Inbox)'
    BY OneClient
<1>4. UpdatePeer(OfPeer(Outbox), Outbox \o Append(Answer(line, store).text, NL))
        = OfPeer(Outbox \o Append(Answer(line, store).text, NL))
    BY OneClient
<1>5. OfPeer(Outbox)' = IF OfPeer(Status)["peer"] = "lost" THEN OfPeer(Outbox)
                        ELSE UpdatePeer(OfPeer(Outbox), OfPeer(Outbox)["peer"] \o
                                Append(Service!Answer(line, store).text, NL))
    BY <1>1, <1>2, <1>4
<1>6. \E m \in 1..Len(OfPeer(Inbox)["peer"]) :
         /\ Service!IsNewline(OfPeer(Inbox)["peer"], 0, m)
         /\ LET answer == Service!Answer(SubSeq(OfPeer(Inbox)["peer"], 1, m - 1), store) IN
              /\ store' = answer.store
              /\ OfPeer(Inbox)' = [OfPeer(Inbox) EXCEPT !["peer"] = SubSeq(@, m + 1, Len(@))]
              /\ OfPeer(Outbox)' =
                    IF OfPeer(Status)["peer"] = "lost" THEN OfPeer(Outbox)
                    ELSE [OfPeer(Outbox) EXCEPT !["peer"] = @ \o Append(answer.text, NL)]
  <2>1. n \in 1..Len(OfPeer(Inbox)["peer"])
    BY <1>1
  <2> WITNESS n \in 1..Len(OfPeer(Inbox)["peer"])
  <2>2. OfPeer(Inbox)' = UpdatePeer(OfPeer(Inbox), SubSeq(OfPeer(Inbox)["peer"], n + 1, Len(OfPeer(Inbox)["peer"])))
    BY <1>1, <1>3
  <2>3. SubSeq(OfPeer(Inbox)["peer"], 1, n - 1) = line
    BY <1>1
  <2> QED
    BY <1>1, <1>2, <1>5, <2>2, <2>3 DEF UpdatePeer
<1>7. OfPeer(Status)' = OfPeer(Status)
    OBVIOUS
<1>8. Service!Execute("peer")
    BY <1>6, <1>7 DEF Service!Execute
<1> QED
    BY <1>8 DEF Service!Next

(* So are bytes from the peer, ...                                          *)
LEMMA ServiceSends ==
    ASSUME Status = "open", Status' = Status, NEW s \in {<<b>> : b \in Byte},
           Inbox' = Inbox \o s, Outbox' = Outbox, store' = store
    PROVE  Service!Next
<1>1. OfPeer(Inbox)["peer"] = Inbox /\ OfPeer(Status)["peer"] = "open"
    BY OneClient
<1>2. OfPeer(Inbox)' = UpdatePeer(OfPeer(Inbox), OfPeer(Inbox)["peer"] \o s)
    BY <1>1, OneClient
<1>3. \E t \in {<<b>> : b \in Byte} : OfPeer(Inbox)' = [OfPeer(Inbox) EXCEPT !["peer"] = @ \o t]
  <2> WITNESS s \in {<<b>> : b \in Byte}
  <2> QED
    BY <1>2 DEF UpdatePeer
<1>4. OfPeer(Outbox)' = OfPeer(Outbox) /\ OfPeer(Status)' = OfPeer(Status)
    OBVIOUS
<1>5. Service!Send("peer")
    BY <1>1, <1>3, <1>4 DEF Service!Send
<1> QED
    BY <1>5 DEF Service!Next

(* ... its half-close, ...                                                  *)
LEMMA ServiceHalfCloses ==
    ASSUME Status = "open", Status' = "ended",
           Inbox' = Inbox, Outbox' = Outbox, store' = store
    PROVE  Service!Next
<1>1. OfPeer(Status)["peer"] = "open"
    BY OneClient
<1>2. OfPeer(Status)' = UpdatePeer(OfPeer(Status), "ended")
    BY OneClient
<1>3. OfPeer(Outbox)' = OfPeer(Outbox) /\ OfPeer(Inbox)' = OfPeer(Inbox)
    OBVIOUS
<1>4. Service!HalfClose("peer")
    BY <1>1, <1>2, <1>3 DEF Service!HalfClose, UpdatePeer
<1> QED
    BY <1>4 DEF Service!Next

(* ... replies delivered, ...                                               *)
LEMMA ServiceDelivers ==
    ASSUME NEW n \in 1..Len(Outbox), Outbox' = SubSeq(Outbox, n + 1, Len(Outbox)),
           Inbox' = Inbox, Status' = Status, store' = store
    PROVE  Service!Next
<1>1. OfPeer(Outbox)["peer"] = Outbox
    BY OneClient
<1>2. OfPeer(Outbox)' = UpdatePeer(OfPeer(Outbox), SubSeq(OfPeer(Outbox)["peer"], n + 1, Len(OfPeer(Outbox)["peer"])))
    BY <1>1, OneClient
<1>3. \E m \in 1..Len(OfPeer(Outbox)["peer"]) :
         OfPeer(Outbox)' = [OfPeer(Outbox) EXCEPT !["peer"] = SubSeq(@, m + 1, Len(@))]
  <2>1. n \in 1..Len(OfPeer(Outbox)["peer"])
    BY <1>1
  <2> WITNESS n \in 1..Len(OfPeer(Outbox)["peer"])
  <2> QED
    BY <1>2 DEF UpdatePeer
<1>4. OfPeer(Status)' = OfPeer(Status) /\ OfPeer(Inbox)' = OfPeer(Inbox)
    OBVIOUS
<1>5. Service!Receive("peer")
    BY <1>3, <1>4 DEF Service!Receive
<1> QED
    BY <1>5 DEF Service!Next

(* ... an incomplete line dropped at the end of the stream, ...             *)
LEMMA ServiceDropsTail ==
    ASSUME Status # "open", ~HasNewline(Inbox, 0), Inbox' = <<>>,
           Outbox' = Outbox, Status' = Status, store' = store
    PROVE  Service!Next
<1>1. OfPeer(Inbox)["peer"] = Inbox /\ OfPeer(Status)["peer"] # "open"
    BY OneClient
<1>2. ~Service!HasNewline(Inbox, 0)
    BY SameProtocol
<1>3. OfPeer(Inbox)' = UpdatePeer(OfPeer(Inbox), <<>>)
    BY OneClient
<1>4. OfPeer(Outbox)' = OfPeer(Outbox) /\ OfPeer(Status)' = OfPeer(Status)
    OBVIOUS
<1>5. Service!DropTail("peer")
    BY <1>1, <1>2, <1>3, <1>4 DEF Service!DropTail, UpdatePeer
<1> QED
    BY <1>5 DEF Service!Next

(* ... and the loss of the client.                                          *)
LEMMA ServiceLoses ==
    ASSUME Status' = "lost", NEW m \in 0..Len(Inbox), NEW n \in 0..Len(Outbox),
           Inbox' = SubSeq(Inbox, 1, m), Outbox' = SubSeq(Outbox, 1, n), store' = store
    PROVE  Service!Next
<1>1. OfPeer(Inbox)["peer"] = Inbox /\ OfPeer(Outbox)["peer"] = Outbox
    BY OneClient
<1>2. Inbox' \in Service!Prefixes(Inbox) /\ Outbox' \in Service!Prefixes(Outbox)
    BY DEF Service!Prefixes
<1>3. PICK i, o : i = Inbox' /\ o = Outbox'
    OBVIOUS
<1>4. /\ OfPeer(Inbox)' = UpdatePeer(OfPeer(Inbox), i)
      /\ OfPeer(Outbox)' = UpdatePeer(OfPeer(Outbox), o)
      /\ OfPeer(Status)' = UpdatePeer(OfPeer(Status), "lost")
    BY <1>3, OneClient
<1>5. \E s \in Service!Prefixes(OfPeer(Inbox)["peer"]) :
         OfPeer(Inbox)' = [OfPeer(Inbox) EXCEPT !["peer"] = s]
  <2>1. i \in Service!Prefixes(OfPeer(Inbox)["peer"])
    BY <1>1, <1>2, <1>3
  <2> WITNESS i \in Service!Prefixes(OfPeer(Inbox)["peer"])
  <2> QED
    BY <1>4 DEF UpdatePeer
<1>6. \E s \in Service!Prefixes(OfPeer(Outbox)["peer"]) :
         OfPeer(Outbox)' = [OfPeer(Outbox) EXCEPT !["peer"] = s]
  <2>1. o \in Service!Prefixes(OfPeer(Outbox)["peer"])
    BY <1>1, <1>2, <1>3
  <2> WITNESS o \in Service!Prefixes(OfPeer(Outbox)["peer"])
  <2> QED
    BY <1>4 DEF UpdatePeer
<1>7. Service!Lose("peer")
    BY <1>4, <1>5, <1>6 DEF Service!Lose, UpdatePeer
<1> QED
    BY <1>7 DEF Service!Next

-----------------------------------------------------------------------------
(* A step that leaves what the buffers, the kernel and the store hold alone
   is not seen by the client.                                               *)
LEMMA Unseen ==
    ASSUME Ends, pc # "closed", pc' # "closed",
           pending_input(conn') = pending_input(conn),
           pending_output(conn') = pending_output(conn),
           conn'.read_eof = conn.read_eof,
           UNCHANGED <<store, rx, fin, rst, tx>>,
           pc' = "retire" => ~Answered'
    PROVE  Ends' /\ UNCHANGED <<Inbox, Outbox, Status, store>>
<1>1. Lost' = Lost
    BY DEF Lost
<1>2. UNCHANGED <<Inbox, Outbox, Status, store>>
    BY <1>1 DEF Inbox, Outbox, Status
<1>3. Ends'
    BY DEF Ends
<1> QED
    BY <1>2, <1>3

(* Only one of service_client's reasons says that everything is answered.   *)
LEMMA OtherReasons ==
    ASSUME NEW why, Fail(why), why # "read EOF and output drained"
    PROVE  pc' = "retire" /\ ~Answered'
    BY DEF Fail, Answered

(* The steps of the loop and of service_client that no client sees.         *)
LEMMA UnseenSteps ==
    ASSUME Inv, Ends,
           \/ Scan \/ Wait \/ RecvInterrupted \/ RecvError \/ RecvStop
           \/ ProcessBegin \/ ProcessEnd \/ SendInterrupted \/ SendError \/ SendStop
    PROVE  Ends' /\ UNCHANGED <<Inbox, Outbox, Status, store>>
<1>1. Sound(conn)
    BY InvFacts
<1>2. /\ pc \in {"scan", "wait", "recv", "process", "exec", "flush"}
      /\ UNCHANGED <<store, rx, fin, rst, tx>>
    BY DEF Scan, Wait, ScanExpired, ScanRunnable, ScanQuiet, WaitReady, WaitBroken,
        WaitElsewhere, RecvInterrupted, RecvError, RecvStop, ProcessBegin, ProcessEnd,
        SendInterrupted, SendError, SendStop, kernelVars
<1>3. \/ pc' \in {"scan", "wait", "recv", "process", "exec", "flush", "finish"}
      \/ \E why \in {"idle timeout", "socket error event", "full hangup", "receive error",
                     "input buffer limit", "send error"} : Fail(why)
  <2>1. CASE Scan
    BY <2>1 DEF Scan, ScanExpired, ScanRunnable, ScanQuiet
  <2>2. CASE Wait
    BY <2>2 DEF Wait, WaitReady, WaitBroken, WaitElsewhere
  <2>3. CASE RecvInterrupted \/ RecvError \/ RecvStop
    BY <2>3 DEF RecvInterrupted, RecvError, RecvStop
  <2>4. CASE ProcessBegin \/ ProcessEnd
    BY <2>4 DEF ProcessBegin, ProcessEnd
  <2>5. CASE SendInterrupted \/ SendError \/ SendStop
    BY <2>5 DEF SendInterrupted, SendError, SendStop
  <2> QED
    BY <2>1, <2>2, <2>3, <2>4, <2>5
<1>4. pc' # "closed" /\ (pc' = "retire" => ~Answered')
    BY <1>3, OtherReasons
<1>5. \/ conn' = conn \/ conn' = begin_processing(conn) \/ conn' = end_processing(conn)
      \/ conn' = end_flush(conn)
    BY DEF Scan, Wait, ScanExpired, ScanRunnable, ScanQuiet, WaitReady, WaitBroken,
        WaitElsewhere, RecvInterrupted, RecvError, RecvStop, ProcessBegin, ProcessEnd,
        SendInterrupted, SendError, SendStop
<1>6. /\ pending_input(conn') = pending_input(conn)
      /\ pending_output(conn') = pending_output(conn)
    BY <1>1, <1>5, SamePending
<1>7. conn'.read_eof = conn.read_eof
    BY <1>1, <1>5, BeginFacts, EndProcessingFacts, EndFlushFacts
<1> QED
    BY <1>2, <1>4, <1>6, <1>7, Unseen

(* A chunk moves whole from the kernel's queue to the end of the input
   buffer (server.cpp:85-101, connection.cpp:16-34).                        *)
LEMMA RecvBytesUnseen ==
    ASSUME Inv, Ends, RecvBytes
    PROVE  /\ Ends' /\ UNCHANGED <<Inbox, Outbox, Status, store>>
           /\ pc = "recv" /\ pc' = "recv" /\ reason' = reason
           /\ conn'.read_eof = conn.read_eof
<1> DEFINE received == Lesser(requested_input, Len(rx))
           bytes == SubSeq(rx, 1, received)
           a == append_input(conn, bytes)
<1>1. /\ pc = "recv" /\ Sound(conn) /\ conn.read_eof = FALSE
      /\ rx \in Seq(Byte) /\ Len(rx) \in Nat
    BY InvFacts, PendingFacts DEF RecvBytes, Reading, can_read, Inv, TypeOK
<1>2. /\ received \in Nat /\ received <= Len(rx)
      /\ received <= kMaxInputBytes - pending_input_bytes(conn)
  <2>1. /\ pending_input_bytes(conn) \in 0..kMaxInputBytes
        /\ kMaxInputBytes \in Nat /\ kReadBufferSize \in Nat
    BY <1>1, PendingFacts, AllowanceAssumption, SessionAssumption
  <2> QED
    BY <1>1, <2>1 DEF requested_input, Lesser
<1>3. /\ rx' = SubSeq(rx, received + 1, Len(rx)) /\ conn' = a
      /\ IF input_fits(conn, bytes) THEN pc' = pc /\ reason' = reason
                                    ELSE Fail("input buffer limit")
      /\ UNCHANGED <<store, fin, rst, tx>>
    BY DEF RecvBytes
<1> HIDE DEF received
<1>4. bytes \in Seq(Byte) /\ Len(bytes) = received
    BY <1>1, <1>2, PrefixFacts
<1>5. rx' \in Seq(Byte) /\ bytes \o rx' = rx
    BY <1>1, <1>2, <1>3, SuffixFacts, CutAndJoin
<1> HIDE DEF bytes
<1>6. /\ Sound(a) /\ input_fits(conn, bytes) /\ a.input_cursor = 0
      /\ a.input_buffer = pending_input(conn) \o bytes
      /\ a.output_buffer = conn.output_buffer /\ a.output_cursor = conn.output_cursor
      /\ a.read_eof = conn.read_eof
    BY <1>1, <1>2, <1>4, AppendFacts
<1>7. pc' = "recv" /\ reason' = reason
    BY <1>1, <1>3, <1>6
<1> HIDE DEF a
<1>8. PICK i, q : i = pending_input(conn) /\ q = rx'
    OBVIOUS
<1>9. i \in Seq(Byte) /\ q \in Seq(Byte)
    BY <1>1, <1>5, <1>8, PendingBytes
<1>10. i \o bytes \in Seq(Byte)
    BY <1>4, <1>9, ConcatProperties
<1>11. pending_input(a) = i \o bytes
  <2>1. PICK ib : ib = i \o bytes
    OBVIOUS
  <2>2. ib \in Seq(Byte) /\ a.input_buffer = ib
    BY <2>1, <1>6, <1>8, <1>10
  <2>3. SubSeq(ib, 0 + 1, Len(ib)) = ib
    BY <2>2, SubSeqFull
  <2> QED
    BY <2>1, <2>2, <2>3, <1>6 DEF pending_input
<1>12. (i \o bytes) \o q = i \o (bytes \o q)
    BY <1>4, <1>9, ConcatAssociative
<1>13. Inbox' = Inbox
    BY <1>1, <1>3, <1>5, <1>7, <1>8, <1>11, <1>12 DEF Inbox
<1>14. Lost' = Lost
    BY <1>1, <1>3, <1>7 DEF Lost
<1>15. pending_output(a) = pending_output(conn)
    BY <1>6 DEF pending_output
<1>16. Outbox' = Outbox /\ Status' = Status
    BY <1>3, <1>14, <1>15 DEF Outbox, Status
<1>17. Ends'
    BY <1>1, <1>3, <1>6, <1>7 DEF Ends
<1>18. conn'.read_eof = conn.read_eof
    BY <1>3, <1>6
<1> QED
    BY <1>1, <1>3, <1>7, <1>13, <1>16, <1>17, <1>18

(* recv returns 0 only after the FIN, with nothing left to read
   (server.cpp:102-106).                                                    *)
LEMMA RecvEofUnseen ==
    ASSUME Inv, Ends, RecvEof
    PROVE  Ends' /\ UNCHANGED <<Inbox, Outbox, Status, store>>
<1>1. /\ pc = "recv" /\ pc' = "process" /\ rx = <<>> /\ fin
      /\ conn' = [conn EXCEPT !.read_eof = TRUE]
      /\ UNCHANGED <<store, rx, fin, rst, tx>>
    BY DEF RecvEof, kernelVars
<1>2. /\ conn'.input_buffer = conn.input_buffer /\ conn'.input_cursor = conn.input_cursor
      /\ conn'.output_buffer = conn.output_buffer /\ conn'.output_cursor = conn.output_cursor
    BY <1>1 DEF Inv, TypeOK, ConnectionType
<1>3. /\ pending_input(conn') = pending_input(conn)
      /\ pending_output(conn') = pending_output(conn)
    BY <1>2 DEF pending_input, pending_output
<1>4. Lost' = Lost
    BY <1>1 DEF Lost
<1>5. UNCHANGED <<Inbox, Outbox, Status, store>>
    BY <1>1, <1>3, <1>4 DEF Inbox, Outbox, Status
<1>6. Ends'
    BY <1>1 DEF Ends
<1> QED
    BY <1>5, <1>6

(* Bytes that send accepts move from the reply queue to the kernel
   (connection.cpp:94-136).                                                 *)
LEMMA SendBytesUnseen ==
    ASSUME Inv, Ends, SendBytes
    PROVE  /\ Ends' /\ UNCHANGED <<Inbox, Outbox, Status, store>>
           /\ conn'.read_eof = conn.read_eof
<1>1. /\ pc = "flush" /\ Sound(conn) /\ tx \in Seq(Byte) /\ Len(tx) \in Nat /\ rst = FALSE
      /\ UNCHANGED <<store, pc, rx, fin, rst>>
    BY InvFacts DEF SendBytes, Inv, TypeOK
<1>2. PICK n \in 1..Lesser(requested_output, SendQueue - Len(tx)) :
          /\ tx' = tx \o SubSeq(pending_output(conn), 1, n)
          /\ conn' = advance_output(conn, n)
    BY DEF SendBytes
<1>3. n \in Nat /\ n <= pending_output_bytes(conn)
  <2>1. /\ pending_output_bytes(conn) \in Nat /\ kWriteChunkBytes \in Nat
        /\ SendQueue \in Nat
    BY <1>1, PendingFacts, SessionAssumption, WatermarkAssumption
  <2> QED
    BY <1>1, <1>2, <2>1 DEF requested_output, Lesser
<1>4. PICK p, a : p = pending_output(conn) /\ a = advance_output(conn, n)
    OBVIOUS
<1>5. p \in Seq(Byte) /\ n <= Len(p)
    BY <1>1, <1>3, <1>4, PendingBytes
<1>6. /\ Sound(a) /\ a.input_buffer = conn.input_buffer /\ a.input_cursor = conn.input_cursor
      /\ a.output_buffer = conn.output_buffer /\ a.output_cursor = conn.output_cursor + n
      /\ a.read_eof = conn.read_eof
    BY <1>1, <1>3, <1>4, AdvanceFacts
<1>7. pending_input(a) = pending_input(conn)
    BY <1>6 DEF pending_input
<1>8. pending_output(a) = SubSeq(p, n + 1, Len(p))
  <2>1. PICK s, k : s = conn.output_buffer /\ k = conn.output_cursor
    OBVIOUS
  <2>2. s \in Seq(Byte) /\ k \in Nat /\ Len(s) \in Nat /\ k + n <= Len(s) /\ k <= Len(s)
    BY <1>1, <1>3, <2>1, PendingFacts
    DEF Sound, WithinBounds, pending_output_bytes
  <2>3. p = SubSeq(s, k + 1, Len(s))
    BY <1>4, <2>1 DEF pending_output
  <2>4. pending_output(a) = SubSeq(s, (k + n) + 1, Len(s))
    BY <1>6, <2>1 DEF pending_output
  <2> QED
    BY <1>3, <2>2, <2>3, <2>4, SuffixOfSuffix
<1>9. (tx \o SubSeq(p, 1, n)) \o SubSeq(p, n + 1, Len(p)) = tx \o p
    BY <1>1, <1>3, <1>5, BytesMove
<1>10. Lost = FALSE /\ Lost' = FALSE
    BY <1>1 DEF Lost
<1>11. Outbox' = Outbox
    BY <1>2, <1>4, <1>8, <1>9, <1>10 DEF Outbox
<1>12. Inbox' = Inbox /\ Status' = Status
    BY <1>1, <1>2, <1>4, <1>7, <1>10 DEF Inbox, Status
<1>13. Ends'
    BY <1>1, <1>2, <1>4, <1>6 DEF Ends
<1> QED
    BY <1>1, <1>2, <1>4, <1>6, <1>11, <1>12, <1>13

(* The first line of the client's stream is executed on the store, and its
   reply follows the replies before it.                                     *)
ExecutesLine(m, line) ==
    /\ FirstLine(Inbox, m, line, Inbox')
    /\ Answer(line, store).text \in Text
    /\ store' = Answer(line, store).store
    /\ Outbox' = IF Status = "lost" THEN Outbox
                 ELSE Outbox \o Append(Answer(line, store).text, NL)

(* That is what process_input does with a frame (connection.cpp:48-82).     *)
LEMMA ExecFrameMoves ==
    ASSUME Inv, Ends, ExecFrame
    PROVE  /\ Ends' /\ Status' = Status
           /\ pc = "exec" /\ pc' = "exec" /\ reason' = reason
           /\ \E m, line : ExecutesLine(m, line)
<1>1. /\ pc = "exec" /\ ~conn.output_paused /\ has_complete_frame(conn)
      /\ conn.output_cursor = 0 /\ conn.read_eof = FALSE
      /\ Sound(conn) /\ Settled(conn) /\ rx \in Seq(Byte) /\ tx \in Seq(Byte)
      /\ UNCHANGED <<rx, fin, rst, tx>>
    BY InvFacts, PendingFacts DEF ExecFrame, Executing, has_runnable_input, Inv, Reclaimed,
        EofAfterLastFrame, FlagSettled, TypeOK, kernelVars
<1>2. PICK newline \in 1..Len(conn.input_buffer) :
          /\ IsNewline(conn.input_buffer, conn.input_cursor, newline)
          /\ LET answer == Answer(frame_at(conn, newline), store)
                 response == response_of(answer.text)
                 rest == consume_frame(conn, newline)
             IN  /\ store' = answer.store
                 /\ IF output_fits(rest, response)
                    THEN /\ conn' = queue_response(rest, response)
                         /\ pc' = pc /\ reason' = reason
                    ELSE /\ conn' = rest
                         /\ Fail("response buffer limit")
    BY DEF ExecFrame
<1>3. newline \in Nat /\ IsNewline(conn.input_buffer, conn.input_cursor, newline)
  <2>1. newline \in Nat
    BY <1>1, PendingFacts
  <2> QED
    BY <1>2, <2>1
<1>4. PICK line : line = frame_at(conn, newline)
    OBVIOUS
<1>5. line \in Text /\ Len(line) < kMaxInputBytes
    BY <1>1, <1>3, <1>4, FrameFacts
<1>6. PICK text : text = Answer(line, store).text
    OBVIOUS
<1>7. text \in Text /\ Len(text) < kMaxResponseBytes
    BY <1>5, <1>6, AnswerBound DEF Inv
<1>8. PICK q : q = queue_response(consume_frame(conn, newline), response_of(text))
    OBVIOUS
<1>9. output_fits(consume_frame(conn, newline), response_of(text))
    BY <1>1, <1>3, <1>7, ExecuteFacts
<1>10. /\ store' = Answer(line, store).store
       /\ conn' = q /\ pc' = "exec" /\ reason' = reason
    BY <1>1, <1>2, <1>4, <1>6, <1>8, <1>9
<1>11. PICK rest : rest = SubSeq(conn.input_buffer, newline + 1, Len(conn.input_buffer))
    OBVIOUS
<1>12. /\ pending_input(q) = rest /\ q.read_eof = conn.read_eof
       /\ pending_output(q) = pending_output(conn) \o Append(text, NL)
  <2>1. PICK c : c = conn
    OBVIOUS
  <2>2. Executes(c, newline, text, q)
    BY <1>1, <1>3, <1>7, <1>8, <2>1 DEF Executes
  <2>3. /\ pending_input(q) = SubSeq(c.input_buffer, newline + 1, Len(c.input_buffer))
        /\ pending_output(q) = pending_output(c) \o Append(text, NL)
        /\ q.read_eof = c.read_eof
    BY <2>2, ExecuteMoves
  <2> QED
    BY <1>11, <2>1, <2>3
<1>13. Inbox = pending_input(conn) \o rx /\ Inbox' = rest \o rx
    BY <1>1, <1>10, <1>12 DEF Inbox
<1>14. PICK m : FirstLine(Inbox, m, line, Inbox')
  <2>1. PICK all, rxNow : all = pending_input(conn) \o rx /\ rxNow = rx
    OBVIOUS
  <2>2. rxNow \in Seq(Byte) /\ all = pending_input(conn) \o rxNow
    BY <1>1, <2>1
  <2>3. \E m : FirstLine(all, m, frame_at(conn, newline), rest \o rxNow)
    BY <1>1, <1>3, <1>11, <2>2, FrameIsLine
  <2> QED
    BY <1>4, <1>13, <2>1, <2>3
<1>15. PICK o, r : o = pending_output(conn) /\ r = Append(text, NL)
    OBVIOUS
<1>16. o \in Seq(Byte) /\ r \in Seq(Byte)
    BY <1>1, <1>7, <1>15, PendingBytes, TextFacts
<1>17. (tx \o o) \o r = tx \o (o \o r)
    BY <1>1, <1>16, ConcatAssociative
<1>18. Lost' = Lost /\ Lost = rst
    BY <1>1, <1>10 DEF Lost, Inv, TypeOK
<1>19. Status' = Status
    BY <1>1, <1>18 DEF Status
<1>20. Outbox' = IF Status = "lost" THEN Outbox ELSE Outbox \o r
    BY <1>1, <1>10, <1>12, <1>15, <1>17, <1>18 DEF Outbox, Status
<1>21. Ends'
    BY <1>1, <1>10, <1>12 DEF Ends
<1>22. ExecutesLine(m, line)
    BY <1>6, <1>7, <1>10, <1>14, <1>15, <1>20 DEF ExecutesLine
<1> QED
    BY <1>1, <1>10, <1>19, <1>21, <1>22

(* So a frame is a line of the service.                                     *)
LEMMA ExecFrameSeen ==
    ASSUME Inv, Ends, ExecFrame
    PROVE  Ends' /\ Service!Next
<1>1. PICK m, line : ExecutesLine(m, line)
    BY ExecFrameMoves
<1>2. /\ m \in 1..Len(Inbox) /\ IsNewline(Inbox, 0, m) /\ line = SubSeq(Inbox, 1, m - 1)
      /\ Inbox' = SubSeq(Inbox, m + 1, Len(Inbox))
    BY <1>1 DEF ExecutesLine, FirstLine
<1>3. /\ store' = Answer(line, store).store
      /\ Outbox' = IF Status = "lost" THEN Outbox
                   ELSE Outbox \o Append(Answer(line, store).text, NL)
    BY <1>1 DEF ExecutesLine
<1>4. Service!Next
    BY <1>2, <1>3, ExecFrameMoves, ServiceExecutes
<1> QED
    BY <1>4, ExecFrameMoves

(* The end of a visit: the tail of an ended stream is dropped, or nothing
   moves (server.cpp:142-159).                                              *)
LEMMA FinishMoves ==
    ASSUME Inv, Ends, FinishDrained \/ FinishKeep \/ FinishUnmodified
    PROVE  /\ Ends' /\ UNCHANGED <<Outbox, Status, store>>
           /\ pc = "finish" /\ pc' # "closed" /\ conn'.read_eof = conn.read_eof
           /\ \/ Inbox' = Inbox
              \/ /\ conn.read_eof /\ Status # "open"
                 /\ ~HasNewline(Inbox, 0) /\ Inbox' = <<>>
<1>1. /\ pc = "finish" /\ Sound(conn) /\ rx \in Seq(Byte) /\ conn' = settle(conn)
      /\ UNCHANGED <<store, rx, fin, rst, tx>>
    BY InvFacts DEF FinishDrained, FinishKeep, FinishUnmodified, Inv, TypeOK, kernelVars
<1>2. PICK d : d = conn'
    OBVIOUS
<1>3. /\ pending_output(d) = pending_output(conn) /\ d.read_eof = conn.read_eof
      /\ AtEnd(d) => pending_input(d) = <<>>
      /\ \/ pending_input(d) = pending_input(conn)
         \/ AtEnd(conn) /\ pending_input(d) = <<>>
    BY <1>1, <1>2, SettleKeeps
<1>4. Sound(d)
    BY <1>1, <1>2, SettleKeeps
<1>5. /\ pc' # "closed"
      /\ pc' = "retire" /\ Answered' =>
            d.read_eof /\ pending_input(d) = <<>> /\ pending_output(d) = <<>>
  <2>1. CASE FinishDrained
    <3>1. AtEnd(d) /\ pending_output_bytes(d) = 0 /\ pc' = "retire"
      BY <1>2, <2>1 DEF FinishDrained, has_pending_output, Fail
    <3>2. pending_output(d) = <<>>
      BY <1>4, <3>1, PendingBytes
    <3> QED
      BY <1>3, <3>1, <3>2 DEF AtEnd
  <2>2. CASE FinishKeep
    BY <2>2 DEF FinishKeep, Inv, TypeOK
  <2>3. CASE FinishUnmodified
    <3>1. Fail("interest update failed")
      BY <2>3 DEF FinishUnmodified
    <3>2. pc' = "retire" /\ ~Answered'
      BY <3>1, OtherReasons
    <3> QED
      BY <3>2
  <2> QED
    BY <2>1, <2>2, <2>3
<1>6. Ends'
    BY <1>1, <1>2, <1>3, <1>5 DEF Ends
<1>7. Lost = rst /\ Lost' = rst
    BY <1>1, <1>5 DEF Lost, Inv, TypeOK
<1>8. Outbox' = Outbox /\ Status' = Status /\ store' = store
    BY <1>1, <1>2, <1>3, <1>7 DEF Outbox, Status
<1>9. Inbox = pending_input(conn) \o rx /\ Inbox' = pending_input(d) \o rx
    BY <1>1, <1>2, <1>5 DEF Inbox
<1>10. CASE pending_input(d) = pending_input(conn)
    BY <1>1, <1>2, <1>3, <1>5, <1>6, <1>8, <1>9, <1>10
<1>11. CASE AtEnd(conn) /\ pending_input(d) = <<>>
  <2>1. rx = <<>> /\ fin = TRUE
    BY <1>11 DEF Ends, AtEnd, Inv, TypeOK
  <2>2. pending_input(conn) \in Seq(Byte) /\ ~HasNewline(pending_input(conn), 0)
    BY <1>1, <1>11, PendingBytes DEF AtEnd
  <2>3. Inbox = pending_input(conn) /\ Inbox' = <<>>
    BY <1>9, <1>11, <2>1, <2>2, ConcatEmptySeq, EmptySeq
  <2>4. Status # "open"
    BY <2>1 DEF Status
  <2> QED
    BY <1>1, <1>2, <1>3, <1>5, <1>6, <1>8, <1>11, <2>2, <2>3, <2>4 DEF AtEnd
<1> QED
    BY <1>3, <1>10, <1>11

(* The service drops such a tail, or sees nothing.                          *)
LEMMA FinishSeen ==
    ASSUME Inv, Ends, FinishDrained \/ FinishKeep \/ FinishUnmodified
    PROVE  Ends' /\ (Service!Next \/ UNCHANGED <<Inbox, Outbox, Status, store>>)
<1>1. /\ Ends' /\ UNCHANGED <<Outbox, Status, store>>
      /\ \/ Inbox' = Inbox
         \/ Status # "open" /\ ~HasNewline(Inbox, 0) /\ Inbox' = <<>>
    BY FinishMoves
<1> QED
    BY <1>1, ServiceDropsTail

(* What the two queues of a running session hold.                           *)
LEMMA QueuesHold ==
    ASSUME Inv
    PROVE  /\ rx \in Seq(Byte) /\ tx \in Seq(Byte) /\ fin \in BOOLEAN /\ rst \in BOOLEAN
           /\ pending_input(conn) \in Seq(Byte) /\ pending_output(conn) \in Seq(Byte)
           /\ Inbox \in Seq(Byte) /\ Outbox \in Seq(Byte)
<1>1. /\ rx \in Seq(Byte) /\ tx \in Seq(Byte) /\ fin \in BOOLEAN /\ rst \in BOOLEAN
    BY DEF Inv, TypeOK
<1>2. pending_input(conn) \in Seq(Byte) /\ pending_output(conn) \in Seq(Byte)
    BY InvFacts, PendingBytes
<1>3. pending_input(conn) \o rx \in Seq(Byte) /\ tx \o pending_output(conn) \in Seq(Byte)
    BY <1>1, <1>2, ConcatProperties
<1>4. Inbox \in Seq(Byte)
    BY <1>3, EmptySeq DEF Inbox
<1>5. Outbox \in Seq(Byte)
    BY <1>1, <1>3 DEF Outbox
<1> QED
    BY <1>1, <1>2, <1>4, <1>5

(* A connection that retire_client destroys has been answered, or is lost
   to its client (server.cpp:162-180).                                      *)
LEMMA RetireMoves ==
    ASSUME Inv, Ends, RetireClient
    PROVE  /\ Ends' /\ store' = store /\ Answered' = Answered /\ Inbox' = <<>>
           /\ pc = "retire" /\ pc' = "closed"
           /\ \/ /\ Answered /\ Inbox = <<>> /\ UNCHANGED <<Outbox, Status>>
              \/ /\ Status' = "lost"
                 /\ \E n \in 0..Len(Outbox) : Outbox' = SubSeq(Outbox, 1, n)
<1>1. /\ pc = "retire" /\ pc' = "closed" /\ conn' = NewConnection /\ rx' = <<>>
      /\ UNCHANGED <<store, reason, fin, rst>>
      /\ Sound(conn) /\ rx \in Seq(Byte) /\ tx \in Seq(Byte) /\ rst \in BOOLEAN
    BY InvFacts DEF RetireClient, Inv, TypeOK
<1>2. PICK n \in (IF rx = <<>> THEN {Len(tx)} ELSE 0..Len(tx)) : tx' = SubSeq(tx, 1, n)
    BY DEF RetireClient
<1>3. Len(tx) \in Nat /\ n \in 0..Len(tx)
    BY <1>1, <1>2, LenProperties
<1>4. Ends'
    BY <1>1 DEF Ends, NewConnection
<1>5. Answered' = Answered /\ Inbox' = <<>>
    BY <1>1 DEF Answered, Inbox
<1>6. PICK i, o : i = pending_input(conn) /\ o = pending_output(conn)
    OBVIOUS
<1>7. i \in Seq(Byte) /\ o \in Seq(Byte)
    BY <1>1, <1>6, PendingBytes
<1>8. CASE Answered /\ rst = FALSE
  <2>1. i = <<>> /\ o = <<>> /\ rx = <<>>
    BY <1>1, <1>6, <1>8 DEF Ends
  <2>2. n = Len(tx)
    BY <1>2, <2>1
  <2>3. tx' = tx
    BY <1>1, <1>2, <2>2, SubSeqFull
  <2>4. Lost = FALSE /\ Lost' = FALSE
    BY <1>1, <1>5, <1>8 DEF Lost
  <2>5. pending_output(NewConnection) = <<>>
    BY NewConnectionSound, PendingBytes DEF has_pending_output
  <2>6. Outbox' = Outbox
    BY <1>1, <1>6, <2>1, <2>3, <2>4, <2>5 DEF Outbox
  <2>7. Inbox = <<>>
    BY <1>1, <1>6, <2>1, ConcatEmptySeq, EmptySeq DEF Inbox
  <2> QED
    BY <1>1, <1>4, <1>5, <1>8, <2>4, <2>6, <2>7 DEF Status
<1>9. CASE ~Answered \/ rst = TRUE
  <2>1. Lost' = TRUE
    BY <1>1, <1>5, <1>9 DEF Lost
  <2>2. Status' = "lost" /\ Outbox' = SubSeq(tx, 1, n)
    BY <1>2, <2>1 DEF Status, Outbox
  <2>3. Outbox = tx \/ Outbox = tx \o o
    BY <1>6 DEF Outbox
  <2>4. /\ n \in 0..Len(Outbox) /\ SubSeq(Outbox, 1, n) = SubSeq(tx, 1, n)
    <3>1. /\ n \in 0..Len(tx \o o) /\ SubSeq(tx \o o, 1, n) = SubSeq(tx, 1, n)
      <4>1. Len(tx \o o) = Len(tx) + Len(o) /\ Len(o) \in Nat
        BY <1>1, <1>7, ConcatProperties, LenProperties
      <4>2. n \in 0..Len(tx \o o)
        BY <1>3, <4>1
      <4> QED
        BY <1>1, <1>3, <1>7, <4>2, PrefixOfConcat
    <3> QED
      BY <1>3, <2>3, <3>1
  <2> QED
    BY <1>1, <1>4, <1>5, <2>2, <2>4
<1> QED
    BY <1>1, <1>8, <1>9

(* To the service such a client is at rest, or lost.                        *)
LEMMA RetireSeen ==
    ASSUME Inv, Ends, RetireClient
    PROVE  Ends' /\ (Service!Next \/ UNCHANGED <<Inbox, Outbox, Status, store>>)
<1>1. Inbox \in Seq(Byte)
    BY QueuesHold
<1>2. 0 \in 0..Len(Inbox) /\ SubSeq(Inbox, 1, 0) = <<>>
    BY <1>1, LenProperties, SubSeqEmpty
<1>3. /\ Ends' /\ store' = store /\ Inbox' = <<>>
      /\ \/ Inbox = <<>> /\ UNCHANGED <<Outbox, Status>>
         \/ /\ Status' = "lost"
            /\ \E n \in 0..Len(Outbox) : Outbox' = SubSeq(Outbox, 1, n)
    BY RetireMoves
<1> QED
    BY <1>2, <1>3, ServiceLoses

(* What the four steps of the peer do to the two queues.                    *)
LEMMA PeerMoves ==
    ASSUME Inv, Ends, Peer
    PROVE  /\ Ends' /\ store' = store
           /\ \/ /\ PeerSend /\ Status = "open" /\ Status' = Status
                 /\ stream[sent + 1] \in Byte
                 /\ Inbox' = Inbox \o <<stream[sent + 1]>> /\ Outbox' = Outbox
              \/ /\ PeerShutdown /\ Status = "open" /\ Status' = "ended"
                 /\ UNCHANGED <<Inbox, Outbox>>
              \/ /\ PeerRead /\ UNCHANGED <<Inbox, Status>>
                 /\ 1 \in 1..Len(Outbox) /\ Outbox' = SubSeq(Outbox, 1 + 1, Len(Outbox))
              \/ PeerReset /\ Status' = "lost" /\ Inbox' = Inbox /\ Outbox' = <<>>
<1>1. /\ rx \in Seq(Byte) /\ tx \in Seq(Byte) /\ fin \in BOOLEAN /\ rst \in BOOLEAN
      /\ pending_input(conn) \in Seq(Byte) /\ pending_output(conn) \in Seq(Byte)
      /\ Inbox \in Seq(Byte) /\ Outbox \in Seq(Byte)
    BY QueuesHold
<1>2. UNCHANGED <<conn, store, pc, reason>>
    BY DEF Peer, PeerSend, PeerShutdown, PeerRead, PeerReset, serverVars
<1>3. Answered' = Answered
    BY <1>2 DEF Answered
<1>4. PICK i, o : i = pending_input(conn) /\ o = pending_output(conn)
    OBVIOUS
<1>5. pending_input(conn') = i /\ pending_output(conn') = o
    BY <1>2, <1>4
<1>6. CASE PeerSend
  <2>1. /\ pc # "closed" /\ fin = FALSE /\ rst = FALSE
        /\ UNCHANGED <<fin, rst, tx>>
    BY <1>1, <1>6 DEF PeerSend
  <2>2. PICK b : b = stream[sent + 1]
    OBVIOUS
  <2>3. b \in Byte
    <3>1. stream \in Seq(Byte) /\ sent \in Nat /\ sent < Len(stream)
      BY <1>6, InvFacts DEF PeerSend, Inv, TypeOK
    <3>2. Len(stream) \in Nat
      BY <3>1, LenProperties
    <3> QED
      BY <2>2, <3>1, <3>2, ElementOfSeq
  <2>4. rx' = rx \o <<b>> /\ <<b>> \in Seq(Byte)
    <3>1. rx' = Append(rx, b)
      BY <1>6, <2>2 DEF PeerSend
    <3> QED
      BY <1>1, <2>3, <3>1, AppendIsConcat
  <2>5. (i \o rx) \o <<b>> = i \o (rx \o <<b>>)
    <3>1. PICK t : t = <<b>>
      OBVIOUS
    <3>2. t \in Seq(Byte) /\ i \in Seq(Byte) /\ rx \in Seq(Byte)
      BY <1>1, <1>4, <2>4, <3>1
    <3>3. (i \o rx) \o t = i \o (rx \o t)
      BY <3>2, ConcatAssociative
    <3> QED
      BY <3>1, <3>3
  <2>6. Inbox' = Inbox \o <<b>>
    BY <1>2, <1>4, <1>5, <2>1, <2>4, <2>5 DEF Inbox
  <2>7. Lost = FALSE /\ Lost' = FALSE
    BY <1>2, <2>1 DEF Lost
  <2>8. Status = "open" /\ Status' = Status /\ Outbox' = Outbox
    BY <1>4, <1>5, <2>1, <2>7 DEF Status, Outbox
  <2>9. Ends'
    BY <1>2, <1>3, <1>4, <1>5, <2>1 DEF Ends
  <2> QED
    BY <1>2, <1>6, <2>2, <2>3, <2>6, <2>8, <2>9
<1>7. CASE PeerShutdown
  <2>1. /\ pc # "closed" /\ fin = FALSE /\ rst = FALSE /\ fin' = TRUE
        /\ UNCHANGED <<rx, rst, tx>>
    BY <1>1, <1>7 DEF PeerShutdown
  <2>2. Lost = FALSE /\ Lost' = FALSE
    BY <1>2, <2>1 DEF Lost
  <2>3. Status = "open" /\ Status' = "ended"
    BY <2>1, <2>2 DEF Status
  <2>4. Outbox' = Outbox /\ Inbox' = Inbox
    BY <1>2, <1>4, <1>5, <2>1, <2>2 DEF Outbox, Inbox
  <2>5. Ends'
    BY <1>2, <1>3, <1>4, <1>5, <2>1 DEF Ends
  <2> QED
    BY <1>2, <1>7, <2>3, <2>4, <2>5
<1>8. CASE PeerRead
  <2>1. tx # <<>> /\ tx' = Tail(tx) /\ UNCHANGED <<rx, fin, rst>>
    BY <1>8 DEF PeerRead
  <2>2. Len(tx) \in Nat /\ 1 <= Len(tx)
    BY <1>1, <2>1, LenProperties, EmptySeq
  <2>3. Tail(tx) = SubSeq(tx, 1 + 1, Len(tx))
    BY <1>1, <2>1, TailIsSubSeq
  <2>4. Len(tx \o o) = Len(tx) + Len(o) /\ Len(o) \in Nat
    BY <1>1, <1>4, ConcatProperties, LenProperties
  <2>5. SubSeq(tx \o o, 1 + 1, Len(tx \o o)) = SubSeq(tx, 1 + 1, Len(tx)) \o o
    BY <1>1, <1>4, <2>2, SuffixOfConcat
  <2>6. Lost' = Lost /\ Status' = Status
    BY <1>2, <1>3, <2>1 DEF Lost, Status
  <2>7. Inbox' = Inbox
    BY <1>2, <1>4, <1>5, <2>1 DEF Inbox
  <2>8. Outbox' = SubSeq(Outbox, 1 + 1, Len(Outbox)) /\ 1 \in 1..Len(Outbox)
    <3>1. CASE Lost
      BY <2>1, <2>2, <2>3, <2>6, <3>1 DEF Outbox
    <3>2. CASE ~Lost
      <4>1. Outbox = tx \o o /\ Outbox' = tx' \o o
        BY <1>4, <1>5, <2>6, <3>2 DEF Outbox
      <4>2. Outbox' = SubSeq(Outbox, 1 + 1, Len(Outbox))
        BY <4>1, <2>1, <2>3, <2>5
      <4>3. 1 \in 1..Len(Outbox)
        BY <4>1, <2>2, <2>4
      <4> QED
        BY <4>2, <4>3
    <3> QED
      BY <3>1, <3>2
  <2>9. Ends'
    BY <1>2, <1>3, <1>4, <1>5, <2>1 DEF Ends
  <2> QED
    BY <1>2, <1>8, <2>6, <2>7, <2>8, <2>9
<1>9. CASE PeerReset
  <2>1. pc # "closed" /\ rst' = TRUE /\ tx' = <<>> /\ UNCHANGED <<rx, fin>>
    BY <1>9 DEF PeerReset
  <2>2. Lost' = TRUE
    BY <2>1 DEF Lost
  <2>3. Status' = "lost" /\ Outbox' = <<>> /\ Inbox' = Inbox
    BY <1>2, <1>4, <1>5, <2>1, <2>2 DEF Status, Outbox, Inbox
  <2>4. Ends'
    BY <1>2, <1>3, <1>4, <1>5, <2>1 DEF Ends
  <2> QED
    BY <1>2, <1>9, <2>3, <2>4
<1> QED
    BY <1>6, <1>7, <1>8, <1>9 DEF Peer

(* They are steps of the service's client.                                  *)
LEMMA PeerSeen ==
    ASSUME Inv, Ends, Peer
    PROVE  Ends' /\ Service!Next
<1>1. Inbox \in Seq(Byte) /\ Outbox \in Seq(Byte)
    BY QueuesHold
<1>2. Ends' /\ store' = store
    BY PeerMoves
<1>3. CASE Status = "open" /\ Status' = Status /\ stream[sent + 1] \in Byte
           /\ Inbox' = Inbox \o <<stream[sent + 1]>> /\ Outbox' = Outbox
  <2>1. PICK c \in {<<x>> : x \in Byte} : c = <<stream[sent + 1]>>
    BY <1>3
  <2> QED
    BY <1>2, <1>3, <2>1, ServiceSends
<1>4. CASE Status = "open" /\ Status' = "ended" /\ UNCHANGED <<Inbox, Outbox>>
    BY <1>2, <1>4, ServiceHalfCloses
<1>5. CASE /\ UNCHANGED <<Inbox, Status>>
           /\ 1 \in 1..Len(Outbox) /\ Outbox' = SubSeq(Outbox, 1 + 1, Len(Outbox))
    BY <1>2, <1>5, ServiceDelivers
<1>6. CASE Status' = "lost" /\ Inbox' = Inbox /\ Outbox' = <<>>
  <2>1. Len(Inbox) \in 0..Len(Inbox) /\ 0 \in 0..Len(Outbox)
    BY <1>1, LenProperties
  <2>2. SubSeq(Inbox, 1, Len(Inbox)) = Inbox /\ SubSeq(Outbox, 1, 0) = <<>>
    BY <1>1, SubSeqFull, SubSeqEmpty
  <2> QED
    BY <1>2, <1>6, <2>1, <2>2, ServiceLoses
<1> QED
    BY <1>3, <1>4, <1>5, <1>6, PeerMoves

(* Every step of the server's thread and of the peer is a step of the
   service, or leaves what the service sees as it was.                      *)
LEMMA StepSeen ==
    ASSUME Inv, Ends, [Next]_vars
    PROVE  Ends' /\ (Service!Next \/ UNCHANGED <<Inbox, Outbox, Status, store>>)
<1>1. CASE \/ Scan \/ Wait \/ RecvInterrupted \/ RecvError \/ RecvStop
           \/ ProcessBegin \/ ProcessEnd \/ SendInterrupted \/ SendError \/ SendStop
    BY <1>1, UnseenSteps
<1>2. CASE RecvBytes
    BY <1>2, RecvBytesUnseen
<1>3. CASE RecvEof
    BY <1>3, RecvEofUnseen
<1>4. CASE SendBytes
    BY <1>4, SendBytesUnseen
<1>5. CASE ExecFrame
    BY <1>5, ExecFrameSeen
<1>6. CASE FinishDrained \/ FinishKeep \/ FinishUnmodified
    BY <1>6, FinishSeen
<1>7. CASE RetireClient
    BY <1>7, RetireSeen
<1>8. CASE Peer
    BY <1>8, PeerSeen
<1>9. CASE UNCHANGED vars
  <2>1. UNCHANGED <<conn, store, pc, reason, rx, fin, rst, tx>>
    BY <1>9 DEF vars, serverVars, kernelVars
  <2>2. Answered' = Answered
    BY <2>1 DEF Answered
  <2>3. Ends'
    BY <2>1, <2>2 DEF Ends
  <2>4. Lost' = Lost
    BY <2>1, <2>2 DEF Lost
  <2>5. UNCHANGED <<Inbox, Outbox, Status, store>>
    BY <2>1, <2>4 DEF Inbox, Outbox, Status
  <2> QED
    BY <2>3, <2>5
<1> QED
    BY <1>1, <1>2, <1>3, <1>4, <1>5, <1>6, <1>7, <1>8, <1>9 DEF Next, Server, Visit

(* EOF is read only behind the peer's last byte; a session retired as
   drained has answered everything, and a closed one holds nothing.         *)
THEOREM EndsInvariance == Spec => []Ends
<1>1. Init => Ends
  <2> SUFFICES ASSUME Init PROVE Ends
    OBVIOUS
  <2>1. conn.read_eof = FALSE
    BY DEF Init, NewConnection
  <2>2. pc = "scan"
    BY DEF Init
  <2> QED
    BY <2>1, <2>2 DEF Ends
<1>2. Inv /\ Ends /\ [Next]_vars => Ends'
    BY StepSeen
<1> QED
    BY Invariance, <1>1, <1>2, PTL DEF Spec

(* For all budgets, watermarks, buffer sizes and streams, a session
   implements the abstract service: whatever the interleaving of visits,
   short reads and sends, pauses, half-closes and resets, each line is
   executed once, in order, on the store, and its whole reply follows the
   reply before it; a half-close loses nothing, and a session that is given
   up loses the ends of its streams only (server.cpp:57-180,
   connection.cpp:16-136).                                                  *)
THEOREM SessionRefines == Spec => ImplementsService
<1>1. Init => Service!Init
  <2> SUFFICES ASSUME Init PROVE Service!Init
    OBVIOUS
  <2>1. <<>> \o <<>> = <<>>
    BY EmptySeq, ConcatEmptySeq
  <2>2. pending_input(conn) = <<>> /\ pending_output(conn) = <<>>
    <3>1. /\ Sound(NewConnection) /\ pending_output_bytes(NewConnection) = 0
      BY NewConnectionSound DEF has_pending_output
    <3>2. pending_input_bytes(NewConnection) = 0
      BY EmptySeq DEF NewConnection, pending_input_bytes
    <3> QED
      BY <3>1, <3>2, PendingBytes DEF Init
  <2>3. Lost = FALSE
    BY DEF Init, Lost
  <2>4. Inbox = <<>> /\ Outbox = <<>> /\ Status = "open"
    BY <2>1, <2>2, <2>3 DEF Init, Inbox, Outbox, Status
  <2>5. store = Service!EmptyStore
    BY DEF Init, EmptyStore, Service!EmptyStore
  <2>6. /\ OfPeer(Inbox) = OfPeer(<<>>) /\ OfPeer(Outbox) = OfPeer(<<>>)
        /\ OfPeer(Status) = OfPeer("open")
    BY <2>4
  <2> QED
    BY <2>5, <2>6 DEF Service!Init, OfPeer
<1>2. Inv /\ Ends /\ [Next]_vars => [Service!Next]_(Service!kvVars)
  <2> SUFFICES ASSUME Inv, Ends, [Next]_vars PROVE [Service!Next]_(Service!kvVars)
    OBVIOUS
  <2>1. CASE Service!Next
    BY <2>1
  <2>2. CASE UNCHANGED <<Inbox, Outbox, Status, store>>
    <3>1. /\ OfPeer(Inbox)' = OfPeer(Inbox) /\ OfPeer(Outbox)' = OfPeer(Outbox)
          /\ OfPeer(Status)' = OfPeer(Status) /\ store' = store
      BY <2>2
    <3> QED
      BY <3>1 DEF Service!kvVars
  <2> QED
    BY <2>1, <2>2, StepSeen
<1> QED
    BY Invariance, EndsInvariance, <1>1, <1>2, PTL DEF Spec, ImplementsService, Service!Spec

-----------------------------------------------------------------------------
(***************************************************************************)
(* The session against the reference.  First the reference: it is what its *)
(* recursive definition says, it stays inside the stream, it stops after   *)
(* the last complete frame, and a prefix of the stream has the same        *)
(* reference as long as the frames lie inside.  Then the session: at every *)
(* point of every visit the store, the replies and the unread input are    *)
(* the reference's after the frames executed so far (Paced).  The four     *)
(* properties of SessionReference follow.                                  *)
(***************************************************************************)

(* A set of numbers that holds 0 and, with each number, the next holds all
   of them.                                                                 *)
LEMMA Climb ==
    ASSUME NEW n \in Nat, NEW T, 0 \in T, \A m \in 1..n : m - 1 \in T => m \in T
    PROVE  0..n \subseteq T
<1> DEFINE U == {m \in 0..n : m \notin T}
<1>1. SUFFICES ASSUME U # {} PROVE FALSE
    OBVIOUS
<1>2. U \in SUBSET Nat
    OBVIOUS
<1>3. PICK k \in U : \A m \in U : k <= m
  <2> HIDE DEF U
  <2> QED
    BY <1>1, <1>2, Least
<1>4. k \in 0..n /\ k \notin T
    OBVIOUS
<1>5. k # 0
    BY <1>4
<1>6. k \in 1..n /\ k - 1 \in 0..n /\ ~(k <= k - 1)
    BY <1>4, <1>5
<1>7. k - 1 \notin U
  <2> HIDE DEF U
  <2> QED
    BY <1>3, <1>6
<1> QED
    BY <1>4, <1>6, <1>7

-----------------------------------------------------------------------------
(* The reference                                                            *)

(* f is the reference of s, for its first n frames.                         *)
Replays(s, f, n) ==
    /\ DOMAIN f = 0..n /\ f[0] = Start
    /\ \A m \in 1..n : f[m] = Served(s, f[m - 1])

NothingServed == [m \in 0..0 |-> Start]

ServeNext(s, f, n) == [m \in 0..n |-> IF m < n THEN f[m] ELSE Served(s, f[n - 1])]

(* Any number of frames can be served.                                      *)
LEMMA ReplayExists ==
    ASSUME NEW s, NEW n \in Nat PROVE \E f : Replays(s, f, n)
<1> DEFINE T == {k \in 0..n : \E f : Replays(s, f, k)}
<1>1. 0 \in T
  <2>1. Replays(s, NothingServed, 0)
    BY DEF Replays, NothingServed
  <2> QED
    BY <2>1
<1>2. ASSUME NEW k \in 1..n, k - 1 \in T PROVE k \in T
  <2>1. PICK g : Replays(s, g, k - 1)
    BY <1>2
  <2>2. PICK f : f = ServeNext(s, g, k)
    OBVIOUS
  <2>3. /\ DOMAIN f = 0..k
        /\ \A m \in 0..k : f[m] = IF m < k THEN g[m] ELSE Served(s, g[k - 1])
    BY <2>2 DEF ServeNext
  <2>4. g[0] = Start /\ \A m \in 1..(k - 1) : g[m] = Served(s, g[m - 1])
    BY <2>1 DEF Replays
  <2>5. f[0] = Start
    BY <2>3, <2>4
  <2>6. ASSUME NEW m \in 1..k PROVE f[m] = Served(s, f[m - 1])
    <3>1. m \in 0..k /\ m - 1 \in 0..k /\ m - 1 < k
      OBVIOUS
    <3>2. f[m - 1] = g[m - 1]
      BY <2>3, <3>1
    <3>3. CASE m < k
      BY <2>3, <2>4, <3>1, <3>2, <3>3
    <3>4. CASE m = k
      BY <2>3, <3>1, <3>2, <3>4
    <3> QED
      BY <3>3, <3>4
  <2>7. Replays(s, f, k)
    BY <2>3, <2>5, <2>6 DEF Replays
  <2> QED
    BY <2>7
<1> HIDE DEF T
<1>3. 0..n \subseteq T
  BY <1>1, <1>2, Climb
<1>4. n \in T
  BY <1>3
<1> QED
  BY <1>4 DEF T

IsReference(s, f) ==
    f = [n \in 0..Len(s) |-> IF n = 0 THEN Start ELSE Served(s, f[n - 1])]

(* So the reference of s is what its definition says.                       *)
LEMMA ReferenceFacts ==
    ASSUME NEW s, Len(s) \in Nat
    PROVE  Replays(s, Reference(s), Len(s))
<1>1. PICK n \in Nat : n = Len(s)
  OBVIOUS
<1>2. PICK g : Replays(s, g, n)
  BY ReplayExists
<1>3. DOMAIN g = 0..n /\ g[0] = Start /\ \A m \in 1..n : g[m] = Served(s, g[m - 1])
  BY <1>2 DEF Replays
<1>4. PICK f : f = [m \in 0..n |-> g[m]]
  OBVIOUS
<1>5. \A m \in 0..n : f[m] = g[m]
  BY <1>4
<1>6. ASSUME NEW m \in 0..n PROVE g[m] = IF m = 0 THEN Start ELSE Served(s, f[m - 1])
  <2>1. CASE m = 0
    BY <1>3, <2>1
  <2>2. CASE m # 0
    <3>1. m \in 1..n /\ m - 1 \in 0..n
      BY <2>2
    <3> QED
      BY <1>3, <1>5, <2>2, <3>1
  <2> QED
    BY <2>1, <2>2
<1>7. IsReference(s, f)
  BY <1>1, <1>4, <1>6 DEF IsReference
<1>8. IsReference(s, Reference(s))
  BY <1>7, Zenon DEF IsReference, Reference
<1>9. PICK r : r = Reference(s)
  OBVIOUS
<1>10. r = [m \in 0..n |-> IF m = 0 THEN Start ELSE Served(s, r[m - 1])]
  BY <1>1, <1>8, <1>9 DEF IsReference
<1>11. DOMAIN r = 0..n /\ \A m \in 0..n : r[m] = IF m = 0 THEN Start ELSE Served(s, r[m - 1])
  BY <1>10
<1>12. r[0] = Start /\ \A m \in 1..n : r[m] = Served(s, r[m - 1])
  BY <1>11
<1> QED
  BY <1>1, <1>9, <1>11, <1>12 DEF Replays

(* p, after line f, which ends at position i.                              *)
Past(p, f, i) ==
    [pos |-> i, store |-> Answer(f, p.store).store,
     replies |-> p.replies \o Append(Answer(f, p.store).text, NL)]

(* What serving a complete frame does.                                      *)
LEMMA ServedLine ==
    ASSUME NEW s, Len(s) \in Nat, NEW p, p.pos \in Nat, NEW i, IsNewline(s, p.pos, i),
           NEW f, f = SubSeq(s, p.pos + 1, i - 1)
    PROVE  /\ HasNewline(s, p.pos) /\ i \in (p.pos + 1)..Len(s)
           /\ Served(s, p) = Past(p, f, i)
<1>1. i \in (p.pos + 1)..Len(s) /\ s[i] = NL
  BY DEF IsNewline
<1>2. HasNewline(s, p.pos)
  BY <1>1 DEF HasNewline
<1>3. i \in 1..Len(s)
  BY <1>1
<1>4. PICK k : k = CHOOSE j \in 1..Len(s) : IsNewline(s, p.pos, j)
  OBVIOUS
<1>5. IsNewline(s, p.pos, k)
  BY <1>3, <1>4
<1>6. k = i
  BY <1>5, OneFirstNewline
<1>7. Served(s, p) = Past(p, f, i)
  BY <1>2, <1>4, <1>6 DEF Served, Past
<1> QED
  BY <1>1, <1>2, <1>7

(* Serving moves forward, and stays inside the stream.                      *)
LEMMA ServedPos ==
    ASSUME NEW s \in Seq(Byte), NEW p, p.pos \in 0..Len(s)
    PROVE  Served(s, p).pos \in 0..Len(s) /\ p.pos <= Served(s, p).pos
<1>1. Len(s) \in Nat /\ p.pos \in Nat
  BY LenProperties
<1>2. CASE ~HasNewline(s, p.pos)
  BY <1>1, <1>2 DEF Served
<1>3. CASE HasNewline(s, p.pos)
  <2>1. PICK i : IsNewline(s, p.pos, i)
    BY <1>1, <1>3, FirstNewline
  <2>2. PICK f : f = SubSeq(s, p.pos + 1, i - 1)
    OBVIOUS
  <2>3. i \in (p.pos + 1)..Len(s) /\ Served(s, p) = Past(p, f, i)
    BY <1>1, <2>1, <2>2, ServedLine
  <2>4. Served(s, p).pos = i
    BY <2>3 DEF Past
  <2> QED
    BY <1>1, <2>3, <2>4
<1> QED
  BY <1>2, <1>3

(* The reference, frame by frame.                                           *)
LEMMA ReferenceSteps ==
    ASSUME NEW s \in Seq(Byte), NEW r, r = Reference(s)
    PROVE  /\ Len(s) \in Nat /\ r[0] = Start
           /\ \A m \in 1..Len(s) : r[m] = Served(s, r[m - 1])
<1>1. Len(s) \in Nat
  BY LenProperties
<1> QED
  BY <1>1, ReferenceFacts DEF Replays

(* All its positions are inside the stream.                                 *)
LEMMA ReferencePos ==
    ASSUME NEW s \in Seq(Byte), NEW r, r = Reference(s), NEW n \in 0..Len(s)
    PROVE  r[n].pos \in 0..Len(s)
<1>1. /\ Len(s) \in Nat /\ r[0] = Start
      /\ \A m \in 1..Len(s) : r[m] = Served(s, r[m - 1])
  BY ReferenceSteps
<1> DEFINE T == {m \in 0..Len(s) : r[m].pos \in 0..Len(s)}
<1>2. 0 \in T
  BY <1>1 DEF Start
<1>3. ASSUME NEW m \in 1..Len(s), m - 1 \in T PROVE m \in T
  <2>1. r[m - 1].pos \in 0..Len(s) /\ r[m] = Served(s, r[m - 1])
    BY <1>1, <1>3
  <2>2. PICK p : p = r[m - 1]
    OBVIOUS
  <2>3. r[m].pos \in 0..Len(s)
    BY <2>1, <2>2, ServedPos
  <2> QED
    BY <1>1, <2>3
<1> HIDE DEF T
<1>4. 0..Len(s) \subseteq T
  BY <1>1, <1>2, <1>3, Climb
<1> QED
  BY <1>4 DEF T

(* After the last complete frame nothing changes any more.                  *)
LEMMA ReferenceEnds ==
    ASSUME NEW s \in Seq(Byte), NEW r, r = Reference(s),
           NEW n \in 0..Len(s), ~HasNewline(s, r[n].pos)
    PROVE  r[Len(s)] = r[n]
<1>1. /\ Len(s) \in Nat /\ r[0] = Start
      /\ \A m \in 1..Len(s) : r[m] = Served(s, r[m - 1])
  BY ReferenceSteps
<1> DEFINE T == {m \in 0..Len(s) : m >= n => r[m] = r[n]}
<1>2. 0 \in T
  BY <1>1
<1>3. ASSUME NEW m \in 1..Len(s), m - 1 \in T PROVE m \in T
  <2>1. CASE m - 1 < n
    <3>1. m >= n => m = n
      BY <1>1, <2>1
    <3> QED
      BY <1>1, <3>1
  <2>2. CASE m - 1 >= n
    <3>1. r[m - 1] = r[n] /\ r[m] = Served(s, r[m - 1])
      BY <1>1, <1>3, <2>2
    <3>2. r[m] = r[n]
      BY <3>1 DEF Served
    <3> QED
      BY <1>1, <3>2
  <2> QED
    BY <1>1, <2>1, <2>2
<1> HIDE DEF T
<1>4. 0..Len(s) \subseteq T
  BY <1>1, <1>2, <1>3, Climb
<1>5. Len(s) \in T /\ Len(s) >= n
  BY <1>1, <1>4
<1> QED
  BY <1>5 DEF T

-----------------------------------------------------------------------------
(* The part of a stream after position k, up to position e.                 *)
LEMMA Window ==
    ASSUME NEW s \in Seq(Byte), NEW k \in Nat, NEW e \in Nat, k <= e, e <= Len(s),
           NEW t, t = SubSeq(s, 1, e)
    PROVE  /\ t \in Seq(Byte) /\ Len(t) = e
           /\ SubSeq(s, k + 1, e) = SubSeq(t, k + 1, Len(t))
           /\ HasNewline(t, k) => HasNewline(s, k)
<1>1. Len(s) \in Nat
  BY LenProperties
<1>2. t \in Seq(Byte) /\ Len(t) = e /\ \A i \in 1..e : t[i] = s[i]
  BY PrefixFacts
<1>3. PICK u, v : u = SubSeq(s, k + 1, e) /\ v = SubSeq(t, k + 1, Len(t))
  OBVIOUS
<1>4. \A i \in (k + 1)..e : s[i] \in Byte
  BY <1>1, ElementOfSeq
<1>5. /\ u \in Seq(Byte)
      /\ Len(u) = IF k + 1 <= e THEN e - (k + 1) + 1 ELSE 0
      /\ \A i \in 1..(e - (k + 1) + 1) : u[i] = s[(k + 1) + i - 1]
  BY <1>3, <1>4, SubSeqProperties
<1>6. /\ v \in Seq(Byte) /\ Len(v) = Len(t) - k
      /\ \A i \in 1..(Len(t) - k) : v[i] = t[k + i]
  BY <1>2, <1>3, SuffixFacts
<1>7. Len(u) = e - k /\ Len(v) = e - k
  BY <1>2, <1>5, <1>6
<1>8. ASSUME NEW i \in 1..(e - k) PROVE u[i] = v[i]
  <2>1. /\ i \in 1..(e - (k + 1) + 1) /\ (k + 1) + i - 1 = k + i
        /\ i \in 1..(Len(t) - k) /\ k + i \in 1..e
    BY <1>2
  <2>2. u[i] = s[k + i]
    BY <1>5, <2>1
  <2>3. v[i] = t[k + i] /\ t[k + i] = s[k + i]
    BY <1>2, <1>6, <2>1
  <2> QED
    BY <2>2, <2>3
<1>9. u = v
  BY <1>5, <1>6, <1>7, <1>8, SeqEqual
<1>10. ASSUME HasNewline(t, k) PROVE HasNewline(s, k)
  <2>1. PICK i \in (k + 1)..Len(t) : t[i] = NL
    BY <1>10 DEF HasNewline
  <2>2. i \in (k + 1)..Len(s) /\ s[i] = NL
    BY <1>1, <1>2, <2>1
  <2> QED
    BY <2>2 DEF HasNewline
<1> QED
  BY <1>2, <1>3, <1>9, <1>10

(* A prefix of a prefix.                                                    *)
LEMMA PrefixOfPrefix ==
    ASSUME NEW s \in Seq(Byte), NEW e \in Nat, e <= Len(s), NEW t, t = SubSeq(s, 1, e),
           NEW h \in Nat, h <= e
    PROVE  SubSeq(t, 1, h) = SubSeq(s, 1, h)
<1>1. Len(s) \in Nat
  BY LenProperties
<1>2. t \in Seq(Byte) /\ Len(t) = e /\ \A i \in 1..e : t[i] = s[i]
  BY PrefixFacts
<1>3. PICK y, z : y = SubSeq(t, 1, h) /\ z = SubSeq(s, 1, h)
  OBVIOUS
<1>4. z \in Seq(Byte) /\ Len(z) = h /\ \A i \in 1..h : z[i] = s[i]
  BY <1>1, <1>3, PrefixFacts
<1>5. y \in Seq(Byte) /\ Len(y) = h /\ \A i \in 1..h : y[i] = t[i]
  BY <1>2, <1>3, PrefixFacts
<1>6. ASSUME NEW i \in 1..h PROVE y[i] = z[i]
  <2>1. i \in 1..e
    OBVIOUS
  <2> QED
    BY <1>2, <1>4, <1>5, <2>1
<1> QED
  BY <1>3, <1>4, <1>5, <1>6, SeqEqual

(* A part of a prefix.                                                      *)
LEMMA PartOfPrefix ==
    ASSUME NEW s \in Seq(Byte), NEW k \in Nat, NEW e \in Nat, e <= Len(s),
           NEW t, t = SubSeq(s, 1, e), NEW h \in Nat, k <= h, h <= e
    PROVE  SubSeq(t, k + 1, h) = SubSeq(s, k + 1, h)
<1>1. Len(s) \in Nat
  BY LenProperties
<1>2. t \in Seq(Byte) /\ Len(t) = e
  BY PrefixFacts
<1>3. PICK y, z : y = SubSeq(t, 1, h) /\ z = SubSeq(s, 1, h)
  OBVIOUS
<1>4. y = z
  BY <1>3, PrefixOfPrefix
<1>5. SubSeq(s, k + 1, h) = SubSeq(z, k + 1, Len(z))
  BY <1>1, <1>3, Window
<1>6. SubSeq(t, k + 1, h) = SubSeq(y, k + 1, Len(y))
  BY <1>2, <1>3, Window
<1> QED
  BY <1>4, <1>5, <1>6

(* The beginning of such a part.                                            *)
LEMMA PrefixOfWindow ==
    ASSUME NEW s \in Seq(Byte), NEW k \in Nat, NEW e \in Nat, e <= Len(s),
           NEW w, w = SubSeq(s, k + 1, e), NEW l \in Nat, NEW h \in Nat, h = k + l, h <= e
    PROVE  SubSeq(w, 1, l) = SubSeq(s, k + 1, h)
<1>1. Len(s) \in Nat
  BY LenProperties
<1>2. PICK t : t = SubSeq(s, 1, e)
  OBVIOUS
<1>3. t \in Seq(Byte) /\ Len(t) = e /\ w = SubSeq(t, k + 1, Len(t))
  BY <1>2, Window
<1>4. h <= Len(t)
  BY <1>3
<1>5. SubSeq(w, 1, l) = SubSeq(t, k + 1, h)
  BY <1>3, <1>4, PrefixOfSuffix
<1>6. SubSeq(t, k + 1, h) = SubSeq(s, k + 1, h)
  BY <1>2, PartOfPrefix
<1> QED
  BY <1>5, <1>6

IsWindow(w, s, k, e) ==
    /\ s \in Seq(Byte) /\ k \in Nat /\ e \in Nat /\ k <= e /\ e <= Len(s)
    /\ w = SubSeq(s, k + 1, e)

(* The first line of such a part is the first line of the stream there.     *)
LEMMA WindowLine ==
    ASSUME NEW s, NEW k, NEW e, NEW w, IsWindow(w, s, k, e),
           NEW m, NEW f, NEW rest, FirstLine(w, m, f, rest)
    PROVE  /\ m \in Nat /\ m >= 1 /\ k + m <= e
           /\ IsNewline(s, k, k + m)
           /\ f = SubSeq(s, k + 1, (k + m) - 1) /\ rest = SubSeq(s, (k + m) + 1, e)
<1> /\ s \in Seq(Byte) /\ k \in Nat /\ e \in Nat /\ k <= e /\ e <= Len(s)
    /\ w = SubSeq(s, k + 1, e)
  BY DEF IsWindow
<1>1. Len(s) \in Nat
  BY LenProperties
<1>2. PICK t : t = SubSeq(s, 1, e)
  OBVIOUS
<1>3. t \in Seq(Byte) /\ Len(t) = e /\ w = SubSeq(t, k + 1, Len(t))
  BY <1>2, Window
<1>4. \A i \in 1..e : t[i] = s[i]
  BY <1>2, PrefixFacts
<1>5. /\ w \in Seq(Byte) /\ Len(w) = e - k /\ \A i \in 1..(e - k) : w[i] = t[k + i]
  BY <1>3, SuffixFacts
<1>6. /\ m \in 1..Len(w) /\ w[m] = NL /\ \A j \in 1..(m - 1) : w[j] # NL
      /\ f = SubSeq(w, 1, m - 1) /\ rest = SubSeq(w, m + 1, Len(w))
  <2>1. m \in 1..Len(w) /\ IsNewline(w, 0, m)
    BY DEF FirstLine
  <2>2. w[m] = NL /\ \A j \in (0 + 1)..(m - 1) : w[j] # NL
    BY <2>1 DEF IsNewline
  <2>3. f = SubSeq(w, 1, m - 1) /\ rest = SubSeq(w, m + 1, Len(w))
    BY DEF FirstLine
  <2>4. \A j \in 1..(m - 1) : w[j] # NL
    BY <1>5, <2>1, <2>2
  <2> QED
    BY <2>1, <2>2, <2>3, <2>4, Zenon
<1>7. m \in Nat /\ m >= 1 /\ k + m <= e
  BY <1>5, <1>6
<1>8. ASSUME NEW i \in 1..m PROVE w[i] = s[k + i]
  <2>1. i \in 1..(e - k) /\ k + i \in 1..e
    BY <1>7
  <2>2. w[i] = t[k + i]
    BY <1>5, <2>1
  <2> QED
    BY <1>4, <2>1, <2>2
<1>9. IsNewline(s, k, k + m)
  <2>1. k + m \in (k + 1)..Len(s) /\ m \in 1..m
    BY <1>1, <1>7
  <2>2. s[k + m] = NL
    BY <1>6, <1>8, <2>1
  <2>3. ASSUME NEW j \in (k + 1)..(k + m - 1) PROVE s[j] # NL
    <3>1. j - k \in 1..(m - 1) /\ j - k \in 1..m /\ k + (j - k) = j
      BY <1>7
    <3>2. w[j - k] # NL /\ w[j - k] = s[k + (j - k)]
      BY <1>6, <1>8, <3>1
    <3> QED
      BY <3>1, <3>2
  <2> QED
    BY <2>1, <2>2, <2>3 DEF IsNewline
<1>10. PICK n, l, h : n = k + m /\ l = m - 1 /\ h = (k + m) - 1
  OBVIOUS
<1>11. f = SubSeq(s, k + 1, h)
  <2>1. l \in Nat /\ h \in Nat /\ h = k + l /\ h <= e
    BY <1>7, <1>10
  <2>2. SubSeq(w, 1, l) = SubSeq(s, k + 1, h)
    BY <2>1, PrefixOfWindow
  <2> QED
    BY <1>6, <1>10, <2>2
<1>12. rest = SubSeq(s, n + 1, e)
  <2>1. k + m <= Len(t) /\ n <= e /\ n \in Nat
    BY <1>3, <1>7, <1>10
  <2>2. SubSeq(w, m + 1, Len(w)) = SubSeq(t, (k + m) + 1, Len(t))
    BY <1>3, <1>7, <2>1, SuffixOfSuffix
  <2>3. SubSeq(s, n + 1, e) = SubSeq(t, n + 1, Len(t))
    BY <1>2, <2>1, Window
  <2> QED
    BY <1>6, <1>10, <2>2, <2>3
<1> QED
  BY <1>7, <1>9, <1>10, <1>11, <1>12

(* A frame of s that ends in a prefix t of s is served alike from t.        *)
LEMMA ServedPrefix ==
    ASSUME NEW s \in Seq(Byte), NEW e \in Nat, e <= Len(s), NEW t, t = SubSeq(s, 1, e),
           NEW p, p.pos \in Nat, p.pos <= e, NEW v, v = Served(s, p), v.pos <= e
    PROVE  v = Served(t, p)
<1>1. Len(s) \in Nat
  BY LenProperties
<1>2. PICK k : k = p.pos
  OBVIOUS
<1>3. k \in Nat /\ k <= e
  BY <1>2
<1>4. t \in Seq(Byte) /\ Len(t) = e /\ \A i \in 1..e : t[i] = s[i]
  BY PrefixFacts
<1>5. CASE ~HasNewline(s, k)
  <2>1. ~HasNewline(t, k)
    BY <1>3, <1>5, Window
  <2> QED
    BY <1>2, <1>5, <2>1 DEF Served
<1>6. CASE HasNewline(s, k)
  <2>1. PICK i : IsNewline(s, k, i)
    BY <1>3, <1>6, FirstNewline
  <2>2. PICK f : f = SubSeq(s, k + 1, i - 1)
    OBVIOUS
  <2>3. i \in (k + 1)..Len(s) /\ Served(s, p) = Past(p, f, i)
    BY <1>1, <1>2, <1>3, <2>1, <2>2, ServedLine
  <2>4. Served(s, p).pos = i
    BY <2>3 DEF Past
  <2>5. i \in Nat /\ k + 1 <= i /\ i <= e
    BY <1>1, <1>3, <2>3, <2>4
  <2>6. IsNewline(t, k, i)
    <3>1. i \in (k + 1)..Len(t) /\ t[i] = s[i] /\ s[i] = NL
      BY <1>3, <1>4, <2>1, <2>5 DEF IsNewline
    <3>2. ASSUME NEW j \in (k + 1)..(i - 1) PROVE t[j] # NL
      <4>1. j \in 1..e /\ s[j] # NL
        BY <1>3, <2>1, <2>5 DEF IsNewline
      <4> QED
        BY <1>4, <4>1
    <3> QED
      BY <3>1, <3>2 DEF IsNewline
  <2>7. f = SubSeq(t, k + 1, i - 1)
    <3>1. PICK h : h = i - 1
      OBVIOUS
    <3>2. h \in Nat /\ k <= h /\ h <= e
      BY <1>3, <2>5, <3>1
    <3>3. SubSeq(t, k + 1, h) = SubSeq(s, k + 1, h)
      BY <1>3, <3>2, PartOfPrefix
    <3> QED
      BY <2>2, <3>1, <3>3
  <2>8. Served(t, p) = Past(p, f, i)
    BY <1>2, <1>3, <1>4, <2>6, <2>7, ServedLine
  <2> QED
    BY <2>3, <2>8
<1> QED
  BY <1>5, <1>6

(* The references r of s and q of its prefix of length e.                   *)
References(s, e, r, q) ==
    /\ s \in Seq(Byte) /\ e \in Nat /\ e <= Len(s)
    /\ r = Reference(s) /\ q = Reference(SubSeq(s, 1, e))

(* The reference of a prefix of s agrees with that of s as long as the
   frames are inside the prefix.                                            *)
LEMMA ReferencePrefix ==
    ASSUME NEW s, NEW e, NEW r, NEW q, References(s, e, r, q),
           NEW n \in 0..e, r[n].pos <= e
    PROVE  q[n] = r[n]
<1> PICK t : t = SubSeq(s, 1, e)
  OBVIOUS
<1> /\ s \in Seq(Byte) /\ e \in Nat /\ e <= Len(s)
    /\ r = Reference(s) /\ q = Reference(t)
  BY DEF References
<1>1. /\ Len(s) \in Nat /\ r[0] = Start
      /\ \A m \in 1..Len(s) : r[m] = Served(s, r[m - 1])
  BY ReferenceSteps
<1>2. t \in Seq(Byte) /\ Len(t) = e
  BY PrefixFacts
<1>3. q[0] = Start /\ \A m \in 1..e : q[m] = Served(t, q[m - 1])
  BY <1>2, ReferenceSteps
<1> DEFINE T == {m \in 0..e : r[m].pos <= e => q[m] = r[m]}
<1>4. 0 \in T
  BY <1>1, <1>3
<1>5. ASSUME NEW m \in 1..e, m - 1 \in T PROVE m \in T
  <2> SUFFICES ASSUME r[m].pos <= e PROVE q[m] = r[m]
    OBVIOUS
  <2>1. m - 1 \in 0..e /\ (r[m - 1].pos <= e => q[m - 1] = r[m - 1])
    BY <1>5
  <2>2. PICK p : p = r[m - 1]
    OBVIOUS
  <2>3. m \in 1..Len(s) /\ m - 1 \in 0..Len(s)
    BY <1>1
  <2>4. p.pos \in 0..Len(s)
    BY <2>2, <2>3, ReferencePos
  <2>5. r[m] = Served(s, p)
    BY <1>1, <2>2, <2>3
  <2>6. p.pos <= Served(s, p).pos /\ Served(s, p).pos \in 0..Len(s)
    BY <2>4, ServedPos
  <2>7. p.pos \in Nat /\ p.pos <= e /\ Served(s, p).pos <= e
    BY <1>1, <2>4, <2>5, <2>6
  <2>8. q[m - 1] = p
    BY <2>1, <2>2, <2>7
  <2>9. Served(t, p) = Served(s, p)
    <3>1. PICK v : v = Served(s, p)
      OBVIOUS
    <3>2. p.pos \in Nat /\ p.pos <= e /\ v.pos <= e
      BY <2>7, <3>1
    <3>3. v = Served(t, p)
      BY <3>1, <3>2, ServedPrefix
    <3> QED
      BY <3>1, <3>3
  <2> QED
    BY <1>3, <2>5, <2>8, <2>9
<1> HIDE DEF T
<1>6. 0..e \subseteq T
  BY <1>4, <1>5, Climb
<1> QED
  BY <1>6 DEF T

-----------------------------------------------------------------------------
(* Prefixes                                                                 *)

(* A prefix, byte by byte.                                                  *)
LEMMA PrefixMeans ==
    ASSUME NEW s \in Seq(Byte), NEW t \in Seq(Byte)
    PROVE  IsPrefix(s, t) <=> /\ Len(s) <= Len(t)
                              /\ \A i \in 1..Len(s) : s[i] = t[i]
<1>1. Len(s) \in Nat /\ Len(t) \in Nat /\ SubSeq(s, 1, Len(s)) = s
  BY LenProperties, SubSeqFull
<1>2. CASE Len(s) <= Len(t)
  <2>1. PICK u : u = SubSeq(t, 1, Len(s))
    OBVIOUS
  <2>2. u \in Seq(Byte) /\ Len(u) = Len(s) /\ \A i \in 1..Len(s) : u[i] = t[i]
    BY <1>1, <1>2, <2>1, PrefixFacts
  <2>3. IsPrefix(s, t) <=> s = u
    BY <1>1, <1>2, <2>1 DEF IsPrefix
  <2>4. ASSUME \A i \in 1..Len(s) : s[i] = t[i] PROVE s = u
    BY <2>2, <2>4, SeqEqual
  <2>5. ASSUME s = u PROVE \A i \in 1..Len(s) : s[i] = t[i]
    BY <2>2, <2>5
  <2> QED
    BY <1>2, <2>3, <2>4, <2>5
<1>3. CASE ~(Len(s) <= Len(t))
  BY <1>3 DEF IsPrefix
<1> QED
  BY <1>2, <1>3

(* Prefixes of prefixes are prefixes.                                       *)
LEMMA PrefixTransitive ==
    ASSUME NEW s \in Seq(Byte), NEW t \in Seq(Byte), NEW u \in Seq(Byte),
           IsPrefix(s, t), IsPrefix(t, u)
    PROVE  IsPrefix(s, u)
<1>1. Len(s) \in Nat /\ Len(t) \in Nat /\ Len(u) \in Nat
  BY LenProperties
<1>2. Len(s) <= Len(t) /\ \A i \in 1..Len(s) : s[i] = t[i]
  BY PrefixMeans
<1>3. Len(t) <= Len(u) /\ \A i \in 1..Len(t) : t[i] = u[i]
  BY PrefixMeans
<1>4. Len(s) <= Len(u) /\ \A i \in 1..Len(s) : s[i] = u[i]
  BY <1>1, <1>2, <1>3
<1> QED
  BY <1>4, PrefixMeans

(* What comes first is a prefix.                                            *)
LEMMA PrefixOfJoin ==
    ASSUME NEW s \in Seq(Byte), NEW t \in Seq(Byte)
    PROVE  s \o t \in Seq(Byte) /\ IsPrefix(s, s \o t)
<1>1. PICK u : u = s \o t
  OBVIOUS
<1>2. Len(s) \in Nat /\ Len(t) \in Nat
  BY LenProperties
<1>3. u \in Seq(Byte) /\ Len(u) = Len(s) + Len(t) /\ \A i \in 1..Len(s) : u[i] = s[i]
  <2>1. u \in Seq(Byte) /\ Len(u) = Len(s) + Len(t)
    BY <1>1, ConcatProperties
  <2>2. \A i \in 1..(Len(s) + Len(t)) : u[i] = IF i <= Len(s) THEN s[i] ELSE t[i - Len(s)]
    BY <1>1, ConcatProperties
  <2> QED
    BY <1>2, <2>1, <2>2
<1>4. IsPrefix(s, u)
  BY <1>2, <1>3, PrefixMeans
<1> QED
  BY <1>1, <1>3, <1>4

(* A prefix stays one when something is put in front of both.               *)
LEMMA PrefixBehind ==
    ASSUME NEW g \in Seq(Byte), NEW t \in Seq(Byte), NEW n \in 0..Len(t)
    PROVE  /\ SubSeq(t, 1, n) \in Seq(Byte)
           /\ g \o SubSeq(t, 1, n) \in Seq(Byte)
           /\ IsPrefix(g \o SubSeq(t, 1, n), g \o t)
<1>1. Len(t) \in Nat /\ n \in Nat /\ n <= Len(t)
  BY LenProperties
<1>2. PICK a, b : a = SubSeq(t, 1, n) /\ b = SubSeq(t, n + 1, Len(t))
  OBVIOUS
<1>3. a \in Seq(Byte) /\ b \in Seq(Byte)
  BY <1>1, <1>2, PrefixFacts, SuffixFacts
<1>4. (g \o a) \o b = g \o t
  <2>1. (g \o a) \o b = g \o (a \o b)
    BY <1>3, ConcatAssociative
  <2>2. a \o b = t
    BY <1>1, <1>2, CutAndJoin
  <2> QED
    BY <2>1, <2>2
<1>5. PICK c : c = g \o a
  OBVIOUS
<1>6. c \in Seq(Byte)
  BY <1>3, <1>5, ConcatProperties
<1>7. IsPrefix(c, c \o b)
  BY <1>3, <1>6, PrefixOfJoin
<1> QED
  BY <1>2, <1>3, <1>4, <1>5, <1>6, <1>7

-----------------------------------------------------------------------------
(* A session keeps pace with the reference                                  *)

(* What has arrived after the frames executed.                              *)
Rest == SubSeq(stream, AfterDone.pos + 1, sent)

Refused == reason = "input buffer limit"

Oversized ==
    /\ sent - AfterDone.pos >= kMaxInputBytes
    /\ ~HasNewline(SubSeq(stream, AfterDone.pos + 1, AfterDone.pos + kMaxInputBytes), 0)

(* A visit in progress has not failed yet.                                  *)
Unfailed == pc \notin {"retire", "closed"} => ~Refused /\ ~Answered

(* The frames executed lie in what has arrived.                             *)
Counted ==
    /\ done \in Nat /\ AfterDone.pos \in Nat
    /\ done <= AfterDone.pos /\ AfterDone.pos <= sent

(* Store and replies are the reference's; a lost client misses an end of
   the replies.                                                             *)
Replied ==
    /\ store = AfterDone.store /\ AfterDone.replies \in Seq(Byte)
    /\ IsPrefix(got \o Outbox, AfterDone.replies)
    /\ Status # "lost" => got \o Outbox = AfterDone.replies

(* The queues hold what is left, until EOF drops an incomplete tail.        *)
Taken ==
    pc # "closed" =>
        \/ Inbox = Rest
        \/ conn.read_eof /\ Inbox = <<>> /\ ~HasNewline(Rest, 0)

(* A session that closed as answered left no complete frame behind.         *)
Left == pc = "closed" /\ Answered => fin /\ ~HasNewline(Rest, 0)

(* The inductive invariant, on top of Inv and Ends.                         *)
Paced ==
    /\ Unfailed /\ Counted /\ Replied /\ Taken /\ Left
    /\ Refused => Oversized

(* A step that moves nothing but, perhaps, drops an incomplete tail.        *)
LEMMA PacedHolds ==
    ASSUME Paced, pc # "closed", pc' # "closed",
           UNCHANGED <<Outbox, Status, store, stream, sent, got, done>>,
           \/ Inbox' = Inbox
           \/ conn.read_eof /\ Inbox' = <<>> /\ ~HasNewline(Inbox, 0),
           conn.read_eof => conn'.read_eof, Unfailed', Refused' => Oversized'
    PROVE  Paced'
<1>1. AfterDone' = AfterDone
  BY DEF AfterDone
<1>2. Rest' = Rest
  BY <1>1 DEF Rest
<1>3. Counted'
  BY <1>1 DEF Paced, Counted
<1>4. Replied'
  BY <1>1 DEF Paced, Replied
<1>5. Taken'
  BY <1>2 DEF Paced, Taken
<1>6. Left'
  BY DEF Left
<1> QED
  BY <1>3, <1>4, <1>5, <1>6 DEF Paced

(* No other failure is a refusal for the input.                             *)
LEMMA OtherFailures ==
    ASSUME NEW why, Fail(why), why # "input buffer limit"
    PROVE  Unfailed' /\ ~Refused'
<1>1. pc' = "retire" /\ ~Refused'
  BY DEF Fail, Refused
<1> QED
  BY <1>1 DEF Unfailed

(* A visit that goes on keeps its reason, which is none.                    *)
LEMMA GoesOn ==
    ASSUME Unfailed, pc \notin {"retire", "closed"}, reason' = reason
    PROVE  Unfailed' /\ ~Refused'
<1>1. ~Refused' /\ ~Answered'
  BY DEF Unfailed, Refused, Answered
<1> QED
  BY <1>1 DEF Unfailed

(* The loop and the parts of service_client that move no byte.              *)
LEMMA QuietPaced ==
    ASSUME Inv, Ends, Paced,
           \/ Scan \/ Wait \/ RecvInterrupted \/ RecvError \/ RecvStop
           \/ ProcessBegin \/ SendInterrupted \/ SendError \/ SendStop
    PROVE  Paced'
<1>1. UNCHANGED <<Inbox, Outbox, Status, store>>
  BY UnseenSteps
<1>2. /\ pc \in {"scan", "wait", "recv", "process", "exec", "flush"}
      /\ UNCHANGED <<stream, sent, got, done>>
  BY DEF Scan, Wait, ScanExpired, ScanRunnable, ScanQuiet, WaitReady, WaitBroken,
      WaitElsewhere, RecvInterrupted, RecvError, RecvStop, ProcessBegin,
      SendInterrupted, SendError, SendStop, peerVars
<1>3. \/ /\ pc' \in {"scan", "wait", "recv", "process", "exec", "flush", "finish"}
         /\ reason' = reason
      \/ \E why \in {"idle timeout", "socket error event", "full hangup", "receive error",
                     "send error"} : Fail(why)
  <2>1. CASE Scan
    BY <2>1 DEF Scan, ScanExpired, ScanRunnable, ScanQuiet
  <2>2. CASE Wait
    BY <2>2 DEF Wait, WaitReady, WaitBroken, WaitElsewhere
  <2>3. CASE RecvInterrupted \/ RecvError \/ RecvStop
    BY <2>3 DEF RecvInterrupted, RecvError, RecvStop
  <2>4. CASE ProcessBegin
    BY <2>4 DEF ProcessBegin
  <2>5. CASE SendInterrupted \/ SendError \/ SendStop
    BY <2>5 DEF SendInterrupted, SendError, SendStop
  <2> QED
    BY <2>1, <2>2, <2>3, <2>4, <2>5
<1>4. pc' # "closed"
  BY <1>3 DEF Fail
<1>5. Unfailed' /\ ~Refused'
  <2>1. CASE reason' = reason
    BY <1>2, <2>1, GoesOn DEF Paced
  <2>2. CASE \E why \in {"idle timeout", "socket error event", "full hangup",
                         "receive error", "send error"} : Fail(why)
    BY <2>2, OtherFailures
  <2> QED
    BY <1>3, <2>1, <2>2
<1>6. conn.read_eof => conn'.read_eof
  <2>1. Sound(conn)
    BY InvFacts
  <2>2. \/ conn' = conn \/ conn' = begin_processing(conn) \/ conn' = end_flush(conn)
    BY DEF Scan, Wait, ScanExpired, ScanRunnable, ScanQuiet, WaitReady, WaitBroken,
        WaitElsewhere, RecvInterrupted, RecvError, RecvStop, ProcessBegin,
        SendInterrupted, SendError, SendStop
  <2> QED
    BY <2>1, <2>2, BeginFacts, EndFlushFacts
<1> QED
  BY <1>1, <1>2, <1>4, <1>5, <1>6, PacedHolds

(* Bytes that move from the kernel to the parser or from the replies to the
   kernel, and the end of the stream, change neither queue.                 *)
LEMMA MovePaced ==
    ASSUME Inv, Ends, Paced, RecvBytes \/ RecvEof \/ SendBytes
    PROVE  Paced'
<1>1. UNCHANGED <<Inbox, Outbox, Status, store>>
  BY RecvBytesUnseen, RecvEofUnseen, SendBytesUnseen
<1>2. /\ pc \in {"recv", "flush"} /\ pc' # "closed" /\ reason' = reason
      /\ conn.read_eof => conn'.read_eof
  <2>1. CASE RecvBytes
    BY <2>1, RecvBytesUnseen
  <2>2. CASE RecvEof
    <3>1. conn' = [conn EXCEPT !.read_eof = TRUE] /\ conn \in ConnectionType
      BY <2>2 DEF RecvEof, Inv, TypeOK
    <3>2. conn'.read_eof = TRUE
      BY <3>1 DEF ConnectionType
    <3>3. pc = "recv" /\ pc' = "process" /\ reason' = reason
      BY <2>2 DEF RecvEof
    <3> QED
      BY <3>2, <3>3
  <2>3. CASE SendBytes
    <3>1. pc = "flush" /\ pc' = pc /\ reason' = reason
      BY <2>3 DEF SendBytes
    <3>2. conn'.read_eof = conn.read_eof
      BY <2>3, SendBytesUnseen
    <3> QED
      BY <3>1, <3>2
  <2> QED
    BY <2>1, <2>2, <2>3
<1>3. UNCHANGED <<stream, sent, got, done>>
  BY DEF RecvBytes, RecvEof, SendBytes, peerVars
<1>4. Unfailed' /\ ~Refused'
  BY <1>2, GoesOn DEF Paced
<1> QED
  BY <1>1, <1>2, <1>3, <1>4, PacedHolds

(* The facts about the stream that Paced builds on.                         *)
LEMMA PacedFacts ==
    ASSUME Inv, Paced
    PROVE  /\ stream \in Seq(Byte) /\ Len(stream) \in Nat /\ sent \in Nat
           /\ sent <= Len(stream) /\ done \in Nat /\ AfterDone.pos \in Nat
           /\ done <= AfterDone.pos /\ AfterDone.pos <= sent
           /\ Rest \in Seq(Byte) /\ Len(Rest) = sent - AfterDone.pos
           /\ Inbox \in Seq(Byte) /\ Outbox \in Seq(Byte) /\ got \in Seq(Byte)
<1>1. /\ stream \in Seq(Byte) /\ sent \in 0..Len(stream) /\ got \in Seq(Byte)
      /\ Inbox \in Seq(Byte) /\ Outbox \in Seq(Byte)
  BY InvFacts, QueuesHold DEF Inv, TypeOK
<1>2. Len(stream) \in Nat
  BY <1>1, LenProperties
<1>3. /\ done \in Nat /\ AfterDone.pos \in Nat
      /\ done <= AfterDone.pos /\ AfterDone.pos <= sent
  BY DEF Paced, Counted
<1>4. PICK s, k, e, t : s = stream /\ k = AfterDone.pos /\ e = sent /\ t = SubSeq(s, 1, e)
  OBVIOUS
<1>5. /\ s \in Seq(Byte) /\ k \in Nat /\ e \in Nat /\ k <= e /\ e <= Len(s)
  BY <1>1, <1>2, <1>3, <1>4
<1>6. t \in Seq(Byte) /\ Len(t) = e /\ SubSeq(s, k + 1, e) = SubSeq(t, k + 1, Len(t))
  BY <1>4, <1>5, Window
<1>7. PICK w : w = SubSeq(t, k + 1, Len(t))
  OBVIOUS
<1>8. w \in Seq(Byte) /\ Len(w) = e - k
  BY <1>5, <1>6, <1>7, SuffixFacts
<1>9. Rest = w
  BY <1>4, <1>6, <1>7 DEF Rest
<1> QED
  BY <1>1, <1>2, <1>3, <1>4, <1>8, <1>9

(* process_input refuses an input only if the frame at hand is too long
   (connection.cpp:84-91).                                                  *)
LEMMA RefusalPaced ==
    ASSUME Inv, Ends, Paced, pc = "exec", input_exhausted(end_processing(conn))
    PROVE  Oversized
<1>1. Sound(conn) /\ rx \in Seq(Byte)
  BY InvFacts DEF Inv, TypeOK
<1>2. PICK i : i = pending_input(conn)
  OBVIOUS
<1>3. /\ i \in Seq(Byte) /\ Len(i) = kMaxInputBytes /\ ~HasNewline(i, 0)
  <2>1. pending_input_bytes(conn) = kMaxInputBytes /\ ~has_complete_frame(conn)
    BY <1>1, EndProcessingFacts DEF input_exhausted
  <2> QED
    BY <1>1, <1>2, <2>1, PendingBytes
<1>4. kMaxInputBytes \in Nat /\ kMaxInputBytes # 0
  BY AllowanceAssumption
<1>5. PICK all : all = i \o rx
  OBVIOUS
<1>6. Inbox = all
  BY <1>2, <1>5 DEF Inbox
<1>7. all \in Seq(Byte) /\ Len(all) = Len(i) + Len(rx) /\ Len(rx) \in Nat
  BY <1>1, <1>3, <1>5, ConcatProperties, LenProperties
<1>8. all # <<>>
  BY <1>3, <1>4, <1>7, EmptySeq
<1>9. Inbox = Rest
  BY <1>6, <1>8 DEF Paced, Taken
<1>10. /\ stream \in Seq(Byte) /\ Len(stream) \in Nat /\ sent \in Nat
       /\ sent <= Len(stream) /\ AfterDone.pos \in Nat /\ AfterDone.pos <= sent
       /\ Len(Rest) = sent - AfterDone.pos
  BY PacedFacts
<1>11. sent - AfterDone.pos >= kMaxInputBytes
  BY <1>3, <1>4, <1>6, <1>7, <1>9, <1>10
<1>12. SubSeq(stream, AfterDone.pos + 1, AfterDone.pos + kMaxInputBytes) = i
  <2>1. PICK s, k, e, h, l :
            s = stream /\ k = AfterDone.pos /\ e = sent /\ l = kMaxInputBytes /\ h = k + l
    OBVIOUS
  <2>2. /\ s \in Seq(Byte) /\ k \in Nat /\ e \in Nat /\ e <= Len(s)
        /\ l \in Nat /\ h \in Nat /\ h = k + l /\ h <= e
    BY <1>4, <1>10, <1>11, <2>1
  <2>3. all = SubSeq(s, k + 1, e)
    BY <1>6, <1>9, <2>1 DEF Rest
  <2>4. SubSeq(all, 1, l) = SubSeq(s, k + 1, h)
    BY <2>2, <2>3, PrefixOfWindow
  <2>5. SubSeq(all, 1, l) = i
    BY <1>1, <1>3, <1>4, <1>5, <2>1, PrefixOfConcat, SubSeqFull
  <2> QED
    BY <2>1, <2>4, <2>5
<1> QED
  BY <1>3, <1>11, <1>12 DEF Oversized

(* The end of process_input.                                                *)
LEMMA ProcessEndPaced ==
    ASSUME Inv, Ends, Paced, ProcessEnd
    PROVE  Paced'
<1>1. UNCHANGED <<Inbox, Outbox, Status, store>>
  BY UnseenSteps
<1>2. /\ pc = "exec" /\ conn' = end_processing(conn) /\ UNCHANGED <<stream, sent, got, done>>
      /\ IF input_exhausted(end_processing(conn)) THEN Fail("input buffer limit")
         ELSE pc' = "flush" /\ reason' = reason
  BY DEF ProcessEnd, peerVars
<1>3. conn'.read_eof = conn.read_eof
  <2>1. conn' = end_processing(conn)
    BY <1>2
  <2> QED
    BY <2>1, InvFacts, EndProcessingFacts
<1>4. Oversized' = Oversized
  BY <1>2 DEF Oversized, AfterDone
<1>5. CASE input_exhausted(end_processing(conn))
  <2>1. pc = "exec" /\ pc' = "retire"
    BY <1>2, <1>5 DEF Fail
  <2>2. Oversized
    BY <1>5, <2>1, RefusalPaced
  <2>3. Unfailed'
    BY <2>1 DEF Unfailed
  <2>4. UNCHANGED <<stream, sent, got, done>>
    BY <1>2
  <2> QED
    BY <1>1, <1>3, <1>4, <2>1, <2>2, <2>3, <2>4, PacedHolds
<1>6. CASE ~input_exhausted(end_processing(conn))
  <2>1. pc = "exec" /\ pc' = "flush" /\ reason' = reason
    BY <1>2, <1>6
  <2>2. Unfailed' /\ ~Refused'
    BY <2>1, GoesOn DEF Paced
  <2>3. UNCHANGED <<stream, sent, got, done>>
    BY <1>2
  <2> QED
    BY <1>1, <1>3, <2>1, <2>2, <2>3, PacedHolds
<1> QED
  BY <1>5, <1>6

(* The end of a visit.                                                      *)
LEMMA FinishPaced ==
    ASSUME Inv, Ends, Paced, FinishDrained \/ FinishKeep \/ FinishUnmodified
    PROVE  Paced'
<1>1. /\ UNCHANGED <<Outbox, Status, store>>
      /\ pc = "finish" /\ pc' # "closed" /\ conn'.read_eof = conn.read_eof
      /\ \/ Inbox' = Inbox
         \/ conn.read_eof /\ Inbox' = <<>> /\ ~HasNewline(Inbox, 0)
  BY FinishMoves
<1>2. UNCHANGED <<stream, sent, got, done>>
  BY DEF FinishDrained, FinishKeep, FinishUnmodified, peerVars
<1>3. Unfailed' /\ ~Refused'
  <2>1. CASE FinishDrained
    <3>1. Fail("read EOF and output drained")
      BY <2>1 DEF FinishDrained
    <3> QED
      BY <3>1, OtherFailures
  <2>2. CASE FinishKeep
    <3>1. reason' = reason
      BY <2>2 DEF FinishKeep
    <3> QED
      BY <1>1, <3>1, GoesOn DEF Paced
  <2>3. CASE FinishUnmodified
    <3>1. Fail("interest update failed")
      BY <2>3 DEF FinishUnmodified
    <3> QED
      BY <3>1, OtherFailures
  <2> QED
    BY <2>1, <2>2, <2>3
<1> QED
  BY <1>1, <1>2, <1>3, PacedHolds

(* retire_client: a client lost here misses an end of its replies, and one
   that is answered leaves nothing behind (server.cpp:162-180).             *)
LEMMA RetirePaced ==
    ASSUME Inv, Ends, Paced, RetireClient
    PROVE  Paced'
<1>1. /\ store' = store /\ Answered' = Answered /\ pc = "retire" /\ pc' = "closed"
      /\ \/ UNCHANGED <<Outbox, Status>>
         \/ /\ Status' = "lost"
            /\ \E n \in 0..Len(Outbox) : Outbox' = SubSeq(Outbox, 1, n)
  BY RetireMoves
<1>2. UNCHANGED <<reason, fin, stream, sent, got, done>>
  BY DEF RetireClient, peerVars
<1>3. AfterDone' = AfterDone
  BY <1>2 DEF AfterDone
<1>4. Rest' = Rest /\ Oversized' = Oversized /\ Refused' = Refused
  BY <1>2, <1>3 DEF Rest, Oversized, Refused
<1>5. Unfailed' /\ Counted' /\ Taken'
  BY <1>1, <1>2, <1>3 DEF Paced, Unfailed, Counted, Taken
<1>6. Replied'
  <2>1. Outbox \in Seq(Byte) /\ got \in Seq(Byte)
    BY PacedFacts
  <2>2. /\ store = AfterDone.store /\ AfterDone.replies \in Seq(Byte)
        /\ IsPrefix(got \o Outbox, AfterDone.replies)
    BY DEF Paced, Replied
  <2>3. CASE UNCHANGED <<Outbox, Status>>
    BY <1>1, <1>2, <1>3, <2>3 DEF Paced, Replied
  <2>4. CASE /\ Status' = "lost"
             /\ \E n \in 0..Len(Outbox) : Outbox' = SubSeq(Outbox, 1, n)
    <3>1. PICK n \in 0..Len(Outbox) : Outbox' = SubSeq(Outbox, 1, n)
      BY <2>4
    <3>2. PICK a, b, c : /\ a = got \o SubSeq(Outbox, 1, n) /\ b = got \o Outbox
                         /\ c = AfterDone.replies
      OBVIOUS
    <3>3. a \in Seq(Byte) /\ IsPrefix(a, b)
      BY <2>1, <3>2, PrefixBehind
    <3>4. b \in Seq(Byte) /\ c \in Seq(Byte) /\ IsPrefix(b, c)
      BY <2>1, <2>2, <3>2, ConcatProperties
    <3>5. IsPrefix(a, c)
      BY <3>3, <3>4, PrefixTransitive
    <3>6. IsPrefix(got \o Outbox, AfterDone.replies)'
      BY <1>2, <1>3, <3>1, <3>2, <3>5
    <3> QED
      BY <1>1, <1>3, <2>2, <2>4, <3>6 DEF Replied
  <2> QED
    BY <1>1, <2>3, <2>4
<1>7. Left'
  <2> SUFFICES ASSUME Answered PROVE fin /\ ~HasNewline(Rest, 0)
    BY <1>1, <1>2, <1>4 DEF Left
  <2>1. conn.read_eof /\ fin /\ rx = <<>> /\ pending_input(conn) = <<>>
    BY <1>1 DEF Ends
  <2>2. Inbox = <<>>
    BY <1>1, <2>1, EmptySeq, ConcatEmptySeq DEF Inbox
  <2>3. ~HasNewline(<<>>, 0)
    BY EmptySeq DEF HasNewline
  <2> QED
    BY <1>1, <2>1, <2>2, <2>3 DEF Paced, Taken
<1> QED
  BY <1>4, <1>5, <1>6, <1>7 DEF Paced

(* One more byte arrives: the part after k grows by it.                     *)
LEMMA WindowGrows ==
    ASSUME NEW s \in Seq(Byte), NEW k \in Nat, NEW e \in Nat, k <= e, e < Len(s)
    PROVE  SubSeq(s, k + 1, e + 1) = SubSeq(s, k + 1, e) \o <<s[e + 1]>>
<1>1. Len(s) \in Nat
  BY LenProperties
<1>2. k + 1 \in 1..Len(s) /\ e + 1 \in (k + 1)..Len(s) /\ (e + 1) - 1 = e
  BY <1>1
<1>3. SubSeq(s, k + 1, e + 1) = SubSeq(s, k + 1, (e + 1) - 1) \o <<s[e + 1]>>
  BY <1>2, SubSeqRecursiveSecond
<1> QED
  BY <1>2, <1>3

(* Joining sequences of bytes is associative.                               *)
LEMMA Regroup ==
    ASSUME NEW a \in Seq(Byte), NEW b \in Seq(Byte), NEW c \in Seq(Byte)
    PROVE  (a \o b) \o c = a \o (b \o c)
  BY ConcatAssociative

(* A byte read is the next one of those that wait.                          *)
LEMMA ByteRead ==
    ASSUME NEW g \in Seq(Byte), NEW t \in Seq(Byte), t # <<>>, NEW o \in Seq(Byte)
    PROVE  /\ Append(g, Head(t)) \o Tail(t) = g \o t
           /\ Append(g, Head(t)) \o (Tail(t) \o o) = g \o (t \o o)
<1>1. PICK h, u : h = <<Head(t)>> /\ u = Tail(t)
  OBVIOUS
<1>2. u \in Seq(Byte) /\ h \in Seq(Byte)
  BY <1>1, HeadTailProperties
<1>3. t = h \o u
  <2>1. Len(t) \in Nat /\ 1 \in 1..Len(t) /\ Len(t) \in 1..Len(t) /\ 1 + 1 = 2
    BY LenProperties, EmptySeq
  <2>2. SubSeq(t, 1, Len(t)) = <<t[1]>> \o SubSeq(t, 1 + 1, Len(t))
    BY <2>1, SubSeqRecursiveFirst
  <2>3. SubSeq(t, 1, Len(t)) = t /\ u = SubSeq(t, 2, Len(t))
    BY <1>1, SubSeqFull, TailIsSubSeq
  <2>4. h = <<t[1]>>
    BY <1>1
  <2> QED
    BY <2>1, <2>2, <2>3, <2>4
<1>4. Append(g, Head(t)) = g \o h
  BY <1>1, HeadTailProperties, AppendIsConcat
<1>5. (g \o h) \o u = g \o t
  <2>1. (g \o h) \o u = g \o (h \o u)
    BY <1>2, Regroup
  <2> QED
    BY <1>3, <2>1
<1>6. (g \o h) \o (u \o o) = g \o (t \o o)
  <2>1. PICK uo : uo = u \o o
    OBVIOUS
  <2>2. uo \in Seq(Byte)
    BY <1>2, <2>1, ConcatProperties
  <2>3. (g \o h) \o uo = g \o (h \o uo)
    BY <1>2, <2>2, Regroup, Zenon
  <2>4. (h \o u) \o o = h \o (u \o o)
    BY <1>2, Regroup, Zenon
  <2> QED
    BY <1>3, <2>1, <2>3, <2>4
<1> QED
  BY <1>1, <1>4, <1>5, <1>6

(* A byte the peer sends is the next of the stream and of what is unread.   *)
LEMMA PeerSendPaced ==
    ASSUME Inv, Ends, Paced, PeerSend
    PROVE  Paced'
<1>1. /\ pc # "closed" /\ fin = FALSE /\ sent < Len(stream) /\ sent' = sent + 1
      /\ UNCHANGED <<conn, pc, reason, fin, stream, got, done>>
  BY DEF PeerSend, serverVars, Inv, TypeOK
<1>2. /\ Status' = Status /\ store' = store /\ Outbox' = Outbox
      /\ Inbox' = Inbox \o <<stream[sent + 1]>>
  <2>1. ~PeerShutdown /\ ~PeerRead /\ ~PeerReset
    <3>1. Len(rx) \in Nat /\ rx \in Seq(Byte) /\ rx' = Append(rx, stream[sent + 1])
      BY InvFacts DEF PeerSend, Inv, TypeOK
    <3>2. sent \in Nat
      BY DEF Inv, TypeOK
    <3>3. sent' # sent
      BY <1>1, <3>2
    <3> QED
      BY <3>3 DEF PeerShutdown, PeerRead, PeerReset, peerVars
  <2> QED
    BY <2>1, PeerMoves DEF Peer
<1>3. AfterDone' = AfterDone
  BY <1>1 DEF AfterDone
<1>4. /\ stream \in Seq(Byte) /\ Len(stream) \in Nat /\ sent \in Nat
      /\ done \in Nat /\ AfterDone.pos \in Nat
      /\ done <= AfterDone.pos /\ AfterDone.pos <= sent
  BY PacedFacts
<1>5. Rest' = Rest \o <<stream[sent + 1]>>
  <2>1. PICK k : k = AfterDone.pos
    OBVIOUS
  <2>2. SubSeq(stream, k + 1, sent + 1) = SubSeq(stream, k + 1, sent) \o <<stream[sent + 1]>>
    BY <1>1, <1>4, <2>1, WindowGrows
  <2> QED
    BY <1>1, <1>3, <2>1, <2>2 DEF Rest
<1>6. Inbox = Rest
  BY <1>1 DEF Paced, Taken, Ends
<1>7. Taken'
  BY <1>2, <1>5, <1>6 DEF Taken
<1>8. Counted'
  BY <1>1, <1>3, <1>4 DEF Counted
<1>9. Replied'
  BY <1>1, <1>2, <1>3 DEF Paced, Replied
<1>10. Refused' = Refused /\ Answered' = Answered
  BY <1>1 DEF Refused, Answered
<1>11. Unfailed' /\ Left'
  BY <1>1, <1>10 DEF Paced, Unfailed, Left
<1>12. Oversized => Oversized'
  BY <1>1, <1>3, <1>4, AllowanceAssumption DEF Oversized
<1> QED
  BY <1>7, <1>8, <1>9, <1>10, <1>11, <1>12 DEF Paced

(* The peer half-closes, reads or resets.                                   *)
LEMMA PeerOtherPaced ==
    ASSUME Inv, Ends, Paced, PeerShutdown \/ PeerRead \/ PeerReset
    PROVE  Paced'
<1>1. UNCHANGED <<conn, store, pc, reason, stream, sent, done>> /\ (fin => fin')
  BY DEF PeerShutdown, PeerRead, PeerReset, serverVars, peerVars
<1>2. AfterDone' = AfterDone
  BY <1>1 DEF AfterDone
<1>3. Rest' = Rest /\ Oversized' = Oversized /\ Refused' = Refused /\ Answered' = Answered
  BY <1>1, <1>2 DEF Rest, Oversized, Refused, Answered
<1>4. Unfailed' /\ Counted' /\ Left'
  BY <1>1, <1>2, <1>3 DEF Paced, Unfailed, Counted, Left
<1>5. rx' = rx
  BY DEF PeerShutdown, PeerRead, PeerReset
<1>6. Inbox' = Inbox
  BY <1>1, <1>5 DEF Inbox
<1>7. Taken'
  BY <1>1, <1>3, <1>6 DEF Paced, Taken
<1>8. /\ tx \in Seq(Byte) /\ pending_output(conn) \in Seq(Byte)
      /\ Outbox \in Seq(Byte) /\ got \in Seq(Byte)
  BY QueuesHold, PacedFacts
<1>9. Replied'
  <2>1. CASE got' \o Outbox' = got \o Outbox /\ (Status' # "lost" => Status # "lost")
    BY <1>1, <1>2, <2>1 DEF Paced, Replied
  <2>2. CASE PeerShutdown
    <3>1. UNCHANGED <<rst, tx, got>>
      BY <2>2 DEF PeerShutdown, peerVars
    <3>2. Lost' = Lost
      BY <1>1, <1>3, <3>1 DEF Lost
    <3>3. Outbox' = Outbox /\ (Status' = "lost" <=> Status = "lost")
      BY <1>1, <3>1, <3>2 DEF Outbox, Status
    <3> QED
      BY <2>1, <3>1, <3>3
  <2>3. CASE PeerRead
    <3>1. /\ tx # <<>> /\ got' = Append(got, Head(tx)) /\ tx' = Tail(tx)
          /\ UNCHANGED <<fin, rst>>
      BY <2>3 DEF PeerRead
    <3>2. Lost' = Lost
      BY <1>1, <1>3, <3>1 DEF Lost
    <3>3. Status' = Status
      BY <3>1, <3>2 DEF Status
    <3>4. PICK o : o = pending_output(conn)
      OBVIOUS
    <3>5. /\ Append(got, Head(tx)) \o Tail(tx) = got \o tx
          /\ Append(got, Head(tx)) \o (Tail(tx) \o o) = got \o (tx \o o)
      BY <1>8, <3>1, <3>4, ByteRead
    <3>6. /\ Outbox = IF Lost THEN tx ELSE tx \o o
          /\ Outbox' = IF Lost THEN Tail(tx) ELSE Tail(tx) \o o
      BY <1>1, <3>1, <3>2, <3>4 DEF Outbox
    <3>7. got' \o Outbox' = got \o Outbox
      BY <3>1, <3>5, <3>6
    <3> QED
      BY <2>1, <3>3, <3>7
  <2>4. CASE PeerReset
    <3>1. rst' = TRUE /\ tx' = <<>> /\ got' = got
      BY <2>4 DEF PeerReset, peerVars
    <3>2. Lost'
      BY <3>1 DEF Lost
    <3>3. Outbox' = <<>> /\ Status' = "lost"
      BY <3>1, <3>2 DEF Outbox, Status
    <3>4. PICK b, c : b = got \o Outbox /\ c = AfterDone.replies
      OBVIOUS
    <3>5. c \in Seq(Byte) /\ IsPrefix(b, c)
      BY <3>4 DEF Paced, Replied
    <3>6. b \in Seq(Byte) /\ IsPrefix(got, b)
      BY <1>8, <3>4, PrefixOfJoin
    <3>7. IsPrefix(got, c)
      BY <1>8, <3>5, <3>6, PrefixTransitive
    <3>8. got \o <<>> = got
      BY <1>8, ConcatEmptySeq
    <3>9. got' \o Outbox' = got
      BY <3>1, <3>3, <3>8
    <3> QED
      BY <1>1, <1>2, <3>3, <3>4, <3>5, <3>7, <3>9 DEF Paced, Replied
  <2> QED
    BY <2>2, <2>3, <2>4
<1> QED
  BY <1>3, <1>4, <1>7, <1>9 DEF Paced

(* The frame that process_input executes is the reference's next one
   (connection.cpp:48-82).                                                  *)
LEMMA FrameIsNext ==
    ASSUME Inv, Ends, Paced, ExecFrame, NEW m, NEW line, ExecutesLine(m, line)
    PROVE  /\ AfterDone' = Past(AfterDone, line, AfterDone.pos + m)
           /\ m \in Nat /\ m >= 1 /\ AfterDone.pos + m <= sent
           /\ Inbox' = SubSeq(stream, (AfterDone.pos + m) + 1, sent)
<1>1. FirstLine(Inbox, m, line, Inbox') /\ pc = "exec"
  BY ExecFrameMoves DEF ExecutesLine
<1>2. done' = done + 1 /\ stream' = stream
  BY DEF ExecFrame, peerVars
<1>3. /\ stream \in Seq(Byte) /\ Len(stream) \in Nat /\ sent \in Nat
      /\ sent <= Len(stream) /\ done \in Nat /\ AfterDone.pos \in Nat
      /\ done <= AfterDone.pos /\ AfterDone.pos <= sent
  BY PacedFacts
<1>4. Inbox = Rest
  <2>1. m \in 1..Len(Inbox)
    BY <1>1 DEF FirstLine
  <2>2. Inbox # <<>>
    BY <2>1, EmptySeq
  <2> QED
    BY <1>1, <2>2 DEF Paced, Taken
<1>5. PICK s, k, e, w, z, r, p, n :
          /\ s = stream /\ k = AfterDone.pos /\ e = sent /\ w = Inbox /\ z = Inbox'
          /\ r = Reference(stream) /\ p = AfterDone /\ n = k + m
  OBVIOUS
<1>6. IsWindow(w, s, k, e) /\ FirstLine(w, m, line, z)
  BY <1>1, <1>3, <1>4, <1>5 DEF IsWindow, Rest
<1>7. /\ m \in Nat /\ m >= 1 /\ k + m <= e /\ IsNewline(s, k, k + m)
      /\ line = SubSeq(s, k + 1, (k + m) - 1) /\ z = SubSeq(s, (k + m) + 1, e)
  BY <1>6, WindowLine
<1>8. p.pos = k /\ p = r[done] /\ r = Reference(s)
  BY <1>5 DEF AfterDone
<1>9. Served(s, p) = Past(p, line, n)
  <2>1. Len(s) \in Nat /\ p.pos \in Nat /\ IsNewline(s, p.pos, n)
    BY <1>3, <1>5, <1>7, <1>8
  <2>2. line = SubSeq(s, p.pos + 1, n - 1)
    BY <1>5, <1>7, <1>8
  <2> QED
    BY <2>1, <2>2, ServedLine
<1>10. r[done + 1] = Served(s, p)
  <2>1. Len(s) \in Nat /\ \A j \in 1..Len(s) : r[j] = Served(s, r[j - 1])
    BY <1>3, <1>5, <1>8, ReferenceSteps
  <2>2. done + 1 \in 1..Len(s) /\ (done + 1) - 1 = done
    BY <1>3, <1>5, <1>7
  <2>3. r[done + 1] = Served(s, r[(done + 1) - 1])
    BY <2>1, <2>2
  <2> QED
    BY <1>8, <2>2, <2>3
<1>11. AfterDone' = r[done + 1]
  BY <1>2, <1>5 DEF AfterDone
<1> QED
  BY <1>5, <1>7, <1>9, <1>10, <1>11

(* So executing a frame and queueing its reply keeps the pace.              *)
LEMMA ExecPaced ==
    ASSUME Inv, Ends, Paced, ExecFrame
    PROVE  Paced'
<1>1. Status' = Status /\ pc = "exec" /\ pc' = "exec" /\ reason' = reason
  BY ExecFrameMoves
<1>2. UNCHANGED <<stream, sent, got>> /\ done' = done + 1
  BY DEF ExecFrame, peerVars
<1>3. PICK m, line : ExecutesLine(m, line)
  BY ExecFrameMoves
<1>4. PICK text : text = Answer(line, store).text
  OBVIOUS
<1>5. /\ text \in Text /\ store' = Answer(line, store).store
      /\ Outbox' = IF Status = "lost" THEN Outbox ELSE Outbox \o Append(text, NL)
  BY <1>3, <1>4 DEF ExecutesLine
<1>6. /\ AfterDone' = Past(AfterDone, line, AfterDone.pos + m)
      /\ m \in Nat /\ m >= 1 /\ AfterDone.pos + m <= sent
      /\ Inbox' = SubSeq(stream, (AfterDone.pos + m) + 1, sent)
  BY <1>3, FrameIsNext
<1>7. /\ store = AfterDone.store /\ AfterDone.replies \in Seq(Byte)
      /\ IsPrefix(got \o Outbox, AfterDone.replies)
      /\ Status # "lost" => got \o Outbox = AfterDone.replies
  BY DEF Paced, Replied
<1>8. /\ AfterDone'.pos = AfterDone.pos + m /\ AfterDone'.store = store'
      /\ AfterDone'.replies = AfterDone.replies \o Append(text, NL)
  BY <1>4, <1>5, <1>6, <1>7 DEF Past
<1>9. Counted'
  <2>1. done \in Nat /\ AfterDone.pos \in Nat /\ done <= AfterDone.pos
    BY PacedFacts
  <2>2. done' \in Nat /\ AfterDone'.pos \in Nat /\ done' <= AfterDone'.pos
    BY <1>2, <1>6, <1>8, <2>1
  <2> QED
    BY <1>2, <1>6, <1>8, <2>2 DEF Counted
<1>10. Taken'
  BY <1>2, <1>6, <1>8 DEF Taken, Rest
<1>11. Replied'
  <2>1. PICK g, o, a, b, c : /\ g = got /\ o = Outbox /\ a = AfterDone.replies
                             /\ b = Append(text, NL) /\ c = a \o b
    OBVIOUS
  <2>2. g \in Seq(Byte) /\ o \in Seq(Byte) /\ a \in Seq(Byte) /\ b \in Seq(Byte)
    BY <1>5, <1>7, <2>1, PacedFacts, TextFacts
  <2>3. c \in Seq(Byte) /\ IsPrefix(a, c)
    BY <2>1, <2>2, PrefixOfJoin
  <2>4. g \o o \in Seq(Byte) /\ IsPrefix(g \o o, a)
    BY <1>7, <2>1, <2>2, ConcatProperties
  <2>5. CASE Status = "lost"
    <3>1. PICK d : d = g \o o
      OBVIOUS
    <3>2. IsPrefix(d, c)
      BY <2>2, <2>3, <2>4, <3>1, PrefixTransitive
    <3>3. got' \o Outbox' = d /\ AfterDone'.replies = c
      BY <1>2, <1>5, <1>8, <2>1, <2>5, <3>1
    <3> QED
      BY <1>1, <1>8, <2>3, <2>5, <3>2, <3>3 DEF Replied
  <2>6. CASE Status # "lost"
    <3>1. g \o o = a
      BY <1>7, <2>1, <2>6
    <3>2. (g \o o) \o b = g \o (o \o b)
      BY <2>2, Regroup
    <3>3. got' \o Outbox' = c /\ AfterDone'.replies = c
      BY <1>2, <1>5, <1>8, <2>1, <2>6, <3>1, <3>2
    <3>4. IsPrefix(c, c)
      BY <2>3, PrefixMeans, LenProperties
    <3> QED
      BY <1>8, <2>3, <3>3, <3>4 DEF Replied
  <2> QED
    BY <2>5, <2>6
<1>12. Unfailed' /\ ~Refused'
  BY <1>1, GoesOn DEF Paced
<1>13. Left'
  BY <1>1 DEF Left
<1> QED
  BY <1>9, <1>10, <1>11, <1>12, <1>13 DEF Paced

(* Every step keeps the pace.                                               *)
LEMMA StepPaced ==
    ASSUME Inv, Ends, Paced, [Next]_vars
    PROVE  Paced'
<1>1. CASE \/ Scan \/ Wait \/ RecvInterrupted \/ RecvError \/ RecvStop
           \/ ProcessBegin \/ SendInterrupted \/ SendError \/ SendStop
  BY <1>1, QuietPaced
<1>2. CASE RecvBytes \/ RecvEof \/ SendBytes
  BY <1>2, MovePaced
<1>3. CASE ProcessEnd
  BY <1>3, ProcessEndPaced
<1>4. CASE ExecFrame
  BY <1>4, ExecPaced
<1>5. CASE FinishDrained \/ FinishKeep \/ FinishUnmodified
  BY <1>5, FinishPaced
<1>6. CASE RetireClient
  BY <1>6, RetirePaced
<1>7. CASE PeerSend
  BY <1>7, PeerSendPaced
<1>8. CASE PeerShutdown \/ PeerRead \/ PeerReset
  BY <1>8, PeerOtherPaced
<1>9. CASE UNCHANGED vars
  <2>1. UNCHANGED <<conn, store, pc, reason, rx, fin, rst, tx, stream, sent, got, done>>
    BY <1>9 DEF vars, serverVars, kernelVars, peerVars
  <2>2. AfterDone' = AfterDone /\ Answered' = Answered /\ Refused' = Refused
    BY <2>1 DEF AfterDone, Answered, Refused
  <2>3. Rest' = Rest /\ Oversized' = Oversized /\ Lost' = Lost
    BY <2>1, <2>2 DEF Rest, Oversized, Lost
  <2>4. UNCHANGED <<Inbox, Outbox, Status>>
    BY <2>1, <2>3 DEF Inbox, Outbox, Status
  <2>5. Unfailed' /\ Counted' /\ Left'
    BY <2>1, <2>2, <2>3 DEF Paced, Unfailed, Counted, Left
  <2>6. Replied' /\ Taken'
    BY <2>1, <2>2, <2>3, <2>4 DEF Paced, Replied, Taken
  <2> QED
    BY <2>2, <2>3, <2>5, <2>6 DEF Paced
<1> QED
  BY <1>1, <1>2, <1>3, <1>4, <1>5, <1>6, <1>7, <1>8, <1>9 DEF Next, Server, Visit, Peer

(* A session that starts has executed nothing.                              *)
LEMMA InitPaced == Init => Paced
<1> SUFFICES ASSUME Init PROVE Paced
  OBVIOUS
<1>1. /\ pc = "scan" /\ store = EmptyStore /\ rx = <<>> /\ tx = <<>> /\ got = <<>>
      /\ conn = NewConnection /\ sent = 0 /\ done = 0
  BY DEF Init
<1>2. stream \in Seq(Byte)
  BY SessionAssumption DEF Init
<1>3. AfterDone = Start
  BY <1>1, <1>2, ReferenceSteps DEF AfterDone
<1>4. AfterDone.pos = 0 /\ AfterDone.store = EmptyStore /\ AfterDone.replies = <<>>
  BY <1>3 DEF Start
<1>5. pending_input(conn) = <<>> /\ pending_output(conn) = <<>>
  <2>1. /\ Sound(NewConnection) /\ pending_output_bytes(NewConnection) = 0
    BY NewConnectionSound DEF has_pending_output
  <2>2. pending_input_bytes(NewConnection) = 0
    BY EmptySeq DEF NewConnection, pending_input_bytes
  <2> QED
    BY <1>1, <2>1, <2>2, PendingBytes
<1>6. <<>> \o <<>> = <<>>
  BY EmptySeq, ConcatEmptySeq
<1>7. Inbox = <<>> /\ Outbox = <<>>
  BY <1>1, <1>5, <1>6 DEF Inbox, Outbox
<1>8. Rest = <<>>
  BY <1>1, <1>4, SubSeqEmpty DEF Rest
<1>9. ~Refused /\ ~Answered
  BY DEF Init, Refused, Answered
<1>10. <<>> \in Seq(Byte) /\ IsPrefix(<<>>, <<>>)
  <2>1. PICK s : s = <<>>
    OBVIOUS
  <2>2. s \in Seq(Byte) /\ Len(s) = 0
    BY <2>1, EmptySeq
  <2>3. IsPrefix(s, s)
    BY <2>2 DEF IsPrefix
  <2> QED
    BY <2>1, <2>2, <2>3
<1>11. Replied
  BY <1>1, <1>4, <1>6, <1>7, <1>10 DEF Replied
<1>12. Counted
  BY <1>1, <1>4 DEF Counted
<1> QED
  BY <1>1, <1>7, <1>8, <1>9, <1>11, <1>12 DEF Paced, Unfailed, Taken, Left

(* A session keeps pace with the reference, at every point of every visit.  *)
THEOREM PaceKept == Spec => []Paced
  BY InitPaced, StepPaced, Invariance, EndsInvariance, PTL DEF Spec

-----------------------------------------------------------------------------
(* What one client may rely on                                              *)

(* For all streams, budgets, watermarks and buffer sizes, the frames are
   executed in order, once each, and every reply byte is delivered in order,
   once: what the peer has read, what the kernel holds and what the session
   still holds are the reference's replies (connection.cpp:43-82,
   104-110).                                                                *)
THEOREM ExactlyOnce == Spec => []RepliesExactlyOnce
<1>1. Inv /\ Paced => RepliesExactlyOnce
  <2> SUFFICES ASSUME Inv, Paced PROVE RepliesExactlyOnce
    OBVIOUS
  <2>1. /\ store = AfterDone.store /\ AfterDone.replies \in Seq(Byte)
        /\ IsPrefix(got \o Outbox, AfterDone.replies)
        /\ Status # "lost" => got \o Outbox = AfterDone.replies
    BY DEF Paced, Replied
  <2>2. PICK g, t, o : g = got /\ t = tx /\ o = pending_output(conn)
    OBVIOUS
  <2>3. g \in Seq(Byte) /\ t \in Seq(Byte) /\ o \in Seq(Byte)
    BY <2>2, PacedFacts, QueuesHold
  <2>4. CASE Lost
    <3>1. Outbox = tx
      BY <2>4 DEF Outbox
    <3> QED
      BY <2>1, <2>4, <3>1 DEF RepliesExactlyOnce
  <2>5. CASE ~Lost
    <3>1. Outbox = t \o o /\ Status # "lost"
      BY <2>2, <2>5 DEF Outbox, Status
    <3>2. (g \o t) \o o = g \o (t \o o)
      BY <2>3, Regroup
    <3>3. PICK a : a = g \o t
      OBVIOUS
    <3>4. a \in Seq(Byte)
      BY <2>3, <3>3, ConcatProperties
    <3>5. IsPrefix(a, a \o o)
      BY <2>3, <3>4, PrefixOfJoin
    <3>6. a \o o = AfterDone.replies
      BY <2>1, <2>2, <3>1, <3>2, <3>3
    <3> QED
      BY <2>1, <2>2, <3>3, <3>5, <3>6 DEF RepliesExactlyOnce
  <2> QED
    BY <2>4, <2>5
<1> QED
  BY <1>1, Invariance, PaceKept, PTL

(* No byte that arrives is skipped, replayed or reordered on its way to the
   parser, however recv cuts the stream (server.cpp:85-106, 142-145).       *)
THEOREM Conserved == Spec => []InputConserved
<1>1. Inv /\ Ends /\ Paced => InputConserved
  <2> SUFFICES ASSUME Inv, Ends, Paced, pc # "closed"
               PROVE  \/ pending_input(conn) \o rx = Rest
                      \/ /\ conn.read_eof /\ fin /\ pending_input(conn) = <<>> /\ rx = <<>>
                         /\ ~HasNewline(Rest, 0)
    BY DEF InputConserved, Rest
  <2>1. Inbox = pending_input(conn) \o rx /\ pending_input(conn) \in Seq(Byte)
    BY QueuesHold DEF Inbox
  <2>2. CASE Inbox = Rest
    BY <2>1, <2>2
  <2>3. CASE conn.read_eof /\ Inbox = <<>> /\ ~HasNewline(Rest, 0)
    <3>1. fin /\ rx = <<>>
      BY <2>3 DEF Ends
    <3>2. pending_input(conn) = <<>>
      BY <2>1, <2>3, <3>1, ConcatEmptySeq
    <3> QED
      BY <2>3, <3>1, <3>2
  <2> QED
    BY <2>2, <2>3 DEF Paced, Taken
<1> QED
  BY <1>1, Invariance, EndsInvariance, PaceKept, PTL

(* Only a frame that does not fit the allowance is refused, however it is
   fragmented (server.cpp:87-99, connection.cpp:84-91).                     *)
THEOREM OnlyOversized == Spec => []RejectsOnlyOversized
<1>1. Paced => RejectsOnlyOversized
  BY DEF Paced, Refused, Oversized, RejectsOnlyOversized
<1> QED
  BY <1>1, PaceKept, PTL

(* A half-closed connection that is retired as drained has executed and
   answered every complete frame of what arrived (server.cpp:102-106,
   142-149).                                                                *)
THEOREM DrainedAnswered == Spec => []DrainedMeansAnswered
<1>1. Inv /\ Ends /\ Paced => DrainedMeansAnswered
  <2> SUFFICES ASSUME Inv, Ends, Paced, Answered
               PROVE  /\ fin /\ store = AfterAll.store
                      /\ ~Lost => got \o tx = AfterAll.replies
    BY DEF DrainedMeansAnswered, Answered
  <2>1. pc \in {"retire", "closed"}
    BY DEF Paced, Unfailed
  <2>2. fin /\ ~HasNewline(Rest, 0) /\ pending_output(conn) = <<>>
    <3>1. CASE pc = "closed"
      <4>1. conn = NewConnection
        BY <3>1 DEF Ends
      <4>2. pending_output(NewConnection) = <<>>
        BY NewConnectionSound, PendingBytes DEF has_pending_output
      <4> QED
        BY <3>1, <4>1, <4>2 DEF Paced, Left
    <3>2. CASE pc = "retire"
      <4>1. /\ conn.read_eof /\ fin /\ rx = <<>>
            /\ pending_input(conn) = <<>> /\ pending_output(conn) = <<>>
        BY <3>2 DEF Ends
      <4>2. Inbox = <<>>
        BY <3>2, <4>1, EmptySeq, ConcatEmptySeq DEF Inbox
      <4>3. ~HasNewline(<<>>, 0)
        BY EmptySeq DEF HasNewline
      <4> QED
        BY <3>2, <4>1, <4>2, <4>3 DEF Paced, Taken
    <3> QED
      BY <2>1, <3>1, <3>2
  <2>3. /\ stream \in Seq(Byte) /\ Len(stream) \in Nat /\ sent \in Nat
        /\ sent <= Len(stream) /\ done \in Nat /\ AfterDone.pos \in Nat
        /\ done <= AfterDone.pos /\ AfterDone.pos <= sent
    BY PacedFacts
  <2>4. AfterAll = AfterDone
    <3>1. PICK s, e, t, r, q, n, k :
              /\ s = stream /\ e = sent /\ t = SubSeq(s, 1, e) /\ r = Reference(s)
              /\ q = Reference(t) /\ n = done /\ k = AfterDone.pos
      OBVIOUS
    <3>2. /\ s \in Seq(Byte) /\ e \in Nat /\ e <= Len(s) /\ t = SubSeq(s, 1, e)
          /\ r = Reference(s) /\ q = Reference(t) /\ n \in 0..e
          /\ k \in Nat /\ k <= e /\ r[n].pos = k
      BY <2>3, <3>1 DEF AfterDone
    <3>3. q[n] = r[n]
      <4>1. References(s, e, r, q) /\ r[n].pos <= e
        BY <3>2 DEF References
      <4> QED
        BY <3>2, <4>1, ReferencePrefix
    <3>4. /\ t \in Seq(Byte) /\ Len(t) = e
          /\ SubSeq(s, k + 1, e) = SubSeq(t, k + 1, Len(t))
      BY <3>2, Window
    <3>5. ~HasNewline(SubSeq(t, k + 1, Len(t)), 0)
      BY <2>2, <3>1, <3>4 DEF Rest
    <3>6. ~HasNewline(t, q[n].pos)
      <4>1. t \in Seq(Byte) /\ k \in Nat /\ k <= Len(t) /\ q[n].pos = k
        BY <3>2, <3>3, <3>4
      <4>2. ~HasNewline(t, k)
        BY <3>5, <4>1, SuffixFacts
      <4> QED
        BY <4>1, <4>2
    <3>7. q[Len(t)] = q[n]
      <4>1. t \in Seq(Byte) /\ q = Reference(t) /\ n \in 0..Len(t)
        BY <3>2, <3>4
      <4> QED
        BY <3>6, <4>1, ReferenceEnds
    <3> QED
      BY <3>1, <3>3, <3>4, <3>7 DEF AfterAll, AfterDone, Arrived
  <2>5. store = AfterDone.store /\ (Status # "lost" => got \o Outbox = AfterDone.replies)
    BY DEF Paced, Replied
  <2>6. ASSUME ~Lost PROVE got \o tx = AfterDone.replies
    <3>1. tx \in Seq(Byte)
      BY QueuesHold
    <3>2. Outbox = tx /\ Status # "lost"
      BY <2>2, <2>6, <3>1, ConcatEmptySeq DEF Outbox, Status
    <3> QED
      BY <2>5, <3>2
  <2> QED
    BY <2>2, <2>4, <2>5, <2>6
<1> QED
  BY <1>1, Invariance, EndsInvariance, PaceKept, PTL
=============================================================================
