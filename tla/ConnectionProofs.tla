-------------------------- MODULE ConnectionProofs --------------------------
(***************************************************************************)
(* What the operators of Connection return and preserve, for every         *)
(* alphabet, allowance and watermark.                                      *)
(***************************************************************************)
EXTENDS Connection, ProtocolProofs

-----------------------------------------------------------------------------
Sound(c) == c \in ConnectionType /\ WithinBounds(c)

(* output_paused agrees with the watermarks wherever they decide.           *)
Settled(c) ==
    /\ pending_output_bytes(c) >= kOutputHighWater => c.output_paused
    /\ pending_output_bytes(c) <= kOutputLowWater => ~c.output_paused

(* A new connection is sound and holds nothing.                             *)
LEMMA NewConnectionSound ==
    /\ Sound(NewConnection) /\ Settled(NewConnection)
    /\ ~has_complete_frame(NewConnection)
    /\ can_read(NewConnection) /\ ~has_pending_output(NewConnection)
<1>1. NewConnection \in ConnectionType
    BY EmptySeq DEF NewConnection, ConnectionType
<1>2. Len(<<>>) = 0
    BY EmptySeq
<1> QED
    BY <1>1, <1>2, AllowanceAssumption, WatermarkAssumption
    DEF Sound, WithinBounds, Settled, NewConnection, has_complete_frame, HasNewline,
        can_read, has_pending_output, pending_output_bytes, pending_input_bytes

(* The arithmetic of a sound connection stays in Nat: none of the size_t
   subtractions wraps.                                                      *)
LEMMA PendingFacts ==
    ASSUME NEW c, Sound(c)
    PROVE  /\ Len(c.input_buffer) \in Nat /\ Len(c.output_buffer) \in Nat
           /\ c.input_cursor \in Nat /\ c.output_cursor \in Nat
           /\ c.input_buffer \in Seq(Byte) /\ c.output_buffer \in Seq(Byte)
           /\ c.read_eof \in BOOLEAN /\ c.output_paused \in BOOLEAN
           /\ pending_input_bytes(c) \in 0..kMaxInputBytes
           /\ pending_output_bytes(c) \in 0..kMaxOutputBytes
<1>1. /\ c.input_cursor \in Nat /\ c.output_cursor \in Nat
      /\ c.input_buffer \in Seq(Byte) /\ c.output_buffer \in Seq(Byte)
      /\ c.read_eof \in BOOLEAN /\ c.output_paused \in BOOLEAN
    BY DEF Sound, ConnectionType
<1>2. Len(c.input_buffer) \in Nat /\ Len(c.output_buffer) \in Nat
    BY <1>1, LenProperties
<1> QED
    BY <1>1, <1>2, AllowanceAssumption, WatermarkAssumption
    DEF Sound, WithinBounds, pending_input_bytes, pending_output_bytes

(* update_backpressure touches the flag only, settles it, and leaves a
   settled connection alone (connection.hpp:94-104).                        *)
LEMMA BackpressureFacts ==
    ASSUME NEW c, Sound(c)
    PROVE  LET u == update_backpressure(c) IN
           /\ Sound(u) /\ Settled(u)
           /\ u.input_buffer = c.input_buffer /\ u.input_cursor = c.input_cursor
           /\ u.output_buffer = c.output_buffer /\ u.output_cursor = c.output_cursor
           /\ u.read_eof = c.read_eof
           /\ Settled(c) => u.output_paused = c.output_paused
<1> DEFINE u == update_backpressure(c)
           flag == IF pending_output_bytes(c) >= kOutputHighWater THEN TRUE
                   ELSE IF pending_output_bytes(c) <= kOutputLowWater THEN FALSE
                   ELSE c.output_paused
<1>1. u = [c EXCEPT !.output_paused = flag]
    BY DEF update_backpressure
<1>2. flag \in BOOLEAN
    BY PendingFacts
<1>3. c \in ConnectionType
    BY DEF Sound
<1> HIDE DEF flag, u
<1>4. /\ u \in ConnectionType
      /\ u.input_buffer = c.input_buffer /\ u.input_cursor = c.input_cursor
      /\ u.output_buffer = c.output_buffer /\ u.output_cursor = c.output_cursor
      /\ u.read_eof = c.read_eof /\ u.output_paused = flag
    BY <1>1, <1>2, <1>3 DEF ConnectionType
<1>5. Sound(u)
    BY <1>4 DEF Sound, WithinBounds
<1>6. pending_output_bytes(u) = pending_output_bytes(c)
    BY <1>4 DEF pending_output_bytes
<1>7. pending_output_bytes(c) \in Int
    BY PendingFacts
<1>8. Settled(u)
    BY <1>4, <1>6, <1>7, WatermarkAssumption DEF Settled, flag
<1>9. Settled(c) => u.output_paused = c.output_paused
    BY <1>4, <1>7, PendingFacts, WatermarkAssumption DEF Settled, flag
<1> QED
    BY <1>4, <1>5, <1>8, <1>9 DEF u

(* append_input keeps the caps whatever it is given, moves the unconsumed
   input to the front, and touches nothing else (connection.cpp:16-34).     *)
LEMMA AppendFacts ==
    ASSUME NEW c, Sound(c), NEW bytes \in Seq(Byte)
    PROVE  LET a == append_input(c, bytes) IN
           /\ Sound(a)
           /\ a.input_cursor = 0
           /\ a.input_buffer = IF input_fits(c, bytes) THEN pending_input(c) \o bytes
                                                      ELSE pending_input(c)
           /\ a.output_buffer = c.output_buffer /\ a.output_cursor = c.output_cursor
           /\ a.read_eof = c.read_eof /\ a.output_paused = c.output_paused
           /\ input_fits(c, bytes) <=>
                 Len(bytes) <= kMaxInputBytes - pending_input_bytes(c)
<1> DEFINE k == compact_input(c)
           a == append_input(c, bytes)
           rest == pending_input(c)
           joined == IF input_fits(c, bytes) THEN rest \o bytes ELSE rest
<1>1. rest \in Seq(Byte) /\ Len(rest) = pending_input_bytes(c)
    BY PendingFacts, SuffixFacts DEF pending_input, pending_input_bytes, Sound, WithinBounds
<1>2. c \in ConnectionType
    BY DEF Sound
<1>3. k = [c EXCEPT !.input_buffer = rest, !.input_cursor = 0]
    BY DEF compact_input
<1>4. input_fits(c, bytes) <=> Len(bytes) <= kMaxInputBytes - Len(k.input_buffer)
    BY DEF input_fits
<1>5. a = IF input_fits(c, bytes) THEN [k EXCEPT !.input_buffer = k.input_buffer \o bytes]
                                  ELSE k
    BY DEF append_input
<1> HIDE DEF k, a, rest
<1>6. k \in ConnectionType /\ k.input_buffer = rest /\ k.input_cursor = 0
      /\ k.output_buffer = c.output_buffer /\ k.output_cursor = c.output_cursor
      /\ k.read_eof = c.read_eof /\ k.output_paused = c.output_paused
    BY <1>1, <1>2, <1>3 DEF ConnectionType
<1>7. /\ rest \o bytes \in Seq(Byte)
      /\ Len(rest \o bytes) = Len(rest) + Len(bytes)
      /\ Len(bytes) \in Nat
    BY <1>1, ConcatProperties, LenProperties
<1>8. a \in ConnectionType /\ a.input_buffer = joined /\ a.input_cursor = 0
      /\ a.output_buffer = c.output_buffer /\ a.output_cursor = c.output_cursor
      /\ a.read_eof = c.read_eof /\ a.output_paused = c.output_paused
    BY <1>5, <1>6, <1>7 DEF ConnectionType
<1>9. Len(joined) \in Nat /\ Len(joined) <= kMaxInputBytes
    BY <1>1, <1>4, <1>6, <1>7, PendingFacts, AllowanceAssumption
<1>10. Sound(a)
    BY <1>8, <1>9 DEF Sound, WithinBounds
<1> QED
    BY <1>1, <1>4, <1>6, <1>8, <1>10 DEF a, rest

(* The part of process_input before its loop: the input keeps its frames,
   the sent prefix of the output goes, and the flag is settled
   (connection.cpp:36-48).                                                  *)
LEMMA BeginFacts ==
    ASSUME NEW c, Sound(c)
    PROVE  LET b == begin_processing(c) IN
           /\ Sound(b) /\ Settled(b)
           /\ b.input_cursor = 0 /\ b.input_buffer = pending_input(c)
           /\ b.output_cursor = 0 /\ b.output_buffer = pending_output(c)
           /\ b.read_eof = c.read_eof
           /\ has_complete_frame(b) <=> has_complete_frame(c)
           /\ Settled(c) => b.output_paused = c.output_paused
<1> DEFINE a == append_input(c, <<>>)
           r == reclaim_output(a)
           b == begin_processing(c)
           in == pending_input(c)
           out == pending_output(c)
<1>1. /\ in \in Seq(Byte) /\ Len(in) = pending_input_bytes(c)
      /\ HasNewline(in, 0) <=> has_complete_frame(c)
    BY PendingFacts, SuffixFacts
    DEF pending_input, pending_input_bytes, has_complete_frame, Sound, WithinBounds
<1>2. out \in Seq(Byte) /\ Len(out) = pending_output_bytes(c)
    BY PendingFacts, SuffixFacts
    DEF pending_output, pending_output_bytes, Sound, WithinBounds
<1>3. <<>> \in Seq(Byte) /\ in \o <<>> = in
    BY <1>1, EmptySeq, ConcatEmptySeq
<1>4. /\ Sound(a) /\ a.input_cursor = 0 /\ a.input_buffer = in
      /\ a.output_buffer = c.output_buffer /\ a.output_cursor = c.output_cursor
      /\ a.read_eof = c.read_eof /\ a.output_paused = c.output_paused
    BY <1>3, AppendFacts
<1>5. pending_output(a) = out
    BY <1>4 DEF pending_output
<1>6. r = [a EXCEPT !.output_buffer = out, !.output_cursor = 0]
    BY <1>5 DEF reclaim_output
<1>7. b = update_backpressure(r)
    BY DEF begin_processing
<1> HIDE DEF a, r, b, in, out
<1>8. /\ r \in ConnectionType /\ r.input_cursor = 0 /\ r.input_buffer = in
      /\ r.output_cursor = 0 /\ r.output_buffer = out
      /\ r.read_eof = c.read_eof /\ r.output_paused = c.output_paused
    BY <1>2, <1>4, <1>6 DEF Sound, ConnectionType
<1>9. Sound(r)
    BY <1>1, <1>2, <1>8, PendingFacts DEF Sound, WithinBounds
<1>10. pending_output_bytes(r) = pending_output_bytes(c)
    BY <1>2, <1>8, PendingFacts DEF pending_output_bytes
<1>11. Settled(c) => Settled(r)
    BY <1>8, <1>10 DEF Settled
<1>12. /\ Sound(b) /\ Settled(b)
       /\ b.input_cursor = 0 /\ b.input_buffer = in
       /\ b.output_cursor = 0 /\ b.output_buffer = out
       /\ b.read_eof = c.read_eof
       /\ Settled(c) => b.output_paused = c.output_paused
    BY <1>7, <1>8, <1>9, <1>11, BackpressureFacts
<1>13. has_complete_frame(b) <=> has_complete_frame(c)
    BY <1>1, <1>12 DEF has_complete_frame
<1> QED
    BY <1>12, <1>13 DEF b, in, out

(* A frame of a sound connection is a text shorter than the allowance.      *)
LEMMA FrameFacts ==
    ASSUME NEW c, Sound(c), NEW newline \in Nat,
           IsNewline(c.input_buffer, c.input_cursor, newline)
    PROVE  /\ frame_at(c, newline) \in Text
           /\ Len(frame_at(c, newline)) < kMaxInputBytes
<1> DEFINE s == c.input_buffer
           n == c.input_cursor
<1>1. /\ s \in Seq(Byte) /\ Len(s) \in Nat /\ n \in Nat
      /\ Len(s) <= kMaxInputBytes
    BY PendingFacts DEF Sound, WithinBounds
<1>2. /\ newline \in (n + 1)..Len(s)
      /\ \A j \in (n + 1)..(newline - 1) : s[j] # NL
    BY DEF IsNewline
<1>3. \A j \in (n + 1)..(newline - 1) : s[j] \in Byte
    BY <1>1, <1>2, ElementOfSeq
<1>4. \A j \in (n + 1)..(newline - 1) : s[j] \in Char
    BY <1>2, <1>3 DEF Char
<1> HIDE DEF s, n
<1>5. /\ SubSeq(s, n + 1, newline - 1) \in Seq(Char)
      /\ Len(SubSeq(s, n + 1, newline - 1)) =
            IF n + 1 <= newline - 1 THEN (newline - 1) - (n + 1) + 1 ELSE 0
    BY <1>1, <1>4, SubSeqProperties
<1>6. Len(SubSeq(s, n + 1, newline - 1)) < kMaxInputBytes
    BY <1>1, <1>2, <1>5, AllowanceAssumption
<1> QED
    BY <1>5, <1>6 DEF frame_at, Text, s, n

(* One iteration of process_input's loop: a connection that is not paused
   has room for any reply within the allowance (connection.cpp:57-77,
   connection.hpp:32-37).                                                   *)
LEMMA ExecuteFacts ==
    ASSUME NEW c, Sound(c), Settled(c), ~c.output_paused, c.output_cursor = 0,
           NEW newline \in Nat, IsNewline(c.input_buffer, c.input_cursor, newline),
           NEW text \in Text, Len(text) < kMaxResponseBytes
    PROVE  LET rest == consume_frame(c, newline)
               q == queue_response(rest, response_of(text))
           IN  /\ output_fits(rest, response_of(text))
               /\ Sound(q) /\ Settled(q)
               /\ q.input_buffer = c.input_buffer /\ q.input_cursor = newline
               /\ q.output_buffer = c.output_buffer \o response_of(text)
               /\ q.output_cursor = 0 /\ q.read_eof = c.read_eof
<1> DEFINE rest == consume_frame(c, newline)
           response == response_of(text)
           joined == c.output_buffer \o response
           p == [rest EXCEPT !.output_buffer = @ \o response]
           q == queue_response(rest, response)
<1>1. text \in Seq(Byte) /\ NL \in Byte /\ Len(text) \in Nat
    BY SeqMonotonic, LenProperties, AlphabetAssumption DEF Text, Char
<1>2. response \in Seq(Byte) /\ Len(response) = Len(text) + 1
    BY <1>1, AppendProperties DEF response_of
<1>3. /\ c \in ConnectionType /\ c.output_buffer \in Seq(Byte)
      /\ Len(c.output_buffer) \in Nat /\ Len(c.input_buffer) \in Nat
      /\ c.input_cursor \in Nat
    BY PendingFacts DEF Sound
<1>4. newline <= Len(c.input_buffer)
    BY <1>3 DEF IsNewline
<1>5. Len(c.output_buffer) < kOutputHighWater
    BY <1>3, WatermarkAssumption DEF Settled, pending_output_bytes
<1>6. rest = [c EXCEPT !.input_cursor = newline]
    BY DEF consume_frame
<1>7. q = update_backpressure(p)
    BY DEF queue_response
<1> HIDE DEF rest, response, q
<1>8. /\ rest \in ConnectionType /\ rest.input_buffer = c.input_buffer
      /\ rest.input_cursor = newline /\ rest.output_buffer = c.output_buffer
      /\ rest.output_cursor = 0 /\ rest.read_eof = c.read_eof
    BY <1>3, <1>6 DEF ConnectionType
<1> DEFINE L == Len(c.output_buffer)
           R == Len(response)
<1>a. R \in Nat /\ R <= kMaxResponseBytes
    BY <1>1, <1>2, AllowanceAssumption
<1>b. L \in Nat /\ L < kOutputHighWater
    BY <1>3, <1>5
<1> HIDE DEF L, R
<1>c. L + R <= kMaxOutputBytes /\ R <= kMaxOutputBytes - L
    BY <1>a, <1>b, AllowanceAssumption, WatermarkAssumption
<1>9. output_fits(rest, response)
    BY <1>8, <1>a, <1>c DEF output_fits, L, R
<1>10. joined \in Seq(Byte) /\ Len(joined) = Len(c.output_buffer) + Len(response)
    BY <1>2, <1>3, ConcatProperties
<1>11. Len(joined) \in Nat /\ Len(joined) <= kMaxOutputBytes
    BY <1>10, <1>a, <1>b, <1>c DEF L, R
<1>12. /\ p \in ConnectionType /\ p.input_buffer = c.input_buffer
       /\ p.input_cursor = newline /\ p.output_buffer = joined
       /\ p.output_cursor = 0 /\ p.read_eof = c.read_eof
    BY <1>8, <1>10 DEF ConnectionType
<1> HIDE DEF p, joined
<1>13. Sound(p)
    BY <1>4, <1>11, <1>12 DEF Sound, WithinBounds
<1>14. /\ Sound(q) /\ Settled(q)
       /\ q.input_buffer = c.input_buffer /\ q.input_cursor = newline
       /\ q.output_buffer = joined /\ q.output_cursor = 0 /\ q.read_eof = c.read_eof
    BY <1>7, <1>12, <1>13, BackpressureFacts
<1> QED
    BY <1>9, <1>14 DEF rest, response, q, joined

(* The end of process_input: only an input that is used up is cleared, so
   the frames and the output stay (connection.cpp:80-84).                   *)
LEMMA EndProcessingFacts ==
    ASSUME NEW c, Sound(c)
    PROVE  LET e == end_processing(c) IN
           /\ Sound(e)
           /\ pending_input_bytes(e) = pending_input_bytes(c)
           /\ has_complete_frame(e) <=> has_complete_frame(c)
           /\ e.output_buffer = c.output_buffer /\ e.output_cursor = c.output_cursor
           /\ e.read_eof = c.read_eof /\ e.output_paused = c.output_paused
<1>1. CASE c.input_cursor # Len(c.input_buffer)
  <2>1. end_processing(c) = c
    BY <1>1 DEF end_processing
  <2> QED
    BY <2>1
<1>2. CASE c.input_cursor = Len(c.input_buffer)
  <2> DEFINE e == end_processing(c)
  <2>1. e = [c EXCEPT !.input_buffer = <<>>, !.input_cursor = 0]
    BY <1>2 DEF end_processing
  <2>2. <<>> \in Seq(Byte) /\ Len(<<>>) = 0
    BY EmptySeq
  <2> HIDE DEF e
  <2>3. /\ e \in ConnectionType /\ e.input_buffer = <<>> /\ e.input_cursor = 0
        /\ e.output_buffer = c.output_buffer /\ e.output_cursor = c.output_cursor
        /\ e.read_eof = c.read_eof /\ e.output_paused = c.output_paused
    BY <2>1, <2>2 DEF Sound, ConnectionType
  <2>4. Sound(e)
    BY <2>2, <2>3, AllowanceAssumption DEF Sound, WithinBounds
  <2>5. ~has_complete_frame(e) /\ ~has_complete_frame(c)
    BY <1>2, <2>2, <2>3, PendingFacts DEF has_complete_frame, HasNewline
  <2>6. pending_input_bytes(e) = pending_input_bytes(c)
    BY <1>2, <2>2, <2>3, PendingFacts DEF pending_input_bytes
  <2> QED
    BY <2>3, <2>4, <2>5, <2>6 DEF e
<1> QED
    BY <1>1, <1>2

(* A send of at most the pending bytes keeps the cursor within the buffer
   (connection.cpp:107-108).                                                *)
LEMMA AdvanceFacts ==
    ASSUME NEW c, Sound(c), NEW n \in Nat, n <= pending_output_bytes(c)
    PROVE  LET a == advance_output(c, n) IN
           /\ Sound(a)
           /\ a.input_buffer = c.input_buffer /\ a.input_cursor = c.input_cursor
           /\ a.output_buffer = c.output_buffer
           /\ a.output_cursor = c.output_cursor + n
           /\ a.read_eof = c.read_eof /\ a.output_paused = c.output_paused
<1> DEFINE a == advance_output(c, n)
<1>1. a = [c EXCEPT !.output_cursor = c.output_cursor + n]
    BY DEF advance_output
<1>2. /\ c \in ConnectionType /\ c.output_cursor \in Nat
      /\ Len(c.output_buffer) \in Nat
      /\ c.output_cursor + n <= Len(c.output_buffer)
    BY PendingFacts DEF Sound, pending_output_bytes
<1> HIDE DEF a
<1>3. /\ a \in ConnectionType
      /\ a.input_buffer = c.input_buffer /\ a.input_cursor = c.input_cursor
      /\ a.output_buffer = c.output_buffer
      /\ a.output_cursor = c.output_cursor + n
      /\ a.read_eof = c.read_eof /\ a.output_paused = c.output_paused
    BY <1>1, <1>2 DEF ConnectionType
<1>4. Sound(a)
    BY <1>2, <1>3 DEF Sound, WithinBounds
<1> QED
    BY <1>3, <1>4 DEF a

(* The end of flush_output clears only what has been sent
   (connection.cpp:129-135).                                                *)
LEMMA EndFlushFacts ==
    ASSUME NEW c, Sound(c)
    PROVE  LET e == end_flush(c) IN
           /\ Sound(e)
           /\ pending_output_bytes(e) = pending_output_bytes(c)
           /\ e.input_buffer = c.input_buffer /\ e.input_cursor = c.input_cursor
           /\ e.read_eof = c.read_eof /\ e.output_paused = c.output_paused
<1>1. CASE has_pending_output(c)
  <2>1. end_flush(c) = c
    BY <1>1 DEF end_flush
  <2> QED
    BY <2>1
<1>2. CASE ~has_pending_output(c)
  <2> DEFINE e == end_flush(c)
  <2>1. e = [c EXCEPT !.output_buffer = <<>>, !.output_cursor = 0]
    BY <1>2 DEF end_flush
  <2>2. <<>> \in Seq(Byte) /\ Len(<<>>) = 0
    BY EmptySeq
  <2> HIDE DEF e
  <2>3. /\ e \in ConnectionType /\ e.output_buffer = <<>> /\ e.output_cursor = 0
        /\ e.input_buffer = c.input_buffer /\ e.input_cursor = c.input_cursor
        /\ e.read_eof = c.read_eof /\ e.output_paused = c.output_paused
    BY <2>1, <2>2 DEF Sound, ConnectionType
  <2>4. Sound(e)
    BY <2>2, <2>3, WatermarkAssumption DEF Sound, WithinBounds
  <2>5. pending_output_bytes(e) = pending_output_bytes(c)
    BY <1>2, <2>2, <2>3 DEF has_pending_output, pending_output_bytes
  <2> QED
    BY <2>3, <2>4, <2>5 DEF e
<1> QED
    BY <1>1, <1>2

(* Dropping the incomplete tail of a half-closed input leaves the output
   alone (server.cpp:142-145).                                              *)
LEMMA DropTailFacts ==
    ASSUME NEW c, Sound(c)
    PROVE  LET d == drop_tail(c) IN
           /\ Sound(d)
           /\ pending_input_bytes(d) = 0 /\ ~has_complete_frame(d)
           /\ d.output_buffer = c.output_buffer /\ d.output_cursor = c.output_cursor
           /\ d.read_eof = c.read_eof /\ d.output_paused = c.output_paused
<1> DEFINE d == drop_tail(c)
<1>1. d = [c EXCEPT !.input_buffer = <<>>, !.input_cursor = 0]
    BY DEF drop_tail
<1>2. <<>> \in Seq(Byte) /\ Len(<<>>) = 0
    BY EmptySeq
<1> HIDE DEF d
<1>3. /\ d \in ConnectionType /\ d.input_buffer = <<>> /\ d.input_cursor = 0
      /\ d.output_buffer = c.output_buffer /\ d.output_cursor = c.output_cursor
      /\ d.read_eof = c.read_eof /\ d.output_paused = c.output_paused
    BY <1>1, <1>2 DEF Sound, ConnectionType
<1>4. Sound(d)
    BY <1>2, <1>3, AllowanceAssumption DEF Sound, WithinBounds
<1>5. pending_input_bytes(d) = 0 /\ ~has_complete_frame(d)
    BY <1>2, <1>3 DEF pending_input_bytes, has_complete_frame, HasNewline
<1> QED
    BY <1>3, <1>4, <1>5 DEF d

(* What the buffers of a sound connection still hold.                       *)
LEMMA PendingBytes ==
    ASSUME NEW c, Sound(c)
    PROVE  /\ pending_input(c) \in Seq(Byte) /\ pending_output(c) \in Seq(Byte)
           /\ Len(pending_input(c)) = pending_input_bytes(c)
           /\ Len(pending_output(c)) = pending_output_bytes(c)
           /\ HasNewline(pending_input(c), 0) <=> has_complete_frame(c)
           /\ pending_input_bytes(c) = 0 => pending_input(c) = <<>>
           /\ pending_output_bytes(c) = 0 => pending_output(c) = <<>>
<1>1. /\ c.input_buffer \in Seq(Byte) /\ c.input_cursor \in Nat
      /\ c.input_cursor <= Len(c.input_buffer)
      /\ c.output_buffer \in Seq(Byte) /\ c.output_cursor \in Nat
      /\ c.output_cursor <= Len(c.output_buffer)
    BY PendingFacts DEF Sound, WithinBounds
<1>2. /\ pending_input(c) \in Seq(Byte) /\ Len(pending_input(c)) = pending_input_bytes(c)
      /\ HasNewline(pending_input(c), 0) <=> has_complete_frame(c)
    BY <1>1, SuffixFacts DEF pending_input, pending_input_bytes, has_complete_frame
<1>3. pending_output(c) \in Seq(Byte) /\ Len(pending_output(c)) = pending_output_bytes(c)
    BY <1>1, SuffixFacts DEF pending_output, pending_output_bytes
<1>4. /\ pending_input_bytes(c) = 0 => pending_input(c) = <<>>
      /\ pending_output_bytes(c) = 0 => pending_output(c) = <<>>
    BY <1>2, <1>3, EmptySeq
<1> QED
    BY <1>2, <1>3, <1>4

(* process_input's first and last parts and the end of a flush move bytes
   inside a buffer, and lose none.                                          *)
LEMMA SamePending ==
    ASSUME NEW c, Sound(c)
    PROVE  /\ pending_input(begin_processing(c)) = pending_input(c)
           /\ pending_output(begin_processing(c)) = pending_output(c)
           /\ pending_input(end_processing(c)) = pending_input(c)
           /\ pending_output(end_processing(c)) = pending_output(c)
           /\ pending_input(end_flush(c)) = pending_input(c)
           /\ pending_output(end_flush(c)) = pending_output(c)
           /\ pending_input(update_backpressure(c)) = pending_input(c)
           /\ pending_output(update_backpressure(c)) = pending_output(c)
<1>1. ASSUME NEW s \in Seq(Byte) PROVE SubSeq(s, 0 + 1, Len(s)) = s
    BY SubSeqFull
<1>2. PICK b, i, o : /\ b = begin_processing(c) /\ i = pending_input(c)
                     /\ o = pending_output(c)
    OBVIOUS
<1>3. i \in Seq(Byte) /\ o \in Seq(Byte)
    BY <1>2, PendingBytes
<1>4. /\ b.input_cursor = 0 /\ b.input_buffer = i
      /\ b.output_cursor = 0 /\ b.output_buffer = o
    BY <1>2, BeginFacts
<1>5. pending_input(b) = i /\ pending_output(b) = o
    BY <1>1, <1>3, <1>4 DEF pending_input, pending_output
<1>6. PICK e : e = end_processing(c)
    OBVIOUS
<1>7. /\ Sound(e) /\ pending_input_bytes(e) = pending_input_bytes(c)
      /\ e.output_buffer = c.output_buffer /\ e.output_cursor = c.output_cursor
    BY <1>6, EndProcessingFacts
<1>8. pending_output(e) = o
    BY <1>2, <1>7 DEF pending_output
<1>9. pending_input(e) = i
  <2>1. CASE c.input_cursor = Len(c.input_buffer)
    <3>1. pending_input_bytes(c) = 0
      BY <2>1, PendingFacts DEF pending_input_bytes
    <3> QED
      BY <3>1, <1>2, <1>7, PendingBytes
  <2>2. CASE c.input_cursor # Len(c.input_buffer)
    BY <2>2, <1>2, <1>6 DEF end_processing
  <2> QED
    BY <2>1, <2>2
<1>10. PICK f : f = end_flush(c)
    OBVIOUS
<1>11. /\ Sound(f) /\ pending_output_bytes(f) = pending_output_bytes(c)
       /\ f.input_buffer = c.input_buffer /\ f.input_cursor = c.input_cursor
    BY <1>10, EndFlushFacts
<1>12. pending_input(f) = i
    BY <1>2, <1>11 DEF pending_input
<1>13. pending_output(f) = o
  <2>1. CASE ~has_pending_output(c)
    <3>1. pending_output_bytes(c) = 0
      BY <2>1 DEF has_pending_output
    <3> QED
      BY <3>1, <1>2, <1>11, PendingBytes
  <2>2. CASE has_pending_output(c)
    BY <2>2, <1>2, <1>10 DEF end_flush
  <2> QED
    BY <2>1, <2>2
<1>14. PICK u : u = update_backpressure(c)
    OBVIOUS
<1>15. /\ u.input_buffer = c.input_buffer /\ u.input_cursor = c.input_cursor
       /\ u.output_buffer = c.output_buffer /\ u.output_cursor = c.output_cursor
    BY <1>14, BackpressureFacts
<1>16. pending_input(u) = i /\ pending_output(u) = o
    BY <1>2, <1>15 DEF pending_input, pending_output
<1> QED
    BY <1>2, <1>5, <1>6, <1>8, <1>9, <1>10, <1>12, <1>13, <1>14, <1>16

(* The end of a visit keeps the reply queue, and drops the input only when
   the stream has ended and no frame is left in it.                         *)
LEMMA SettleKeeps ==
    ASSUME NEW c, Sound(c), NEW d, d = settle(c)
    PROVE  /\ Sound(d) /\ Settled(d) /\ pending_output(d) = pending_output(c)
           /\ d.read_eof = c.read_eof
           /\ AtEnd(d) => pending_input(d) = <<>>
           /\ \/ pending_input(d) = pending_input(c)
              \/ AtEnd(c) /\ pending_input(d) = <<>>
<1>1. PICK u : u = update_backpressure(c)
    OBVIOUS
<1>2. /\ Sound(u) /\ Settled(u) /\ u.read_eof = c.read_eof
      /\ u.input_buffer = c.input_buffer /\ u.input_cursor = c.input_cursor
      /\ u.output_buffer = c.output_buffer /\ u.output_cursor = c.output_cursor
    BY <1>1, BackpressureFacts
<1>3. /\ pending_input(u) = pending_input(c) /\ pending_output(u) = pending_output(c)
      /\ AtEnd(u) <=> AtEnd(c)
    BY <1>2 DEF pending_input, pending_output, AtEnd, has_complete_frame
<1>4. CASE AtEnd(u)
  <2>1. d = drop_tail(u)
    BY <1>1, <1>4 DEF settle
  <2>2. /\ Sound(d) /\ pending_input_bytes(d) = 0 /\ d.read_eof = u.read_eof
        /\ d.output_buffer = u.output_buffer /\ d.output_cursor = u.output_cursor
        /\ d.output_paused = u.output_paused
    BY <1>2, <2>1, DropTailFacts
  <2>5. Settled(d)
    BY <1>2, <2>2 DEF Settled, pending_output_bytes
  <2>3. pending_input(d) = <<>>
    BY <2>2, PendingBytes
  <2>4. pending_output(d) = pending_output(u)
    BY <2>2 DEF pending_output
  <2> QED
    BY <1>2, <1>3, <1>4, <2>2, <2>3, <2>4, <2>5
<1>5. CASE ~AtEnd(u)
  <2>1. d = u
    BY <1>1, <1>5 DEF settle
  <2> QED
    BY <1>2, <1>3, <1>5, <2>1
<1> QED
    BY <1>4, <1>5

(* f is the first line of all, of m bytes with its newline, and then comes
   rest.                                                                    *)
FirstLine(all, m, f, rest) ==
    /\ m \in 1..Len(all) /\ IsNewline(all, 0, m)
    /\ f = SubSeq(all, 1, m - 1) /\ rest = SubSeq(all, m + 1, Len(all))

(* A frame is the first line of what a connection and the kernel hold, and
   what follows it is what they hold afterwards.                            *)
LEMMA FrameIsLine ==
    ASSUME NEW c, Sound(c), NEW newline \in Nat,
           IsNewline(c.input_buffer, c.input_cursor, newline),
           NEW rx \in Seq(Byte), NEW all, all = pending_input(c) \o rx,
           NEW rest, rest = SubSeq(c.input_buffer, newline + 1, Len(c.input_buffer))
    PROVE  \E m : FirstLine(all, m, frame_at(c, newline), rest \o rx)
<1>1. PICK s, k, p : s = c.input_buffer /\ k = c.input_cursor /\ p = pending_input(c)
  OBVIOUS
<1>2. /\ s \in Seq(Byte) /\ k \in Nat /\ k <= Len(s) /\ Len(s) \in Nat
      /\ p = SubSeq(s, k + 1, Len(s)) /\ p \in Seq(Byte)
  BY <1>1, PendingFacts, PendingBytes DEF Sound, WithinBounds, pending_input
<1>3. IsNewline(s, k, newline)
  BY <1>1
<1>4. PICK m \in Nat : m = newline - k
  <2>1. newline \in (k + 1)..Len(s)
    BY <1>3 DEF IsNewline
  <2>2. newline - k \in Nat
    BY <1>2, <2>1
  <2> WITNESS newline - k \in Nat
  <2> QED
    OBVIOUS
<1>5. IsNewline(p, 0, m) /\ SubSeq(p, m + 1, Len(p)) = SubSeq(s, newline + 1, Len(s))
  <2>1. s \in Seq(Byte) /\ k \in Nat /\ k <= Len(s)
    BY <1>2
  <2>2. p = SubSeq(s, k + 1, Len(s))
    BY <1>2
  <2>3. IsNewline(p, 0, m)
    BY <1>3, <1>4, <2>1, <2>2, NewlineOfSuffix
  <2>4. SubSeq(p, m + 1, Len(p)) = SubSeq(s, newline + 1, Len(s))
    BY <1>3, <1>4, <2>1, <2>2, NewlineOfSuffix
  <2> QED
    BY <2>3, <2>4
<1>6. SubSeq(p, 1, m - 1) = SubSeq(s, k + 1, newline - 1)
  <2>1. m - 1 \in Nat /\ newline - 1 \in Nat /\ newline - 1 = k + (m - 1) /\ newline - 1 <= Len(s)
    BY <1>2, <1>3, <1>4 DEF IsNewline
  <2> QED
    BY <1>2, <2>1, PrefixOfSuffix
<1>7. /\ m \in 1..Len(p \o rx) /\ IsNewline(p \o rx, 0, m)
      /\ SubSeq(p \o rx, 1, m - 1) = SubSeq(p, 1, m - 1)
      /\ SubSeq(p \o rx, m + 1, Len(p \o rx)) = SubSeq(p, m + 1, Len(p)) \o rx
  <2>1. p \in Seq(Byte) /\ rx \in Seq(Byte)
    BY <1>2
  <2>2. IsNewline(p, 0, m)
    BY <1>5
  <2> QED
    BY <2>1, <2>2, NewlineOfConcat
<1>8. frame_at(c, newline) = SubSeq(s, k + 1, newline - 1) /\ all = p \o rx
  BY <1>1 DEF frame_at
<1>9. m \in 1..Len(all)
  BY <1>7, <1>8
<1>10. FirstLine(all, m, frame_at(c, newline), rest \o rx)
  BY <1>1, <1>5, <1>6, <1>7, <1>8, <1>9 DEF FirstLine
<1> QED
  BY <1>10

(* q is c after the frame that ends at newline, with text as the reply.     *)
Executes(c, newline, text, q) ==
    /\ Sound(c) /\ Settled(c) /\ ~c.output_paused /\ c.output_cursor = 0
    /\ newline \in Nat /\ IsNewline(c.input_buffer, c.input_cursor, newline)
    /\ text \in Text /\ Len(text) < kMaxResponseBytes
    /\ q = queue_response(consume_frame(c, newline), response_of(text))

(* The reply follows what is pending, and the frame is gone from the input. *)
LEMMA ExecuteMoves ==
    ASSUME NEW c, NEW newline, NEW text, NEW q, Executes(c, newline, text, q)
    PROVE  /\ pending_input(q) = SubSeq(c.input_buffer, newline + 1, Len(c.input_buffer))
           /\ pending_output(q) = pending_output(c) \o Append(text, NL)
           /\ q.read_eof = c.read_eof
<1> /\ Sound(c) /\ Settled(c) /\ ~c.output_paused /\ c.output_cursor = 0
    /\ newline \in Nat /\ IsNewline(c.input_buffer, c.input_cursor, newline)
    /\ text \in Text /\ Len(text) < kMaxResponseBytes
    /\ q = queue_response(consume_frame(c, newline), response_of(text))
  BY DEF Executes
<1>1. /\ q.input_buffer = c.input_buffer /\ q.input_cursor = newline
      /\ q.output_buffer = c.output_buffer \o response_of(text)
      /\ q.output_cursor = 0 /\ q.read_eof = c.read_eof
  BY ExecuteFacts
<1>2. PICK o, r : o = c.output_buffer /\ r = Append(text, NL)
  OBVIOUS
<1>3. o \in Seq(Byte) /\ r \in Seq(Byte)
  BY <1>2, PendingFacts, TextFacts
<1>4. ASSUME NEW z \in Seq(Byte) PROVE SubSeq(z, 0 + 1, Len(z)) = z
  BY SubSeqFull
<1>5. pending_output(c) = o
  BY <1>2, <1>3, <1>4 DEF pending_output
<1>6. PICK joined : joined = o \o r
  OBVIOUS
<1>7. joined \in Seq(Byte) /\ q.output_buffer = joined
  BY <1>1, <1>2, <1>3, <1>6, ConcatProperties DEF response_of
<1>8. pending_output(q) = joined
  BY <1>1, <1>4, <1>7 DEF pending_output
<1>9. pending_input(q) = SubSeq(c.input_buffer, newline + 1, Len(c.input_buffer))
  BY <1>1 DEF pending_input
<1> QED
  BY <1>1, <1>2, <1>5, <1>6, <1>8, <1>9
=============================================================================
