----------------------------- MODULE Connection -----------------------------
(***************************************************************************)
(* struct Connection of include/tcp/server/connection.hpp and its methods  *)
(* in src/server/connection.cpp, as operators on one record.  Loops are    *)
(* not here: the modules that use a connection take one step per loop      *)
(* iteration, with the operators below for the bodies.  Cursors count the  *)
(* bytes already consumed, so the suffix that is left starts at cursor + 1.*)
(***************************************************************************)
EXTENDS Protocol

CONSTANTS
    kMaxOutputBytes, kOutputHighWater, kOutputLowWater,
    kCommandBudget      \* frames one visit may execute

(* The static_assert of connection.hpp:37, and the order of the watermarks. *)
ASSUME WatermarkAssumption ==
    /\ kMaxOutputBytes \in Nat /\ kOutputHighWater \in Nat
    /\ kOutputLowWater \in Nat /\ kCommandBudget \in Nat \ {0}
    /\ kOutputLowWater < kOutputHighWater
    /\ kOutputHighWater + kMaxResponseBytes <= kMaxOutputBytes

Lesser(m, n) == IF m <= n THEN m ELSE n

ConnectionType ==
    [input_buffer : Seq(Byte), input_cursor : Nat,
     output_buffer : Seq(Byte), output_cursor : Nat,
     read_eof : BOOLEAN, output_paused : BOOLEAN]

(* "Invariant: cursor <= buffer.size()" of both cursors
   (connection.hpp:108-110), and the caps of the two buffers.              *)
WithinBounds(c) ==
    /\ c.input_cursor <= Len(c.input_buffer)
    /\ c.output_cursor <= Len(c.output_buffer)
    /\ Len(c.input_buffer) <= kMaxInputBytes
    /\ Len(c.output_buffer) <= kMaxOutputBytes

NewConnection ==
    [input_buffer |-> <<>>, input_cursor |-> 0,
     output_buffer |-> <<>>, output_cursor |-> 0,
     read_eof |-> FALSE, output_paused |-> FALSE]

-----------------------------------------------------------------------------
(* The accessors of connection.hpp                                         *)

pending_input(c) == SubSeq(c.input_buffer, c.input_cursor + 1, Len(c.input_buffer))

pending_output(c) == SubSeq(c.output_buffer, c.output_cursor + 1, Len(c.output_buffer))

pending_input_bytes(c) == Len(c.input_buffer) - c.input_cursor

pending_output_bytes(c) == Len(c.output_buffer) - c.output_cursor

has_pending_output(c) == pending_output_bytes(c) # 0

has_complete_frame(c) == HasNewline(c.input_buffer, c.input_cursor)

has_runnable_input(c) == ~c.output_paused /\ has_complete_frame(c)

(* Mutant of can_read: reading goes on past a complete frame.              *)
can_read_ahead(c) ==
    /\ ~c.read_eof
    /\ ~c.output_paused
    /\ pending_input_bytes(c) < kMaxInputBytes

can_read(c) ==
    /\ ~c.read_eof
    /\ ~c.output_paused
    /\ ~has_complete_frame(c)
    /\ pending_input_bytes(c) < kMaxInputBytes

(* Mutant of update_backpressure: the high watermark itself still admits a
   command.                                                                *)
backpressure_above(c) ==
    [c EXCEPT !.output_paused =
        IF pending_output_bytes(c) > kOutputHighWater THEN TRUE
        ELSE IF pending_output_bytes(c) <= kOutputLowWater THEN FALSE
        ELSE @]

(* Mutant of update_backpressure: the pressure is never released.          *)
backpressure_forever(c) ==
    [c EXCEPT !.output_paused = @ \/ pending_output_bytes(c) >= kOutputHighWater]

(* Between the two watermarks the flag keeps its value (hysteresis).       *)
update_backpressure(c) ==
    [c EXCEPT !.output_paused =
        IF pending_output_bytes(c) >= kOutputHighWater THEN TRUE
        ELSE IF pending_output_bytes(c) <= kOutputLowWater THEN FALSE
        ELSE @]

-----------------------------------------------------------------------------
(* append_input: drop the consumed prefix, then take the chunk whole or
   not at all.                                                             *)

compact_input(c) ==
    [c EXCEPT !.input_buffer = pending_input(c), !.input_cursor = 0]

input_fits(c, bytes) == Len(bytes) <= kMaxInputBytes - Len(compact_input(c).input_buffer)

append_input(c, bytes) ==
    IF input_fits(c, bytes)
    THEN [compact_input(c) EXCEPT !.input_buffer = @ \o bytes]
    ELSE compact_input(c)

-----------------------------------------------------------------------------
(* process_input, in the order of its parts                                *)

(* Mutant of reclaim_output: the sent prefix stays in the buffer.          *)
keep_sent_prefix(c) == c

reclaim_output(c) ==
    [c EXCEPT !.output_buffer = pending_output(c), !.output_cursor = 0]

(* Before the loop; the bytes argument of the server's call is empty.      *)
begin_processing(c) == update_backpressure(reclaim_output(append_input(c, <<>>)))

(* Mutant of frame_at: the delimiter is taken as part of the frame.        *)
frame_with_delimiter(c, newline) == SubSeq(c.input_buffer, c.input_cursor + 1, newline)

(* One iteration: the frame ends at newline, the answer is already known.  *)
frame_at(c, newline) == SubSeq(c.input_buffer, c.input_cursor + 1, newline - 1)

response_of(text) == Append(text, NL)

output_fits(c, response) ==
    /\ Len(response) <= kMaxResponseBytes
    /\ Len(response) <= kMaxOutputBytes - Len(c.output_buffer)

(* Mutant of consume_frame: the delimiter is left in the input.            *)
consume_all_but_delimiter(c, newline) == [c EXCEPT !.input_cursor = newline - 1]

consume_frame(c, newline) == [c EXCEPT !.input_cursor = newline]

(* Mutant of queue_response: replies that wait for room are overwritten.   *)
overwrite_output(c, response) ==
    update_backpressure([c EXCEPT !.output_buffer = response])

queue_response(c, response) ==
    update_backpressure([c EXCEPT !.output_buffer = @ \o response])

(* After the loop: an input consumed to the end is cleared; a full buffer
   with no newline in it is InputLimit.                                    *)
end_processing(c) ==
    IF c.input_cursor = Len(c.input_buffer)
    THEN [c EXCEPT !.input_buffer = <<>>, !.input_cursor = 0]
    ELSE c

input_exhausted(c) ==
    pending_input_bytes(c) = kMaxInputBytes /\ ~has_complete_frame(c)

-----------------------------------------------------------------------------
(* flush_output: n bytes were accepted by the kernel; the reset once the
   queue has drained.                                                      *)

(* Mutant of advance_output: a short send is taken for a complete one.     *)
advance_to_end(c, n) == [c EXCEPT !.output_cursor = Len(c.output_buffer)]

advance_output(c, n) == [c EXCEPT !.output_cursor = @ + n]

(* Mutant of end_flush: the cursor survives the buffer it points into.     *)
clear_but_cursor(c) ==
    IF has_pending_output(c) THEN c ELSE [c EXCEPT !.output_buffer = <<>>]

end_flush(c) ==
    IF has_pending_output(c) THEN c
    ELSE [c EXCEPT !.output_buffer = <<>>, !.output_cursor = 0]

(* service_client's treatment of the tail that EOF leaves incomplete.      *)
drop_tail(c) == [c EXCEPT !.input_buffer = <<>>, !.input_cursor = 0]

-----------------------------------------------------------------------------
(* service_client's last part: the flag after the sends, the tail, and the
   interest the buffers now call for.                                      *)

AtEnd(c) == c.read_eof /\ ~has_complete_frame(c)

settle(c) ==
    IF AtEnd(update_backpressure(c)) THEN drop_tail(update_backpressure(c))
                                     ELSE update_backpressure(c)

(* Mutant of wanted_interest: no writable events after EOF.                *)
interest_until_eof(c) ==
    [read |-> can_read(c), write |-> has_pending_output(c) /\ ~c.read_eof]

wanted_interest(c) == [read |-> can_read(c), write |-> has_pending_output(c)]
=============================================================================
