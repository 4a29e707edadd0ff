------------------------------ MODULE Framing ------------------------------
(***************************************************************************)
(* src/protocol/framing.cpp: newline-terminated messages over a blocking   *)
(* socket.  read_message and send_all are loops of one system call each;   *)
(* the operators here are what one round of a loop computes, and the       *)
(* modules that use them (Client, Handler) make every round a step.  A     *)
(* call that fails with EINTR is repeated and changes nothing.             *)
(***************************************************************************)
EXTENDS Protocol

CONSTANT kChunkBytes    \* the size of read_message's chunk

ASSUME ChunkAssumption == kChunkBytes \in Nat \ {0}

Newline(buffer) == CHOOSE i \in 1..Len(buffer) : IsNewline(buffer, 0, i)

(* Mutant of next_message: the newline itself is not erased.               *)
next_message_short(buffer) ==
    IF ~HasNewline(buffer, 0) THEN nullopt
    ELSE [has_value |-> TRUE, value |-> SubSeq(buffer, 1, Newline(buffer) - 1),
          buffer |-> SubSeq(buffer, Newline(buffer), Len(buffer))]

(* The message and the buffer without it, or nullopt.                      *)
next_message(buffer) ==
    IF ~HasNewline(buffer, 0) THEN nullopt
    ELSE [has_value |-> TRUE, value |-> SubSeq(buffer, 1, Newline(buffer) - 1),
          buffer |-> SubSeq(buffer, Newline(buffer) + 1, Len(buffer))]

(* One recv in read_message: any part of what the kernel holds, up to the
   size of the chunk.                                                      *)
read_message(buffer, rx) ==
    {[buffer |-> buffer \o SubSeq(rx, 1, n), rx |-> SubSeq(rx, n + 1, Len(rx))] :
        n \in {m \in 1..kChunkBytes : m <= Len(rx)}}

(* Mutant of send_all: a partial send counts as a complete one.            *)
send_all_once(message, room) ==
    {[sent |-> SubSeq(message, 1, n), rest |-> <<>>] :
        n \in {m \in 1..Len(message) : m <= room}}

(* One send in send_all: any part of the rest that the kernel has room for. *)
send_all(message, room) ==
    {[sent |-> SubSeq(message, 1, n), rest |-> SubSeq(message, n + 1, Len(message))] :
        n \in {m \in 1..Len(message) : m <= room}}
=============================================================================
