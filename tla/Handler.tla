------------------------------ MODULE Handler ------------------------------
(***************************************************************************)
(* handle_client of src/server/client_handler.cpp: one client on a blocking*)
(* socket, one thread, no budgets and no timers.  It is the predecessor of *)
(* the event loop, kept in the repository and not part of the build, and   *)
(* it is shown to keep the same promise (KvService).                       *)
(***************************************************************************)
EXTENDS Framing

CONSTANTS
    SendQueue,      \* reply bytes the kernel holds for the peer
    Chunks,         \* the byte strings the peer may send at once
    MaxBytes        \* bound: how many bytes it sends in all

ASSUME HandlerAssumption ==
    /\ SendQueue \in Nat \ {0} /\ MaxBytes \in Nat
    /\ Chunks \subseteq Seq(Byte)

(* The words of a line are texts, however long the line: unlike the event
   loop's, a line of this server is not limited by kMaxInputBytes.         *)
ASSUME LineAssumption ==
    \A n \in 0..MaxBytes : \A f \in [1..n -> Char] : Tokens(f) \in Seq(Text)

VARIABLES
    handler,    \* pc, message_buffer, and what send_all has still to send
    store,
    sock        \* kernel: the two queues, FIN and RST of the peer, bytes sent

vars == <<handler, store, sock>>

Init ==
    /\ handler = [pc |-> "read", message_buffer |-> <<>>, unsent |-> <<>>]
    /\ store = EmptyStore
    /\ sock = [rx |-> <<>>, tx |-> <<>>, fin |-> FALSE, rst |-> FALSE, sent |-> 0]

(* The return of handle_client destroys clientFd, which closes the socket;
   killed is SIGPIPE, which send_all does not suppress.                    *)
Return(pcs) ==
    /\ \E pc \in pcs : handler' = [pc |-> pc, message_buffer |-> <<>>, unsent |-> <<>>]
    /\ sock' = [sock EXCEPT !.rx = <<>>]
    /\ UNCHANGED store

Read == handler.pc = "read" /\ ~next_message(handler.message_buffer).has_value

(* read_message receives.                                                  *)
Recv ==
    /\ Read
    /\ \E round \in read_message(handler.message_buffer, sock.rx) :
          /\ handler' = [handler EXCEPT !.message_buffer = round.buffer]
          /\ sock' = [sock EXCEPT !.rx = round.rx]
    /\ UNCHANGED store

(* End of the stream, or an error once the queue is empty: client
   disconnected.                                                           *)
Disconnected ==
    /\ Read /\ sock.rx = <<>> /\ (sock.fin \/ sock.rst)
    /\ Return({"closed"})

(* read_message returns a message: parse_command, execute_command, and the
   reply for send_all.                                                     *)
HandleMessage ==
    LET message == next_message(handler.message_buffer) IN
    /\ handler.pc = "read" /\ message.has_value
    /\ LET answer == Answer(message.value, store) IN
          /\ store' = answer.store
          /\ handler' = [pc |-> "send", message_buffer |-> message.buffer,
                         unsent |-> Append(answer.text, NL)]
    /\ UNCHANGED sock

Send ==
    /\ handler.pc = "send" /\ ~sock.rst
    /\ \E round \in send_all(handler.unsent, SendQueue - Len(sock.tx)) :
          /\ handler' = [handler EXCEPT !.unsent = round.rest,
                                        !.pc = IF round.rest = <<>> THEN "read" ELSE "send"]
          /\ sock' = [sock EXCEPT !.tx = @ \o round.sent]
    /\ UNCHANGED store

SendFails == handler.pc = "send" /\ sock.rst /\ Return({"closed", "killed"})

(* The peer sends, half-closes, resets and reads as it likes.              *)
PeerStep ==
    /\ \/ /\ ~sock.fin /\ ~sock.rst /\ handler.pc \in {"read", "send"}
          /\ \E s \in Chunks :
                /\ sock.sent + Len(s) <= MaxBytes
                /\ sock' = [sock EXCEPT !.rx = @ \o s, !.sent = @ + Len(s)]
       \/ ~sock.fin /\ ~sock.rst /\ sock' = [sock EXCEPT !.fin = TRUE]
       \/ ~sock.rst /\ sock' = [sock EXCEPT !.rst = TRUE, !.tx = <<>>]
       \/ sock.tx # <<>> /\ sock' = [sock EXCEPT !.tx = <<>>]
    /\ UNCHANGED <<handler, store>>

Next == Recv \/ Disconnected \/ HandleMessage \/ Send \/ SendFails \/ PeerStep

Spec == Init /\ [][Next]_vars

-----------------------------------------------------------------------------
Inbox == handler.message_buffer \o sock.rx

Outbox == IF sock.rst THEN sock.tx ELSE sock.tx \o handler.unsent

Status == IF sock.rst THEN "lost" ELSE IF sock.fin THEN "ended" ELSE "open"

OfPeer(x) == [c \in {"peer"} |-> x]

Service == INSTANCE KvService WITH
    Clients <- {"peer"}, Returning <- {},
    inbox <- OfPeer(Inbox), outbox <- OfPeer(Outbox),
    kv <- store, status <- OfPeer(Status)

(* The blocking handler keeps the promise of the event loop: each line is
   executed once, in order, and its whole reply follows the one before it,
   however recv and send split the streams; a half-close costs neither a
   complete line nor a reply (client_handler.cpp:10-41, framing.cpp:22-69). *)
HandlerImplementsService == Service!Spec
=============================================================================
