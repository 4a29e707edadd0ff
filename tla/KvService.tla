----------------------------- MODULE KvService -----------------------------
(***************************************************************************)
(* What the program promises its clients, with nothing of how it is done:  *)
(* one store, and for each client a byte stream in and a byte stream out.  *)
(* A complete line is taken from the front of a client's stream, executed  *)
(* on the store and answered in one atomic step.  A client that half-      *)
(* closes keeps its lines and its replies; only a client that is lost (it  *)
(* reset the connection, or the server gave it up) may lose the end of     *)
(* either stream, and never a part from the middle.                        *)
(***************************************************************************)
EXTENDS Protocol

CONSTANTS
    Clients,
    Chunks,     \* the byte strings that may arrive together
    Returning   \* the clients that come back after a connection ends

VARIABLES
    inbox,      \* bytes a client has sent that no executed line has used
    outbox,     \* reply bytes a client is owed
    kv,         \* the store
    status      \* "open", "ended" (half-closed) or "lost"

kvVars == <<inbox, outbox, kv, status>>

Init ==
    /\ inbox = [c \in Clients |-> <<>>]
    /\ outbox = [c \in Clients |-> <<>>]
    /\ kv = EmptyStore
    /\ status = [c \in Clients |-> "open"]

Prefixes(s) == {SubSeq(s, 1, n) : n \in 0..Len(s)}

Send(c) ==
    /\ status[c] = "open"
    /\ \E s \in Chunks : inbox' = [inbox EXCEPT ![c] = @ \o s]
    /\ UNCHANGED <<outbox, kv, status>>

HalfClose(c) ==
    /\ status[c] = "open"
    /\ status' = [status EXCEPT ![c] = "ended"]
    /\ UNCHANGED <<inbox, outbox, kv>>

(* The line of a lost client may still be executed; its reply goes nowhere. *)
Execute(c) ==
    /\ \E n \in 1..Len(inbox[c]) :
          /\ IsNewline(inbox[c], 0, n)
          /\ LET answer == Answer(SubSeq(inbox[c], 1, n - 1), kv) IN
                /\ kv' = answer.store
                /\ inbox' = [inbox EXCEPT ![c] = SubSeq(@, n + 1, Len(@))]
                /\ outbox' = IF status[c] = "lost" THEN outbox
                             ELSE [outbox EXCEPT ![c] = @ \o Append(answer.text, NL)]
    /\ UNCHANGED status

Receive(c) ==
    /\ \E n \in 1..Len(outbox[c]) :
          outbox' = [outbox EXCEPT ![c] = SubSeq(@, n + 1, Len(@))]
    /\ UNCHANGED <<inbox, kv, status>>

(* After the end of the stream, an incomplete line is no line.             *)
DropTail(c) ==
    /\ status[c] # "open"
    /\ ~HasNewline(inbox[c], 0)
    /\ inbox' = [inbox EXCEPT ![c] = <<>>]
    /\ UNCHANGED <<outbox, kv, status>>

Lose(c) ==
    /\ status' = [status EXCEPT ![c] = "lost"]
    /\ \E s \in Prefixes(inbox[c]) : inbox' = [inbox EXCEPT ![c] = s]
    /\ \E s \in Prefixes(outbox[c]) : outbox' = [outbox EXCEPT ![c] = s]
    /\ UNCHANGED kv

(* A client whose connection is over starts again, with nothing of the old
   connection on the new one.                                              *)
Return(c) ==
    /\ c \in Returning /\ status[c] # "open" /\ inbox[c] = <<>>
    /\ status' = [status EXCEPT ![c] = "open"]
    /\ outbox' = [outbox EXCEPT ![c] = <<>>]
    /\ UNCHANGED <<inbox, kv>>

Next ==
    \E c \in Clients :
        \/ Send(c) \/ HalfClose(c) \/ Execute(c) \/ Receive(c)
        \/ DropTail(c) \/ Lose(c) \/ Return(c)

Spec == Init /\ [][Next]_kvVars
=============================================================================
