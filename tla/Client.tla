------------------------------- MODULE Client -------------------------------
(***************************************************************************)
(* main of apps/client.cpp against the service of KvService, whose actions *)
(* are the server's steps: the client resolves and tries the addresses of  *)
(* the server, then sends one line of its input at a time and waits for    *)
(* the reply on a blocking socket.  The server may drop the connection at  *)
(* any time (refusal at capacity, idle timeout, exit), and other clients   *)
(* change the store meanwhile.                                             *)
(***************************************************************************)
EXTENDS Framing

CONSTANTS
    Addresses,      \* bound: how many addresses getaddrinfo returns
    Lines,          \* the lines standard input may hold
    MaxLines,       \* bound: how many lines it holds
    OtherLines      \* the lines other clients may have executed

ASSUME ClientAssumption ==
    /\ Addresses \in Nat \ {0} /\ MaxLines \in Nat
    /\ Lines \cup OtherLines \subseteq Text
    /\ \A line \in Lines \cup OtherLines : Tokens(line) \in Seq(Text)

VARIABLES
    client,     \* the locals of main
    asked,      \* the lines read from standard input
    printed,    \* the replies printed after "Server: "
    log,        \* the lines the server executed for this client, and its replies
    inbox, outbox, kv, status   \* the service

vars == <<client, asked, printed, log, inbox, outbox, kv, status>>
serviceVars == <<inbox, outbox, kv, status>>

Me == "client"

Server == INSTANCE KvService WITH Clients <- {Me}, Chunks <- {}, Returning <- {}

(* fd is what socket_fd holds: nothing, a socket that connect refused, or a
   connected one; left counts the addresses still to try.                  *)
Init ==
    /\ client = [pc |-> "resolve", left |-> 0, fd |-> "none", unsent |-> <<>>,
                 response_buffer |-> <<>>]
    /\ asked = <<>> /\ printed = <<>> /\ log = <<>>
    /\ Server!Init

-----------------------------------------------------------------------------
(* Connecting                                                              *)

getaddrinfo ==
    /\ client.pc = "resolve"
    /\ \/ client' = [client EXCEPT !.pc = "done"]
       \/ \E n \in 1..Addresses : client' = [client EXCEPT !.pc = "address", !.left = n]
    /\ UNCHANGED <<asked, printed, log, serviceVars>>

(* One round of the address loop: no socket; a socket that cannot connect,
   which stays in socket_fd; or a connection, which leaves the loop.       *)
TryAddress ==
    /\ client.pc = "address" /\ client.left > 0
    /\ \E outcome \in {"none", "refused", "connected"} :
          client' = [client EXCEPT
            !.left = @ - 1,
            !.fd = CASE outcome = "none" -> @ [] outcome = "refused" -> "unconnected"
                     [] outcome = "connected" -> "connected",
            !.pc = IF outcome = "connected" THEN "check" ELSE @]
    /\ UNCHANGED <<asked, printed, log, serviceVars>>

AddressesTried ==
    /\ client.pc = "address" /\ client.left = 0
    /\ client' = [client EXCEPT !.pc = "check"]
    /\ UNCHANGED <<asked, printed, log, serviceVars>>

(* Only a socket_fd that was never assigned is reported as a failure; any
   other prints "connected to server" and goes on.                         *)
CheckSocket ==
    /\ client.pc = "check"
    /\ client' = [client EXCEPT !.pc = IF client.fd = "none" THEN "done" ELSE "getline"]
    /\ UNCHANGED <<asked, printed, log, serviceVars>>

-----------------------------------------------------------------------------
(* One line and its reply                                                  *)

(* Mutant of request: the newline that getline removed is not put back.    *)
request_bare(line) == line

request(line) == Append(line, NL)

getline ==
    /\ client.pc = "getline"
    /\ \/ /\ Len(asked) < MaxLines
          /\ \E line \in Lines :
                /\ asked' = Append(asked, line)
                /\ client' = [client EXCEPT !.pc = "send", !.unsent = request(line)]
       \/ client' = [client EXCEPT !.pc = "done"] /\ UNCHANGED asked
    /\ UNCHANGED <<printed, log, serviceVars>>

(* Mutant of WhenSent: the next line is read without waiting for a reply.  *)
WhenSentPipelined(rest) == IF rest = <<>> THEN "getline" ELSE "send"

WhenSent(rest) == IF rest = <<>> THEN "read" ELSE "send"

(* The kernel takes bytes until it knows that the server has gone; those
   it takes after the connection was lost go nowhere.                      *)
SendSome ==
    /\ client.pc = "send" /\ client.fd = "connected"
    /\ \E round \in send_all(client.unsent, Len(client.unsent)) :
          /\ client' = [client EXCEPT !.unsent = round.rest, !.pc = WhenSent(round.rest)]
          /\ inbox' = IF status[Me] = "lost" THEN inbox
                      ELSE [inbox EXCEPT ![Me] = @ \o round.sent]
    /\ UNCHANGED <<asked, printed, log, outbox, kv, status>>

(* send fails, reported as "send failed!"; or SIGPIPE, which send_all does
   not suppress, ends the process first.                                   *)
SendFails ==
    /\ client.pc = "send"
    /\ client.fd = "unconnected" \/ status[Me] = "lost"
    /\ \E end \in {"done", "killed"} : client' = [client EXCEPT !.pc = end]
    /\ UNCHANGED <<asked, printed, log, serviceVars>>

Reading == client.pc = "read" /\ ~next_message(client.response_buffer).has_value

Recv ==
    /\ Reading
    /\ \E round \in read_message(client.response_buffer, outbox[Me]) :
          /\ client' = [client EXCEPT !.response_buffer = round.buffer]
          /\ outbox' = [outbox EXCEPT ![Me] = round.rx]
    /\ UNCHANGED <<asked, printed, log, inbox, kv, status>>

(* End of the stream or an error: "server disconnected".                   *)
Disconnected ==
    /\ Reading /\ status[Me] = "lost"
    /\ client' = [client EXCEPT !.pc = "done"]
    /\ UNCHANGED <<asked, printed, log, serviceVars>>

PrintReply ==
    LET response == next_message(client.response_buffer) IN
    /\ client.pc = "read" /\ response.has_value
    /\ printed' = Append(printed, response.value)
    /\ client' = [client EXCEPT !.pc = "getline", !.response_buffer = response.buffer]
    /\ UNCHANGED <<asked, log, serviceVars>>

(* The destructor of socket_fd, or the end of the process: the server sees
   the end of the stream, or a reset when replies were unread.             *)
Close ==
    /\ client.pc \in {"done", "killed"} /\ client.fd = "connected"
    /\ client' = [client EXCEPT !.fd = "none"]
    /\ \/ Server!HalfClose(Me)
       \/ Server!Lose(Me)
    /\ UNCHANGED <<asked, printed, log>>

-----------------------------------------------------------------------------
(* The server                                                              *)

ServerExecutes ==
    /\ Server!Execute(Me)
    /\ LET line == next_message(inbox[Me]).value IN
          log' = Append(log, [line |-> line, reply |-> Answer(line, kv).text])
    /\ UNCHANGED <<client, asked, printed>>

ServerDrops ==
    /\ client.fd = "connected" /\ status[Me] = "open"
    /\ Server!Lose(Me)
    /\ UNCHANGED <<client, asked, printed, log>>

OthersExecute ==
    /\ \E line \in OtherLines : kv' = Answer(line, kv).store
    /\ UNCHANGED <<client, asked, printed, log, inbox, outbox, status>>

Connect == getaddrinfo \/ TryAddress \/ AddressesTried \/ CheckSocket

Exchange == SendSome \/ SendFails \/ Recv \/ Disconnected \/ PrintReply

Next ==
    \/ Connect \/ getline \/ Exchange \/ Close
    \/ ServerExecutes \/ ServerDrops \/ OthersExecute

Spec == Init /\ [][Next]_vars

(* The client's process runs; the server executes a complete line
   (EveryClientServed of EventLoop) unless it drops the connection.        *)
FairSpec == Spec /\ WF_vars(Connect) /\ WF_vars(Exchange) /\ WF_vars(ServerExecutes)

-----------------------------------------------------------------------------
(* The i-th reply printed is the server's answer to the i-th line of the
   input, and that line is the i-th the server executed, however the two
   streams were split and whatever other clients did
   (client.cpp:61-76, framing.cpp:8-69).                                   *)
RepliesPaired ==
    \A i \in 1..Len(printed) :
        i <= Len(log) /\ log[i] = [line |-> asked[i], reply |-> printed[i]]

(* However the session ends, the server has executed the lines whose reply
   was printed and at most the one after them: the client is in doubt about
   its last change only (README.md:14-15, client.cpp:61-73).               *)
OneRequestInDoubt ==
    /\ Len(printed) <= Len(log) /\ Len(log) <= Len(printed) + 1
    /\ \A i \in 1..Len(log) : i <= Len(asked) /\ log[i].line = asked[i]

(* A line taken from the input is answered or the client ends: client and
   server never wait for each other (client.cpp:63-73).                    *)
LineAnswered == client.pc = "send" ~> client.pc \in {"getline", "done", "killed"}

(* "connected to server" is printed, and lines are read, only with a socket
   that connected; otherwise "connect() failed" is (client.cpp:51-56).     *)
ConnectFailureReported ==
    client.pc \in {"getline", "send", "read"} => client.fd = "connected"
=============================================================================
