------------------------- MODULE SessionRefinement -------------------------
(***************************************************************************)
(* A session implements the abstract service, seen by its one client: what *)
(* the kernel and the buffers hold, end to end, are the two byte streams.  *)
(***************************************************************************)
EXTENDS Session

(* service_client has answered everything the peer sent before its end.    *)
Answered == reason = "read EOF and output drained"

(* The peer reset the connection, or the server gave it up for another
   reason than a half-close it has answered completely.                    *)
Lost == rst \/ (pc = "closed" /\ ~Answered)

Inbox == IF pc = "closed" THEN <<>> ELSE pending_input(conn) \o rx

Outbox == IF Lost THEN tx ELSE tx \o pending_output(conn)

Status == IF Lost THEN "lost" ELSE IF fin THEN "ended" ELSE "open"

OfPeer(x) == [c \in {"peer"} |-> x]

Service == INSTANCE KvService WITH
    Clients <- {"peer"},
    Chunks <- {<<b>> : b \in Byte}, Returning <- {},
    inbox <- OfPeer(Inbox), outbox <- OfPeer(Outbox),
    kv <- store, status <- OfPeer(Status)

(* Every behaviour of the server towards one client, with its budgets,
   watermarks, partial sends and interest masks, is a behaviour of the
   abstract service: lines are executed atomically, in order, once each,
   and answered in order; a half-close costs neither lines nor replies
   (server.cpp:57-160, connection.cpp:16-136).                             *)
ImplementsService == Service!Spec
=============================================================================
