------------------------- MODULE EventLoopRefinement -------------------------
(***************************************************************************)
(* The event loop implements two abstract specifications: the service of   *)
(* KvService, for all its clients at once, and the ownership discipline of *)
(* UniqueFd, with main's locals and the entries of the client map as the   *)
(* owners.                                                                 *)
(***************************************************************************)
EXTENDS EventLoop

ConnectionOf(p) ==
    IF EntryOf(p) = {} THEN NewConnection
                     ELSE clients[CHOOSE fd \in EntryOf(p) : TRUE].conn

LostPeer(p) == sock[p].rst \/ sock[p].state = "lost"

(* What the service sees of p: the stream it has sent, the replies it is
   owed, and whether it is still there.                                    *)
Inbox(p) == pending_input(ConnectionOf(p)) \o sock[p].rx

Outbox(p) ==
    IF LostPeer(p) THEN sock[p].tx ELSE sock[p].tx \o pending_output(ConnectionOf(p))

Status(p) == IF LostPeer(p) THEN "lost" ELSE IF sock[p].fin THEN "ended" ELSE "open"

Lines == UNION {Script[p] : p \in Peers}

Inboxes == [p \in Peers |-> Inbox(p)]

Outboxes == [p \in Peers |-> Outbox(p)]

Statuses == [p \in Peers |-> Status(p)]

Service == INSTANCE KvService WITH
    Clients <- Peers, Chunks <- Lines, Returning <- Reconnecting,
    inbox <- Inboxes, outbox <- Outboxes, kv <- store, status <- Statuses

(* All clients together see the abstract service: one store, each client's
   lines executed atomically, in order and once, each reply sent to the
   client that asked, whoever used its descriptor number before
   (server.cpp:216-344).                                                   *)
ImplementsSharedService == Service!Spec

(* The owners: the listener, the poller, client of the accept loop, and one
   entry per number.                                                       *)
ListenerObject == -2
PollerObject == -3
ClientObject == -4

Objects == Fd \cup {ListenerObject, PollerObject, ClientObject}

Owners ==
    DOMAIN clients
        \cup {o \in {ListenerObject} : main.listener # -1}
        \cup {o \in {PollerObject} : main.poller # -1}
        \cup {o \in {ClientObject} : main.pc \in {"accepted", "emplaced", "attempted"}}

HeldBy(o) ==
    CASE o = ListenerObject -> main.listener
      [] o = PollerObject -> main.poller
      [] o = ClientObject -> IF main.pc = "accepted" THEN main.fd ELSE -1
      [] OTHER -> IF o \in DOMAIN clients THEN o ELSE -1

Ownership == INSTANCE UniqueFd WITH
    Object <- Objects,
    alive <- Owners,
    fd_ <- [o \in Objects |-> HeldBy(o)],
    open <- DOMAIN file

(* Every descriptor the process has open is owned by exactly one UniqueFd
   at every moment, from startup through refusals, retirements and failures
   to the end of main, which leaves none open
   (server.cpp:168, 202, 314-340).                                         *)
ImplementsOwnership == Ownership!Spec
=============================================================================
