--------------------------- MODULE EventLoopProofs ---------------------------
(***************************************************************************)
(* Theorems about the event loop for any number of peers, slots and        *)
(* descriptors: main never uses an erased entry of the client map, its     *)
(* invariant exits are unreachable, and it keeps in step with the kernel:  *)
(* the registrations and interest masks in epoll, the idle timers and the  *)
(* owners of the open descriptors.  All its clients together see the       *)
(* abstract service, over any number of connections and recv calls.        *)
(***************************************************************************)
EXTENDS EventLoopRefinement, ConnectionProofs

Starting == {"socket", "configure", "create", "register"}

(* main is a record with these fields.                                     *)
Fields ==
    DOMAIN main = {"pc", "exit", "listener", "poller", "todo", "runnable",
                   "event", "fd", "attempt"}

(* What startup has not constructed yet is absent.                         *)
Fresh ==
    /\ main.pc \in Starting =>
          DOMAIN clients = {} /\ DOMAIN epoll = {} /\ main.todo = {}
    /\ main.pc = "socket" => main.listener = -1
    /\ main.pc \in Starting \ {"socket"} =>
          main.listener # -1 /\ file[main.listener] = "listener"
    /\ main.pc \in {"socket", "configure", "create"} => main.poller = -1

(* The open descriptors are those of the map, the listener, the poller and
   the connection accept has just returned, no number in two of the four.  *)
Owned ==
    /\ DOMAIN file \subseteq Fd
    /\ main.pc # "accepted" =>
          DOMAIN file = DOMAIN clients \cup ({main.listener, main.poller} \ {-1})
    /\ main.pc = "accepted" =>
          /\ DOMAIN file = DOMAIN clients \cup ({main.listener, main.poller, main.fd} \ {-1})
          /\ main.fd \notin DOMAIN clients \cup {main.listener, main.poller, -1}
    /\ main.listener \notin DOMAIN clients /\ main.poller \notin DOMAIN clients
    /\ main.listener = main.poller => main.listener = -1

(* Until main returns, epoll watches only owned descriptors, and the
   listener for reading.                                                   *)
Watched ==
    main.pc \notin {"exit", "stopped"} =>
        /\ DOMAIN epoll \subseteq DOMAIN clients \cup {main.listener}
        /\ main.listener \in DOMAIN epoll =>
              epoll[main.listener] = [file |-> "listener", read |-> TRUE, write |-> FALSE]

(* The scan has left what it visits, and is over when the thread waits.    *)
Iterators ==
    /\ main.pc \in {"scan", "exec"} => main.todo \subseteq DOMAIN clients
    /\ main.pc \in {"recv", "exec"} => main.fd \in DOMAIN clients \ main.todo
    /\ main.pc \in {"wait", "dispatch", "recv"} => main.todo = {}
    /\ main.pc = "emplaced" => main.fd \in DOMAIN clients

(* The event being dispatched is of a watched descriptor.                  *)
Reported ==
    main.pc = "dispatch" =>
        /\ main.event.fd \in DOMAIN epoll
        /\ main.event.fd = main.listener => main.event.readable /\ ~main.event.broken

(* The client map holds no more than it may.                               *)
Slots == Cardinality(DOMAIN clients) <= kMaxClients

Inv ==
    /\ Fields /\ Fresh /\ Owned /\ Watched /\ Slots
    /\ Iterators /\ Reported /\ NoInvariantExit

-----------------------------------------------------------------------------
(* The number the kernel hands out is not in use.                          *)
LEMMA LowestFree == ASSUME Free # {} PROVE Lowest \in Free
<1> DEFINE R == OpToRel(<, Nat)
<1>1. Free \subseteq Nat
  BY EventLoopAssumption DEF Free
<1>2. PICK x \in Free : \A y \in Free : ~(<<y, x>> \in R)
  <2> HIDE DEF R
  <2>1. IsWellFoundedOn(R, Nat)
    BY NatLessThanWellFounded DEF R
  <2> QED
    BY <1>1, <2>1, WFMin
<1>3. \A y \in Free : x <= y
  <2> SUFFICES ASSUME NEW y \in Free PROVE x <= y
    OBVIOUS
  <2>1. ~(<<y, x>> \in {ss \in Nat \X Nat : ss[1] < ss[2]})
    BY <1>2 DEF OpToRel
  <2> QED
    BY <2>1, <1>1
<1> QED
  BY <1>3 DEF Lowest

(* A number that is not in use is a natural number of Fd.                  *)
LEMMA FreshNumber ==
    ASSUME Free # {} PROVE Lowest \in Fd /\ Lowest \notin DOMAIN file /\ Lowest # -1
  BY LowestFree, EventLoopAssumption DEF Free

(* What adding an entry does to a map.                                     *)
LEMMA SetDomain ==
    ASSUME NEW m, NEW k, NEW v
    PROVE  /\ DOMAIN set(m, k, v) = DOMAIN m \cup {k}
           /\ set(m, k, v)[k] = v
           /\ \A j \in DOMAIN m \ {k} : set(m, k, v)[j] = m[j]
  BY DEF set

(* What removing an entry does to a map.                                    *)
LEMMA ErasedDomain ==
    ASSUME NEW m, NEW k
    PROVE  /\ DOMAIN erased(m, k) = DOMAIN m \ {k}
           /\ \A j \in DOMAIN m \ {k} : erased(m, k)[j] = m[j]
  BY DEF erased

(* No clients fill no slots.                                               *)
LEMMA NoneIsFew == Cardinality({}) <= kMaxClients
  BY FS_EmptySet, EventLoopAssumption

(* Removing a client leaves no more than there were.                        *)
LEMMA FewerClients ==
    ASSUME Owned, Slots, NEW fd
    PROVE  Cardinality(DOMAIN clients \ {fd}) <= kMaxClients
<1>1. IsFiniteSet(DOMAIN clients)
  <2>1. DOMAIN clients \subseteq Fd
    BY DEF Owned
  <2> QED
    BY <2>1, FS_Subset, EventLoopAssumption
<1>2. /\ Cardinality(DOMAIN clients \ {fd}) <= Cardinality(DOMAIN clients)
      /\ Cardinality(DOMAIN clients \ {fd}) \in Nat /\ Cardinality(DOMAIN clients) \in Nat
  BY <1>1, FS_Subset, FS_CardinalityType
<1> QED
  BY <1>2, EventLoopAssumption DEF Slots

(* The program starts with nothing open.                                   *)
LEMMA InitInv == Init => Inv
<1> SUFFICES ASSUME Init PROVE Inv
  OBVIOUS
<1>1. /\ Fields /\ main.pc = "socket" /\ main.exit = "" /\ main.todo = {}
      /\ main.listener = -1 /\ main.poller = -1
  BY DEF Init, Fields
<1>2. DOMAIN clients = {} /\ DOMAIN file = {} /\ DOMAIN epoll = {}
  BY DEF Init, EmptyStore
<1>3. Slots
  BY <1>2, NoneIsFew DEF Slots
<1> QED
  BY <1>1, <1>2, <1>3 DEF Inv, Fresh, Owned, Watched, Iterators, Reported, NoInvariantExit

-----------------------------------------------------------------------------
(* What the steps of the running loop have in common: listener and poller
   stay, and so does the listener's registration.                          *)
Kept ==
    /\ Fields' /\ main'.listener = main.listener /\ main'.poller = main.poller
    /\ main.listener \in DOMAIN epoll => epoll'[main.listener] = epoll[main.listener]

SameDomains ==
    /\ DOMAIN clients' = DOMAIN clients
    /\ DOMAIN file' = DOMAIN file
    /\ DOMAIN epoll' = DOMAIN epoll

Retired(fd) ==
    /\ DOMAIN clients' = DOMAIN clients \ {fd}
    /\ DOMAIN file' = DOMAIN file \ {fd}
    /\ DOMAIN epoll' = DOMAIN epoll \ {fd}

Running == main.pc \notin Starting \cup {"accepted", "exit", "stopped"}

(* Such a step keeps owners and registrations in step when it removes a
   client, or adds none.                                                   *)
LEMMA SetsKept ==
    ASSUME Inv, Running, Kept, main'.pc \notin Starting, main'.pc # "accepted",
           \/ SameDomains
           \/ \E fd \in DOMAIN clients : Retired(fd)
    PROVE  Fields' /\ Fresh' /\ Owned' /\ Watched' /\ Slots'
<1>1. Fields' /\ Fresh'
  BY DEF Kept, Fresh, Starting
<1>2. Owned'
  BY DEF Inv, Kept, Owned, SameDomains, Retired, Running
<1>3. Watched'
  BY DEF Inv, Kept, Owned, Watched, SameDomains, Retired, Running
<1>4. Slots'
  BY FewerClients DEF Inv, Slots, SameDomains, Retired
<1> QED
  BY <1>1, <1>2, <1>3, <1>4

(* retire_client removes the entry, its descriptor and its registration.   *)
LEMMA RetireEffect ==
    ASSUME Inv, NEW fd \in DOMAIN clients, NEW state, NEW tx,
           retire_client(fd, state, tx)
    PROVE  /\ Retired(fd)
           /\ main.listener \in DOMAIN epoll => epoll'[main.listener] = epoll[main.listener]
<1>1. fd # main.listener
  BY DEF Inv, Owned
<1>2. clients' = erased(clients, fd) /\ file' = erased(file, fd) /\ epoll' = erased(epoll, fd)
  BY DEF retire_client, close
<1> QED
  BY <1>1, <1>2, ErasedDomain DEF Retired

-----------------------------------------------------------------------------
(* The scan                                                                *)
LEMMA ScanInv == ASSUME Inv, Scan PROVE Inv'
<1>1. ASSUME NEW fd \in Fd, ScanExpired(fd) PROVE Inv'
  <2>1. fd \in DOMAIN clients /\ main.pc = "scan" /\ main.todo \subseteq DOMAIN clients
    BY <1>1 DEF ScanExpired, Scanning, Inv, Iterators
  <2>2. Retired(fd) /\ (main.listener \in DOMAIN epoll => epoll'[main.listener] = epoll[main.listener])
    BY <1>1, <2>1, RetireEffect DEF ScanExpired
  <2>3. /\ Kept /\ main'.pc = main.pc /\ main'.exit = main.exit
        /\ main'.todo = main.todo \ {fd}
    BY <1>1, <2>2 DEF ScanExpired, Inv, Fields, Kept, passed
  <2>4. Fields' /\ Fresh' /\ Owned' /\ Watched' /\ Slots'
    BY <2>1, <2>2, <2>3, SetsKept DEF Running, Starting
  <2> QED
    BY <2>1, <2>2, <2>3, <2>4 DEF Inv, Iterators, Reported, NoInvariantExit, Retired
<1>2. ASSUME NEW fd \in Fd, ScanRunnable(fd) PROVE Inv'
  <2>1. fd \in DOMAIN clients /\ main.pc = "scan" /\ main.todo \subseteq DOMAIN clients
    BY <1>2 DEF ScanRunnable, Scanning, Inv, Iterators
  <2>2. SameDomains /\ epoll' = epoll
    BY <1>2 DEF ScanRunnable, SameDomains
  <2>3. /\ Kept /\ main'.pc = "exec" /\ main'.exit = main.exit
        /\ main'.todo = main.todo \ {fd} /\ main'.fd = fd
    BY <1>2, <2>2 DEF ScanRunnable, Inv, Fields, Kept, passed
  <2>4. Fields' /\ Fresh' /\ Owned' /\ Watched' /\ Slots'
    BY <2>1, <2>2, <2>3, SetsKept DEF Running, Starting
  <2> QED
    BY <2>1, <2>2, <2>3, <2>4 DEF Inv, Iterators, Reported, NoInvariantExit, SameDomains
<1>3. ASSUME NEW fd \in Fd, ScanQuiet(fd) PROVE Inv'
  <2>1. main.pc = "scan" /\ main.todo \subseteq DOMAIN clients
    BY <1>3 DEF ScanQuiet, Scanning, Inv, Iterators
  <2>2. SameDomains /\ epoll' = epoll
    BY <1>3 DEF ScanQuiet, SameDomains
  <2>3. /\ Kept /\ main'.pc = main.pc /\ main'.exit = main.exit
        /\ main'.todo = main.todo \ {fd}
    BY <1>3, <2>2 DEF ScanQuiet, Inv, Fields, Kept
  <2>4. Fields' /\ Fresh' /\ Owned' /\ Watched' /\ Slots'
    BY <2>1, <2>2, <2>3, SetsKept DEF Running, Starting
  <2> QED
    BY <2>1, <2>2, <2>3, <2>4 DEF Inv, Iterators, Reported, NoInvariantExit, SameDomains
<1>4. CASE ScanEnd
  <2>1. main.pc = "scan" /\ main.todo = {}
    BY <1>4 DEF ScanEnd
  <2>2. SameDomains /\ epoll' = epoll
    BY <1>4 DEF ScanEnd, SameDomains
  <2>3. Kept /\ main'.pc = "wait" /\ main'.exit = main.exit /\ main'.todo = main.todo
    BY <1>4, <2>2 DEF ScanEnd, Goto, Inv, Fields, Kept
  <2>4. Fields' /\ Fresh' /\ Owned' /\ Watched' /\ Slots'
    BY <2>1, <2>2, <2>3, SetsKept DEF Running, Starting
  <2> QED
    BY <2>1, <2>2, <2>3, <2>4 DEF Inv, Iterators, Reported, NoInvariantExit, SameDomains
<1> QED
  BY <1>1, <1>2, <1>3, <1>4 DEF Scan

(* Startup: each step adds one owner.                                      *)
LEMMA StartInv == ASSUME Inv, Start PROVE Inv'
<1> USE DEF Starting
<1>0. Slots'
  <2>1. clients' = clients
    BY DEF Start, create_socket, ConfigureListener, CreatePoller, RegisterListener,
           StartupFails
  <2> QED
    BY <2>1 DEF Inv, Slots
<1>1. CASE create_socket
  <2>1. /\ main.pc = "socket" /\ main.listener = -1 /\ main.poller = -1 /\ main.todo = {}
        /\ DOMAIN clients = {} /\ DOMAIN epoll = {} /\ DOMAIN file = {}
    BY <1>1 DEF create_socket, Inv, Fresh, Owned
  <2>2. /\ Fields' /\ main'.pc = "configure" /\ main'.listener = Lowest
        /\ main'.poller = -1 /\ main'.todo = {} /\ main'.exit = main.exit
    BY <1>1, <2>1 DEF create_socket, Inv, Fields
  <2>3. Lowest \in Fd /\ Lowest # -1
    BY <1>1, FreshNumber DEF create_socket
  <2>4. file' = set(file, Lowest, "listener") /\ UNCHANGED <<clients, epoll>>
    BY <1>1 DEF create_socket
  <2>5. DOMAIN file' = {Lowest} /\ file'[Lowest] = "listener"
    BY <2>1, <2>4 DEF set
  <2> QED
    BY <1>0, <2>1, <2>2, <2>3, <2>4, <2>5 DEF Inv, Fresh, Owned, Watched, Iterators, Reported, NoInvariantExit
<1>2. CASE ConfigureListener
  <2>1. main.pc = "configure"
    BY <1>2 DEF ConfigureListener
  <2>2. /\ Fields' /\ main'.pc = "create" /\ main'.listener = main.listener
        /\ main'.poller = main.poller /\ main'.todo = main.todo /\ main'.exit = main.exit
    BY <1>2 DEF ConfigureListener, Goto, Inv, Fields
  <2>3. UNCHANGED <<clients, file, epoll>>
    BY <1>2 DEF ConfigureListener
  <2> QED
    BY <1>0, <2>1, <2>2, <2>3 DEF Inv, Fresh, Owned, Watched, Iterators, Reported, NoInvariantExit
<1>3. CASE CreatePoller
  <2>1. /\ main.pc = "create" /\ main.poller = -1 /\ main.todo = {}
        /\ DOMAIN clients = {} /\ DOMAIN epoll = {}
    BY <1>3 DEF CreatePoller, Inv, Fresh
  <2>2. /\ Fields' /\ main'.pc = "register" /\ main'.listener = main.listener
        /\ main'.poller = Lowest /\ main'.todo = {} /\ main'.exit = main.exit
    BY <1>3, <2>1 DEF CreatePoller, Inv, Fields
  <2>3. Lowest \in Fd /\ Lowest # -1 /\ Lowest \notin DOMAIN file
    BY <1>3, FreshNumber DEF CreatePoller
  <2>4. file' = set(file, Lowest, "epoll") /\ UNCHANGED <<clients, epoll>>
    BY <1>3 DEF CreatePoller
  <2>5. main.listener \in DOMAIN file /\ file[main.listener] = "listener"
    BY <2>1 DEF Inv, Fresh, Owned
  <2>6. DOMAIN file' = DOMAIN file \cup {Lowest} /\ file'[main.listener] = "listener"
    BY <2>3, <2>4, <2>5 DEF set
  <2> QED
    BY <1>0, <2>1, <2>2, <2>3, <2>4, <2>5, <2>6 DEF Inv, Fresh, Owned, Watched, Iterators, Reported, NoInvariantExit
<1>4. CASE RegisterListener
  <2>1. main.pc = "register" /\ main.todo = {} /\ DOMAIN clients = {} /\ DOMAIN epoll = {}
    BY <1>4 DEF RegisterListener, Inv, Fresh
  <2>2. /\ Fields' /\ main'.pc = "scan" /\ main'.listener = main.listener
        /\ main'.poller = main.poller /\ main'.todo = {} /\ main'.exit = main.exit
    BY <1>4, <2>1 DEF RegisterListener, Goto, Inv, Fields
  <2>3. file[main.listener] = "listener"
    BY <2>1 DEF Inv, Fresh
  <2>4. /\ clients' = clients /\ file' = file
        /\ epoll' = set(epoll, main.listener,
                        [file |-> "listener", read |-> TRUE, write |-> FALSE])
    BY <1>4, <2>3 DEF RegisterListener, added
  <2>5. /\ DOMAIN epoll' = {main.listener}
        /\ epoll'[main.listener] = [file |-> "listener", read |-> TRUE, write |-> FALSE]
    BY <2>1, <2>4 DEF set
  <2> QED
    BY <1>0, <2>1, <2>2, <2>4, <2>5 DEF Inv, Fresh, Owned, Watched, Iterators, Reported, NoInvariantExit
<1>5. CASE StartupFails
  <2>1. /\ Fields' /\ main'.pc = "exit" /\ main'.exit = "startup"
        /\ main'.listener = main.listener /\ main'.poller = main.poller
    BY <1>5 DEF StartupFails, Exit, Inv, Fields
  <2>2. UNCHANGED <<clients, file, epoll>> /\ main.pc # "accepted"
    BY <1>5 DEF StartupFails
  <2>3. Owned'
    BY <2>1, <2>2 DEF Inv, Owned
  <2> QED
    BY <1>0, <2>1, <2>2, <2>3 DEF Inv, Fresh, Watched, Iterators, Reported, NoInvariantExit
<1> QED
  BY <1>1, <1>2, <1>3, <1>4, <1>5 DEF Start

(* The destructors: each closes what it owns.                              *)
LEMMA UnwindInv == ASSUME Inv, Unwind PROVE Inv'
<1>1. main.pc = "exit"
  BY DEF Unwind
<1>2. ASSUME Fields', main'.exit = main.exit, main'.pc \in {"exit", "stopped"}, Owned',
             clients' = clients \/ \E fd \in DOMAIN clients : DOMAIN clients' = DOMAIN clients \ {fd}
      PROVE  Inv'
  <2>1. Slots'
    BY <1>2, FewerClients DEF Inv, Slots
  <2> QED
    BY <1>2, <2>1 DEF Inv, Fresh, Starting, Watched, Iterators, Reported, NoInvariantExit
<1>3. ASSUME NEW fd \in DOMAIN clients, clients' = erased(clients, fd),
             file' = erased(file, fd), main' = main
      PROVE  Inv'
  <2>1. DOMAIN clients' = DOMAIN clients \ {fd} /\ DOMAIN file' = DOMAIN file \ {fd}
    BY <1>3, ErasedDomain
  <2>2. Owned'
    BY <1>3, <2>1 DEF Inv, Owned
  <2> QED
    BY <1>1, <1>2, <1>3, <2>1, <2>2 DEF Inv, Fields
<1>4. ASSUME DOMAIN clients = {}, main.poller # -1, clients' = clients,
             main' = [main EXCEPT !.poller = -1], file' = erased(file, main.poller)
      PROVE  Inv'
  <2>1. /\ Fields' /\ main'.pc = main.pc /\ main'.exit = main.exit
        /\ main'.listener = main.listener /\ main'.poller = -1
    BY <1>4 DEF Inv, Fields
  <2>2. DOMAIN file' = DOMAIN file \ {main.poller}
    BY <1>4, ErasedDomain
  <2>3. Owned'
    BY <1>4, <2>1, <2>2 DEF Inv, Owned
  <2> QED
    BY <1>1, <1>2, <1>4, <2>1, <2>3
<1>5. ASSUME UNCHANGED <<main, clients, file>>
      PROVE  Inv'
  BY <1>1, <1>2, <1>5 DEF Inv, Fields, Owned
<1>6. ASSUME main.poller = -1, clients' = clients, file' = erased(file, main.listener),
             main' = [main EXCEPT !.listener = -1, !.pc = "stopped"]
      PROVE  Inv'
  <2>1. /\ Fields' /\ main'.pc = "stopped" /\ main'.exit = main.exit
        /\ main'.listener = -1 /\ main'.poller = -1
    BY <1>6 DEF Inv, Fields
  <2>2. DOMAIN file' = DOMAIN file \ {main.listener}
    BY <1>6, ErasedDomain
  <2>3. Owned'
    BY <1>1, <1>6, <2>1, <2>2, EventLoopAssumption DEF Inv, Owned
  <2> QED
    BY <1>2, <1>6, <2>1, <2>3
<1> QED
  BY <1>3, <1>4, <1>5, <1>6 DEF Unwind, close

-----------------------------------------------------------------------------
(* A return from the running loop with owners and registrations kept.      *)
LEMMA ExitInv ==
    ASSUME Inv, Running, SameDomains, epoll' = epoll,
           NEW why \in {"poller wait", "accept"}, Exit(why)
    PROVE  Inv'
<1>1. Kept /\ main'.pc = "exit" /\ main'.exit = why
  BY DEF Exit, Inv, Fields, Kept
<1>2. Fields' /\ Fresh' /\ Owned' /\ Watched' /\ Slots'
  BY <1>1, SetsKept DEF Starting
<1> QED
  BY <1>1, <1>2 DEF Inv, Iterators, Reported, NoInvariantExit

(* A new turn of the loop, with the clients kept or one of them retired.    *)
LEMMA NextTurnInv ==
    ASSUME Inv, Running, NextTurn,
           SameDomains \/ \E fd \in DOMAIN clients : Retired(fd),
           main.listener \in DOMAIN epoll => epoll'[main.listener] = epoll[main.listener]
    PROVE  Inv'
<1>1. /\ Kept /\ main'.pc = "scan" /\ main'.exit = main.exit
      /\ main'.todo = DOMAIN clients'
  BY DEF NextTurn, Inv, Fields, Kept
<1>2. Fields' /\ Fresh' /\ Owned' /\ Watched' /\ Slots'
  BY <1>1, SetsKept DEF Starting
<1> QED
  BY <1>1, <1>2 DEF Inv, Iterators, Reported, NoInvariantExit

(* The listener is reported only as readable.                              *)
LEMMA ListenerReport ==
    ASSUME NEW reg, reg = [file |-> "listener", read |-> TRUE, write |-> FALSE],
           Readable(reg) \/ Broken(reg) \/ Writable(reg)
    PROVE  Readable(reg) /\ ~Broken(reg)
<1>1. reg.file = "listener" /\ ~reg.write
  OBVIOUS
<1> QED
  BY <1>1 DEF Readable, Broken, Writable

(* The wait reports watched descriptors only, and the listener as
   readable.                                                                *)
LEMMA WaitInv == ASSUME Inv, Wait PROVE Inv'
<1>0. main.pc = "wait" /\ Running
  BY DEF Wait, WaitEvent, WaitNothing, WaitFails, Running, Starting
<1>1. ASSUME NEW fd \in Fd, WaitEvent(fd) PROVE Inv'
  <2>1. SameDomains /\ epoll' = epoll
    BY <1>1 DEF WaitEvent, LetPass, SameDomains
  <2>2. /\ Kept /\ main'.pc = "dispatch" /\ main'.exit = main.exit
        /\ main'.todo = main.todo
        /\ main'.event = [fd |-> fd, readable |-> Readable(epoll[fd]),
                          broken |-> Broken(epoll[fd])]
    BY <1>1, <2>1 DEF WaitEvent, Inv, Fields, Kept
  <2>3. Fields' /\ Fresh' /\ Owned' /\ Watched' /\ Slots'
    BY <1>0, <2>1, <2>2, SetsKept DEF Starting
  <2>4. main'.event.fd \in DOMAIN epoll'
    BY <1>1, <2>1, <2>2 DEF WaitEvent
  <2>5. ASSUME main'.event.fd = main'.listener
        PROVE  main'.event.readable /\ ~main'.event.broken
    <3>1. fd = main.listener /\ fd \in DOMAIN epoll
      BY <1>1, <2>2, <2>5 DEF WaitEvent, Kept
    <3>2. epoll[fd] = [file |-> "listener", read |-> TRUE, write |-> FALSE]
      BY <1>0, <3>1 DEF Inv, Watched
    <3>3. Readable(epoll[fd]) /\ ~Broken(epoll[fd])
      BY <1>1, <3>2, ListenerReport DEF WaitEvent
    <3> QED
      BY <2>2, <3>3
  <2> QED
    BY <1>0, <2>2, <2>3, <2>4, <2>5 DEF Inv, Iterators, Reported, NoInvariantExit
<1>2. CASE WaitNothing
  <2>1. SameDomains /\ epoll' = epoll /\ NextTurn
    BY <1>2 DEF WaitNothing, LetPass, SameDomains
  <2> QED
    BY <1>0, <2>1, NextTurnInv
<1>3. CASE WaitFails
  <2>1. SameDomains /\ epoll' = epoll /\ Exit("poller wait")
    BY <1>3 DEF WaitFails, SameDomains
  <2> QED
    BY <1>0, <2>1, ExitInv
<1> QED
  BY <1>1, <1>2, <1>3 DEF Wait

(* The two exits of the dispatch are unreachable.                          *)
LEMMA DispatchInv == ASSUME Inv, Dispatch PROVE Inv'
<1>0. main.pc = "dispatch" /\ Running
  BY DEF Dispatch, DispatchBroken, DispatchClient, DispatchListener, Running, Starting
<1>1. CASE DispatchBroken
  <2>1. PICK fd \in DOMAIN clients : retire_client(fd, "lost", sock[file[fd]].tx)
    BY <1>1 DEF DispatchBroken
  <2>2. Retired(fd) /\ (main.listener \in DOMAIN epoll => epoll'[main.listener] = epoll[main.listener])
    BY <2>1, RetireEffect
  <2>3. NextTurn
    BY <1>1 DEF DispatchBroken
  <2> QED
    BY <1>0, <2>2, <2>3, NextTurnInv
<1>2. CASE DispatchClient
  <2>1. main.event.fd \in DOMAIN clients
    BY <1>0, <1>2 DEF DispatchClient, Inv, Reported, Watched
  <2>2. SameDomains /\ epoll' = epoll
    BY <1>2 DEF DispatchClient, SameDomains
  <2>3. main' = [main EXCEPT !.pc = "recv", !.fd = main.event.fd]
    BY <1>2, <2>1 DEF DispatchClient
  <2>4. /\ Kept /\ main'.pc = "recv" /\ main'.exit = main.exit
        /\ main'.todo = main.todo /\ main'.fd = main.event.fd
    BY <2>2, <2>3 DEF Inv, Fields, Kept
  <2>5. Fields' /\ Fresh' /\ Owned' /\ Watched' /\ Slots'
    BY <1>0, <2>2, <2>4, SetsKept DEF Starting
  <2> QED
    BY <1>0, <2>1, <2>2, <2>4, <2>5 DEF Inv, Iterators, Reported, NoInvariantExit, SameDomains
<1>3. CASE DispatchListener
  <2>1. main.event.readable /\ ~main.event.broken
    BY <1>0, <1>3 DEF DispatchListener, Inv, Reported
  <2>2. SameDomains /\ epoll' = epoll
    BY <1>3 DEF DispatchListener, SameDomains
  <2>3. Goto("accept")
    BY <1>3, <2>1 DEF DispatchListener
  <2>4. Kept /\ main'.pc = "accept" /\ main'.exit = main.exit
    BY <2>2, <2>3 DEF Goto, Inv, Fields, Kept
  <2>5. Fields' /\ Fresh' /\ Owned' /\ Watched' /\ Slots'
    BY <1>0, <2>2, <2>4, SetsKept DEF Starting
  <2> QED
    BY <2>4, <2>5 DEF Inv, Iterators, Reported, NoInvariantExit
<1> QED
  BY <1>1, <1>2, <1>3 DEF Dispatch

-----------------------------------------------------------------------------
(* What counting an attempt does to main's locals.                         *)
LEMMA AttemptedFields ==
    ASSUME Inv, Attempted
    PROVE  /\ Fields' /\ main'.pc = main.pc /\ main'.exit = main.exit
           /\ main'.todo = main.todo /\ main'.fd = main.fd
           /\ main'.listener = main.listener /\ main'.poller = main.poller
  BY DEF Attempted, Inv, Fields

(* What the end of an attempt does to them.                                *)
LEMMA NextAttemptFields ==
    ASSUME Inv, NextAttempt
    PROVE  /\ Fields' /\ main'.pc = "accept" /\ main'.exit = main.exit
           /\ main'.todo = main.todo
           /\ main'.listener = main.listener /\ main'.poller = main.poller
  BY DEF NextAttempt, Inv, Fields

(* An attempt that keeps no connection, or the end of one that is over.    *)
LEMMA AcceptQuietInv ==
    ASSUME Inv, main.pc \in {"accept", "attempted"}, UNCHANGED <<clients, file, epoll>>,
           \/ main.pc = "accept" /\ Attempted
           \/ NextAttempt
    PROVE  Inv'
<1>1. SameDomains /\ Running
  BY DEF SameDomains, Running, Starting
<1>2. Kept /\ main'.pc = "accept" /\ main'.exit = main.exit
  BY AttemptedFields, NextAttemptFields DEF Kept
<1>3. Fields' /\ Fresh' /\ Owned' /\ Watched' /\ Slots'
  BY <1>1, <1>2, SetsKept DEF Starting
<1> QED
  BY <1>2, <1>3 DEF Inv, Iterators, Reported, NoInvariantExit

(* accept opens a number that nobody owns, for client to own.               *)
LEMMA AcceptReturnsInv == ASSUME Inv, AcceptReturns PROVE Inv'
<1>1. main.pc = "accept" /\ Free # {}
  BY DEF AcceptReturns, Accepting
<1>2. Lowest \in Fd /\ Lowest \notin DOMAIN file /\ Lowest # -1
  BY <1>1, FreshNumber
<1>3. Lowest \notin DOMAIN clients /\ Lowest # main.listener /\ Lowest # main.poller
  BY <1>2 DEF Inv, Owned
<1>4. DOMAIN file' = DOMAIN file \cup {Lowest} /\ clients' = clients /\ epoll' = epoll
  BY SetDomain DEF AcceptReturns
<1>5. /\ Fields' /\ main'.pc = "accepted" /\ main'.exit = main.exit
      /\ main'.listener = main.listener /\ main'.poller = main.poller
      /\ main'.fd = Lowest
  BY DEF AcceptReturns, Inv, Fields
<1>6. Owned'
  BY <1>1, <1>2, <1>3, <1>4, <1>5 DEF Inv, Owned
<1>7. Fresh' /\ Watched' /\ Slots' /\ Iterators' /\ Reported'
  BY <1>1, <1>4, <1>5 DEF Inv, Fresh, Starting, Watched, Slots, Iterators, Reported
<1> QED
  BY <1>5, <1>6, <1>7 DEF Inv, NoInvariantExit

(* client closes what it owns: at the end of the attempt, or of main.       *)
LEMMA ClientClosedInv ==
    ASSUME Inv, main.pc = "accepted", close(main.fd, "lost", <<>>), clients' = clients,
           Fields', main'.pc \in {"accept", "exit"}, main'.exit = main.exit,
           main'.listener = main.listener, main'.poller = main.poller
    PROVE  Inv'
<1>1. /\ DOMAIN file' = DOMAIN file \ {main.fd} /\ DOMAIN epoll' = DOMAIN epoll \ {main.fd}
      /\ \A j \in DOMAIN epoll \ {main.fd} : epoll'[j] = epoll[j]
  BY DEF close, erased
<1>2. main.fd \notin DOMAIN clients \cup {main.listener, main.poller}
  BY DEF Inv, Owned
<1>3. Owned'
  BY <1>1, <1>2 DEF Inv, Owned
<1>4. Watched'
  BY <1>1, <1>2 DEF Inv, Watched
<1> QED
  BY <1>3, <1>4 DEF Inv, Fresh, Starting, Slots, Iterators, Reported, NoInvariantExit

(* One client more, where there was room for it.                            *)
LEMMA OneMoreClient ==
    ASSUME Inv, ~Full, NEW fd, fd \notin DOMAIN clients
    PROVE  Cardinality(DOMAIN clients \cup {fd}) <= kMaxClients
<1>1. DOMAIN clients \subseteq Fd
  BY DEF Inv, Owned
<1>2. IsFiniteSet(DOMAIN clients)
  BY <1>1, FS_Subset, EventLoopAssumption
<1>3. /\ Cardinality(DOMAIN clients \cup {fd}) = Cardinality(DOMAIN clients) + 1
      /\ Cardinality(DOMAIN clients) \in Nat
  BY <1>2, FS_AddElement, FS_CardinalityType
<1>4. Cardinality(DOMAIN clients) < kMaxClients
  BY <1>3, EventLoopAssumption DEF Full
<1> QED
  BY <1>3, <1>4, EventLoopAssumption

(* client is moved into a new entry.  The exit for a number that has one is
   unreachable, because accept returns a free number.                       *)
LEMMA AcceptEmplacesInv == ASSUME Inv, AcceptEmplaces PROVE Inv'
<1>0. main.pc = "accepted" /\ ~Full
  BY DEF AcceptEmplaces
<1>1. /\ main.pc = "accepted" /\ ~Full /\ main.fd \notin DOMAIN clients
      /\ main.fd \notin {main.listener, main.poller}
  BY <1>0 DEF Inv, Owned
<1>2. /\ clients' = set(clients, main.fd, [conn |-> NewConnection, idle |-> 0])
      /\ Goto("emplaced") /\ file' = file /\ epoll' = epoll
  BY <1>1 DEF AcceptEmplaces
<1>3. DOMAIN clients' = DOMAIN clients \cup {main.fd}
  BY <1>2 DEF set
<1>4. /\ Fields' /\ main'.pc = "emplaced" /\ main'.exit = main.exit /\ main'.fd = main.fd
      /\ main'.listener = main.listener /\ main'.poller = main.poller
  BY <1>2 DEF Goto, Inv, Fields
<1>5. Owned'
  BY <1>1, <1>2, <1>3, <1>4 DEF Inv, Owned
<1>6. Watched'
  BY <1>1, <1>2, <1>3, <1>4 DEF Inv, Watched
<1>7. Slots'
  BY <1>1, <1>3, OneMoreClient DEF Slots
<1>8. Fresh' /\ Iterators' /\ Reported'
  BY <1>3, <1>4 DEF Fresh, Starting, Iterators, Reported
<1> QED
  BY <1>4, <1>5, <1>6, <1>7, <1>8 DEF Inv, NoInvariantExit

(* The new entry is registered.                                             *)
LEMMA AcceptClientInv == ASSUME Inv, AcceptClient PROVE Inv'
<1>1. main.pc = "emplaced" /\ main.fd \in DOMAIN clients /\ main.fd # main.listener
  BY DEF AcceptClient, Inv, Iterators, Owned
<1>2. epoll' = added(main.fd) /\ clients' = clients /\ file' = file
  BY DEF AcceptClient
<1>3. /\ DOMAIN epoll' = DOMAIN epoll \cup {main.fd}
      /\ main.listener \in DOMAIN epoll => epoll'[main.listener] = epoll[main.listener]
  BY <1>1, <1>2 DEF added, set
<1>4. /\ Fields' /\ main'.pc = "accept" /\ main'.exit = main.exit
      /\ main'.listener = main.listener /\ main'.poller = main.poller
  BY NextAttemptFields DEF AcceptClient
<1>5. Owned'
  BY <1>1, <1>2, <1>4 DEF Inv, Owned
<1>6. Watched'
  BY <1>1, <1>2, <1>3, <1>4 DEF Inv, Watched
<1> QED
  BY <1>2, <1>4, <1>5, <1>6
     DEF Inv, Fresh, Starting, Slots, Iterators, Reported, NoInvariantExit

(* The new entry is erased.                                                 *)
LEMMA AcceptUnwatchedInv == ASSUME Inv, AcceptUnwatched PROVE Inv'
<1>1. main.pc = "emplaced" /\ Running /\ main.fd \in DOMAIN clients
  BY DEF AcceptUnwatched, Inv, Iterators, Running, Starting
<1>2. /\ Retired(main.fd)
      /\ main.listener \in DOMAIN epoll => epoll'[main.listener] = epoll[main.listener]
  <2>1. main.fd # main.listener
    BY <1>1 DEF Inv, Owned
  <2> QED
    BY <2>1, ErasedDomain DEF AcceptUnwatched, close, Retired
<1>3. Kept /\ main'.pc = "attempted" /\ main'.exit = main.exit
  BY <1>2 DEF AcceptUnwatched, Goto, Inv, Fields, Kept
<1>4. Fields' /\ Fresh' /\ Owned' /\ Watched' /\ Slots'
  BY <1>1, <1>2, <1>3, SetsKept DEF Starting
<1> QED
  BY <1>3, <1>4 DEF Inv, Iterators, Reported, NoInvariantExit

(* The accept loop.                                                         *)
LEMMA AcceptInv == ASSUME Inv, Accept PROVE Inv'
<1>1. CASE AcceptInterrupted \/ AcceptAborted \/ AttemptEnds
  BY <1>1, AcceptQuietInv DEF AcceptInterrupted, AcceptAborted, AttemptEnds, Accepting
<1>2. CASE AcceptFails
  <2>1. SameDomains /\ epoll' = epoll /\ Exit("accept") /\ Running
    BY <1>2 DEF AcceptFails, Accepting, SameDomains, Running, Starting
  <2> QED
    BY <2>1, ExitInv
<1>3. CASE AcceptDone
  <2>1. SameDomains /\ epoll' = epoll /\ NextTurn /\ Running
    BY <1>3 DEF AcceptDone, SameDomains, Running, Starting
  <2> QED
    BY <2>1, NextTurnInv
<1>4. CASE AcceptFull \/ AcceptUnusable
  <2>1. main.pc = "accepted" /\ Refused
    BY <1>4 DEF AcceptFull, AcceptUnusable
  <2> QED
    BY <2>1, NextAttemptFields, ClientClosedInv DEF Refused
<1> QED
  BY <1>1, <1>2, <1>3, <1>4, AcceptReturnsInv, AcceptEmplacesInv, AcceptClientInv,
     AcceptUnwatchedInv DEF Accept

-----------------------------------------------------------------------------
(* The end of a visit, which keeps the connection or has retired it.       *)
LEMMA VisitOverInv ==
    ASSUME Inv, main.pc \in {"recv", "exec"}, NEW still, VisitOver(still),
           SameDomains \/ Retired(main.fd),
           main.listener \in DOMAIN epoll => epoll'[main.listener] = epoll[main.listener]
    PROVE  Inv'
<1>0. /\ Running /\ main.fd \in DOMAIN clients \ main.todo
      /\ main.todo \subseteq DOMAIN clients
  BY DEF Running, Starting, Inv, Iterators
<1>1. CASE NextTurn
  BY <1>0, <1>1, NextTurnInv
<1>2. CASE ~NextTurn
  <2>1. main' = [main EXCEPT !.pc = "scan", !.runnable = @ \/ still, !.fd = -1,
                             !.attempt = 0]
    BY <1>2 DEF VisitOver
  <2>2. /\ Kept /\ main'.pc = "scan" /\ main'.exit = main.exit
        /\ main'.todo = main.todo
    BY <2>1 DEF Inv, Fields, Kept
  <2>3. Fields' /\ Fresh' /\ Owned' /\ Watched' /\ Slots'
    BY <1>0, <2>2, SetsKept DEF Starting
  <2> QED
    BY <1>0, <2>2, <2>3 DEF Inv, Iterators, Reported, NoInvariantExit, SameDomains, Retired
<1> QED
  BY <1>1, <1>2

(* The end of a visit that asks for retirement.                             *)
LEMMA VisitRetires ==
    ASSUME Inv, main.pc \in {"recv", "exec"}, NEW state, NEW tx,
           retire_client(main.fd, state, tx), VisitOver(FALSE)
    PROVE  Inv'
<1>1. main.fd \in DOMAIN clients
  BY DEF Inv, Iterators
<1> QED
  BY <1>1, RetireEffect, VisitOverInv

(* A step within a visit changes buffers only.                             *)
LEMMA VisitGoesOn ==
    ASSUME Inv, main.pc \in {"recv", "exec"}, SameDomains, epoll' = epoll,
           \/ Goto("exec")
           \/ main.pc = "exec" /\ Attempted
    PROVE  Inv'
<1>0. /\ Running /\ main.fd \in DOMAIN clients \ main.todo
      /\ main.todo \subseteq DOMAIN clients
  BY DEF Running, Starting, Inv, Iterators
<1>1. /\ Kept /\ main'.pc = "exec" /\ main'.exit = main.exit
      /\ main'.todo = main.todo /\ main'.fd = main.fd
  <2>1. CASE Goto("exec")
    BY <2>1 DEF Goto, Inv, Fields, Kept
  <2>2. CASE main.pc = "exec" /\ Attempted
    BY <2>2, AttemptedFields DEF Kept
  <2> QED
    BY <2>1, <2>2
<1>2. Fields' /\ Fresh' /\ Owned' /\ Watched' /\ Slots'
  BY <1>0, <1>1, SetsKept DEF Starting
<1> QED
  BY <1>0, <1>1, <1>2 DEF Inv, Iterators, Reported, NoInvariantExit, SameDomains

(* A visit touches the entry and the registration of its connection
   only.                                                                    *)
LEMMA VisitInv == ASSUME Inv, Visit PROVE Inv'
<1>0. main.pc \in {"recv", "exec"}
  BY DEF Visit, VisitRecv, VisitRecvError, VisitExec, VisitFails, VisitEnds
<1>1. CASE VisitRecv
  <2>1. SameDomains /\ epoll' = epoll /\ Goto("exec")
    BY <1>1 DEF VisitRecv, SameDomains
  <2> QED
    BY <1>0, <2>1, VisitGoesOn
<1>2. CASE VisitRecvError \/ VisitFails
  BY <1>0, <1>2, VisitRetires DEF VisitRecvError, VisitFails
<1>3. CASE VisitExec
  <2>1. SameDomains /\ epoll' = epoll /\ main.pc = "exec" /\ Attempted
    BY <1>3 DEF VisitExec, SameDomains
  <2> QED
    BY <1>0, <2>1, VisitGoesOn
<1>4. CASE VisitEnds
  <2>1. PICK after \in Flushed :
          \/ retire_client(main.fd, "closed", after.tx) /\ VisitOver(FALSE)
          \/ retire_client(main.fd, "lost", after.tx) /\ VisitOver(FALSE)
          \/ /\ clients' = [clients EXCEPT ![main.fd] = [@ EXCEPT !.conn = after.conn,
                                                                  !.idle = after.idle]]
             /\ epoll' = [epoll EXCEPT ![main.fd] = [@ EXCEPT !.read = can_read(after.conn),
                                                              !.write = has_pending_output(after.conn)]]
             /\ VisitOver(has_runnable_input(after.conn))
             /\ file' = file
    BY <1>4 DEF VisitEnds
  <2>2. ASSUME clients' = [clients EXCEPT ![main.fd] = [@ EXCEPT !.conn = after.conn,
                                                                 !.idle = after.idle]],
               epoll' = [epoll EXCEPT ![main.fd] = [@ EXCEPT !.read = can_read(after.conn),
                                                             !.write = has_pending_output(after.conn)]],
               VisitOver(has_runnable_input(after.conn)), file' = file
        PROVE  Inv'
    <3>1. main.fd # main.listener
      BY <1>0 DEF Inv, Iterators, Owned
    <3>2. SameDomains
      BY <2>2 DEF SameDomains
    <3>3. main.listener \in DOMAIN epoll => epoll'[main.listener] = epoll[main.listener]
      BY <2>2, <3>1
    <3> QED
      BY <1>0, <2>2, <3>2, <3>3, VisitOverInv
  <2> QED
    BY <1>0, <2>1, <2>2, VisitRetires
<1> QED
  BY <1>1, <1>2, <1>3, <1>4 DEF Visit

-----------------------------------------------------------------------------
(* Nothing a peer does touches the server's own state.                     *)
LEMMA IdleInv == ASSUME Inv, UNCHANGED <<main, clients, file, epoll>> PROVE Inv'
  BY DEF Inv, Fields, Fresh, Owned, Watched, Slots, Iterators, Reported, NoInvariantExit

(* The invariant is inductive: one case per part of main, and the peers.    *)
LEMMA StepInv == Inv /\ [Next]_vars => Inv'
<1> SUFFICES ASSUME Inv, [Next]_vars PROVE Inv'
  OBVIOUS
<1>1. CASE Server
  BY <1>1, StartInv, UnwindInv, ScanInv, WaitInv, DispatchInv, AcceptInv, VisitInv DEF Server
<1>2. CASE \E p \in Peers : PeerConnect(p) \/ PeerStep(p)
  BY <1>2, IdleInv DEF PeerConnect, PeerStep
<1>3. CASE UNCHANGED vars
  BY <1>3, IdleInv DEF vars
<1> QED
  BY <1>1, <1>2, <1>3 DEF Next

(* The inductive invariant holds in every reachable state.                 *)
THEOREM Invariance == Spec => []Inv
  BY InitInv, StepInv, PTL DEF Spec

(* For any number of clients and any order of retirements, the scan and the
   visits use no erased entry of the map (server.cpp:222-240).             *)
THEOREM IteratorsValid == Spec => []ScanIteratorsValid
<1>1. Inv => ScanIteratorsValid
  BY DEF Inv, Iterators, ScanIteratorsValid
<1> QED
  BY Invariance, <1>1, PTL

(* The returns of main for an unknown descriptor, a number with two owners
   or an unexpected event of the listener are unreachable, although numbers
   are reused at once (server.cpp:264-267, 276-279, 329-332).              *)
THEOREM InvariantExitsUnreachable == Spec => []NoInvariantExit
<1>1. Inv => NoInvariantExit
  BY DEF Inv
<1> QED
  BY Invariance, <1>1, PTL

(* One element more makes a finite set larger by one at most.              *)
LEMMA OneMore ==
    ASSUME NEW S, NEW x, IsFiniteSet(S)
    PROVE  /\ IsFiniteSet(S \cup {x})
           /\ Cardinality(S \cup {x}) <= Cardinality(S) + 1
           /\ Cardinality(S) \in Nat /\ Cardinality(S \cup {x}) \in Nat
<1>1. IsFiniteSet(S \cup {x})
  BY FS_AddElement
<1>2. Cardinality(S) \in Nat /\ Cardinality(S \cup {x}) \in Nat
  BY <1>1, FS_CardinalityType
<1>3. Cardinality(S \cup {x}) = IF x \in S THEN Cardinality(S) ELSE Cardinality(S) + 1
  BY FS_AddElement
<1> QED
  BY <1>1, <1>2, <1>3

(* The map never holds more than kMaxClients clients, and the process never
   more than three descriptors beside theirs: the listener, the poller and
   the connection accept has just returned (server.cpp:284, 315-319).      *)
THEOREM CapacityRespected == Spec => []WithinCapacity
<1>1. ASSUME Inv PROVE WithinCapacity
  <2>1. DOMAIN clients \subseteq Fd
    BY <1>1 DEF Inv, Owned
  <2>2. IsFiniteSet(DOMAIN clients)
    BY <2>1, FS_Subset, EventLoopAssumption
  <2>3. /\ IsFiniteSet(DOMAIN clients \cup {main.listener})
        /\ Cardinality(DOMAIN clients \cup {main.listener}) <= Cardinality(DOMAIN clients) + 1
        /\ Cardinality(DOMAIN clients) \in Nat
    BY <2>2, OneMore
  <2>4. /\ IsFiniteSet((DOMAIN clients \cup {main.listener}) \cup {main.poller})
        /\ Cardinality((DOMAIN clients \cup {main.listener}) \cup {main.poller})
             <= Cardinality(DOMAIN clients \cup {main.listener}) + 1
        /\ Cardinality(DOMAIN clients \cup {main.listener}) \in Nat
    BY <2>3, OneMore
  <2> DEFINE Permanent == (DOMAIN clients \cup {main.listener}) \cup {main.poller}
  <2>5. /\ IsFiniteSet(Permanent \cup {main.fd})
        /\ Cardinality(Permanent \cup {main.fd}) <= Cardinality(Permanent) + 1
        /\ Cardinality(Permanent) \in Nat
    BY <2>4, OneMore
  <2>6. DOMAIN file \subseteq Permanent \cup {main.fd}
    BY <1>1 DEF Inv, Owned
  <2>7. /\ Cardinality(DOMAIN file) <= Cardinality(Permanent \cup {main.fd})
        /\ Cardinality(DOMAIN file) \in Nat
        /\ Cardinality(Permanent \cup {main.fd}) \in Nat
    BY <2>5, <2>6, FS_Subset, FS_CardinalityType
  <2> QED
    BY <1>1, <2>3, <2>4, <2>5, <2>7, EventLoopAssumption DEF Inv, Slots, WithinCapacity
<1> QED
  BY Invariance, <1>1, PTL

-----------------------------------------------------------------------------
(* What epoll watches, and the timers                                      *)

InLoop == main.pc \notin {"exit", "stopped"}

(* The entries of the maps are records with these fields.                  *)
Records ==
    /\ \A fd \in DOMAIN clients : DOMAIN clients[fd] = {"conn", "idle"}
    /\ DOMAIN sock = Peers
    /\ \A p \in Peers : DOMAIN sock[p] = {"state", "nonblocking", "rx", "fin", "rst", "tx"}

(* The registration of fd is of the open, nonblocking socket fd refers to.  *)
Attached(fd) ==
    /\ DOMAIN epoll[fd] = {"file", "read", "write"} /\ epoll[fd].file = file[fd]
    /\ file[fd] \in Peers
    /\ sock[file[fd]].state = "open" /\ sock[file[fd]].nonblocking = TRUE

(* It asks for what the buffers of the connection call for.                *)
Masked(fd) ==
    /\ epoll[fd].read = can_read(clients[fd].conn)
    /\ epoll[fd].write = has_pending_output(clients[fd].conn)

Visited == IF main.pc \in {"recv", "exec"} THEN {main.fd} ELSE {}

(* Every client is attached, and masked unless it is being visited; no two
   share a socket.                                                         *)
Attachments ==
    /\ main.pc \notin Starting => DOMAIN epoll = DOMAIN clients \cup {main.listener}
    /\ \A fd \in DOMAIN clients : Attached(fd)
    /\ \A fd \in DOMAIN clients \ Visited : Masked(fd)
    /\ \A fd, gd \in DOMAIN clients : file[fd] = file[gd] => fd = gd

(* The sockets in the listener's queue are not accepted yet, each there
   once.                                                                   *)
Queued ==
    /\ queue \in Seq(Peers)
    /\ \A i \in 1..Len(queue) : sock[queue[i]].state = "queued"
    /\ \A i, j \in 1..Len(queue) : queue[i] = queue[j] => i = j

(* The scan has left no expired client behind it; a visit for an event is
   followed by a new scan.                                                 *)
Timers ==
    /\ main.pc = "recv" => main.event # NoEvent
    /\ main.pc \in {"scan", "wait"} \/ (main.pc = "exec" /\ main.event = NoEvent) =>
          \A fd \in DOMAIN clients \ main.todo : ~Expired(fd)

(* The connection accept has returned is an open socket of its own; once
   emplaced it is nonblocking and all that is missing is its registration.  *)
Incoming ==
    /\ main.pc \in {"accepted", "emplaced"} =>
          /\ file[main.fd] \in Peers /\ sock[file[main.fd]].state = "open"
          /\ \A fd \in DOMAIN clients \ {main.fd} : file[fd] # file[main.fd]
    /\ main.pc = "emplaced" =>
          /\ sock[file[main.fd]].nonblocking = TRUE
          /\ clients[main.fd] = [conn |-> NewConnection, idle |-> 0]
          /\ DOMAIN epoll = (DOMAIN clients \ {main.fd}) \cup {main.listener}
          /\ \A fd \in DOMAIN clients \ {main.fd} : Attached(fd) /\ Masked(fd)
          /\ \A fd, gd \in DOMAIN clients \ {main.fd} : file[fd] = file[gd] => fd = gd

Watch ==
    InLoop => /\ Records /\ Queued /\ Timers /\ Incoming
              /\ main.pc # "emplaced" => Attachments

(* Nothing is watched, queued or timed at the start.                       *)
LEMMA InitWatch == Init => Watch
<1> SUFFICES ASSUME Init PROVE Watch
  OBVIOUS
<1>1. main.pc = "socket" /\ DOMAIN clients = {}
  BY DEF Init, EmptyStore
<1>2. queue \in Seq(Peers) /\ Len(queue) = 0
  BY EmptySeq DEF Init
<1>3. Records
  BY <1>1 DEF Init, Records, NewSocket
<1>4. Attachments
  BY <1>1 DEF Attachments, Starting, Visited
<1>5. Queued
  BY <1>2 DEF Queued
<1> QED
  BY <1>1, <1>3, <1>4, <1>5 DEF Watch, Timers, Incoming

(* Nothing that the watch of client fd depends on changes.                 *)
Carried(fd) ==
    /\ epoll'[fd] = epoll[fd] /\ file'[fd] = file[fd]
    /\ clients'[fd].conn = clients[fd].conn
    /\ sock'[file[fd]].state = sock[file[fd]].state
    /\ sock'[file[fd]].nonblocking = sock[file[fd]].nonblocking

(* Then it stays attached, and masked.                                     *)
LEMMA CarriedWatch ==
    ASSUME NEW fd, Attached(fd), Carried(fd)
    PROVE  Attached(fd)' /\ (Masked(fd) => Masked(fd)')
  BY DEF Attached, Masked, Carried

(* The clients that a step leaves keep their watch and their sockets.      *)
LEMMA AttachmentsKept ==
    ASSUME Attachments, NEW S, DOMAIN clients' \subseteq DOMAIN clients,
           Visited \subseteq S,
           \A fd \in DOMAIN clients' \ S : Carried(fd),
           \A fd \in DOMAIN clients' \cap S : file'[fd] = file[fd] /\ Attached(fd)',
           \A fd \in DOMAIN clients' \cap S : fd \in Visited' \/ Masked(fd)',
           main'.pc \notin Starting =>
              DOMAIN epoll' = DOMAIN clients' \cup {main'.listener}
    PROVE  Attachments'
<1>1. \A fd \in DOMAIN clients' : Attached(fd)'
  BY CarriedWatch DEF Attachments
<1>2. \A fd \in DOMAIN clients' \ Visited' : Masked(fd)'
  BY CarriedWatch DEF Attachments
<1>3. \A fd, gd \in DOMAIN clients' : file'[fd] = file'[gd] => fd = gd
  BY DEF Attachments, Carried
<1> QED
  BY <1>1, <1>2, <1>3 DEF Attachments

(* A step that changes main only, between two visits.                       *)
LEMMA MainOnly ==
    ASSUME Watch, InLoop, main.pc # "emplaced", Visited = {} \/ Visited' = Visited,
           UNCHANGED <<clients, file, epoll, queue, sock>>,
           main'.pc \notin Starting =>
              main.pc \notin Starting /\ main'.listener = main.listener
    PROVE  Records' /\ Attachments' /\ Queued'
<1>1. Records' /\ Queued'
  BY DEF Watch, Records, Queued
<1>2. \A fd \in DOMAIN clients : Carried(fd)
  BY DEF Carried
<1>3. Attachments
  BY DEF Watch
<1>4. main'.pc \notin Starting => DOMAIN epoll' = DOMAIN clients' \cup {main'.listener}
  BY <1>3 DEF Attachments
<1>5. \A fd \in DOMAIN clients' \cap Visited : file'[fd] = file[fd] /\ Attached(fd)'
  BY <1>2, <1>3, CarriedWatch DEF Attachments
<1> QED
  BY <1>1, <1>2, <1>3, <1>4, <1>5, AttachmentsKept

(* close touches the socket of its descriptor only.                        *)
LEMMA ShutEffect ==
    ASSUME Records, NEW p \in Peers, NEW state, NEW tx, Shut(p, state, tx)
    PROVE  /\ DOMAIN sock' = Peers
           /\ \A q \in Peers : DOMAIN sock'[q] = DOMAIN sock[q]
           /\ \A q \in Peers \ {p} : sock'[q] = sock[q]
  BY DEF Shut, Records

(* Retiring a client leaves the others as they are.                        *)
LEMMA RetireWatch ==
    ASSUME Inv, Watch, InLoop, main.pc \notin Starting, main.pc # "emplaced",
           NEW fd \in DOMAIN clients, Visited \subseteq {fd}, NEW state, NEW tx,
           retire_client(fd, state, tx), main'.listener = main.listener
    PROVE  Records' /\ Attachments' /\ Queued'
<1>0. Records /\ Attachments /\ Queued
  BY DEF Watch
<1>1. /\ clients' = erased(clients, fd) /\ file' = erased(file, fd)
      /\ epoll' = erased(epoll, fd) /\ queue' = queue
      /\ Shut(file[fd], state, tx)
  BY DEF retire_client, close
<1>2. file[fd] \in Peers /\ sock[file[fd]].state = "open"
  BY <1>0 DEF Attachments, Attached
<1>3. /\ DOMAIN sock' = Peers
      /\ \A q \in Peers : DOMAIN sock'[q] = DOMAIN sock[q]
      /\ \A q \in Peers \ {file[fd]} : sock'[q] = sock[q]
  BY <1>0, <1>1, <1>2, ShutEffect
<1>4. /\ DOMAIN clients' = DOMAIN clients \ {fd}
      /\ \A g \in DOMAIN clients \ {fd} : clients'[g] = clients[g]
  BY <1>1, ErasedDomain
<1>5. \A g \in DOMAIN file \ {fd} : file'[g] = file[g]
  BY <1>1, ErasedDomain
<1>6. /\ DOMAIN epoll' = DOMAIN epoll \ {fd}
      /\ \A g \in DOMAIN epoll \ {fd} : epoll'[g] = epoll[g]
  BY <1>1, ErasedDomain
<1>7. DOMAIN epoll = DOMAIN clients \cup {main.listener} /\ main.listener # fd
  BY <1>0 DEF Attachments, Inv, Owned
<1>8. DOMAIN clients \subseteq DOMAIN file
  BY DEF Inv, Owned
<1>9. Records'
  BY <1>0, <1>3, <1>4 DEF Records
<1>10. Queued'
  <2>1. \A i \in 1..Len(queue) : queue[i] \in Peers /\ queue[i] # file[fd]
    BY <1>0, <1>2, ElementOfSeq DEF Queued
  <2>2. \A i \in 1..Len(queue) : sock'[queue[i]] = sock[queue[i]]
    BY <1>3, <2>1
  <2> QED
    BY <1>0, <1>1, <2>2 DEF Queued
<1>11. \A g \in DOMAIN clients' : Carried(g)
  <2> SUFFICES ASSUME NEW g \in DOMAIN clients' PROVE Carried(g)
    OBVIOUS
  <2>1. g \in DOMAIN clients /\ g # fd /\ file[g] \in Peers /\ file[g] # file[fd]
    BY <1>0, <1>4 DEF Attachments, Attached
  <2> QED
    BY <1>3, <1>4, <1>5, <1>6, <1>7, <1>8, <2>1 DEF Carried
<1>12. DOMAIN epoll' = DOMAIN clients' \cup {main'.listener}
  BY <1>4, <1>6, <1>7
<1> QED
  BY <1>0, <1>4, <1>9, <1>10, <1>11, <1>12, AttachmentsKept

(* Within a visit only the connection being visited and its socket change.  *)
LEMMA VisitWatch ==
    ASSUME Inv, Watch, InLoop, main.pc \notin Starting, main.pc # "emplaced",
           NEW fd \in DOMAIN clients, Visited \subseteq {fd}, Visited' = {fd}, main'.listener = main.listener,
           UNCHANGED <<file, epoll, queue>>, DOMAIN clients' = DOMAIN clients,
           \A g \in DOMAIN clients \ {fd} : clients'[g] = clients[g],
           DOMAIN clients'[fd] = DOMAIN clients[fd],
           DOMAIN sock' = DOMAIN sock,
           \A p \in Peers : /\ DOMAIN sock'[p] = DOMAIN sock[p]
                            /\ sock'[p].state = sock[p].state
                            /\ sock'[p].nonblocking = sock[p].nonblocking
    PROVE  Records' /\ Attachments' /\ Queued'
<1>0. Records /\ Attachments /\ Queued
  BY DEF Watch
<1>1. Records'
  BY <1>0 DEF Records
<1>2. Queued'
  <2>1. \A i \in 1..Len(queue) : queue[i] \in Peers
    BY <1>0, ElementOfSeq DEF Queued
  <2> QED
    BY <1>0, <2>1 DEF Queued
<1>3. \A g \in DOMAIN clients \ {fd} : Carried(g)
  BY <1>0 DEF Carried, Attachments, Attached
<1>4. Attached(fd)'
  BY <1>0 DEF Attachments, Attached
<1>5. DOMAIN epoll' = DOMAIN clients' \cup {main'.listener}
  BY <1>0 DEF Attachments
<1> QED
  BY <1>0, <1>1, <1>2, <1>3, <1>4, <1>5, AttachmentsKept

(* No client behind the scan is expired.                                   *)
Behind == \A fd \in DOMAIN clients \ main.todo : ~Expired(fd)

(* This stays so when the clients behind the scan keep their idle time, or
   have passed the test of the scan.                                        *)
LEMMA BehindKept ==
    ASSUME Behind, main'.pc # "recv",
           \A fd \in DOMAIN clients' \ main'.todo :
              \/ fd \in DOMAIN clients \ main.todo /\ clients'[fd].idle = clients[fd].idle
              \/ ~Expired(fd)'
    PROVE  Timers'
  BY DEF Behind, Timers, Expired

(* The scan retires every expired client it reaches.                       *)
LEMMA ScanWatch == ASSUME Inv, Watch, Scan PROVE Watch'
<1>0. main.pc = "scan" /\ InLoop /\ Visited = {} /\ main.pc \notin Starting
  BY DEF Scan, ScanExpired, ScanRunnable, ScanQuiet, ScanEnd, Scanning, InLoop, Visited,
         Starting
<1>1. Behind /\ Records
  BY <1>0 DEF Watch, Timers, Behind
<1>2. main.todo \subseteq DOMAIN clients
  BY <1>0 DEF Inv, Iterators
<1>3. ASSUME NEW fd \in Fd, ScanExpired(fd) PROVE Watch'
  <2>1. fd \in DOMAIN clients /\ retire_client(fd, "lost", sock[file[fd]].tx)
    BY <1>2, <1>3 DEF ScanExpired, Scanning
  <2>2. /\ main'.listener = main.listener /\ main'.pc = "scan"
        /\ main'.todo = main.todo \ {fd}
    BY <1>0, <1>3 DEF ScanExpired, Inv, Fields, passed
  <2>3. Records' /\ Attachments' /\ Queued'
    BY <1>0, <2>1, <2>2, RetireWatch
  <2>4. clients' = erased(clients, fd)
    BY <2>1 DEF retire_client
  <2>5. /\ DOMAIN clients' = DOMAIN clients \ {fd}
        /\ \A g \in DOMAIN clients \ {fd} : clients'[g] = clients[g]
    BY <2>4, ErasedDomain
  <2>6. Timers'
    BY <1>1, <2>2, <2>5, BehindKept
  <2> QED
    BY <2>2, <2>3, <2>6 DEF Watch, Incoming
<1>4. ASSUME NEW fd \in Fd, ScanRunnable(fd) PROVE Watch'
  <2>1. fd \in DOMAIN clients /\ ~Expired(fd)
    BY <1>2, <1>4 DEF ScanRunnable, Scanning
  <2>2. /\ main'.listener = main.listener /\ main'.pc = "exec" /\ main'.fd = fd
        /\ main'.todo = main.todo \ {fd}
    BY <1>0, <1>4 DEF ScanRunnable, Inv, Fields, passed
  <2>3. clients' = [clients EXCEPT ![fd].conn = begin_processing(@)]
    BY <1>4 DEF ScanRunnable
  <2>4. DOMAIN clients[fd] = {"conn", "idle"}
    BY <1>1, <2>1 DEF Records
  <2>5. /\ DOMAIN clients' = DOMAIN clients /\ DOMAIN clients'[fd] = DOMAIN clients[fd]
        /\ \A g \in DOMAIN clients \ {fd} : clients'[g] = clients[g]
        /\ clients'[fd].idle = clients[fd].idle
    BY <2>1, <2>3, <2>4
  <2>6. UNCHANGED <<file, epoll, queue, sock>>
    BY <1>4 DEF ScanRunnable
  <2>7. Visited' = {fd}
    BY <2>2 DEF Visited
  <2>8. Records' /\ Attachments' /\ Queued'
    BY <1>0, <2>1, <2>2, <2>5, <2>6, <2>7, VisitWatch
  <2>9. Timers'
    BY <1>1, <2>1, <2>2, <2>5, BehindKept DEF Expired
  <2> QED
    BY <2>2, <2>8, <2>9 DEF Watch, Incoming
<1>5. ASSUME NEW fd \in Fd, ScanQuiet(fd) PROVE Watch'
  <2>1. fd \in DOMAIN clients /\ ~Expired(fd)
    BY <1>2, <1>5 DEF ScanQuiet, Scanning
  <2>2. /\ main'.listener = main.listener /\ main'.pc = "scan"
        /\ main'.todo = main.todo \ {fd}
    BY <1>0, <1>5 DEF ScanQuiet, Inv, Fields
  <2>3. UNCHANGED <<clients, file, epoll, queue, sock>>
    BY <1>5 DEF ScanQuiet
  <2>4. Records' /\ Attachments' /\ Queued'
    BY <1>0, <2>2, <2>3, MainOnly
  <2>5. Timers'
    BY <1>1, <2>1, <2>2, <2>3, BehindKept DEF Expired
  <2> QED
    BY <2>2, <2>4, <2>5 DEF Watch, Incoming
<1>6. CASE ScanEnd
  <2>1. main'.listener = main.listener /\ main'.pc = "wait" /\ main'.todo = main.todo
    BY <1>6 DEF ScanEnd, Goto, Inv, Fields
  <2>2. UNCHANGED <<clients, file, epoll, queue, sock>>
    BY <1>6 DEF ScanEnd
  <2>3. Records' /\ Attachments' /\ Queued'
    BY <1>0, <2>1, <2>2, MainOnly
  <2>4. Timers'
    BY <1>1, <2>1, <2>2, BehindKept
  <2> QED
    BY <2>1, <2>3, <2>4 DEF Watch, Incoming
<1> QED
  BY <1>3, <1>4, <1>5, <1>6 DEF Scan

(* A new scan has no client behind it.                                     *)
LEMMA NextTurnTimers ==
    ASSUME Inv, NextTurn
    PROVE  main'.pc = "scan" /\ main'.listener = main.listener /\ Timers' /\ Visited' = {}
<1>1. main'.pc = "scan" /\ main'.listener = main.listener /\ main'.todo = DOMAIN clients'
  BY DEF NextTurn, Inv, Fields
<1> QED
  BY <1>1 DEF Timers, Visited

(* The wait changes idle times only.                                       *)
LEMMA WaitWatch == ASSUME Inv, Watch, Wait PROVE Watch'
<1>0. main.pc = "wait" /\ InLoop /\ Visited = {} /\ main.pc \notin Starting
  BY DEF Wait, WaitEvent, WaitNothing, WaitFails, InLoop, Visited, Starting
<1>1. Records /\ Attachments /\ Queued
  BY <1>0 DEF Watch
<1>2. ASSUME LetPass, UNCHANGED <<file, epoll, queue, sock>>, Visited' = {},
             main'.listener = main.listener
      PROVE  Records' /\ Attachments' /\ Queued'
  <2>1. PICK ticks \in (IF main.runnable THEN {0} ELSE Elapse) :
          clients' = [fd \in DOMAIN clients |->
                        [clients[fd] EXCEPT !.idle = Lesser(@ + ticks, kIdleTimeout)]]
    BY <1>2 DEF LetPass
  <2>2. /\ DOMAIN clients' = DOMAIN clients
        /\ \A fd \in DOMAIN clients : DOMAIN clients'[fd] = {"conn", "idle"}
        /\ \A fd \in DOMAIN clients : clients'[fd].conn = clients[fd].conn
    BY <1>1, <2>1 DEF Records
  <2>3. Records' /\ Queued'
    BY <1>1, <1>2, <2>2 DEF Records, Queued
  <2>4. \A fd \in DOMAIN clients' : Carried(fd)
    BY <1>2, <2>2 DEF Carried
  <2>5. DOMAIN epoll' = DOMAIN clients' \cup {main'.listener}
    BY <1>0, <1>1, <1>2, <2>2 DEF Attachments
  <2> QED
    BY <1>0, <1>1, <2>2, <2>3, <2>4, <2>5, AttachmentsKept
<1>3. ASSUME NEW fd \in Fd, WaitEvent(fd) PROVE Watch'
  <2>1. main'.pc = "dispatch" /\ main'.listener = main.listener
    BY <1>3 DEF WaitEvent, Inv, Fields
  <2>2. LetPass /\ UNCHANGED <<file, epoll, queue, sock>>
    BY <1>3 DEF WaitEvent
  <2> QED
    BY <1>2, <2>1, <2>2 DEF Watch, Timers, Visited, Incoming
<1>4. CASE WaitNothing
  <2>1. LetPass /\ NextTurn /\ UNCHANGED <<file, epoll, queue, sock>>
    BY <1>4 DEF WaitNothing
  <2> QED
    BY <1>2, <2>1, NextTurnTimers DEF Watch, Incoming
<1>5. CASE WaitFails
  <2>1. main'.pc = "exit"
    BY <1>5 DEF WaitFails, Exit, Inv, Fields
  <2> QED
    BY <2>1 DEF Watch, InLoop
<1> QED
  BY <1>3, <1>4, <1>5 DEF Wait

(* Startup has no clients, and ends with the listener watched.             *)
LEMMA StartWatch == ASSUME Inv, Watch, Start PROVE Watch'
<1>0. /\ main.pc \in Starting /\ InLoop /\ main.pc \notin {"scan", "recv", "exec"}
      /\ UNCHANGED <<clients, queue, sock>>
  BY DEF Start, create_socket, ConfigureListener, CreatePoller, RegisterListener,
         StartupFails, Starting, InLoop
<1>1. DOMAIN clients' = {} /\ Records' /\ Queued'
  BY <1>0 DEF Inv, Fresh, Watch, Records, Queued
<1>2. CASE StartupFails
  <2>1. main'.pc = "exit"
    BY <1>2 DEF StartupFails, Exit, Inv, Fields
  <2> QED
    BY <2>1 DEF Watch, InLoop
<1>3. CASE RegisterListener
  <2>1. main'.pc = "scan" /\ main'.listener = main.listener
    BY <1>3 DEF RegisterListener, Goto, Inv, Fields
  <2>2. DOMAIN epoll = {}
    BY <1>0 DEF Inv, Fresh
  <2>3. DOMAIN epoll' = {main.listener}
    BY <1>3, <2>2 DEF RegisterListener, added, set
  <2>4. Attachments'
    BY <1>1, <2>1, <2>3 DEF Attachments
  <2>5. Timers'
    BY <1>1, <2>1 DEF Timers
  <2> QED
    BY <1>1, <2>1, <2>4, <2>5 DEF Watch, Incoming
<1>4. CASE create_socket \/ ConfigureListener \/ CreatePoller
  <2>1. main'.pc \in Starting
    BY <1>4 DEF create_socket, ConfigureListener, CreatePoller, Goto, Inv, Fields, Starting
  <2>2. Attachments'
    BY <1>1, <2>1 DEF Attachments
  <2>3. Timers'
    BY <2>1 DEF Timers, Starting
  <2> QED
    BY <1>1, <2>1, <2>2, <2>3 DEF Watch, Incoming, Starting
<1> QED
  BY <1>2, <1>3, <1>4 DEF Start

(* After main has left the loop nothing is claimed.                        *)
LEMMA UnwindWatch == ASSUME Inv, Unwind PROVE Watch'
<1>1. main'.pc \in {"exit", "stopped"}
  BY DEF Unwind, Inv, Fields
<1> QED
  BY <1>1 DEF Watch, InLoop

(* The dispatch retires a client, or starts a visit or the accept loop.     *)
LEMMA DispatchWatch == ASSUME Inv, Watch, Dispatch PROVE Watch'
<1>0. main.pc = "dispatch" /\ InLoop /\ Visited = {} /\ main.pc \notin Starting
  BY DEF Dispatch, DispatchBroken, DispatchClient, DispatchListener, InLoop, Visited,
         Starting
<1>1. CASE DispatchBroken
  <2>1. PICK fd \in DOMAIN clients : retire_client(fd, "lost", sock[file[fd]].tx)
    BY <1>1 DEF DispatchBroken
  <2>2. main'.pc = "scan" /\ main'.listener = main.listener /\ Timers'
    BY <1>1, NextTurnTimers DEF DispatchBroken
  <2>3. Records' /\ Attachments' /\ Queued'
    BY <1>0, <2>1, <2>2, RetireWatch
  <2> QED
    BY <2>2, <2>3 DEF Watch, Incoming
<1>2. CASE DispatchClient
  <2>1. main.event.fd \in DOMAIN clients
    BY <1>0, <1>2 DEF DispatchClient, Inv, Reported, Watched
  <2>2. main' = [main EXCEPT !.pc = "recv", !.fd = main.event.fd]
    BY <1>2, <2>1 DEF DispatchClient
  <2>3. /\ main'.pc = "recv" /\ main'.listener = main.listener
        /\ main'.event = main.event
    BY <2>2 DEF Inv, Fields
  <2>4. UNCHANGED <<clients, file, epoll, queue, sock>>
    BY <1>2 DEF DispatchClient
  <2>5. Records' /\ Attachments' /\ Queued'
    BY <1>0, <2>3, <2>4, MainOnly
  <2>6. main.event.fd \in Nat
    BY <2>1, EventLoopAssumption DEF Inv, Owned
  <2>7. main.event # NoEvent
    <3>1. NoEvent.fd = -1
      BY DEF NoEvent
    <3> QED
      BY <2>6, <3>1
  <2>8. Timers'
    BY <2>3, <2>7 DEF Timers, NoEvent
  <2> QED
    BY <2>3, <2>5, <2>8 DEF Watch, Incoming
<1>3. CASE DispatchListener
  <2>1. main.event.readable /\ ~main.event.broken
    BY <1>0, <1>3 DEF DispatchListener, Inv, Reported
  <2>2. Goto("accept") /\ UNCHANGED <<clients, file, epoll, queue, sock>>
    BY <1>3, <2>1 DEF DispatchListener
  <2>3. main'.pc = "accept" /\ main'.listener = main.listener
    BY <2>2 DEF Goto, Inv, Fields
  <2>4. Records' /\ Attachments' /\ Queued'
    BY <1>0, <2>2, <2>3, MainOnly
  <2>5. Timers'
    BY <2>3 DEF Timers
  <2> QED
    BY <2>3, <2>4, <2>5 DEF Watch, Incoming
<1> QED
  BY <1>1, <1>2, <1>3 DEF Dispatch

-----------------------------------------------------------------------------
(* Taking the first connection of the queue.                               *)
LEMMA QueueTail ==
    ASSUME Queued, queue # <<>>, queue' = Tail(queue),
           \A q \in Peers \ {Head(queue)} : sock'[q] = sock[q]
    PROVE  Head(queue) \in Peers /\ sock[Head(queue)].state = "queued" /\ Queued'
<1>0. queue \in Seq(Peers) /\ Len(queue) \in Nat \ {0} /\ Head(queue) = queue[1]
  BY EmptySeq DEF Queued
<1>1. /\ Head(queue) \in Peers /\ Tail(queue) \in Seq(Peers)
      /\ Len(Tail(queue)) = Len(queue) - 1
      /\ \A i \in 1..Len(Tail(queue)) : Tail(queue)[i] = queue[i + 1]
  BY <1>0, HeadTailProperties
<1>2. \A i \in 1..Len(Tail(queue)) :
         /\ i + 1 \in 1..Len(queue) /\ i + 1 # 1 /\ 1 \in 1..Len(queue)
         /\ queue[i + 1] \in Peers
  <2>1. \A j \in 1..Len(queue) : queue[j] \in Peers
    BY <1>0, ElementOfSeq
  <2>2. \A i \in 1..Len(Tail(queue)) :
         i + 1 \in 1..Len(queue) /\ i + 1 # 1 /\ 1 \in 1..Len(queue)
    BY <1>0, <1>1
  <2> QED
    BY <2>1, <2>2
<1>3. \A i \in 1..Len(Tail(queue)) : sock'[queue[i + 1]] = sock[queue[i + 1]]
  BY <1>0, <1>2 DEF Queued
<1>4. \A i \in 1..Len(queue') : sock'[queue'[i]].state = "queued"
  BY <1>1, <1>2, <1>3 DEF Queued
<1>5. \A i, j \in 1..Len(queue') : queue'[i] = queue'[j] => i = j
  <2> SUFFICES ASSUME NEW i \in 1..Len(queue'), NEW j \in 1..Len(queue'),
                      queue'[i] = queue'[j]
               PROVE  i = j
    OBVIOUS
  <2>1. queue[i + 1] = queue[j + 1] /\ i + 1 \in 1..Len(queue) /\ j + 1 \in 1..Len(queue)
    BY <1>1, <1>2
  <2>2. i + 1 = j + 1
    BY <2>1 DEF Queued
  <2> QED
    BY <1>0, <1>1, <2>2
<1>6. 1 \in 1..Len(queue)
  BY <1>0
<1> QED
  BY <1>0, <1>1, <1>4, <1>5, <1>6 DEF Queued

(* What counting an attempt leaves of main.                                *)
LEMMA AttemptedLocals ==
    ASSUME Inv, Attempted, main.pc = "accept"
    PROVE  main'.pc = "accept" /\ main'.listener = main.listener /\ Timers'
<1>1. main'.pc = "accept" /\ main'.listener = main.listener
  BY AttemptedFields
<1> QED
  BY <1>1 DEF Timers

(* What the end of an attempt leaves of main.                              *)
LEMMA NextAttemptLocals ==
    ASSUME Inv, NextAttempt
    PROVE  /\ main'.pc = "accept" /\ main'.listener = main.listener /\ Timers'
           /\ Visited' = {}
<1>1. main'.pc = "accept" /\ main'.listener = main.listener
  BY NextAttemptFields
<1> QED
  BY <1>1 DEF Timers, Visited

(* The first connection of the queue is no client's: whatever becomes of its
   socket leaves the clients' watch as it is.                              *)
LEMMA TailWatch ==
    ASSUME Inv, Watch, main.pc = "accept", queue # <<>>, queue' = Tail(queue),
           DOMAIN sock' = Peers, \A q \in Peers : DOMAIN sock'[q] = DOMAIN sock[q],
           \A q \in Peers \ {Head(queue)} : sock'[q] = sock[q],
           UNCHANGED <<clients, epoll>>,
           \A fd \in DOMAIN clients : file'[fd] = file[fd],
           main'.listener = main.listener, Visited' = {}
    PROVE  Records' /\ Attachments' /\ Queued' /\ \A fd \in DOMAIN clients : file[fd] # Head(queue)
<1>0. main.pc \notin Starting /\ InLoop /\ Visited = {}
  BY DEF Starting, InLoop, Visited
<1>1. Records /\ Attachments /\ Queued
  BY <1>0 DEF Watch
<1>2. Queued' /\ sock[Head(queue)].state = "queued"
  BY <1>1, QueueTail
<1>3. Records'
  BY <1>1 DEF Records
<1>4. ASSUME NEW fd \in DOMAIN clients PROVE Carried(fd) /\ file[fd] # Head(queue)
  <2>1. file[fd] \in Peers /\ file[fd] # Head(queue)
    BY <1>1, <1>2 DEF Attachments, Attached
  <2> QED
    BY <2>1 DEF Carried
<1>5. DOMAIN epoll' = DOMAIN clients' \cup {main'.listener}
  BY <1>0, <1>1 DEF Attachments
<1>6. Attachments'
  BY <1>0, <1>1, <1>4, <1>5, AttachmentsKept
<1> QED
  BY <1>2, <1>3, <1>4, <1>6

(* The first connection of the queue is a peer's.                          *)
LEMMA HeadIsPeer ==
    ASSUME Watch, InLoop, queue # <<>> PROVE Head(queue) \in Peers
<1>1. queue \in Seq(Peers)
  BY DEF Watch, Queued
<1> QED
  BY <1>1, HeadTailProperties

(* accept aborts the first connection of the queue.                        *)
LEMMA AcceptAbortedWatch == ASSUME Inv, Watch, AcceptAborted PROVE Watch'
<1>0. main.pc = "accept" /\ InLoop
  BY DEF AcceptAborted, Accepting, InLoop
<1>1. /\ queue # <<>> /\ queue' = Tail(queue) /\ Shut(Head(queue), "lost", <<>>)
      /\ Attempted /\ UNCHANGED <<clients, file, epoll>>
  BY DEF AcceptAborted
<1>2. /\ DOMAIN sock' = Peers
      /\ \A q \in Peers : DOMAIN sock'[q] = DOMAIN sock[q]
      /\ \A q \in Peers \ {Head(queue)} : sock'[q] = sock[q]
  BY <1>0, <1>1, HeadIsPeer, ShutEffect DEF Watch
<1>3. main'.pc = "accept" /\ main'.listener = main.listener /\ Timers'
  BY <1>0, <1>1, AttemptedLocals
<1>4. Visited' = {}
  BY <1>3 DEF Visited
<1>5. Records' /\ Attachments' /\ Queued'
  BY <1>0, <1>1, <1>2, <1>3, <1>4, TailWatch
<1> QED
  BY <1>3, <1>5 DEF Watch, Incoming

(* accept opens it.                                                        *)
LEMMA AcceptReturnsWatch == ASSUME Inv, Watch, AcceptReturns PROVE Watch'
<1>0. main.pc = "accept" /\ InLoop
  BY DEF AcceptReturns, Accepting, InLoop
<1>n. PICK n : n = Lowest
  OBVIOUS
<1>p. PICK p : p = Head(queue)
  OBVIOUS
<1>1. /\ queue # <<>> /\ queue' = Tail(queue) /\ Free # {} /\ file' = set(file, n, p)
      /\ sock' = [sock EXCEPT ![p].state = "open"] /\ UNCHANGED <<clients, epoll>>
  BY <1>n, <1>p DEF AcceptReturns
<1>2. n \notin DOMAIN file /\ DOMAIN clients \subseteq DOMAIN file
  BY <1>0, <1>1, <1>n, FreshNumber DEF Inv, Owned
<1>3. p \in Peers
  BY <1>0, <1>1, <1>p, HeadIsPeer
<1>4. /\ DOMAIN sock' = Peers
      /\ \A q \in Peers : DOMAIN sock'[q] = DOMAIN sock[q]
      /\ \A q \in Peers \ {p} : sock'[q] = sock[q]
      /\ sock'[p].state = "open"
  BY <1>0, <1>1, <1>3 DEF Watch, Records
<1>5. file'[n] = p /\ \A fd \in DOMAIN clients : file'[fd] = file[fd]
  BY <1>1, <1>2 DEF set
<1>6. main'.pc = "accepted" /\ main'.listener = main.listener /\ main'.fd = n
  BY <1>n DEF AcceptReturns, Inv, Fields
<1>7. Visited' = {} /\ Timers'
  BY <1>6 DEF Visited, Timers
<1>8. Records' /\ Attachments' /\ Queued' /\ \A fd \in DOMAIN clients : file[fd] # p
  BY <1>0, <1>1, <1>4, <1>5, <1>6, <1>7, <1>p, TailWatch
<1>9. Incoming'
  BY <1>1, <1>3, <1>4, <1>5, <1>6, <1>8 DEF Incoming
<1> QED
  BY <1>7, <1>8, <1>9 DEF Watch

(* Closing an open socket that no client shares and no event can reach.     *)
LEMMA ClientClosedWatch ==
    ASSUME Inv, Watch, InLoop, main.pc \notin Starting, NEW fd,
           fd # main.listener, file[fd] \in Peers, sock[file[fd]].state = "open",
           DOMAIN clients' = DOMAIN clients \ {fd},
           \A g \in DOMAIN clients' : clients'[g] = clients[g],
           \A g \in DOMAIN clients \ {fd} : file[g] # file[fd] /\ Attached(g) /\ Masked(g),
           \A g, h \in DOMAIN clients \ {fd} : file[g] = file[h] => g = h,
           DOMAIN epoll = (DOMAIN clients \ {fd}) \cup {main.listener},
           close(fd, "lost", <<>>), queue' = queue,
           main'.listener = main.listener, main'.pc \in {"accept", "attempted"}
    PROVE  Watch'
<1>0. Records /\ Queued /\ DOMAIN clients \subseteq DOMAIN file
  BY DEF Watch, Inv, Owned
<1>1. /\ file' = erased(file, fd) /\ epoll' = erased(epoll, fd)
      /\ Shut(file[fd], "lost", <<>>)
  BY DEF close
<1>2. /\ DOMAIN sock' = Peers
      /\ \A q \in Peers : DOMAIN sock'[q] = DOMAIN sock[q]
      /\ \A q \in Peers \ {file[fd]} : sock'[q] = sock[q]
  BY <1>0, <1>1, ShutEffect
<1>3. /\ \A g \in DOMAIN file \ {fd} : file'[g] = file[g]
      /\ DOMAIN epoll' = DOMAIN epoll \ {fd}
      /\ \A g \in DOMAIN epoll \ {fd} : epoll'[g] = epoll[g]
  BY <1>1 DEF erased
<1>4. Records'
  BY <1>0, <1>2 DEF Records
<1>5. Queued'
  <2>1. \A i \in 1..Len(queue) : queue[i] \in Peers /\ queue[i] # file[fd]
    BY <1>0, ElementOfSeq DEF Queued
  <2>2. \A i \in 1..Len(queue) : sock'[queue[i]] = sock[queue[i]]
    BY <1>2, <2>1
  <2> QED
    BY <1>0, <2>2 DEF Queued
<1>6. ASSUME NEW g \in DOMAIN clients' PROVE Attached(g)' /\ Masked(g)' /\ file'[g] = file[g]
  <2>1. /\ g \in DOMAIN clients \ {fd} /\ Attached(g) /\ Masked(g)
        /\ file[g] \in Peers \ {file[fd]} /\ g \in DOMAIN file \ {fd}
        /\ g \in DOMAIN epoll \ {fd}
    BY <1>0 DEF Attached
  <2>2. Carried(g)
    BY <1>2, <1>3, <2>1 DEF Carried
  <2> QED
    BY <1>3, <2>1, <2>2, CarriedWatch
<1>7. DOMAIN epoll' = DOMAIN clients' \cup {main'.listener}
  BY <1>3
<1>8. Attachments'
  BY <1>6, <1>7 DEF Attachments
<1>9. Timers' /\ Incoming'
  BY DEF Timers, Incoming
<1> QED
  BY <1>4, <1>5, <1>8, <1>9 DEF Watch

(* A refused connection is nobody's.                                       *)
LEMMA RefusedWatch == ASSUME Inv, Watch, main.pc = "accepted", Refused PROVE Watch'
<1>0. InLoop /\ main.pc \notin Starting /\ Visited = {}
  BY DEF InLoop, Starting, Visited
<1>1. Attachments /\ Incoming
  BY <1>0 DEF Watch
<1>2. main.fd # main.listener /\ main.fd \notin DOMAIN clients
  BY DEF Inv, Owned
<1>3. DOMAIN clients \ {main.fd} = DOMAIN clients
  BY <1>2
<1>4. close(main.fd, "lost", <<>>) /\ NextAttempt /\ clients' = clients /\ queue' = queue
  BY DEF Refused
<1>5. main'.pc = "accept" /\ main'.listener = main.listener
  BY <1>4, NextAttemptFields
<1> QED
  BY <1>0, <1>1, <1>2, <1>3, <1>4, <1>5, ClientClosedWatch DEF Attachments, Incoming

(* An entry erased for want of a registration leaves the others.            *)
LEMMA AcceptUnwatchedWatch == ASSUME Inv, Watch, AcceptUnwatched PROVE Watch'
<1>0. main.pc = "emplaced" /\ InLoop /\ main.pc \notin Starting
  BY DEF AcceptUnwatched, InLoop, Starting
<1>1. Incoming /\ main.fd # main.listener
  BY <1>0 DEF Watch, Inv, Iterators, Owned
<1>2. /\ close(main.fd, "lost", <<>>) /\ clients' = erased(clients, main.fd)
      /\ queue' = queue /\ Goto("attempted")
  BY DEF AcceptUnwatched
<1>3. /\ DOMAIN clients' = DOMAIN clients \ {main.fd}
      /\ \A g \in DOMAIN clients' : clients'[g] = clients[g]
  BY <1>2 DEF erased
<1>4. main'.pc = "attempted" /\ main'.listener = main.listener
  BY <1>2 DEF Goto, Inv, Fields
<1> QED
  BY <1>0, <1>1, <1>2, <1>3, <1>4, ClientClosedWatch DEF Incoming

(* The map takes over the connection.                                      *)
LEMMA AcceptEmplacesWatch == ASSUME Inv, Watch, AcceptEmplaces PROVE Watch'
<1>0. main.pc = "accepted" /\ InLoop /\ main.pc \notin Starting /\ Visited = {}
  BY DEF AcceptEmplaces, InLoop, Starting, Visited
<1>1. Records /\ Attachments /\ Queued /\ Incoming
  BY <1>0 DEF Watch
<1>n. PICK n : n = main.fd
  OBVIOUS
<1>p. PICK p : p = file[main.fd]
  OBVIOUS
<1>2. n \notin DOMAIN clients
  BY <1>0, <1>n DEF Inv, Owned
<1>3. /\ clients' = set(clients, n, [conn |-> NewConnection, idle |-> 0])
      /\ sock' = [sock EXCEPT ![p].nonblocking = TRUE]
      /\ Goto("emplaced") /\ UNCHANGED <<file, epoll, queue>>
  BY <1>2, <1>n, <1>p DEF AcceptEmplaces, set_nonblocking
<1>4. p \in Peers /\ sock[p].state = "open" /\ \A fd \in DOMAIN clients : file[fd] # p
  BY <1>0, <1>1, <1>2, <1>n, <1>p DEF Incoming
<1>5. /\ DOMAIN sock' = Peers
      /\ \A q \in Peers : DOMAIN sock'[q] = DOMAIN sock[q] /\ sock'[q].state = sock[q].state
      /\ \A q \in Peers \ {p} : sock'[q] = sock[q]
      /\ sock'[p].nonblocking = TRUE
  BY <1>1, <1>3, <1>4 DEF Records
<1>6. /\ DOMAIN clients' = DOMAIN clients \cup {n}
      /\ clients'[n] = [conn |-> NewConnection, idle |-> 0]
      /\ \A fd \in DOMAIN clients : clients'[fd] = clients[fd]
  BY <1>2, <1>3 DEF set
<1>7. main'.pc = "emplaced" /\ main'.listener = main.listener /\ main'.fd = n
  BY <1>3, <1>n DEF Goto, Inv, Fields
<1>8. Records' /\ Timers'
  BY <1>1, <1>5, <1>6, <1>7 DEF Records, Timers
<1>9. Queued'
  <2>1. \A i \in 1..Len(queue) : queue[i] \in Peers
    BY <1>1, ElementOfSeq DEF Queued
  <2> QED
    BY <1>1, <1>3, <1>5, <2>1 DEF Queued
<1>10. ASSUME NEW fd \in DOMAIN clients PROVE Attached(fd)' /\ Masked(fd)'
  <2>1. Attached(fd) /\ Masked(fd)
    BY <1>0, <1>1 DEF Attachments
  <2>2. file[fd] \in Peers \ {p}
    BY <1>4, <2>1 DEF Attached
  <2>3. Carried(fd)
    BY <1>3, <1>5, <1>6, <2>2 DEF Carried
  <2> QED
    BY <2>1, <2>3, CarriedWatch
<1>11. /\ DOMAIN epoll = DOMAIN clients \cup {main.listener}
       /\ DOMAIN clients' \ {n} = DOMAIN clients
       /\ \A fd, gd \in DOMAIN clients : file[fd] = file[gd] => fd = gd
  BY <1>0, <1>1, <1>2, <1>6 DEF Attachments
<1>12. Incoming'
  BY <1>3, <1>4, <1>5, <1>6, <1>7, <1>10, <1>11, <1>n, <1>p DEF Incoming
<1> QED
  BY <1>7, <1>8, <1>9, <1>12 DEF Watch

(* An accepted client is attached to the socket that accept returned, with
   the interest of an empty connection.                                    *)
LEMMA AcceptClientWatch == ASSUME Inv, Watch, AcceptClient PROVE Watch'
<1>0. main.pc = "emplaced" /\ InLoop /\ main.pc \notin Starting
  BY DEF AcceptClient, InLoop, Starting
<1>1. Records /\ Queued /\ Incoming
  BY <1>0 DEF Watch
<1>n. PICK n : n = main.fd
  OBVIOUS
<1>2. epoll' = added(n) /\ NextAttempt /\ UNCHANGED <<clients, file, queue, sock>>
  BY <1>n DEF AcceptClient
<1>3. n \in DOMAIN clients /\ n # main.listener
  BY <1>0, <1>n DEF Inv, Iterators, Owned
<1>4. /\ DOMAIN epoll' = DOMAIN epoll \cup {n}
      /\ epoll'[n] = [file |-> file[n], read |-> TRUE, write |-> FALSE]
      /\ \A fd \in DOMAIN epoll \ {n} : epoll'[fd] = epoll[fd]
  BY <1>2 DEF added, set
<1>5. main'.pc = "accept" /\ main'.listener = main.listener /\ Timers' /\ Visited' = {}
  BY <1>2, NextAttemptLocals
<1>6. Records' /\ Queued'
  BY <1>1, <1>2 DEF Records, Queued
<1>7. Attached(n)'
  BY <1>0, <1>1, <1>2, <1>4, <1>n DEF Attached, Incoming
<1>8. Masked(n)'
  <2>1. can_read(NewConnection) = TRUE /\ has_pending_output(NewConnection) = FALSE
    BY NewConnectionSound DEF can_read, has_pending_output
  <2>2. clients'[n].conn = NewConnection
    BY <1>0, <1>1, <1>2, <1>n DEF Incoming
  <2>3. epoll'[n].read = TRUE /\ epoll'[n].write = FALSE
    BY <1>4
  <2> QED
    BY <2>1, <2>2, <2>3 DEF Masked
<1>9. ASSUME NEW fd \in DOMAIN clients \ {n} PROVE Attached(fd)' /\ Masked(fd)'
  <2>1. Attached(fd) /\ Masked(fd) /\ fd \in DOMAIN epoll \ {n}
    BY <1>0, <1>1, <1>n DEF Incoming
  <2>2. Carried(fd)
    BY <1>2, <1>4, <2>1 DEF Carried
  <2> QED
    BY <2>1, <2>2, CarriedWatch
<1>10. Attachments'
  <2>1. \A fd \in DOMAIN clients' : Attached(fd)' /\ Masked(fd)'
    BY <1>2, <1>7, <1>8, <1>9
  <2>2. \A fd, gd \in DOMAIN clients' : file'[fd] = file'[gd] => fd = gd
    BY <1>0, <1>1, <1>2, <1>n DEF Incoming
  <2>3. DOMAIN epoll' = DOMAIN clients' \cup {main'.listener}
    BY <1>0, <1>1, <1>2, <1>3, <1>4, <1>5, <1>n DEF Incoming
  <2> QED
    BY <2>1, <2>2, <2>3 DEF Attachments
<1> QED
  BY <1>5, <1>6, <1>10 DEF Watch, Incoming

(* The accept loop.                                                        *)
LEMMA AcceptWatch == ASSUME Inv, Watch, Accept PROVE Watch'
<1>1. CASE AcceptFull \/ AcceptUnusable
  BY <1>1, RefusedWatch DEF AcceptFull, AcceptUnusable
<1>2. CASE AcceptInterrupted \/ AttemptEnds
  <2>0. main.pc \in {"accept", "attempted"} /\ InLoop /\ Visited = {} /\ main.pc \notin Starting
    BY <1>2 DEF AcceptInterrupted, AttemptEnds, Accepting, InLoop, Visited, Starting
  <2>1. UNCHANGED <<clients, file, epoll, queue, sock>>
    BY <1>2 DEF AcceptInterrupted, AttemptEnds
  <2>2. main'.pc = "accept" /\ main'.listener = main.listener /\ Timers'
    BY <1>2, AttemptedLocals, NextAttemptLocals DEF AcceptInterrupted, AttemptEnds, Accepting
  <2>3. Records' /\ Attachments' /\ Queued'
    BY <2>0, <2>1, <2>2, MainOnly
  <2> QED
    BY <2>2, <2>3 DEF Watch, Incoming
<1>3. CASE AcceptFails
  <2>1. main'.pc = "exit"
    BY <1>3 DEF AcceptFails, Exit, Inv, Fields
  <2> QED
    BY <2>1 DEF Watch, InLoop
<1>4. CASE AcceptDone
  <2>0. main.pc = "accept" /\ InLoop /\ Visited = {} /\ main.pc \notin Starting
    BY <1>4 DEF AcceptDone, InLoop, Visited, Starting
  <2>1. NextTurn /\ UNCHANGED <<clients, file, epoll, queue, sock>>
    BY <1>4 DEF AcceptDone
  <2>2. main'.pc = "scan" /\ main'.listener = main.listener /\ Timers'
    BY <2>1, NextTurnTimers
  <2>3. Records' /\ Attachments' /\ Queued'
    BY <2>0, <2>1, <2>2, MainOnly
  <2> QED
    BY <2>2, <2>3 DEF Watch, Incoming
<1> QED
  BY <1>1, <1>2, <1>3, <1>4, AcceptReturnsWatch, AcceptEmplacesWatch, AcceptClientWatch,
     AcceptUnwatchedWatch, AcceptAbortedWatch DEF Accept

-----------------------------------------------------------------------------
(* After a visit in the scan, the clients behind it are as they were or have
   made progress; after a visit for an event there is a new scan.          *)
LEMMA VisitOverTimers ==
    ASSUME Inv, Watch, main.pc \in {"recv", "exec"}, NEW still, VisitOver(still),
           \A fd \in DOMAIN clients' :
              /\ fd \in DOMAIN clients
              /\ clients'[fd].idle = clients[fd].idle \/ ~Expired(fd)'
    PROVE  main'.pc = "scan" /\ main'.listener = main.listener /\ Timers' /\ Visited' = {}
<1>1. CASE NextTurn
  BY <1>1, NextTurnTimers
<1>2. CASE ~NextTurn
  <2>1. /\ main.event = NoEvent
        /\ main' = [main EXCEPT !.pc = "scan", !.runnable = @ \/ still, !.fd = -1,
                                !.attempt = 0]
    BY <1>2 DEF VisitOver
  <2>2. main'.pc = "scan" /\ main'.listener = main.listener /\ main'.todo = main.todo
    BY <2>1 DEF Inv, Fields
  <2>3. Behind
    BY <2>1 DEF Watch, InLoop, Timers, Behind
  <2>4. Timers'
    BY <2>2, <2>3, BehindKept
  <2> QED
    BY <2>2, <2>4 DEF Visited
<1> QED
  BY <1>1, <1>2

(* A visit that asks for retirement.                                       *)
LEMMA VisitRetiresWatch ==
    ASSUME Inv, Watch, main.pc \in {"recv", "exec"}, NEW state, NEW tx,
           retire_client(main.fd, state, tx), VisitOver(FALSE)
    PROVE  Watch'
<1>0. /\ main.fd \in DOMAIN clients /\ Visited = {main.fd} /\ InLoop
      /\ main.pc \notin Starting
  BY DEF Inv, Iterators, Visited, InLoop, Starting
<1>1. clients' = erased(clients, main.fd)
  BY DEF retire_client
<1>2. \A fd \in DOMAIN clients' : fd \in DOMAIN clients /\ clients'[fd] = clients[fd]
  BY <1>1 DEF erased
<1>3. main'.pc = "scan" /\ main'.listener = main.listener /\ Timers'
  BY <1>2, VisitOverTimers
<1>4. Records' /\ Attachments' /\ Queued'
  BY <1>0, <1>3, RetireWatch
<1> QED
  BY <1>3, <1>4 DEF Watch, Incoming

(* A visit that keeps its connection registers what its buffers call for.   *)
LEMMA VisitKeepsWatch ==
    ASSUME Inv, Watch, main.pc \in {"recv", "exec"}, NEW c, NEW idle, NEW tx,
           idle = clients[main.fd].idle \/ idle = 0,
           clients' = [clients EXCEPT ![main.fd] = [@ EXCEPT !.conn = c, !.idle = idle]],
           sock' = [sock EXCEPT ![peer].tx = tx],
           epoll' = [epoll EXCEPT ![main.fd] = [@ EXCEPT !.read = can_read(c),
                                                         !.write = has_pending_output(c)]],
           VisitOver(has_runnable_input(c)), UNCHANGED <<file, queue>>
    PROVE  Watch'
<1>0. /\ main.fd \in DOMAIN clients /\ Visited = {main.fd} /\ InLoop
      /\ main.pc \notin Starting /\ main.fd # main.listener
  BY DEF Inv, Iterators, Owned, Visited, InLoop, Starting
<1>1. Records /\ Attachments /\ Queued
  BY <1>0 DEF Watch
<1>2. PICK n : n = main.fd
  OBVIOUS
<1>3. DOMAIN clients[n] = {"conn", "idle"} /\ Attached(n) /\ n \in DOMAIN epoll
  BY <1>0, <1>1, <1>2 DEF Records, Attachments
<1>4. /\ DOMAIN clients' = DOMAIN clients /\ DOMAIN clients'[n] = DOMAIN clients[n]
      /\ \A fd \in DOMAIN clients \ {n} : clients'[fd] = clients[fd]
      /\ clients'[n].conn = c /\ clients'[n].idle = idle
  BY <1>0, <1>2, <1>3
<1>5. /\ DOMAIN sock' = DOMAIN sock
      /\ \A p \in Peers : /\ DOMAIN sock'[p] = DOMAIN sock[p]
                          /\ sock'[p].state = sock[p].state
                          /\ sock'[p].nonblocking = sock[p].nonblocking
  BY <1>1 DEF Records
<1>6. /\ DOMAIN epoll' = DOMAIN epoll
      /\ \A fd \in DOMAIN epoll \ {n} : epoll'[fd] = epoll[fd]
      /\ DOMAIN epoll'[n] = DOMAIN epoll[n] /\ epoll'[n].file = epoll[n].file
      /\ epoll'[n].read = can_read(c) /\ epoll'[n].write = has_pending_output(c)
  <2>1. DOMAIN epoll[n] = {"file", "read", "write"}
    BY <1>3 DEF Attached
  <2> QED
    BY <1>2, <1>3, <2>1
<1>7. \A fd \in DOMAIN clients' :
         /\ fd \in DOMAIN clients
         /\ clients'[fd].idle = clients[fd].idle \/ ~Expired(fd)'
  <2>1. idle = clients[n].idle \/ ~Expired(n)'
    BY <1>2, <1>4, EventLoopAssumption DEF Expired
  <2> QED
    BY <1>4, <2>1
<1>8. main'.pc = "scan" /\ main'.listener = main.listener /\ Timers'
  BY <1>7, VisitOverTimers
<1>9. Records'
  BY <1>1, <1>4, <1>5 DEF Records
<1>10. Queued'
  <2>1. \A i \in 1..Len(queue) : queue[i] \in Peers
    BY <1>1, ElementOfSeq DEF Queued
  <2> QED
    BY <1>1, <1>5, <2>1 DEF Queued
<1>11. \A fd \in DOMAIN clients' \ {n} : Carried(fd)
  <2> SUFFICES ASSUME NEW fd \in DOMAIN clients \ {n} PROVE Carried(fd)
    BY <1>4
  <2>1. fd \in DOMAIN epoll /\ file[fd] \in Peers
    BY <1>0, <1>1 DEF Attachments, Attached
  <2> QED
    BY <1>4, <1>5, <1>6, <2>1 DEF Carried
<1>12. Attached(n)'
  BY <1>3, <1>5, <1>6 DEF Attached
<1>13. Masked(n)'
  BY <1>4, <1>6 DEF Masked
<1>14. DOMAIN epoll' = DOMAIN clients' \cup {main'.listener}
  BY <1>0, <1>1, <1>4, <1>6, <1>8 DEF Attachments
<1>15. Attachments'
  BY <1>0, <1>1, <1>2, <1>4, <1>11, <1>12, <1>13, <1>14, AttachmentsKept
<1> QED
  BY <1>8, <1>9, <1>10, <1>15 DEF Watch, Incoming

(* service_client.                                                         *)
LEMMA VisitStepWatch == ASSUME Inv, Watch, Visit PROVE Watch'
<1>0. main.pc \in {"recv", "exec"}
  BY DEF Visit, VisitRecv, VisitRecvError, VisitExec, VisitFails, VisitEnds
<1>1. /\ main.fd \in DOMAIN clients /\ Visited = {main.fd} /\ InLoop
      /\ main.pc \notin Starting
  BY <1>0 DEF Inv, Iterators, Visited, InLoop, Starting
<1>2. Records /\ Attachments /\ Queued /\ Timers
  BY <1>0, <1>1 DEF Watch
<1>n. PICK n : n = main.fd
  OBVIOUS
<1>3. DOMAIN clients[n] = {"conn", "idle"}
  BY <1>1, <1>2, <1>n DEF Records
<1>4. CASE VisitRecv
  <2>1. PICK c, idle, rx :
          /\ clients' = [clients EXCEPT ![main.fd] = [conn |-> c, idle |-> idle]]
          /\ sock' = [sock EXCEPT ![peer].rx = rx]
    <3>1. PICK k \in (IF main.event.readable THEN 0..kReadCallBudget ELSE {0}), eof \in BOOLEAN :
             /\ clients' = [clients EXCEPT ![main.fd] =
                  [conn |-> begin_processing([Received[k].conn EXCEPT !.read_eof = @ \/ eof]),
                   idle |-> IF Received[k].rx = sock[peer].rx THEN @.idle ELSE 0]]
             /\ sock' = [sock EXCEPT ![peer].rx = Received[k].rx]
      BY <1>4 DEF VisitRecv
    <3> QED
      BY <3>1
  <2>2. /\ DOMAIN clients' = DOMAIN clients /\ DOMAIN clients'[n] = DOMAIN clients[n]
        /\ \A fd \in DOMAIN clients \ {n} : clients'[fd] = clients[fd]
    BY <1>1, <1>3, <1>n, <2>1
  <2>3. /\ DOMAIN sock' = DOMAIN sock
        /\ \A p \in Peers : /\ DOMAIN sock'[p] = DOMAIN sock[p]
                            /\ sock'[p].state = sock[p].state
                            /\ sock'[p].nonblocking = sock[p].nonblocking
    BY <1>2, <2>1 DEF Records
  <2>4. main.pc = "recv" /\ Goto("exec") /\ UNCHANGED <<file, epoll, queue>>
    BY <1>4 DEF VisitRecv
  <2>5. /\ main'.pc = "exec" /\ main'.listener = main.listener
        /\ main'.event = main.event /\ main'.fd = main.fd
    BY <2>4 DEF Goto, Inv, Fields
  <2>6. Timers'
    BY <1>2, <2>4, <2>5 DEF Timers, NoEvent
  <2>7. Visited' = {n}
    BY <1>n, <2>5 DEF Visited
  <2>8. Records' /\ Attachments' /\ Queued'
    BY <1>1, <1>n, <2>2, <2>3, <2>4, <2>5, <2>7, VisitWatch
  <2> QED
    BY <2>5, <2>6, <2>8 DEF Watch, Incoming
<1>5. CASE VisitRecvError \/ VisitFails
  BY <1>0, <1>5, VisitRetiresWatch DEF VisitRecvError, VisitFails
<1>6. CASE VisitExec
  <2>1. PICK c : clients' = [clients EXCEPT ![main.fd].conn = c]
    <3>1. PICK newline \in 1..Len(conn.input_buffer) :
            clients' = [clients EXCEPT ![main.fd].conn =
              queue_response(consume_frame(@, newline),
                             response_of(Answer(frame_at(conn, newline), store).text))]
      BY <1>6 DEF VisitExec
    <3> QED
      BY <3>1
  <2>2. /\ DOMAIN clients' = DOMAIN clients /\ DOMAIN clients'[n] = DOMAIN clients[n]
        /\ \A fd \in DOMAIN clients \ {n} : clients'[fd] = clients[fd]
        /\ clients'[n].idle = clients[n].idle
    BY <1>1, <1>3, <1>n, <2>1
  <2>3. main.pc = "exec" /\ Attempted /\ UNCHANGED <<file, epoll, queue, sock>>
    BY <1>6 DEF VisitExec
  <2>4. /\ main'.pc = "exec" /\ main'.listener = main.listener
        /\ main'.event = main.event /\ main'.fd = main.fd /\ main'.todo = main.todo
    BY <2>3 DEF Attempted, Inv, Fields
  <2>5. Timers'
    <3>1. CASE main.event = NoEvent
      <4>1. Behind
        BY <1>2, <2>3, <3>1 DEF Timers, Behind
      <4> QED
        BY <2>2, <2>4, <4>1, BehindKept
    <3>2. CASE main.event # NoEvent
      BY <2>4, <3>2 DEF Timers, NoEvent
    <3> QED
      BY <3>1, <3>2
  <2>6. Visited' = {n}
    BY <1>n, <2>4 DEF Visited
  <2>7. Records' /\ Attachments' /\ Queued'
    BY <1>1, <1>n, <2>2, <2>3, <2>4, <2>6, VisitWatch
  <2> QED
    BY <2>4, <2>5, <2>7 DEF Watch, Incoming
<1>7. CASE VisitEnds
  <2>1. PICK after \in Flushed :
          \/ retire_client(main.fd, "closed", after.tx) /\ VisitOver(FALSE)
          \/ retire_client(main.fd, "lost", after.tx) /\ VisitOver(FALSE)
          \/ /\ clients' = [clients EXCEPT ![main.fd] = [@ EXCEPT !.conn = after.conn,
                                                                  !.idle = after.idle]]
             /\ sock' = [sock EXCEPT ![peer].tx = after.tx]
             /\ epoll' = [epoll EXCEPT ![main.fd] = [@ EXCEPT !.read = can_read(after.conn),
                                                              !.write = has_pending_output(after.conn)]]
             /\ VisitOver(has_runnable_input(after.conn))
             /\ UNCHANGED <<file, queue>>
    BY <1>7 DEF VisitEnds
  <2>2. after.idle = clients[main.fd].idle \/ after.idle = 0
    BY <2>1 DEF Flushed
  <2> QED
    BY <1>0, <2>1, <2>2, VisitRetiresWatch, VisitKeepsWatch
<1> QED
  BY <1>4, <1>5, <1>6, <1>7 DEF Visit

-----------------------------------------------------------------------------
(* No peer closes a socket that the server has open.                       *)
LEMMA PeerKeepsWatch ==
    ASSUME Incoming, main.pc # "emplaced" => Attachments,
           UNCHANGED <<main, clients, file, epoll>>,
           \A q \in Peers : sock[q].state = "open" =>
              sock'[q].state = "open" /\ sock'[q].nonblocking = sock[q].nonblocking
    PROVE  Incoming' /\ (main.pc # "emplaced" => Attachments')
<1>1. ASSUME NEW fd \in DOMAIN clients, Attached(fd)
      PROVE  Attached(fd)' /\ (Masked(fd) => Masked(fd)')
  BY <1>1 DEF Attached, Masked
<1>2. Incoming'
  BY <1>1 DEF Incoming
<1>3. ASSUME main.pc # "emplaced" PROVE Attachments'
  BY <1>1, <1>3 DEF Attachments, Visited
<1> QED
  BY <1>2, <1>3

(* A peer connects: a socket that was new joins the end of the queue.       *)
LEMMA ConnectWatch ==
    ASSUME Inv, Watch, NEW p \in Peers, PeerConnect(p)
    PROVE  Watch'
<1> SUFFICES ASSUME InLoop
             PROVE  /\ Records' /\ Queued' /\ Timers' /\ Incoming'
                    /\ main.pc # "emplaced" => Attachments'
  BY DEF Watch, InLoop, PeerConnect
<1>0. Records /\ Queued /\ Timers /\ Incoming /\ (main.pc # "emplaced" => Attachments)
  BY DEF Watch
<1>1. /\ sock[p].state = "new" /\ sock' = [sock EXCEPT ![p].state = "queued"]
      /\ queue' = Append(queue, p) /\ UNCHANGED <<main, clients, file, epoll>>
  BY DEF PeerConnect
<1>2. /\ DOMAIN sock' = Peers
      /\ \A q \in Peers : DOMAIN sock'[q] = DOMAIN sock[q]
      /\ \A q \in Peers \ {p} : sock'[q] = sock[q]
      /\ sock'[p].state = "queued"
  BY <1>0, <1>1 DEF Records
<1>3. Records'
  BY <1>0, <1>1, <1>2 DEF Records
<1>4. Timers' /\ Visited' = Visited
  BY <1>0, <1>1 DEF Timers, Expired, Visited
<1>5. \A q \in Peers : sock[q].state = "open" =>
         sock'[q].state = "open" /\ sock'[q].nonblocking = sock[q].nonblocking
  BY <1>1, <1>2
<1>6. Incoming' /\ (main.pc # "emplaced" => Attachments')
  BY <1>0, <1>1, <1>5, PeerKeepsWatch
<1>7. Queued'
  <2>0. queue \in Seq(Peers) /\ Len(queue) \in Nat
    BY <1>0, LenProperties DEF Queued
  <2>1. /\ queue' \in Seq(Peers) /\ Len(queue') = Len(queue) + 1
        /\ \A i \in 1..Len(queue) : queue'[i] = queue[i]
        /\ queue'[Len(queue) + 1] = p
    BY <1>1, <2>0, AppendProperties
  <2>2. \A i \in 1..Len(queue) : queue[i] \in Peers \ {p}
    BY <1>0, <1>1, <2>0, ElementOfSeq DEF Queued
  <2>3. \A i \in 1..Len(queue') : i \in 1..Len(queue) \/ i = Len(queue) + 1
    BY <2>0, <2>1
  <2>4. \A i \in 1..Len(queue) : sock'[queue[i]] = sock[queue[i]]
    BY <1>2, <2>2
  <2>5. \A i \in 1..Len(queue') : sock'[queue'[i]].state = "queued"
    BY <1>0, <1>2, <2>1, <2>3, <2>4 DEF Queued
  <2>6. \A i, j \in 1..Len(queue') : queue'[i] = queue'[j] => i = j
    <3> SUFFICES ASSUME NEW i \in 1..Len(queue'), NEW j \in 1..Len(queue'),
                        queue'[i] = queue'[j]
                 PROVE  i = j
      OBVIOUS
    <3>1. CASE i \in 1..Len(queue) /\ j \in 1..Len(queue)
      BY <1>0, <2>1, <3>1 DEF Queued
    <3>2. CASE i = Len(queue) + 1 /\ j \in 1..Len(queue)
      BY <2>1, <2>2, <3>2
    <3>3. CASE j = Len(queue) + 1 /\ i \in 1..Len(queue)
      BY <2>1, <2>2, <3>3
    <3> QED
      BY <2>3, <3>1, <3>2, <3>3
  <2> QED
    BY <2>1, <2>5, <2>6 DEF Queued
<1> QED
  BY <1>3, <1>4, <1>6, <1>7

(* Nothing else a peer does opens, queues or closes a socket of the server. *)
LEMMA PeerStepEffect ==
    ASSUME Records, NEW p \in Peers, PeerStep(p)
    PROVE  /\ DOMAIN sock' = Peers
           /\ \A q \in Peers : DOMAIN sock'[q] = DOMAIN sock[q]
           /\ \A q \in Peers :
                \/ sock'[q].state = sock[q].state /\ sock'[q].nonblocking = sock[q].nonblocking
                \/ sock[q].state \in {"closed", "lost"}
<1>1. CASE \E line \in Script[p] : sock' = [sock EXCEPT ![p].rx = @ \o line]
  BY <1>1 DEF Records
<1>2. CASE sock' = [sock EXCEPT ![p].fin = TRUE]
  BY <1>2 DEF Records
<1>3. CASE sock' = [sock EXCEPT ![p] = [@ EXCEPT !.rst = TRUE, !.tx = <<>>]]
  BY <1>3 DEF Records
<1>4. CASE sock' = [sock EXCEPT ![p].tx = <<>>]
  BY <1>4 DEF Records
<1>5. CASE sock[p].state \in {"closed", "lost"} /\ sock' = [sock EXCEPT ![p] = NewSocket]
  BY <1>5 DEF Records, NewSocket
<1> QED
  BY <1>1, <1>2, <1>3, <1>4, <1>5 DEF PeerStep

(* So the watch survives it.                                               *)
LEMMA PeerStepWatch ==
    ASSUME Inv, Watch, NEW p \in Peers, PeerStep(p)
    PROVE  Watch'
<1> SUFFICES ASSUME InLoop
             PROVE  /\ Records' /\ Queued' /\ Timers' /\ Incoming'
                    /\ main.pc # "emplaced" => Attachments'
  BY DEF Watch, InLoop, PeerStep
<1>0. Records /\ Queued /\ Timers /\ Incoming /\ (main.pc # "emplaced" => Attachments)
  BY DEF Watch
<1>1. UNCHANGED <<main, clients, file, epoll, queue>>
  BY DEF PeerStep
<1>2. /\ DOMAIN sock' = Peers
      /\ \A q \in Peers : DOMAIN sock'[q] = DOMAIN sock[q]
      /\ \A q \in Peers :
           \/ sock'[q].state = sock[q].state /\ sock'[q].nonblocking = sock[q].nonblocking
           \/ sock[q].state \in {"closed", "lost"}
  BY <1>0, PeerStepEffect
<1>3. Records'
  BY <1>0, <1>1, <1>2 DEF Records
<1>4. Timers' /\ Visited' = Visited
  BY <1>0, <1>1 DEF Timers, Expired, Visited
<1>5. \A q \in Peers : sock[q].state = "open" =>
         sock'[q].state = "open" /\ sock'[q].nonblocking = sock[q].nonblocking
  BY <1>1, <1>2
<1>6. Incoming' /\ (main.pc # "emplaced" => Attachments')
  BY <1>0, <1>1, <1>5, PeerKeepsWatch
<1>7. Queued'
  <2>1. \A i \in 1..Len(queue) : queue[i] \in Peers
    BY <1>0, ElementOfSeq DEF Queued
  <2>2. \A i \in 1..Len(queue) : sock'[queue[i]].state = "queued"
    BY <1>0, <1>2, <2>1 DEF Queued
  <2> QED
    BY <1>0, <1>1, <2>2 DEF Queued
<1> QED
  BY <1>3, <1>4, <1>6, <1>7

(* The watch is inductive, given what Inv says of owners and iterators.     *)
LEMMA StepWatch == Inv /\ Watch /\ [Next]_vars => Watch'
<1> SUFFICES ASSUME Inv, Watch, [Next]_vars PROVE Watch'
  OBVIOUS
<1>1. CASE Server
  BY <1>1, StartWatch, UnwindWatch, ScanWatch, WaitWatch, DispatchWatch, AcceptWatch,
     VisitStepWatch DEF Server
<1>2. CASE \E p \in Peers : PeerConnect(p) \/ PeerStep(p)
  BY <1>2, ConnectWatch, PeerStepWatch
<1>3. CASE UNCHANGED vars
  <2>1. Records' = Records /\ Queued' = Queued /\ Timers' = Timers /\ InLoop' = InLoop
    BY <1>3 DEF vars, Records, Queued, Timers, Expired, InLoop
  <2>2. Attachments' = Attachments
    BY <1>3 DEF vars, Attachments, Attached, Masked, Visited
  <2>3. Incoming' = Incoming
    BY <1>3 DEF vars, Incoming, Attached, Masked
  <2> QED
    BY <1>3, <2>1, <2>2, <2>3 DEF Watch, vars
<1> QED
  BY <1>1, <1>2, <1>3 DEF Next

(* The watch holds in every reachable state.                               *)
THEOREM WatchInvariance == Spec => []Watch
  BY Invariance, InitWatch, StepWatch, PTL DEF Spec

(* For any number of clients: when the thread waits, every client can be
   reached by readiness, on its own socket and with the interest its buffers
   call for, and nothing else is registered (server.cpp:333-339, 151-159).  *)
THEOREM ClientsWatched == Spec => []EveryClientWatched
<1>1. ASSUME Watch PROVE EveryClientWatched
  <2> SUFFICES ASSUME main.pc = "wait"
      PROVE  /\ DOMAIN epoll = DOMAIN clients \cup {main.listener}
             /\ \A fd \in DOMAIN clients :
                   /\ epoll[fd].file = file[fd] /\ sock[file[fd]].nonblocking
                   /\ [read |-> epoll[fd].read, write |-> epoll[fd].write]
                        = wanted_interest(clients[fd].conn)
    BY DEF EveryClientWatched
  <2>1. Attachments /\ Visited = {} /\ main.pc \notin Starting
    BY <1>1 DEF Watch, InLoop, Visited, Starting
  <2>2. \A fd \in DOMAIN clients : Attached(fd) /\ Masked(fd)
    BY <2>1 DEF Attachments
  <2>3. \A fd \in DOMAIN clients : epoll[fd].file = file[fd] /\ sock[file[fd]].nonblocking
    BY <2>2 DEF Attached
  <2>4. \A fd \in DOMAIN clients :
           [read |-> epoll[fd].read, write |-> epoll[fd].write]
             = wanted_interest(clients[fd].conn)
    BY <2>2 DEF Masked, wanted_interest
  <2> QED
    BY <2>1, <2>3, <2>4 DEF Attachments
<1> QED
  BY WatchInvariance, <1>1, PTL

(* For any number of clients and any stream of events and interruptions, the
   thread never starts to wait with a client whose idle time is up
   (server.cpp:225-229, 247-250).                                          *)
THEOREM TimersAlwaysServed == Spec => []TimersServed
<1>1. ASSUME Watch, Inv PROVE TimersServed
  <2> SUFFICES ASSUME main.pc = "wait" PROVE \A fd \in DOMAIN clients : ~Expired(fd)
    BY DEF TimersServed
  <2> QED
    BY <1>1 DEF Watch, InLoop, Timers, Inv, Iterators
<1> QED
  BY WatchInvariance, Invariance, <1>1, PTL

-----------------------------------------------------------------------------
(* The owners                                                              *)

(* main's locals and the map own what they owned.                          *)
SameOwners ==
    /\ DOMAIN clients' = DOMAIN clients /\ DOMAIN file' = DOMAIN file
    /\ main'.listener = main.listener /\ main'.poller = main.poller

(* One entry leaves the map, and its descriptor the process.               *)
EntryGone ==
    \E fd \in DOMAIN clients :
        /\ DOMAIN clients' = DOMAIN clients \ {fd} /\ DOMAIN file' = DOMAIN file \ {fd}
        /\ main'.listener = main.listener /\ main'.poller = main.poller

(* The accept loop's client is there, or not, as it was, with its number.  *)
Attempting == main.pc \in {"accepted", "emplaced", "attempted"}

SameClient ==
    /\ Attempting' <=> Attempting
    /\ main.pc = "accepted" <=> main'.pc = "accepted"
    /\ main.pc = "accepted" => main'.fd = main.fd

(* The owners at the start.                                                *)
LEMMA InitOwners == Init => Ownership!Init
<1> SUFFICES ASSUME Init PROVE Ownership!Init
  OBVIOUS
<1>1. main.listener = -1 /\ main.poller = -1 /\ main.pc = "socket"
  BY DEF Init
<1>2. DOMAIN clients = {} /\ DOMAIN file = {}
  BY DEF Init, EmptyStore
<1>3. Owners = {}
  BY <1>1, <1>2 DEF Owners
<1>4. \A o \in Objects : HeldBy(o) = -1
  BY <1>1, <1>2 DEF HeldBy
<1> QED
  BY <1>2, <1>3, <1>4 DEF Ownership!Init

(* A step that keeps the owners is a stutter.                               *)
LEMMA SameOwnersStutters ==
    ASSUME SameOwners, SameClient PROVE UNCHANGED Ownership!fdVars
<1>1. Owners' = Owners
  BY DEF SameOwners, SameClient, Attempting, Owners
<1>2. \A o : HeldBy(o)' = HeldBy(o)
  BY DEF SameOwners, SameClient, HeldBy
<1> QED
  BY <1>1, <1>2 DEF SameOwners, Ownership!fdVars

(* An owner that goes away, its number closed.                             *)
LEMMA OwnerDestroyed ==
    ASSUME NEW o \in Owners, o \in Objects, Owners' = Owners \ {o},
           HeldBy(o)' = -1, \A x \in Objects \ {o} : HeldBy(x)' = HeldBy(x),
           DOMAIN file' = DOMAIN file \ {HeldBy(o)}
    PROVE  Ownership!Next
<1>1. [x \in Objects |-> HeldBy(x)]' = [[x \in Objects |-> HeldBy(x)] EXCEPT ![o] = -1]
  OBVIOUS
<1>2. Ownership!Destroy(o)
  BY <1>1 DEF Ownership!Destroy, Ownership!close
<1> QED
  BY <1>2 DEF Ownership!Next

(* An owner that is constructed with a number that was not in use.          *)
LEMMA OwnerConstructed ==
    ASSUME NEW o \in Objects, o \notin Owners, Owners' = Owners \cup {o},
           NEW n \in Fd \ DOMAIN file, n # -1, HeldBy(o)' = n,
           \A x \in Objects \ {o} : HeldBy(x)' = HeldBy(x),
           DOMAIN file' = DOMAIN file \cup {n}
    PROVE  Ownership!Next
<1>1. [x \in Objects |-> HeldBy(x)]' = [[x \in Objects |-> HeldBy(x)] EXCEPT ![o] = n]
  OBVIOUS
<1>2. DOMAIN file \cup {n} = DOMAIN file \cup ({n} \ {-1})
  OBVIOUS
<1>3. Ownership!Construct(o)
  BY <1>1, <1>2 DEF Ownership!Construct
<1> QED
  BY <1>3 DEF Ownership!Next

(* An owner that is constructed from another, which is left empty.          *)
LEMMA OwnerMoved ==
    ASSUME NEW o \in Objects, NEW other \in Objects, o # other,
           o \notin Owners, other \in Owners, Owners' = Owners \cup {o},
           HeldBy(o)' = HeldBy(other), HeldBy(other)' = -1,
           \A x \in Objects \ {o, other} : HeldBy(x)' = HeldBy(x),
           DOMAIN file' = DOMAIN file
    PROVE  Ownership!Next
<1>1. [x \in Objects |-> HeldBy(x)]'
        = [[x \in Objects |-> HeldBy(x)] EXCEPT ![o] = HeldBy(other), ![other] = -1]
  OBVIOUS
<1>2. Ownership!MoveConstruct(o, other)
  BY <1>1 DEF Ownership!MoveConstruct
<1> QED
  BY <1>2 DEF Ownership!Next

(* The numbers of the clients are not those of the three other owners.     *)
LEMMA ObjectsDiffer ==
    ASSUME Inv
    PROVE  /\ DOMAIN clients \subseteq Objects
           /\ {ListenerObject, PollerObject, ClientObject} \subseteq Objects
           /\ ListenerObject # PollerObject
           /\ ClientObject \notin {ListenerObject, PollerObject}
           /\ \A fd \in Fd : fd \notin {ListenerObject, PollerObject, ClientObject, -1}
<1>1. DOMAIN clients \subseteq Fd
  BY DEF Inv, Owned
<1> QED
  BY <1>1, EventLoopAssumption DEF Objects, ListenerObject, PollerObject, ClientObject

(* An entry that leaves is an owner destroyed.                              *)
LEMMA EntryGoneDestroys ==
    ASSUME Inv, EntryGone, SameClient PROVE Ownership!Next
<1>1. PICK fd \in DOMAIN clients :
        /\ DOMAIN clients' = DOMAIN clients \ {fd} /\ DOMAIN file' = DOMAIN file \ {fd}
        /\ main'.listener = main.listener /\ main'.poller = main.poller
  BY DEF EntryGone
<1>2. fd \in Fd /\ fd \in Objects /\ fd \notin {ListenerObject, PollerObject, ClientObject}
  BY ObjectsDiffer DEF Inv, Owned
<1>3. fd \in Owners /\ Owners' = Owners \ {fd}
  BY <1>1, <1>2 DEF Owners, SameClient, Attempting
<1>4. HeldBy(fd) = fd /\ HeldBy(fd)' = -1
  BY <1>1, <1>2 DEF HeldBy
<1>5. \A x \in Objects \ {fd} : HeldBy(x)' = HeldBy(x)
  BY <1>1 DEF HeldBy, SameClient
<1> QED
  BY <1>1, <1>2, <1>3, <1>4, <1>5, OwnerDestroyed

(* retire_client destroys the owner of the descriptor.                     *)
LEMMA RetireOwner ==
    ASSUME Inv, NEW fd \in DOMAIN clients, NEW state, NEW tx,
           retire_client(fd, state, tx),
           main'.listener = main.listener, main'.poller = main.poller
    PROVE  EntryGone
  BY RetireEffect DEF Retired, EntryGone

(* A turn or a visit that ends leaves main's own descriptors alone.        *)
LEMMA TurnKeeps ==
    ASSUME Inv, NEW still, NextTurn \/ VisitOver(still)
    PROVE  main'.listener = main.listener /\ main'.poller = main.poller
<1>1. CASE NextTurn
  BY <1>1 DEF NextTurn, Inv, Fields
<1>2. CASE main' = [main EXCEPT !.pc = "scan", !.runnable = @ \/ still, !.fd = -1,
                                !.attempt = 0]
  BY <1>2 DEF Inv, Fields
<1> QED
  BY <1>1, <1>2 DEF VisitOver

(* Startup constructs the listener and the poller.                         *)
LEMMA StartOwners == ASSUME Inv, Start, SameClient PROVE Ownership!Next \/ SameOwners
<1>0. DOMAIN clients = {} /\ DOMAIN clients' = DOMAIN clients
  BY DEF Start, create_socket, ConfigureListener, CreatePoller, RegisterListener,
         StartupFails, Inv, Fresh, Starting
<1>1. CASE create_socket
  <2>1. PICK n : n = Lowest
    OBVIOUS
  <2>2. n \in Fd \ DOMAIN file /\ n # -1
    BY <1>1, <2>1, FreshNumber DEF create_socket
  <2>3. main.listener = -1 /\ main'.listener = n /\ main'.poller = main.poller
    BY <1>1, <2>1 DEF create_socket, Inv, Fresh, Fields
  <2>4. DOMAIN file' = DOMAIN file \cup {n}
    BY <1>1, <2>1 DEF create_socket, set
  <2>5. ListenerObject \notin Owners /\ Owners' = Owners \cup {ListenerObject}
    BY <1>0, <2>2, <2>3, ObjectsDiffer DEF Owners, SameClient, Attempting
  <2>6. /\ HeldBy(ListenerObject)' = n
        /\ \A x \in Objects \ {ListenerObject} : HeldBy(x)' = HeldBy(x)
    BY <1>0, <2>3, ObjectsDiffer DEF HeldBy, SameClient
  <2> QED
    BY <2>2, <2>4, <2>5, <2>6, ObjectsDiffer, OwnerConstructed
<1>2. CASE CreatePoller
  <2>1. PICK n : n = Lowest
    OBVIOUS
  <2>2. n \in Fd \ DOMAIN file /\ n # -1
    BY <1>2, <2>1, FreshNumber DEF CreatePoller
  <2>3. main.poller = -1 /\ main'.poller = n /\ main'.listener = main.listener
    BY <1>2, <2>1 DEF CreatePoller, Inv, Fresh, Fields
  <2>4. DOMAIN file' = DOMAIN file \cup {n}
    BY <1>2, <2>1 DEF CreatePoller, set
  <2>5. PollerObject \notin Owners /\ Owners' = Owners \cup {PollerObject}
    BY <1>0, <2>2, <2>3, ObjectsDiffer DEF Owners, SameClient, Attempting
  <2>6. /\ HeldBy(PollerObject)' = n
        /\ \A x \in Objects \ {PollerObject} : HeldBy(x)' = HeldBy(x)
    BY <1>0, <2>3, ObjectsDiffer DEF HeldBy, SameClient
  <2> QED
    BY <2>2, <2>4, <2>5, <2>6, ObjectsDiffer, OwnerConstructed
<1>3. CASE ConfigureListener \/ RegisterListener \/ StartupFails
  <2>1. file' = file
    BY <1>3 DEF ConfigureListener, RegisterListener, StartupFails
  <2>2. main'.listener = main.listener /\ main'.poller = main.poller
    BY <1>3 DEF ConfigureListener, RegisterListener, StartupFails, Goto, Exit, Inv, Fields
  <2> QED
    BY <1>0, <2>1, <2>2 DEF SameOwners
<1> QED
  BY <1>1, <1>2, <1>3 DEF Start

(* The destructors destroy the owners, each once.                          *)
LEMMA UnwindOwners == ASSUME Inv, Unwind, SameClient PROVE Ownership!Next \/ SameOwners
<1>1. ASSUME NEW fd \in DOMAIN clients, clients' = erased(clients, fd),
             file' = erased(file, fd), main' = main
      PROVE  EntryGone
  BY <1>1, ErasedDomain DEF EntryGone
<1>2. ASSUME DOMAIN clients = {}, main.poller # -1, clients' = clients,
             main' = [main EXCEPT !.poller = -1], file' = erased(file, main.poller)
      PROVE  Ownership!Next
  <2>1. main'.poller = -1 /\ main'.listener = main.listener
    BY <1>2 DEF Inv, Fields
  <2>2. DOMAIN file' = DOMAIN file \ {main.poller}
    BY <1>2, ErasedDomain
  <2>3. PollerObject \in Owners /\ Owners' = Owners \ {PollerObject}
    BY <1>2, <2>1, ObjectsDiffer DEF Owners, SameClient, Attempting
  <2>4. /\ HeldBy(PollerObject) = main.poller /\ HeldBy(PollerObject)' = -1
        /\ \A x \in Objects \ {PollerObject} : HeldBy(x)' = HeldBy(x)
    BY <1>2, <2>1, ObjectsDiffer DEF HeldBy, SameClient
  <2> QED
    BY <2>2, <2>3, <2>4, ObjectsDiffer, OwnerDestroyed
<1>3. ASSUME main.poller = -1, clients' = clients, file' = erased(file, main.listener),
             main' = [main EXCEPT !.listener = -1, !.pc = "stopped"]
      PROVE  Ownership!Next \/ SameOwners
  <2>1. main'.listener = -1 /\ main'.poller = main.poller
    BY <1>3 DEF Inv, Fields
  <2>2. DOMAIN file' = DOMAIN file \ {main.listener}
    BY <1>3, ErasedDomain
  <2>3. CASE main.listener = -1
    <3>1. -1 \notin DOMAIN file
      BY EventLoopAssumption DEF Inv, Owned
    <3> QED
      BY <1>3, <2>1, <2>2, <2>3, <3>1 DEF SameOwners
  <2>4. CASE main.listener # -1
    <3>1. DOMAIN clients' = DOMAIN clients
      BY <1>3
    <3>2. ListenerObject \in Owners /\ Owners' = Owners \ {ListenerObject}
      BY <2>1, <2>4, <3>1, ObjectsDiffer DEF Owners, SameClient, Attempting, Inv, Owned
    <3>3. /\ HeldBy(ListenerObject) = main.listener /\ HeldBy(ListenerObject)' = -1
          /\ \A x \in Objects \ {ListenerObject} : HeldBy(x)' = HeldBy(x)
      BY <2>1, <3>1, ObjectsDiffer DEF HeldBy, SameClient
    <3> QED
      BY <2>2, <3>2, <3>3, ObjectsDiffer, OwnerDestroyed
  <2> QED
    BY <2>3, <2>4
<1>4. ASSUME UNCHANGED <<main, clients, file>> PROVE SameOwners
  BY <1>4 DEF SameOwners
<1> QED
  BY <1>1, <1>2, <1>3, <1>4, EntryGoneDestroys DEF Unwind, close

(* client is constructed by accept and destroyed at the end of the attempt;
   in between it has closed its number or moved it into an entry.          *)
LEMMA AcceptOwners == ASSUME Inv, Accept PROVE Ownership!Next \/ (SameOwners /\ SameClient)
<1>1. CASE AcceptInterrupted \/ AcceptAborted
  <2>1. main.pc = "accept" /\ Attempted /\ UNCHANGED <<clients, file>>
    BY <1>1 DEF AcceptInterrupted, AcceptAborted, Accepting
  <2> QED
    BY <2>1, AttemptedFields DEF SameOwners, SameClient, Attempting
<1>2. CASE AcceptFails
  <2>1. main.pc = "accept" /\ UNCHANGED <<clients, file>> /\ Exit("accept")
    BY <1>2 DEF AcceptFails, Accepting
  <2>2. main'.pc = "exit" /\ main'.listener = main.listener /\ main'.poller = main.poller
    BY <2>1 DEF Exit, Inv, Fields
  <2> QED
    BY <2>1, <2>2 DEF SameOwners, SameClient, Attempting
<1>3. CASE AcceptDone
  <2>1. main.pc = "accept" /\ UNCHANGED <<clients, file>> /\ NextTurn
    BY <1>3 DEF AcceptDone
  <2>2. main'.pc = "scan" /\ main'.listener = main.listener /\ main'.poller = main.poller
    BY <2>1 DEF NextTurn, Inv, Fields
  <2> QED
    BY <2>1, <2>2 DEF SameOwners, SameClient, Attempting
<1>4. CASE AcceptReturns
  <2>1. PICK n : n = Lowest
    OBVIOUS
  <2>2. n \in Fd \ DOMAIN file /\ n # -1
    BY <1>4, <2>1, FreshNumber DEF AcceptReturns
  <2>3. /\ main.pc = "accept" /\ main'.pc = "accepted" /\ main'.fd = n
        /\ main'.listener = main.listener /\ main'.poller = main.poller
    BY <1>4, <2>1 DEF AcceptReturns, Accepting, Inv, Fields
  <2>4. DOMAIN clients' = DOMAIN clients /\ DOMAIN file' = DOMAIN file \cup {n}
    BY <1>4, <2>1 DEF AcceptReturns, set
  <2>5. ClientObject \notin Owners /\ Owners' = Owners \cup {ClientObject}
    BY <2>3, <2>4, ObjectsDiffer DEF Owners, Inv, Owned
  <2>6. /\ HeldBy(ClientObject)' = n
        /\ \A x \in Objects \ {ClientObject} : HeldBy(x)' = HeldBy(x)
    BY <2>3, <2>4, ObjectsDiffer DEF HeldBy
  <2> QED
    BY <2>2, <2>4, <2>5, <2>6, ObjectsDiffer, OwnerConstructed
<1>5. ASSUME Attempting, NextAttempt, DOMAIN clients' = DOMAIN clients,
             DOMAIN file' = DOMAIN file \ {HeldBy(ClientObject)}
      PROVE  Ownership!Next
  <2>1. /\ main'.pc = "accept" /\ main'.listener = main.listener
        /\ main'.poller = main.poller
    BY <1>5, NextAttemptFields
  <2>2. ClientObject \in Owners /\ Owners' = Owners \ {ClientObject}
    BY <1>5, <2>1, ObjectsDiffer DEF Owners, Attempting, Inv, Owned
  <2>3. /\ HeldBy(ClientObject)' = -1
        /\ \A x \in Objects \ {ClientObject} : HeldBy(x)' = HeldBy(x)
    BY <1>5, <2>1, ObjectsDiffer DEF HeldBy
  <2> QED
    BY <1>5, <2>2, <2>3, ObjectsDiffer, OwnerDestroyed
<1>6. CASE AcceptFull \/ AcceptUnusable
  <2>1. main.pc = "accepted" /\ Refused
    BY <1>6 DEF AcceptFull, AcceptUnusable
  <2>2. HeldBy(ClientObject) = main.fd
    BY <2>1, ObjectsDiffer DEF HeldBy
  <2>3. DOMAIN file' = DOMAIN file \ {main.fd} /\ clients' = clients /\ NextAttempt
    BY <2>1 DEF Refused, close, erased
  <2> QED
    BY <1>5, <2>1, <2>2, <2>3 DEF Attempting
<1>7. CASE AcceptClient \/ AttemptEnds
  <2>1. /\ main.pc \in {"emplaced", "attempted"} /\ NextAttempt
        /\ UNCHANGED <<clients, file>>
    BY <1>7 DEF AcceptClient, AttemptEnds
  <2>2. HeldBy(ClientObject) = -1
    BY <2>1, ObjectsDiffer DEF HeldBy
  <2>3. DOMAIN file' = DOMAIN file \ {-1}
    <3>1. -1 \notin DOMAIN file
      BY EventLoopAssumption DEF Inv, Owned
    <3> QED
      BY <2>1, <3>1
  <2> QED
    BY <1>5, <2>1, <2>2, <2>3 DEF Attempting
<1>8. CASE AcceptEmplaces
  <2>1. PICK n : n = main.fd
    OBVIOUS
  <2>2. /\ main.pc = "accepted" /\ n \notin DOMAIN clients /\ n \in Fd
    BY <1>8, <2>1 DEF AcceptEmplaces, Inv, Owned
  <2>3. DOMAIN clients' = DOMAIN clients \cup {n} /\ file' = file /\ Goto("emplaced")
    BY <1>8, <2>1, <2>2 DEF AcceptEmplaces, set
  <2>4. /\ main'.pc = "emplaced" /\ main'.listener = main.listener
        /\ main'.poller = main.poller
    BY <2>3 DEF Goto, Inv, Fields
  <2>5. n \in Objects /\ n \notin {ListenerObject, PollerObject, ClientObject}
    BY <2>2, ObjectsDiffer DEF Objects
  <2>6. n \notin Owners /\ ClientObject \in Owners /\ Owners' = Owners \cup {n}
    BY <2>2, <2>3, <2>4, <2>5 DEF Owners
  <2>7. /\ HeldBy(n)' = n /\ HeldBy(ClientObject) = n /\ HeldBy(ClientObject)' = -1
        /\ \A x \in Objects \ {n, ClientObject} : HeldBy(x)' = HeldBy(x)
    BY <2>1, <2>2, <2>3, <2>4, <2>5, ObjectsDiffer DEF HeldBy
  <2> QED
    BY <2>3, <2>5, <2>6, <2>7, ObjectsDiffer, OwnerMoved
<1>9. CASE AcceptUnwatched
  <2>1. main.pc = "emplaced" /\ main.fd \in DOMAIN clients
    BY <1>9 DEF AcceptUnwatched, Inv, Iterators
  <2>2. /\ DOMAIN clients' = DOMAIN clients \ {main.fd}
        /\ DOMAIN file' = DOMAIN file \ {main.fd}
    BY <1>9 DEF AcceptUnwatched, close, erased
  <2>3. /\ main'.pc = "attempted" /\ main'.listener = main.listener
        /\ main'.poller = main.poller
    BY <1>9 DEF AcceptUnwatched, Goto, Inv, Fields
  <2>4. EntryGone /\ SameClient
    BY <2>1, <2>2, <2>3 DEF EntryGone, SameClient, Attempting
  <2> QED
    BY <2>4, EntryGoneDestroys
<1> QED
  BY <1>1, <1>2, <1>3, <1>4, <1>6, <1>7, <1>8, <1>9 DEF Accept

(* The loop itself destroys owners only by retiring clients.               *)
LEMMA LoopOwners ==
    ASSUME Inv, Scan \/ Wait \/ Dispatch \/ Visit PROVE EntryGone \/ SameOwners
<1>1. CASE Scan
  <2>1. ASSUME NEW fd \in Fd, ScanExpired(fd) PROVE EntryGone
    <3>1. fd \in DOMAIN clients /\ retire_client(fd, "lost", sock[file[fd]].tx)
      BY <2>1 DEF ScanExpired, Scanning, Inv, Iterators
    <3>2. main'.listener = main.listener /\ main'.poller = main.poller
      BY <2>1 DEF ScanExpired, Inv, Fields
    <3> QED
      BY <3>1, <3>2, RetireOwner
  <2>2. ASSUME NEW fd \in Fd, ScanRunnable(fd) \/ ScanQuiet(fd) PROVE SameOwners
    <3>1. DOMAIN clients' = DOMAIN clients /\ file' = file
      BY <2>2 DEF ScanRunnable, ScanQuiet
    <3>2. main'.listener = main.listener /\ main'.poller = main.poller
      BY <2>2 DEF ScanRunnable, ScanQuiet, Inv, Fields
    <3> QED
      BY <3>1, <3>2 DEF SameOwners
  <2>3. ASSUME ScanEnd PROVE SameOwners
    BY <2>3 DEF ScanEnd, Goto, Inv, Fields, SameOwners
  <2> QED
    BY <1>1, <2>1, <2>2, <2>3 DEF Scan
<1>2. CASE Wait
  <2>1. DOMAIN clients' = DOMAIN clients /\ file' = file
    BY <1>2 DEF Wait, WaitEvent, WaitNothing, WaitFails, LetPass
  <2>2. main'.listener = main.listener /\ main'.poller = main.poller
    <3>1. CASE NextTurn
      BY <3>1, TurnKeeps
    <3>2. CASE ~NextTurn
      BY <1>2, <3>2 DEF Wait, WaitEvent, WaitNothing, WaitFails, Exit, Inv, Fields
    <3> QED
      BY <3>1, <3>2
  <2> QED
    BY <2>1, <2>2 DEF SameOwners
<1>3. CASE Dispatch
  <2>1. CASE DispatchBroken
    <3>1. PICK fd \in DOMAIN clients : retire_client(fd, "lost", sock[file[fd]].tx)
      BY <2>1 DEF DispatchBroken
    <3>2. main'.listener = main.listener /\ main'.poller = main.poller
      BY <2>1, TurnKeeps DEF DispatchBroken
    <3> QED
      BY <3>1, <3>2, RetireOwner
  <2>2. CASE DispatchClient \/ DispatchListener
    <3>1. UNCHANGED <<clients, file>>
      BY <2>2 DEF DispatchClient, DispatchListener
    <3>2. main'.listener = main.listener /\ main'.poller = main.poller
      BY <2>2 DEF DispatchClient, DispatchListener, Goto, Exit, Inv, Fields
    <3> QED
      BY <3>1, <3>2 DEF SameOwners
  <2> QED
    BY <1>3, <2>1, <2>2 DEF Dispatch
<1>4. CASE Visit
  <2>0. main.fd \in DOMAIN clients
    BY <1>4 DEF Visit, VisitRecv, VisitRecvError, VisitExec, VisitFails, VisitEnds, Inv,
                Iterators
  <2>1. ASSUME NEW state, NEW tx, retire_client(main.fd, state, tx), VisitOver(FALSE)
        PROVE  EntryGone
    BY <2>0, <2>1, TurnKeeps, RetireOwner
  <2>2. CASE VisitRecv
    <3>1. DOMAIN clients' = DOMAIN clients /\ file' = file /\ Goto("exec")
      BY <2>2 DEF VisitRecv
    <3>2. main'.listener = main.listener /\ main'.poller = main.poller
      BY <3>1 DEF Goto, Inv, Fields
    <3> QED
      BY <3>1, <3>2 DEF SameOwners
  <2>3. CASE VisitExec
    <3>1. DOMAIN clients' = DOMAIN clients /\ file' = file /\ Attempted
      BY <2>3 DEF VisitExec
    <3> QED
      BY <3>1, AttemptedFields DEF SameOwners
  <2>4. CASE VisitRecvError \/ VisitFails
    BY <2>1, <2>4 DEF VisitRecvError, VisitFails
  <2>5. CASE VisitEnds
    <3>1. PICK after \in Flushed :
            \/ retire_client(main.fd, "closed", after.tx) /\ VisitOver(FALSE)
            \/ retire_client(main.fd, "lost", after.tx) /\ VisitOver(FALSE)
            \/ /\ clients' = [clients EXCEPT ![main.fd] = [@ EXCEPT !.conn = after.conn,
                                                                    !.idle = after.idle]]
               /\ VisitOver(has_runnable_input(after.conn))
               /\ file' = file
      BY <2>5 DEF VisitEnds
    <3>2. ASSUME clients' = [clients EXCEPT ![main.fd] = [@ EXCEPT !.conn = after.conn,
                                                                   !.idle = after.idle]],
                 VisitOver(has_runnable_input(after.conn)), file' = file
          PROVE  SameOwners
      <4>1. DOMAIN clients' = DOMAIN clients
        BY <3>2
      <4> QED
        BY <3>2, <4>1, TurnKeeps DEF SameOwners
    <3> QED
      BY <2>1, <3>1, <3>2
  <2> QED
    BY <1>4, <2>2, <2>3, <2>4, <2>5 DEF Visit
<1> QED
  BY <1>1, <1>2, <1>3, <1>4

(* client exists in the accept loop only.                                  *)
LEMMA OutsideAccept ==
    ASSUME Inv, Start \/ Unwind \/ Scan \/ Wait \/ Dispatch \/ Visit PROVE SameClient
<1>0. SUFFICES main.pc \notin {"accepted", "emplaced", "attempted"}
               /\ main'.pc \notin {"accepted", "emplaced", "attempted"}
  BY DEF SameClient, Attempting
<1>1. ASSUME NEW still, NextTurn \/ VisitOver(still) PROVE main'.pc = "scan"
  BY <1>1 DEF NextTurn, VisitOver, Inv, Fields
<1>2. CASE Start
  BY <1>2 DEF Start, create_socket, ConfigureListener, CreatePoller, RegisterListener,
              StartupFails, Goto, Exit, Inv, Fields
<1>3. CASE Unwind
  BY <1>3 DEF Unwind, Inv, Fields
<1>4. CASE Scan
  BY <1>4 DEF Scan, ScanEnd, ScanExpired, ScanRunnable, ScanQuiet, Scanning, Goto, Inv,
              Fields
<1>5. CASE Wait
  BY <1>1, <1>5 DEF Wait, WaitEvent, WaitNothing, WaitFails, Exit, Inv, Fields
<1>6. CASE Dispatch
  BY <1>1, <1>6 DEF Dispatch, DispatchBroken, DispatchClient, DispatchListener, Goto, Exit,
                    Inv, Fields
<1>7. CASE Visit
  BY <1>1, <1>7 DEF Visit, VisitRecv, VisitRecvError, VisitExec, VisitFails, VisitEnds,
                    Goto, Attempted, Inv, Fields
<1> QED
  BY <1>2, <1>3, <1>4, <1>5, <1>6, <1>7

(* The event loop keeps the ownership discipline of UniqueFd: every step is
   the construction, a move or the destruction of one owner, or none.  From
   startup through refusals, retirements and failures to the end of main,
   every open descriptor has exactly one owner (server.cpp:168, 202,
   314-340).                                                               *)
THEOREM OwnershipRefined == Spec => ImplementsOwnership
<1>1. Inv /\ [Next]_vars => [Ownership!Next]_(Ownership!fdVars)
  <2> SUFFICES ASSUME Inv, [Next]_vars PROVE Ownership!Next \/ UNCHANGED Ownership!fdVars
    OBVIOUS
  <2>1. CASE Server
    BY <2>1, OutsideAccept, StartOwners, UnwindOwners, AcceptOwners, LoopOwners,
       EntryGoneDestroys, SameOwnersStutters DEF Server
  <2>2. CASE (\E p \in Peers : PeerConnect(p) \/ PeerStep(p)) \/ UNCHANGED vars
    <3>1. UNCHANGED <<main, clients, file>>
      BY <2>2 DEF PeerConnect, PeerStep, vars
    <3>2. SameOwners /\ SameClient
      BY <3>1 DEF SameOwners, SameClient, Attempting
    <3> QED
      BY <3>2, SameOwnersStutters
  <2> QED
    BY <2>1, <2>2 DEF Next
<1> QED
  BY InitOwners, Invariance, <1>1, PTL DEF Spec, ImplementsOwnership, Ownership!Spec

-----------------------------------------------------------------------------
(* What the buffers, the queues and the store hold                          *)

(* What a visit's recv calls work on.                                       *)
RecvStates == {b \in [conn : ConnectionType, rx : Seq(Byte)] : Sound(b.conn)}

(* A call moves bytes that the input has room for.                          *)
LEMMA RecvCall ==
    ASSUME NEW b \in RecvStates PROVE recv_call(b) \in RecvStates
<1>1. b \in [conn : ConnectionType, rx : Seq(Byte)] /\ Sound(b.conn)
  BY DEF RecvStates
<1>2. CASE ~can_read(b.conn)
  BY <1>2 DEF recv_call
<1>3. CASE can_read(b.conn)
  <2>1. PICK c, q : c = b.conn /\ q = b.rx
    OBVIOUS
  <2>2. Sound(c) /\ q \in Seq(Byte) /\ Len(q) \in Nat
    BY <1>1, <2>1, LenProperties
  <2>3. PICK n : n = Lesser(Lesser(kMaxInputBytes - pending_input_bytes(c), kReadBufferSize), Len(q))
    OBVIOUS
  <2>4. n \in Nat /\ n <= Len(q)
    <3>1. kMaxInputBytes \in Nat /\ kReadBufferSize \in Nat
          /\ pending_input_bytes(c) \in 0..kMaxInputBytes
      BY <2>2, PendingFacts, AllowanceAssumption, EventLoopAssumption
    <3> QED
      BY <2>2, <2>3, <3>1 DEF Lesser
  <2>5. PICK t, r : t = SubSeq(q, 1, n) /\ r = SubSeq(q, n + 1, Len(q))
    OBVIOUS
  <2>6. t \in Seq(Byte) /\ r \in Seq(Byte)
    BY <2>2, <2>4, <2>5, PrefixFacts, SuffixFacts
  <2>7. PICK a : a = append_input(c, t)
    OBVIOUS
  <2>8. Sound(a)
    BY <2>2, <2>6, <2>7, AppendFacts
  <2>9. recv_call(b) = [conn |-> a, rx |-> r]
    BY <1>3, <2>1, <2>3, <2>5, <2>7 DEF recv_call
  <2> QED
    BY <2>6, <2>8, <2>9 DEF RecvStates, Sound
<1> QED
  BY <1>2, <1>3

RecvStep == [b \in RecvStates |-> recv_call(b)]

RecvStart == [conn |-> conn, rx |-> sock[peer].rx]

IsReceived(f) ==
    f = [n \in 0..kReadCallBudget |-> IF n = 0 THEN RecvStart ELSE recv_call(f[n - 1])]

Calls(g) == [n \in 0..kReadCallBudget |-> g[n]]

(* The recursive definition of a visit's recv calls has a solution.         *)
LEMMA ReceivedExists ==
    ASSUME RecvStart \in RecvStates
    PROVE  \E f : IsReceived(f)
<1>1. kReadCallBudget \in Nat
  BY EventLoopAssumption
<1>2. PICK g : Chain(g, RecvStep, RecvStart, kReadCallBudget)
  BY <1>1, Chains
<1>3. /\ g[0] = RecvStart
      /\ \A m \in 1..kReadCallBudget : g[m] = RecvStep[g[m - 1]]
  BY <1>2 DEF Chain
<1>4. \A b \in RecvStates : RecvStep[b] = recv_call(b) /\ RecvStep[b] \in RecvStates
  BY RecvCall DEF RecvStep
<1>5. \A n \in 0..kReadCallBudget : g[n] \in RecvStates
  <2> DEFINE T == {n \in 0..kReadCallBudget : g[n] \notin RecvStates}
  <2>1. SUFFICES ASSUME T # {} PROVE FALSE
    OBVIOUS
  <2>2. T \in SUBSET Nat
    BY <1>1
  <2>3. PICK n \in T : \A m \in T : n <= m
    <3> HIDE DEF T
    <3> QED
      BY <2>1, <2>2, Least
  <2>4. n \in 0..kReadCallBudget /\ g[n] \notin RecvStates
    OBVIOUS
  <2>5. n \in 1..kReadCallBudget
    BY <1>1, <1>3, <2>4
  <2>6. g[n - 1] \in RecvStates
    <3>1. n - 1 \in 0..kReadCallBudget /\ ~(n <= n - 1)
      BY <1>1, <2>5
    <3>2. n - 1 \notin T
      <4> HIDE DEF T
      <4> QED
        BY <2>3, <3>1
    <3> QED
      BY <3>1, <3>2
  <2> QED
    BY <1>3, <1>4, <2>4, <2>5, <2>6
<1>6. PICK f : f = Calls(g)
  OBVIOUS
<1>7. /\ f = [n \in 0..kReadCallBudget |-> g[n]]
      /\ \A n \in 0..kReadCallBudget : f[n] = g[n]
  BY <1>6 DEF Calls
<1>8. ASSUME NEW n \in 0..kReadCallBudget
      PROVE  g[n] = IF n = 0 THEN RecvStart ELSE recv_call(f[n - 1])
  <2>1. CASE n = 0
    BY <1>3, <2>1
  <2>2. CASE n # 0
    <3>1. n \in 1..kReadCallBudget /\ n - 1 \in 0..kReadCallBudget
      BY <1>1, <2>2
    <3>2. g[n] = recv_call(g[n - 1])
      BY <1>3, <1>4, <1>5, <3>1
    <3> QED
      BY <1>7, <2>2, <3>1, <3>2
  <2> QED
    BY <2>1, <2>2
<1>9. IsReceived(f)
  BY <1>7, <1>8 DEF IsReceived
<1> QED
  BY <1>9

(* So Received is what it says, call by call, and every call leaves a sound
   connection and a queue of bytes.                                         *)
LEMMA ReceivedFacts ==
    ASSUME RecvStart \in RecvStates
    PROVE  /\ Received[0] = RecvStart
           /\ \A n \in 1..kReadCallBudget : Received[n] = recv_call(Received[n - 1])
           /\ \A n \in 0..kReadCallBudget : Received[n] \in RecvStates
<1>1. kReadCallBudget \in Nat
  BY EventLoopAssumption
<1>2. IsReceived(Received)
  BY ReceivedExists DEF IsReceived, Received, RecvStart
<1>3. PICK r : r = Received
  OBVIOUS
<1>4. r = [n \in 0..kReadCallBudget |-> IF n = 0 THEN RecvStart ELSE recv_call(r[n - 1])]
  BY <1>2, <1>3 DEF IsReceived
<1>5. \A n \in 0..kReadCallBudget : r[n] = IF n = 0 THEN RecvStart ELSE recv_call(r[n - 1])
  BY <1>4
<1>6. r[0] = RecvStart /\ \A n \in 1..kReadCallBudget : r[n] = recv_call(r[n - 1])
  BY <1>1, <1>5
<1>7. \A n \in 0..kReadCallBudget : r[n] \in RecvStates
  <2> DEFINE T == {n \in 0..kReadCallBudget : r[n] \notin RecvStates}
  <2>1. SUFFICES ASSUME T # {} PROVE FALSE
    OBVIOUS
  <2>2. T \in SUBSET Nat
    BY <1>1
  <2>3. PICK n \in T : \A m \in T : n <= m
    <3> HIDE DEF T
    <3> QED
      BY <2>1, <2>2, Least
  <2>4. n \in 0..kReadCallBudget /\ r[n] \notin RecvStates
    OBVIOUS
  <2>5. n \in 1..kReadCallBudget
    BY <1>1, <1>6, <2>4
  <2>6. r[n - 1] \in RecvStates
    <3>1. n - 1 \in 0..kReadCallBudget /\ ~(n <= n - 1)
      BY <1>1, <2>5
    <3>2. n - 1 \notin T
      <4> HIDE DEF T
      <4> QED
        BY <2>3, <3>1
    <3> QED
      BY <3>1, <3>2
  <2> QED
    BY <1>6, <2>4, <2>5, <2>6, RecvCall
<1> QED
  BY <1>3, <1>6, <1>7

-----------------------------------------------------------------------------
(* An entry of the client map: a connection whose buffers are sound, and
   whose flag is settled.                                                   *)
Entry(e) ==
    /\ e \in [conn : ConnectionType, idle : 0..kIdleTimeout]
    /\ Sound(e.conn) /\ Settled(e.conn)

(* The kernel's side of a connection.                                       *)
Socket(s) ==
    /\ s \in [state : {"new", "queued", "open", "closed", "lost"}, nonblocking : BOOLEAN,
              rx : Seq(Byte), fin : BOOLEAN, rst : BOOLEAN, tx : Seq(Byte)]
    /\ Len(s.tx) <= SendQueue

Entries == \A fd \in DOMAIN clients : Entry(clients[fd])

Sockets == DOMAIN sock = Peers /\ \A p \in Peers : Socket(sock[p])

(* The clients' descriptors refer to peers, in every state.                 *)
Tables ==
    /\ DOMAIN epoll \subseteq Fd /\ queue \in Seq(Peers)
    /\ \A fd \in DOMAIN clients : file[fd] \in Peers
    /\ \A fd \in DOMAIN file : file[fd] \in Peers \cup {"listener", "epoll"}

Data == Entries /\ Sockets /\ Tables /\ BoundedStore(store)

Labels == {"socket", "configure", "create", "register", "scan", "wait",
           "dispatch", "accept", "accepted", "emplaced", "attempted", "recv",
           "exec", "exit", "stopped"}

Events == [fd : Fd \cup {-1}, readable : BOOLEAN, broken : BOOLEAN]

Locals ==
    main \in [pc : Labels, exit : Exits, listener : Fd \cup {-1}, poller : Fd \cup {-1},
              todo : SUBSET Fd, runnable : BOOLEAN, event : Events,
              fd : Fd \cup {-1}, attempt : 0..(kCommandBudget + kAcceptBudget)]

(* What the label says of the connection in main.fd: frames are executed on
   reclaimed output, and accept has returned the socket of a peer.          *)
Place ==
    /\ main.pc = "exec" => clients[main.fd].conn.output_cursor = 0
    /\ main.pc = "accepted" => file[main.fd] \in Peers

Types == Locals /\ Place /\ Data

(* What the kernel may do to one socket.                                    *)
LEMMA OneSocket ==
    ASSUME Sockets, NEW p \in Peers, NEW s, Socket(s), sock' = [sock EXCEPT ![p] = s]
    PROVE  Sockets'
<1>1. DOMAIN sock' = Peers /\ \A q \in Peers : sock'[q] = IF q = p THEN s ELSE sock[q]
  BY DEF Sockets
<1> QED
  BY <1>1 DEF Sockets, Socket

(* A closed socket keeps part of what it has been given.                    *)
LEMMA ShutSocket ==
    ASSUME Sockets, NEW p \in Peers, NEW state \in {"closed", "lost"},
           NEW tx \in Seq(Byte), Len(tx) <= SendQueue, Shut(p, state, tx)
    PROVE  Sockets'
<1>1. Len(tx) \in Nat /\ SendQueue \in Nat
  BY LenProperties, EventLoopAssumption
<1>2. PICK kept \in IF sock[p].rx = <<>> THEN {Len(tx)} ELSE 0..Len(tx) :
        sock' = [sock EXCEPT ![p] = [@ EXCEPT !.state = state, !.rx = <<>>,
                                              !.tx = SubSeq(tx, 1, kept)]]
  BY Zenon DEF Shut
<1>3. kept \in 0..Len(tx)
  BY <1>1
<1>4. PICK t : t = SubSeq(tx, 1, kept)
  OBVIOUS
<1>5. t \in Seq(Byte) /\ Len(t) = kept
  BY <1>1, <1>4, <1>3, PrefixFacts
<1>6. PICK s : s = [sock[p] EXCEPT !.state = state, !.rx = <<>>, !.tx = t]
  OBVIOUS
<1>7. <<>> \in Seq(Byte)
  BY EmptySeq
<1>8. s \in [state : {"new", "queued", "open", "closed", "lost"}, nonblocking : BOOLEAN,
             rx : Seq(Byte), fin : BOOLEAN, rst : BOOLEAN, tx : Seq(Byte)]
      /\ s.tx = t
  BY <1>5, <1>6, <1>7 DEF Sockets, Socket
<1>9. Socket(s)
  BY <1>1, <1>5, <1>8, <1>3 DEF Socket
<1>10. sock' = [sock EXCEPT ![p] = s]
  BY <1>2, <1>4, <1>6
<1> QED
  BY <1>9, <1>10, OneSocket

(* What a step may do to one entry.                                         *)
LEMMA OneEntry ==
    ASSUME Entries, NEW fd \in DOMAIN clients, NEW e, Entry(e),
           clients' = [clients EXCEPT ![fd] = e]
    PROVE  Entries' /\ DOMAIN clients' = DOMAIN clients /\ clients'[fd] = e
<1>1. DOMAIN clients' = DOMAIN clients
      /\ \A g \in DOMAIN clients : clients'[g] = IF g = fd THEN e ELSE clients[g]
  OBVIOUS
<1> QED
  BY <1>1 DEF Entries, Entry

(* Nothing but main's locals changes.                                       *)
LEMMA DataKept ==
    ASSUME Data, UNCHANGED <<clients, store, file, epoll, queue, sock>>
    PROVE  Data'
<1>1. Entries'
  BY DEF Data, Entries, Entry
<1>2. Sockets'
  BY DEF Data, Sockets, Socket
<1>3. Tables' /\ BoundedStore(store)'
  BY DEF Data, Tables, BoundedStore
<1> QED
  BY <1>1, <1>2, <1>3 DEF Data

(* Retiring a client leaves sound data.                                     *)
LEMMA RetireData ==
    ASSUME Inv, Data, NEW fd \in DOMAIN clients, NEW state \in {"closed", "lost"},
           NEW tx \in Seq(Byte), Len(tx) <= SendQueue, retire_client(fd, state, tx)
    PROVE  Data'
<1>1. /\ clients' = erased(clients, fd) /\ file' = erased(file, fd) /\ epoll' = erased(epoll, fd)
      /\ UNCHANGED <<store, queue>> /\ Shut(file[fd], state, tx)
  BY DEF retire_client, close
<1>2. file[fd] \in Peers
  BY DEF Data, Tables
<1>3. Sockets'
  BY <1>1, <1>2, ShutSocket DEF Data
<1>4. /\ DOMAIN clients' = DOMAIN clients \ {fd} /\ DOMAIN file' = DOMAIN file \ {fd}
      /\ DOMAIN epoll' = DOMAIN epoll \ {fd}
      /\ \A g \in DOMAIN clients \ {fd} : clients'[g] = clients[g]
      /\ \A g \in DOMAIN file \ {fd} : file'[g] = file[g]
  BY <1>1, ErasedDomain
<1>5. Entries'
  BY <1>4 DEF Data, Entries, Entry
<1>6. DOMAIN clients \subseteq DOMAIN file
  BY DEF Inv, Owned
<1>7. Tables'
  BY <1>1, <1>4, <1>6 DEF Data, Tables
<1>8. BoundedStore(store)'
  BY <1>1 DEF Data, BoundedStore
<1> QED
  BY <1>3, <1>5, <1>7, <1>8 DEF Data

(* What a socket has been given.                                            *)
LEMMA GivenBytes ==
    ASSUME Data, NEW fd \in DOMAIN clients
    PROVE  /\ file[fd] \in Peers /\ Socket(sock[file[fd]])
           /\ sock[file[fd]].tx \in Seq(Byte) /\ Len(sock[file[fd]].tx) <= SendQueue
           /\ sock[file[fd]].rx \in Seq(Byte)
<1>1. file[fd] \in Peers
  BY DEF Data, Tables
<1>2. Socket(sock[file[fd]])
  BY <1>1 DEF Data, Sockets
<1> QED
  BY <1>1, <1>2 DEF Socket

-----------------------------------------------------------------------------
(* The assignments to main's locals keep their types.                       *)
LEMMA GotoLocals == ASSUME Locals, NEW l \in Labels, Goto(l) PROVE Locals' /\ main'.pc = l
  BY DEF Locals, Goto

(* exit is one of these.                                                    *)
LEMMA ExitLocals == ASSUME Locals, NEW why \in Exits, Exit(why)
                    PROVE  Locals' /\ main'.pc = "exit"
<1>1. "exit" \in Labels
  BY DEF Labels
<1> QED
  BY <1>1 DEF Locals, Exit

(* A new turn.                                                              *)
LEMMA NextTurnLocals == ASSUME Locals, Inv', NextTurn PROVE Locals' /\ main'.pc = "scan"
<1>1. "scan" \in Labels
  BY DEF Labels
<1>2. NoEvent \in Events
  BY DEF NoEvent, Events
<1>3. DOMAIN clients' \subseteq Fd
  BY DEF Inv, Owned
<1>4. 0 \in 0..(kCommandBudget + kAcceptBudget)
  BY WatermarkAssumption, EventLoopAssumption
<1> QED
  BY <1>1, <1>2, <1>3, <1>4 DEF Locals, NextTurn

(* The end of a visit.                                                      *)
LEMMA VisitOverLocals ==
    ASSUME Locals, Inv', NEW still, VisitOver(still) PROVE Locals' /\ main'.pc = "scan"
<1>1. CASE main.event = NoEvent
  <2>1. "scan" \in Labels
    BY DEF Labels
  <2>2. 0 \in 0..(kCommandBudget + kAcceptBudget)
    BY WatermarkAssumption, EventLoopAssumption
  <2>3. PICK b \in BOOLEAN : b = (main.runnable \/ still)
    OBVIOUS
  <2>4. main' = [main EXCEPT !.pc = "scan", !.runnable = b, !.fd = -1, !.attempt = 0]
    BY <1>1, <2>3 DEF VisitOver
  <2> QED
    BY <2>1, <2>2, <2>4 DEF Locals
<1>2. CASE main.event # NoEvent
  BY <1>2, NextTurnLocals DEF VisitOver
<1> QED
  BY <1>1, <1>2

(* An attempt is counted below its budget only.                             *)
LEMMA AttemptedLocal ==
    ASSUME Locals, Attempted, main.attempt < kCommandBudget \/ main.attempt < kAcceptBudget
    PROVE  Locals' /\ main'.pc = main.pc /\ main'.fd = main.fd
<1>1. kCommandBudget \in Nat /\ kAcceptBudget \in Nat
  BY WatermarkAssumption, EventLoopAssumption
<1>2. PICK a : a = main.attempt + 1
  OBVIOUS
<1>3. main.attempt \in 0..(kCommandBudget + kAcceptBudget)
  BY DEF Locals
<1>4. a \in 0..(kCommandBudget + kAcceptBudget)
  BY <1>1, <1>2, <1>3
<1>5. main' = [main EXCEPT !.attempt = a]
  BY <1>2 DEF Attempted
<1> QED
  BY <1>4, <1>5 DEF Locals

-----------------------------------------------------------------------------
(* Nothing is open, queued or buffered at the start.                        *)
LEMMA InitTypes == Init => Types
<1> SUFFICES ASSUME Init PROVE Types
  OBVIOUS
<1>1. Locals /\ main.pc = "socket"
  <2>1. "socket" \in Labels /\ NoEvent \in Events
    BY DEF Labels, Events, NoEvent
  <2>2. 0 \in 0..(kCommandBudget + kAcceptBudget)
    BY WatermarkAssumption, EventLoopAssumption
  <2>3. "" \in Exits
    BY Zenon DEF Exits
  <2>4. main = [pc |-> "socket", exit |-> "", listener |-> -1, poller |-> -1,
               todo |-> {}, runnable |-> FALSE, event |-> NoEvent, fd |-> -1,
               attempt |-> 0]
    BY DEF Init
  <2> QED
    BY <2>1, <2>2, <2>3, <2>4 DEF Locals
<1>2. DOMAIN clients = {} /\ DOMAIN store = {} /\ DOMAIN file = {} /\ DOMAIN epoll = {}
  BY DEF Init, EmptyStore
<1>3. <<>> \in Seq(Byte) /\ <<>> \in Seq(Peers) /\ Len(<<>>) = 0
  BY EmptySeq
<1>4. Socket(NewSocket)
  BY <1>3, EventLoopAssumption DEF Socket, NewSocket
<1>5. Sockets
  <2>1. DOMAIN sock = Peers /\ \A p \in Peers : sock[p] = NewSocket
    BY DEF Init
  <2> QED
    BY <1>4, <2>1 DEF Sockets, Socket
<1>6. Tables
  BY <1>2, <1>3 DEF Tables, Init
<1>7. BoundedStore(store)
  BY <1>2, FS_EmptySet DEF BoundedStore
<1>8. Entries
  BY <1>2 DEF Entries
<1> QED
  BY <1>1, <1>5, <1>6, <1>7, <1>8 DEF Types, Place, Data

(* Startup.                                                                 *)
LEMMA StartTypes == ASSUME Inv, Types, Start PROVE Types'
<1>0. Locals /\ Data
  BY DEF Types
<1>1. ASSUME Free # {}, NEW what, what \in {"listener", "epoll"}, file' = set(file, Lowest, what),
             UNCHANGED <<clients, store, epoll, queue, sock>>
      PROVE  Data'
  <2>0. PICK n : n = Lowest
    OBVIOUS
  <2>1. DOMAIN clients \subseteq DOMAIN file /\ n \notin DOMAIN file
    BY <1>1, <2>0, FreshNumber DEF Inv, Owned
  <2>2. /\ DOMAIN file' = DOMAIN file \cup {n} /\ file'[n] = what
        /\ \A j \in DOMAIN file \ {n} : file'[j] = file[j]
    <3>1. file' = set(file, n, what)
      BY <1>1, <2>0
    <3> QED
      BY <3>1 DEF set
  <2>3. Tables'
    BY <1>0, <1>1, <2>1, <2>2 DEF Data, Tables
  <2>4. Entries' /\ BoundedStore(store)'
    BY <1>0, <1>1 DEF Data, Entries, Entry, BoundedStore
  <2>5. Sockets'
    BY <1>0, <1>1 DEF Data, Sockets, Socket
  <2> QED
    BY <2>3, <2>4, <2>5 DEF Data
<1>2. CASE create_socket
  <2>1. Lowest \in Fd /\ "configure" \in Labels
    BY <1>2, FreshNumber DEF create_socket, Labels
  <2>2. main' = [main EXCEPT !.pc = "configure", !.listener = Lowest]
    BY <1>2 DEF create_socket
  <2>3. Locals' /\ main'.pc = "configure"
    BY <1>0, <2>1, <2>2 DEF Locals
  <2>4. Data'
    BY <1>1, <1>2 DEF create_socket
  <2> QED
    BY <2>3, <2>4 DEF Types, Place
<1>3. CASE ConfigureListener
  <2>1. Locals' /\ main'.pc = "create"
    BY <1>0, <1>3, GotoLocals DEF ConfigureListener, Labels
  <2>2. Data'
    BY <1>0, <1>3, DataKept DEF ConfigureListener
  <2> QED
    BY <2>1, <2>2 DEF Types, Place
<1>4. CASE CreatePoller
  <2>1. Lowest \in Fd /\ "register" \in Labels
    BY <1>4, FreshNumber DEF CreatePoller, Labels
  <2>2. main' = [main EXCEPT !.pc = "register", !.poller = Lowest]
    BY <1>4 DEF CreatePoller
  <2>3. Locals' /\ main'.pc = "register"
    BY <1>0, <2>1, <2>2 DEF Locals
  <2>4. Data'
    BY <1>1, <1>4 DEF CreatePoller
  <2> QED
    BY <2>3, <2>4 DEF Types, Place
<1>5. CASE RegisterListener
  <2>1. Locals' /\ main'.pc = "scan"
    BY <1>0, <1>5, GotoLocals DEF RegisterListener, Labels
  <2>2. main.listener \in Fd
    BY <1>5 DEF RegisterListener, Inv, Fresh, Starting, Owned
  <2>3. UNCHANGED <<clients, store, file, queue, sock>> /\ epoll' = added(main.listener)
    BY <1>5 DEF RegisterListener
  <2>4. DOMAIN epoll' = DOMAIN epoll \cup {main.listener}
    BY <2>3, SetDomain DEF added
  <2>5. Tables'
    BY <1>0, <2>2, <2>3, <2>4 DEF Data, Tables
  <2>6. Entries' /\ BoundedStore(store)'
    BY <1>0, <2>3 DEF Data, Entries, Entry, BoundedStore
  <2>7. Sockets'
    BY <1>0, <2>3 DEF Data, Sockets, Socket
  <2> QED
    BY <2>1, <2>5, <2>6, <2>7 DEF Types, Place, Data
<1>6. CASE StartupFails
  <2>0. "startup" \in Exits
    BY Zenon DEF Exits
  <2>1. Locals' /\ main'.pc = "exit"
    BY <1>0, <1>6, <2>0, ExitLocals DEF StartupFails
  <2>2. Data'
    BY <1>0, <1>6, DataKept DEF StartupFails
  <2> QED
    BY <2>1, <2>2 DEF Types, Place
<1> QED
  BY <1>2, <1>3, <1>4, <1>5, <1>6 DEF Start

(* A connection leaves the listener's queue unanswered.                     *)
LEMMA QueueHead ==
    ASSUME Data, queue # <<>>
    PROVE  Head(queue) \in Peers /\ Tail(queue) \in Seq(Peers)
<1>1. queue \in Seq(Peers)
  BY DEF Data, Tables
<1> QED
  BY <1>1, HeadTailProperties

(* The end of main.                                                         *)
LEMMA UnwindTypes == ASSUME Inv, Types, Unwind PROVE Types'
<1>0. Locals /\ Data /\ main.pc = "exit" /\ UNCHANGED store
  BY DEF Types, Unwind
<1>1. ASSUME NEW fd \in DOMAIN clients, clients' = erased(clients, fd),
             close(fd, "lost", sock[file[fd]].tx), UNCHANGED <<main, queue>>
      PROVE  Types'
  <2>1. sock[file[fd]].tx \in Seq(Byte) /\ Len(sock[file[fd]].tx) <= SendQueue
    BY <1>0, GivenBytes
  <2>2. retire_client(fd, "lost", sock[file[fd]].tx)
    BY <1>0, <1>1 DEF retire_client
  <2>3. Data'
    BY <1>0, <2>1, <2>2, RetireData
  <2> QED
    BY <1>0, <1>1, <2>3 DEF Types, Place, Locals
<1>2. ASSUME DOMAIN clients = {}, main' = [main EXCEPT !.poller = -1],
             file' = erased(file, main.poller), epoll' = EmptyStore,
             UNCHANGED <<clients, queue, sock>>
      PROVE  Types'
  <2>1. Locals' /\ main'.pc = "exit"
    BY <1>0, <1>2 DEF Locals
  <2>2. /\ DOMAIN file' = DOMAIN file \ {main.poller} /\ DOMAIN epoll' = {}
        /\ \A j \in DOMAIN file \ {main.poller} : file'[j] = file[j]
    BY <1>2, ErasedDomain DEF EmptyStore
  <2>3. Tables'
    BY <1>0, <1>2, <2>2 DEF Data, Tables
  <2>4. Entries' /\ BoundedStore(store)'
    BY <1>0, <1>2 DEF Data, Entries, Entry, BoundedStore
  <2>5. Sockets'
    BY <1>0, <1>2 DEF Data, Sockets, Socket
  <2> QED
    BY <2>1, <2>3, <2>4, <2>5 DEF Types, Place, Data
<1>3. ASSUME queue # <<>>, queue' = Tail(queue), Shut(Head(queue), "lost", <<>>),
             UNCHANGED <<main, clients, file, epoll>>
      PROVE  Types'
  <2>1. Head(queue) \in Peers /\ Tail(queue) \in Seq(Peers)
    BY <1>0, <1>3, QueueHead
  <2>2. <<>> \in Seq(Byte) /\ Len(<<>>) <= SendQueue
    BY EmptySeq, EventLoopAssumption
  <2>3. Sockets'
    BY <1>0, <1>3, <2>1, <2>2, ShutSocket DEF Data
  <2>4. Tables'
    BY <1>0, <1>3, <2>1 DEF Data, Tables
  <2>5. Entries' /\ BoundedStore(store)'
    BY <1>0, <1>3 DEF Data, Entries, Entry, BoundedStore
  <2> QED
    BY <1>0, <1>3, <2>3, <2>4, <2>5 DEF Types, Place, Locals, Data
<1>4. ASSUME main' = [main EXCEPT !.listener = -1, !.pc = "stopped"],
             file' = erased(file, main.listener), main.poller = -1,
             UNCHANGED <<clients, epoll, queue, sock>>
      PROVE  Types'
  <2>0. "stopped" \in Labels
    BY DEF Labels
  <2>1. Locals' /\ main'.pc = "stopped"
    BY <1>0, <1>4, <2>0 DEF Locals
  <2>2. /\ DOMAIN file' = DOMAIN file \ {main.listener}
        /\ \A j \in DOMAIN file \ {main.listener} : file'[j] = file[j]
    BY <1>4, ErasedDomain
  <2>3. main.listener \notin DOMAIN clients /\ DOMAIN clients \subseteq DOMAIN file
    BY DEF Inv, Owned
  <2>4. Tables'
    BY <1>0, <1>4, <2>2, <2>3 DEF Data, Tables
  <2>5. Entries' /\ BoundedStore(store)'
    BY <1>0, <1>4 DEF Data, Entries, Entry, BoundedStore
  <2>6. Sockets'
    BY <1>0, <1>4 DEF Data, Sockets, Socket
  <2> QED
    BY <2>1, <2>4, <2>5, <2>6 DEF Types, Place, Data
<1> QED
  BY <1>1, <1>2, <1>3, <1>4 DEF Unwind

(* The scan.                                                                *)
LEMMA ScanTypes == ASSUME Inv, Types, Scan PROVE Types'
<1>0. Locals /\ Data
  BY DEF Types
<1>1. ASSUME NEW fd \in Fd, ScanExpired(fd) PROVE Types'
  <2>1. fd \in DOMAIN clients /\ main.pc = "scan"
    BY <1>1 DEF ScanExpired, Scanning, Inv, Iterators
  <2>2. sock[file[fd]].tx \in Seq(Byte) /\ Len(sock[file[fd]].tx) <= SendQueue
    BY <1>0, <2>1, GivenBytes
  <2>3. Data'
    BY <1>0, <1>1, <2>1, <2>2, RetireData DEF ScanExpired
  <2>4. PICK left : left = main.todo \ {fd}
    OBVIOUS
  <2>5. main' = [main EXCEPT !.todo = left]
    BY <1>1, <2>4 DEF ScanExpired, passed
  <2>6. left \subseteq Fd
    BY <1>0, <2>4 DEF Locals
  <2>7. Locals' /\ main'.pc = "scan"
    BY <1>0, <2>1, <2>5, <2>6 DEF Locals
  <2> QED
    BY <2>3, <2>7 DEF Types, Place
<1>2. ASSUME NEW fd \in Fd, ScanRunnable(fd) PROVE Types'
  <2>1. fd \in DOMAIN clients /\ main.pc = "scan"
    BY <1>2 DEF ScanRunnable, Scanning, Inv, Iterators
  <2>2. PICK left : left = main.todo \ {fd}
    OBVIOUS
  <2>3. main' = [main EXCEPT !.pc = "exec", !.todo = left, !.fd = fd]
    BY <1>2, <2>2 DEF ScanRunnable, passed
  <2>4. left \subseteq Fd /\ "exec" \in Labels
    BY <1>0, <2>2 DEF Locals, Labels
  <2>5. Locals' /\ main'.pc = "exec" /\ main'.fd = fd
    BY <1>0, <2>3, <2>4 DEF Locals
  <2>6. PICK b : b = begin_processing(clients[fd].conn)
    OBVIOUS
  <2>7. Entry(clients[fd])
    BY <1>0, <2>1 DEF Data, Entries
  <2>8. Sound(b) /\ Settled(b) /\ b.output_cursor = 0
    BY <2>6, <2>7, BeginFacts DEF Entry
  <2>9. PICK e : e = [clients[fd] EXCEPT !.conn = b]
    OBVIOUS
  <2>10. e \in [conn : ConnectionType, idle : 0..kIdleTimeout] /\ e.conn = b
    BY <2>7, <2>8, <2>9 DEF Entry, Sound
  <2>11. Entry(e)
    BY <2>8, <2>10 DEF Entry
  <2>12. clients' = [clients EXCEPT ![fd] = e]
    BY <1>2, <2>6, <2>9 DEF ScanRunnable
  <2>13. Entries' /\ DOMAIN clients' = DOMAIN clients /\ clients'[fd] = e
    BY <1>0, <2>1, <2>11, <2>12, OneEntry DEF Data
  <2>14. UNCHANGED <<store, file, epoll, queue, sock>>
    BY <1>2 DEF ScanRunnable
  <2>15. Tables' /\ BoundedStore(store)'
    BY <1>0, <2>13, <2>14 DEF Data, Tables, BoundedStore
  <2>16. Sockets'
    BY <1>0, <2>14 DEF Data, Sockets, Socket
  <2>17. Place'
    BY <2>5, <2>8, <2>10, <2>13 DEF Place
  <2> QED
    BY <2>5, <2>13, <2>15, <2>16, <2>17 DEF Types, Data
<1>3. ASSUME NEW fd \in Fd, ScanQuiet(fd) PROVE Types'
  <2>1. PICK left : left = main.todo \ {fd}
    OBVIOUS
  <2>2. main' = [main EXCEPT !.todo = left] /\ main.pc = "scan"
    BY <1>3, <2>1 DEF ScanQuiet, Scanning
  <2>3. left \subseteq Fd
    BY <1>0, <2>1 DEF Locals
  <2>4. Locals' /\ main'.pc = "scan"
    BY <1>0, <2>2, <2>3 DEF Locals
  <2>5. Data'
    BY <1>0, <1>3, DataKept DEF ScanQuiet
  <2> QED
    BY <2>4, <2>5 DEF Types, Place
<1>4. CASE ScanEnd
  <2>1. Locals' /\ main'.pc = "wait"
    BY <1>0, <1>4, GotoLocals DEF ScanEnd, Labels
  <2>2. Data'
    BY <1>0, <1>4, DataKept DEF ScanEnd
  <2> QED
    BY <2>1, <2>2 DEF Types, Place
<1> QED
  BY <1>1, <1>2, <1>3, <1>4 DEF Scan

(* Time that passes is counted up to the timeout.                           *)
LEMMA LetPassData ==
    ASSUME Data, LetPass, UNCHANGED <<store, file, epoll, queue, sock>>
    PROVE  Data'
<1>1. PICK ticks \in {0, 1} :
        clients' = [fd \in DOMAIN clients |->
                      [clients[fd] EXCEPT !.idle = Lesser(@ + ticks, kIdleTimeout)]]
  BY EventLoopAssumption DEF LetPass
<1>2. DOMAIN clients' = DOMAIN clients
  BY <1>1
<1>3. ASSUME NEW fd \in DOMAIN clients PROVE Entry(clients'[fd])
  <2>1. PICK t : t = Lesser(clients[fd].idle + ticks, kIdleTimeout)
    OBVIOUS
  <2>2. clients'[fd] = [clients[fd] EXCEPT !.idle = t]
    BY <1>1, <2>1
  <2>3. Entry(clients[fd])
    BY DEF Data, Entries
  <2>4. t \in 0..kIdleTimeout
    BY <2>1, <2>3, EventLoopAssumption DEF Entry, Lesser
  <2>5. /\ clients'[fd] \in [conn : ConnectionType, idle : 0..kIdleTimeout]
        /\ clients'[fd].conn = clients[fd].conn
    BY <2>2, <2>3, <2>4 DEF Entry
  <2> QED
    BY <2>3, <2>5 DEF Entry
<1>4. Entries'
  BY <1>2, <1>3 DEF Entries, Entry
<1>5. Tables' /\ BoundedStore(store)'
  BY <1>2 DEF Data, Tables, BoundedStore
<1>6. Sockets'
  BY DEF Data, Sockets, Socket
<1> QED
  BY <1>4, <1>5, <1>6 DEF Data

(* The wait.                                                                *)
LEMMA WaitTypes == ASSUME Inv, Inv', Types, Wait PROVE Types'
<1>0. Locals /\ Data
  BY DEF Types
<1>1. ASSUME NEW fd \in Fd, WaitEvent(fd) PROVE Types'
  <2>1. Data'
    BY <1>0, <1>1, LetPassData DEF WaitEvent
  <2>2. PICK e : e = [fd |-> fd, readable |-> Readable(epoll[fd]), broken |-> Broken(epoll[fd])]
    OBVIOUS
  <2>3. Readable(epoll[fd]) \in BOOLEAN /\ Broken(epoll[fd]) \in BOOLEAN
    BY DEF Readable, Broken
  <2>4. e \in Events
    BY <2>2, <2>3 DEF Events
  <2>5. main' = [main EXCEPT !.pc = "dispatch", !.event = e]
    BY <1>1, <2>2 DEF WaitEvent
  <2>6. "dispatch" \in Labels
    BY DEF Labels
  <2>7. Locals' /\ main'.pc = "dispatch"
    BY <1>0, <2>4, <2>5, <2>6 DEF Locals
  <2> QED
    BY <2>1, <2>7 DEF Types, Place
<1>2. CASE WaitNothing
  <2>1. Data'
    BY <1>0, <1>2, LetPassData DEF WaitNothing
  <2>2. Locals' /\ main'.pc = "scan"
    BY <1>0, <1>2, NextTurnLocals DEF WaitNothing
  <2> QED
    BY <2>1, <2>2 DEF Types, Place
<1>3. CASE WaitFails
  <2>1. PICK why \in Exits : Exit(why)
    BY <1>3, Zenon DEF WaitFails, Exits
  <2>2. Locals' /\ main'.pc = "exit"
    BY <1>0, <2>1, ExitLocals
  <2>3. Data'
    <3>1. UNCHANGED <<clients, store, file, epoll, queue, sock>>
      BY <1>3, Zenon DEF WaitFails
    <3> QED
      BY <1>0, <3>1, DataKept
  <2> QED
    BY <2>2, <2>3 DEF Types, Place
<1> QED
  BY <1>1, <1>2, <1>3 DEF Wait

(* The dispatch.                                                            *)
LEMMA DispatchTypes == ASSUME Inv, Inv', Types, Dispatch PROVE Types'
<1>0. Locals /\ Data
  BY DEF Types
<1>1. CASE DispatchBroken
  <2>1. PICK fd \in DOMAIN clients : retire_client(fd, "lost", sock[file[fd]].tx)
    BY <1>1 DEF DispatchBroken
  <2>2. sock[file[fd]].tx \in Seq(Byte) /\ Len(sock[file[fd]].tx) <= SendQueue
    BY <1>0, GivenBytes
  <2>3. Data'
    BY <1>0, <2>1, <2>2, RetireData
  <2>4. Locals' /\ main'.pc = "scan"
    BY <1>0, <1>1, NextTurnLocals DEF DispatchBroken
  <2> QED
    BY <2>3, <2>4 DEF Types, Place
<1>2. CASE DispatchClient
  <2>1. Data'
    <3>1. UNCHANGED <<clients, store, file, epoll, queue, sock>>
      BY <1>2, Zenon DEF DispatchClient
    <3> QED
      BY <1>0, <3>1, DataKept
  <2>2. CASE main.event.fd \in DOMAIN clients
    <3>1. main' = [main EXCEPT !.pc = "recv", !.fd = main.event.fd]
      BY <1>2, <2>2, Zenon DEF DispatchClient
    <3>2. "recv" \in Labels
      BY DEF Labels
    <3>3. main.event.fd \in Fd
      BY <2>2 DEF Inv, Owned
    <3>4. Locals' /\ main'.pc = "recv"
      BY <1>0, <3>1, <3>2, <3>3 DEF Locals
    <3> QED
      BY <2>1, <3>4 DEF Types, Place
  <2>3. CASE main.event.fd \notin DOMAIN clients
    <3>1. PICK why \in Exits : Exit(why)
      BY <1>2, <2>3, Zenon DEF DispatchClient, Exits
    <3>2. Locals' /\ main'.pc = "exit"
      BY <1>0, <3>1, ExitLocals
    <3> QED
      BY <2>1, <3>2 DEF Types, Place
  <2> QED
    BY <2>2, <2>3
<1>3. CASE DispatchListener
  <2>1. Data'
    <3>1. UNCHANGED <<clients, store, file, epoll, queue, sock>>
      BY <1>3, Zenon DEF DispatchListener
    <3> QED
      BY <1>0, <3>1, DataKept
  <2>2. CASE Goto("accept")
    <3>1. Locals' /\ main'.pc = "accept"
      BY <1>0, <2>2, GotoLocals DEF Labels
    <3> QED
      BY <2>1, <3>1 DEF Types, Place
  <2>3. CASE \E why \in Exits : Exit(why)
    <3>1. Locals' /\ main'.pc = "exit"
      BY <1>0, <2>3, ExitLocals
    <3> QED
      BY <2>1, <3>1 DEF Types, Place
  <2> QED
    BY <1>3, <2>2, <2>3, Zenon DEF DispatchListener, Exits
<1> QED
  BY <1>1, <1>2, <1>3 DEF Dispatch

(* A connection that is taken from the queue and closed.                    *)
LEMMA RefusedData ==
    ASSUME Data, queue # <<>>, queue' = Tail(queue), Shut(Head(queue), "lost", <<>>),
           UNCHANGED <<clients, store, file, epoll>>
    PROVE  Data'
<1>1. Head(queue) \in Peers /\ Tail(queue) \in Seq(Peers)
  BY QueueHead
<1>2. <<>> \in Seq(Byte) /\ Len(<<>>) <= SendQueue
  BY EmptySeq, EventLoopAssumption
<1>3. Sockets'
  BY <1>1, <1>2, ShutSocket DEF Data
<1>4. Tables'
  BY <1>1 DEF Data, Tables
<1>5. Entries' /\ BoundedStore(store)'
  BY DEF Data, Entries, Entry, BoundedStore
<1> QED
  BY <1>3, <1>4, <1>5 DEF Data

(* A connection that accept has returned is closed.                         *)
LEMMA ClosedData ==
    ASSUME Inv, Data, NEW fd, file[fd] \in Peers, close(fd, "lost", <<>>),
           DOMAIN clients' = DOMAIN clients \ {fd},
           \A g \in DOMAIN clients' : clients'[g] = clients[g], UNCHANGED <<store, queue>>
    PROVE  Data'
<1>1. file' = erased(file, fd) /\ epoll' = erased(epoll, fd) /\ Shut(file[fd], "lost", <<>>)
  BY DEF close
<1>2. <<>> \in Seq(Byte) /\ Len(<<>>) <= SendQueue
  BY EmptySeq, EventLoopAssumption
<1>3. Sockets'
  BY <1>1, <1>2, ShutSocket DEF Data
<1>4. /\ DOMAIN file' = DOMAIN file \ {fd} /\ DOMAIN epoll' = DOMAIN epoll \ {fd}
      /\ \A g \in DOMAIN file \ {fd} : file'[g] = file[g]
  BY <1>1, ErasedDomain
<1>5. Entries'
  BY DEF Data, Entries, Entry
<1>6. DOMAIN clients \subseteq DOMAIN file
  BY DEF Inv, Owned
<1>7. Tables'
  BY <1>4, <1>6 DEF Data, Tables
<1>8. BoundedStore(store)'
  BY DEF Data, BoundedStore
<1> QED
  BY <1>3, <1>5, <1>7, <1>8 DEF Data

(* The end of an attempt.                                                   *)
LEMMA NextAttemptLocal ==
    ASSUME Locals, NextAttempt PROVE Locals' /\ main'.pc = "accept"
<1>1. "accept" \in Labels
  BY DEF Labels
<1> QED
  BY <1>1 DEF Locals, NextAttempt

(* What accept returns is a peer's socket, on a number of its own.          *)
LEMMA AcceptReturnsTypes == ASSUME Inv, Types, AcceptReturns PROVE Types'
<1>0. Locals /\ Data /\ Accepting /\ Free # {} /\ queue # <<>>
  BY DEF Types, AcceptReturns
<1>1. PICK n, p : n = Lowest /\ p = Head(queue)
  OBVIOUS
<1>2. Head(queue) \in Peers /\ Tail(queue) \in Seq(Peers)
  BY <1>0, QueueHead
<1>3. n \in Fd /\ n \notin DOMAIN file /\ DOMAIN clients \subseteq DOMAIN file /\ p \in Peers
  BY <1>0, <1>1, <1>2, FreshNumber DEF Inv, Owned
<1>4. /\ queue' = Tail(queue) /\ file' = set(file, n, p)
      /\ sock' = [sock EXCEPT ![p].state = "open"] /\ UNCHANGED <<clients, store, epoll>>
      /\ main' = [main EXCEPT !.pc = "accepted", !.fd = n, !.attempt = @ + 1]
  BY <1>1 DEF AcceptReturns
<1>5. /\ DOMAIN file' = DOMAIN file \cup {n} /\ file'[n] = p
      /\ \A j \in DOMAIN file : file'[j] = file[j]
  BY <1>3, <1>4 DEF set
<1>6. Tables'
  BY <1>0, <1>2, <1>3, <1>4, <1>5 DEF Data, Tables
<1>7. Entries' /\ BoundedStore(store)'
  BY <1>0, <1>4 DEF Data, Entries, Entry, BoundedStore
<1>8. Sockets'
  <2>1. PICK s : s = [sock[p] EXCEPT !.state = "open"]
    OBVIOUS
  <2>2. s \in [state : {"new", "queued", "open", "closed", "lost"}, nonblocking : BOOLEAN,
               rx : Seq(Byte), fin : BOOLEAN, rst : BOOLEAN, tx : Seq(Byte)]
        /\ s.tx = sock[p].tx
    BY <1>0, <1>3, <2>1 DEF Data, Sockets, Socket
  <2>3. Socket(s)
    BY <1>0, <1>3, <2>2 DEF Data, Sockets, Socket
  <2>4. sock' = [sock EXCEPT ![p] = s]
    BY <1>4, <2>1
  <2> QED
    BY <1>0, <1>3, <2>3, <2>4, OneSocket DEF Data
<1>9. Locals' /\ main'.pc = "accepted" /\ main'.fd = n
  <2>1. PICK a : a = main.attempt + 1
    OBVIOUS
  <2>2. /\ main.attempt \in 0..(kCommandBudget + kAcceptBudget)
        /\ main.attempt < kAcceptBudget
        /\ kCommandBudget \in Nat /\ kAcceptBudget \in Nat
    BY <1>0, WatermarkAssumption, EventLoopAssumption DEF Locals, Accepting
  <2>3. a \in 0..(kCommandBudget + kAcceptBudget)
    BY <2>1, <2>2
  <2>4. main' = [main EXCEPT !.pc = "accepted", !.fd = n, !.attempt = a]
    BY <1>4, <2>1
  <2>5. "accepted" \in Labels
    BY DEF Labels
  <2> QED
    BY <1>0, <1>3, <2>3, <2>4, <2>5 DEF Locals
<1>10. Place'
  BY <1>3, <1>5, <1>9 DEF Place
<1> QED
  BY <1>6, <1>7, <1>8, <1>9, <1>10 DEF Types, Data

(* An accepted client starts with an empty connection.                      *)
LEMMA AcceptEmplacesTypes == ASSUME Inv, Types, AcceptEmplaces PROVE Types'
<1>0. Locals /\ Place /\ Data /\ main.pc = "accepted"
  BY DEF Types, AcceptEmplaces
<1>1. PICK n, p : n = main.fd /\ p = file[main.fd]
  OBVIOUS
<1>2. n \in Fd /\ n \in DOMAIN file /\ n \notin DOMAIN clients /\ p \in Peers
  BY <1>0, <1>1 DEF Place, Inv, Owned
<1>3. PICK e : e = [conn |-> NewConnection, idle |-> 0]
  OBVIOUS
<1>4. Entry(e)
  <2>1. Sound(NewConnection) /\ Settled(NewConnection)
    BY NewConnectionSound
  <2>2. 0 \in 0..kIdleTimeout
    BY EventLoopAssumption
  <2>3. e \in [conn : ConnectionType, idle : 0..kIdleTimeout] /\ e.conn = NewConnection
    BY <1>3, <2>1, <2>2 DEF Sound
  <2> QED
    BY <2>1, <2>3 DEF Entry
<1>5. /\ clients' = set(clients, n, e) /\ sock' = [sock EXCEPT ![p].nonblocking = TRUE]
      /\ Goto("emplaced") /\ UNCHANGED <<store, file, epoll, queue>>
  BY <1>1, <1>2, <1>3 DEF AcceptEmplaces, set_nonblocking
<1>6. /\ DOMAIN clients' = DOMAIN clients \cup {n} /\ clients'[n] = e
      /\ \A j \in DOMAIN clients : clients'[j] = clients[j]
  BY <1>2, <1>5 DEF set
<1>7. Entries'
  BY <1>0, <1>4, <1>6 DEF Data, Entries, Entry
<1>8. Tables' /\ BoundedStore(store)'
  BY <1>0, <1>1, <1>2, <1>5, <1>6 DEF Data, Tables, BoundedStore
<1>9. Sockets'
  <2>1. PICK s : s = [sock[p] EXCEPT !.nonblocking = TRUE]
    OBVIOUS
  <2>2. s \in [state : {"new", "queued", "open", "closed", "lost"}, nonblocking : BOOLEAN,
               rx : Seq(Byte), fin : BOOLEAN, rst : BOOLEAN, tx : Seq(Byte)]
        /\ s.tx = sock[p].tx
    BY <1>0, <1>2, <2>1 DEF Data, Sockets, Socket
  <2>3. Socket(s)
    BY <1>0, <1>2, <2>2 DEF Data, Sockets, Socket
  <2>4. sock' = [sock EXCEPT ![p] = s]
    BY <1>5, <2>1
  <2> QED
    BY <1>0, <1>2, <2>3, <2>4, OneSocket DEF Data
<1>10. Locals' /\ main'.pc = "emplaced"
  BY <1>0, <1>5, GotoLocals DEF Labels
<1> QED
  BY <1>7, <1>8, <1>9, <1>10 DEF Types, Place, Data

(* The accept loop.                                                         *)
LEMMA AcceptTypes == ASSUME Inv, Inv', Types, Accept PROVE Types'
<1>0. Locals /\ Data /\ Place
  BY DEF Types
<1>1. ASSUME Accepting, Attempted PROVE Locals' /\ Place'
  <2>1. main.pc = "accept" /\ main.attempt < kAcceptBudget
    BY <1>1 DEF Accepting
  <2>2. Locals' /\ main'.pc = "accept"
    BY <1>0, <1>1, <2>1, AttemptedLocal
  <2> QED
    BY <2>2 DEF Place
<1>2. CASE AcceptAborted
  <2>1. Data'
    BY <1>0, <1>2, RefusedData DEF AcceptAborted
  <2> QED
    BY <1>1, <1>2, <2>1 DEF AcceptAborted, Types
<1>3. CASE AcceptFull \/ AcceptUnusable
  <2>1. main.pc = "accepted" /\ Refused
    BY <1>3 DEF AcceptFull, AcceptUnusable
  <2>2. file[main.fd] \in Peers /\ main.fd \notin DOMAIN clients
    BY <1>0, <2>1 DEF Place, Inv, Owned
  <2>3. DOMAIN clients' = DOMAIN clients \ {main.fd} /\ clients' = clients
    BY <2>1, <2>2 DEF Refused
  <2>4. Data'
    BY <1>0, <2>1, <2>2, <2>3, ClosedData DEF Refused
  <2>5. Locals' /\ main'.pc = "accept"
    BY <1>0, <2>1, NextAttemptLocal DEF Refused
  <2> QED
    BY <2>4, <2>5 DEF Types, Place
<1>4. CASE AcceptClient
  <2>1. main.pc = "emplaced" /\ UNCHANGED <<clients, store, file, queue, sock>>
    BY <1>4 DEF AcceptClient
  <2>2. main.fd \in Fd
    BY <2>1 DEF Inv, Iterators, Owned
  <2>3. DOMAIN epoll' = DOMAIN epoll \cup {main.fd}
    BY <1>4, SetDomain DEF AcceptClient, added
  <2>4. Tables'
    BY <1>0, <2>1, <2>2, <2>3 DEF Data, Tables
  <2>5. Entries' /\ BoundedStore(store)'
    BY <1>0, <2>1 DEF Data, Entries, Entry, BoundedStore
  <2>6. Sockets'
    BY <1>0, <2>1 DEF Data, Sockets, Socket
  <2>7. Locals' /\ main'.pc = "accept"
    BY <1>0, <1>4, NextAttemptLocal DEF AcceptClient
  <2> QED
    BY <2>4, <2>5, <2>6, <2>7 DEF Types, Place, Data
<1>5. CASE AcceptUnwatched
  <2>1. main.pc = "emplaced" /\ main.fd \in DOMAIN clients
    BY <1>5 DEF AcceptUnwatched, Inv, Iterators
  <2>2. file[main.fd] \in Peers
    BY <1>0, <2>1 DEF Data, Tables
  <2>3. /\ DOMAIN clients' = DOMAIN clients \ {main.fd}
        /\ \A g \in DOMAIN clients' : clients'[g] = clients[g]
    BY <1>5 DEF AcceptUnwatched, erased
  <2>4. Data'
    BY <1>0, <1>5, <2>2, <2>3, ClosedData DEF AcceptUnwatched
  <2>5. Locals' /\ main'.pc = "attempted"
    BY <1>0, <1>5, GotoLocals DEF AcceptUnwatched, Labels
  <2> QED
    BY <2>4, <2>5 DEF Types, Place
<1>6. CASE AttemptEnds
  <2>1. Data'
    BY <1>0, <1>6, DataKept DEF AttemptEnds
  <2>2. Locals' /\ main'.pc = "accept"
    BY <1>0, <1>6, NextAttemptLocal DEF AttemptEnds
  <2> QED
    BY <2>1, <2>2 DEF Types, Place
<1>7. CASE AcceptInterrupted
  <2>1. Data'
    BY <1>0, <1>7, DataKept DEF AcceptInterrupted
  <2> QED
    BY <1>1, <1>7, <2>1 DEF AcceptInterrupted, Types
<1>8. CASE AcceptFails
  <2>1. "accept" \in Exits
    BY Zenon DEF Exits
  <2>2. Locals' /\ main'.pc = "exit"
    BY <1>0, <1>8, <2>1, ExitLocals DEF AcceptFails
  <2>3. Data'
    BY <1>0, <1>8, DataKept DEF AcceptFails
  <2> QED
    BY <2>2, <2>3 DEF Types, Place
<1>9. CASE AcceptDone
  <2>1. Locals' /\ main'.pc = "scan"
    BY <1>0, <1>9, NextTurnLocals DEF AcceptDone
  <2>2. Data'
    BY <1>0, <1>9, DataKept DEF AcceptDone
  <2> QED
    BY <2>1, <2>2 DEF Types, Place
<1> QED
  BY <1>2, <1>3, <1>4, <1>5, <1>6, <1>7, <1>8, <1>9, AcceptReturnsTypes,
     AcceptEmplacesTypes DEF Accept

(* The peers write whole lines.                                             *)
LEMMA PeerTypes ==
    ASSUME Types, NEW p \in Peers, PeerConnect(p) \/ PeerStep(p)
    PROVE  Types'
<1>0. Locals /\ Data /\ Socket(sock[p])
  BY DEF Types, Data, Sockets
<1>1. UNCHANGED <<main, clients, store, file, epoll>>
  BY DEF PeerConnect, PeerStep
<1>2. queue' \in Seq(Peers)
  <2>1. queue \in Seq(Peers)
    BY <1>0 DEF Data, Tables
  <2>2. Append(queue, p) \in Seq(Peers)
    BY <2>1, AppendProperties
  <2> QED
    BY <2>1, <2>2 DEF PeerConnect, PeerStep
<1>3. Locals' /\ Place'
  BY <1>1 DEF Types, Locals, Place
<1>4. Tables' /\ Entries' /\ BoundedStore(store)'
  BY <1>0, <1>1, <1>2 DEF Data, Tables, Entries, Entry, BoundedStore
<1>5. <<>> \in Seq(Byte) /\ Len(<<>>) = 0 /\ SendQueue \in Nat
  BY EmptySeq, EventLoopAssumption
<1>6. PICK r : r = sock[p]
  OBVIOUS
<1> DEFINE SocketType ==
        [state : {"new", "queued", "open", "closed", "lost"}, nonblocking : BOOLEAN,
         rx : Seq(Byte), fin : BOOLEAN, rst : BOOLEAN, tx : Seq(Byte)]
<1>7. r \in SocketType /\ Len(r.tx) <= SendQueue
  BY <1>0, <1>6 DEF Socket
<1>8. ASSUME NEW s, s \in SocketType, s.tx = r.tx \/ s.tx = <<>>,
             sock' = [sock EXCEPT ![p] = s]
      PROVE  Sockets'
  <2>1. Socket(s)
    BY <1>5, <1>7, <1>8 DEF Socket
  <2> QED
    BY <1>0, <1>8, <2>1, OneSocket DEF Data
<1>9. CASE PeerConnect(p)
  <2>1. PICK s : s = [r EXCEPT !.state = "queued"]
    OBVIOUS
  <2>2. s \in SocketType /\ s.tx = r.tx
    BY <1>7, <2>1
  <2>3. sock' = [sock EXCEPT ![p] = s]
    BY <1>6, <1>9, <2>1 DEF PeerConnect
  <2> QED
    BY <1>3, <1>4, <1>8, <2>2, <2>3 DEF Types, Data
<1>10. CASE \E line \in Script[p] : sock' = [sock EXCEPT ![p].rx = @ \o line]
  <2>1. PICK l \in Script[p] : sock' = [sock EXCEPT ![p].rx = @ \o l]
    BY <1>10
  <2>2. l \in Seq(Byte) /\ r.rx \in Seq(Byte)
    BY <1>7, EventLoopAssumption
  <2>3. PICK x : x = r.rx \o l
    OBVIOUS
  <2>4. x \in Seq(Byte)
    BY <2>2, <2>3, ConcatProperties
  <2>5. PICK s : s = [r EXCEPT !.rx = x]
    OBVIOUS
  <2>6. s \in SocketType /\ s.tx = r.tx
    BY <1>7, <2>4, <2>5
  <2>7. sock' = [sock EXCEPT ![p] = s]
    BY <1>6, <2>1, <2>3, <2>5
  <2> QED
    BY <1>3, <1>4, <1>8, <2>6, <2>7 DEF Types, Data
<1>11. CASE sock' = [sock EXCEPT ![p].fin = TRUE]
  <2>1. PICK s : s = [r EXCEPT !.fin = TRUE]
    OBVIOUS
  <2>2. s \in SocketType /\ s.tx = r.tx
    BY <1>7, <2>1
  <2>3. sock' = [sock EXCEPT ![p] = s]
    BY <1>6, <1>11, <2>1
  <2> QED
    BY <1>3, <1>4, <1>8, <2>2, <2>3 DEF Types, Data
<1>12. CASE sock' = [sock EXCEPT ![p] = [@ EXCEPT !.rst = TRUE, !.tx = <<>>]]
  <2>1. PICK s : s = [r EXCEPT !.rst = TRUE, !.tx = <<>>]
    OBVIOUS
  <2>2. s \in SocketType /\ s.tx = <<>>
    BY <1>5, <1>7, <2>1
  <2>3. sock' = [sock EXCEPT ![p] = s]
    BY <1>6, <1>12, <2>1
  <2> QED
    BY <1>3, <1>4, <1>8, <2>2, <2>3 DEF Types, Data
<1>13. CASE sock' = [sock EXCEPT ![p].tx = <<>>]
  <2>1. PICK s : s = [r EXCEPT !.tx = <<>>]
    OBVIOUS
  <2>2. s \in SocketType /\ s.tx = <<>>
    BY <1>5, <1>7, <2>1
  <2>3. sock' = [sock EXCEPT ![p] = s]
    BY <1>6, <1>13, <2>1
  <2> QED
    BY <1>3, <1>4, <1>8, <2>2, <2>3 DEF Types, Data
<1>14. CASE sock' = [sock EXCEPT ![p] = NewSocket]
  <2>1. NewSocket \in SocketType /\ NewSocket.tx = <<>>
    BY <1>5 DEF NewSocket
  <2> QED
    BY <1>3, <1>4, <1>8, <1>14, <2>1 DEF Types, Data
<1> QED
  BY <1>9, <1>10, <1>11, <1>12, <1>13, <1>14 DEF PeerStep

-----------------------------------------------------------------------------
(* The visits                                                               *)

(* The connection a visit works on, and its socket.                         *)
LEMMA VisitFacts ==
    ASSUME Inv, Data, main.pc \in {"recv", "exec"}
    PROVE  /\ main.fd \in DOMAIN clients /\ Entry(clients[main.fd])
           /\ Sound(conn) /\ Settled(conn) /\ clients[main.fd].idle \in 0..kIdleTimeout
           /\ peer \in Peers /\ Socket(sock[peer])
           /\ sock[peer].rx \in Seq(Byte) /\ sock[peer].tx \in Seq(Byte)
           /\ Len(sock[peer].tx) <= SendQueue
<1>1. main.fd \in DOMAIN clients
  BY DEF Inv, Iterators
<1>2. Entry(clients[main.fd])
  BY <1>1 DEF Data, Entries
<1>3. Sound(conn) /\ Settled(conn) /\ clients[main.fd].idle \in 0..kIdleTimeout
  BY <1>2 DEF Entry, conn
<1>4. /\ peer \in Peers /\ Socket(sock[peer])
      /\ sock[peer].rx \in Seq(Byte) /\ sock[peer].tx \in Seq(Byte)
      /\ Len(sock[peer].tx) <= SendQueue
  BY <1>1, GivenBytes DEF peer
<1> QED
  BY <1>1, <1>2, <1>3, <1>4

(* A visit that goes on with a new entry.                                   *)
LEMMA VisitGoes ==
    ASSUME Inv, Data, main.pc \in {"recv", "exec"}, NEW c, Sound(c), Settled(c),
           NEW idle \in 0..kIdleTimeout,
           clients' = [clients EXCEPT ![main.fd] = [conn |-> c, idle |-> idle]]
    PROVE  /\ Entries' /\ DOMAIN clients' = DOMAIN clients
           /\ clients'[main.fd].conn = c
<1>1. PICK e : e = [conn |-> c, idle |-> idle]
  OBVIOUS
<1>2. e \in [conn : ConnectionType, idle : 0..kIdleTimeout] /\ e.conn = c
  BY <1>1 DEF Sound
<1>3. Entry(e)
  BY <1>2 DEF Entry
<1>4. main.fd \in DOMAIN clients /\ clients' = [clients EXCEPT ![main.fd] = e]
  BY <1>1, VisitFacts
<1>5. Entries' /\ DOMAIN clients' = DOMAIN clients /\ clients'[main.fd] = e
  BY <1>3, <1>4, OneEntry DEF Data
<1> QED
  BY <1>2, <1>5

(* The recv loop takes no more than the input has room for.                 *)
LEMMA VisitRecvTypes == ASSUME Inv, Types, VisitRecv PROVE Types'
<1>0. Locals /\ Data /\ main.pc = "recv"
  BY DEF Types, VisitRecv
<1>1. /\ main.fd \in DOMAIN clients /\ Sound(conn) /\ peer \in Peers /\ Socket(sock[peer])
      /\ sock[peer].rx \in Seq(Byte) /\ clients[main.fd].idle \in 0..kIdleTimeout
  BY <1>0, VisitFacts
<1>2. RecvStart \in RecvStates
  BY <1>1 DEF RecvStart, RecvStates, Sound
<1>3. kReadCallBudget \in Nat
  BY EventLoopAssumption
<1>4. PICK n \in (IF main.event.readable THEN 0..kReadCallBudget ELSE {0}), eof \in BOOLEAN :
          /\ clients' = [clients EXCEPT ![main.fd] =
                [conn |-> begin_processing([Received[n].conn EXCEPT !.read_eof = @ \/ eof]),
                 idle |-> IF Received[n].rx = sock[peer].rx THEN @.idle ELSE 0]]
          /\ sock' = [sock EXCEPT ![peer].rx = Received[n].rx]
  BY Zenon DEF VisitRecv
<1>5. n \in 0..kReadCallBudget
  BY <1>3
<1>6. PICK c, x : c = Received[n].conn /\ x = Received[n].rx
  OBVIOUS
<1>7. Sound(c) /\ x \in Seq(Byte)
  <2>1. Received[n] \in RecvStates
    BY <1>2, <1>5, ReceivedFacts
  <2> QED
    BY <1>6, <2>1 DEF RecvStates
<1>8. PICK d : d = [c EXCEPT !.read_eof = @ \/ eof]
  OBVIOUS
<1>9. Sound(d)
  <2>1. /\ d \in ConnectionType
        /\ d.input_buffer = c.input_buffer /\ d.input_cursor = c.input_cursor
        /\ d.output_buffer = c.output_buffer /\ d.output_cursor = c.output_cursor
    BY <1>7, <1>8 DEF Sound, ConnectionType
  <2> QED
    BY <1>7, <2>1 DEF Sound, WithinBounds
<1>10. PICK b : b = begin_processing(d)
  OBVIOUS
<1>11. Sound(b) /\ Settled(b) /\ b.output_cursor = 0
  BY <1>9, <1>10, BeginFacts
<1>12. PICK t \in 0..kIdleTimeout : t = IF x = sock[peer].rx THEN clients[main.fd].idle ELSE 0
  BY <1>1, EventLoopAssumption
<1>13. clients' = [clients EXCEPT ![main.fd] = [conn |-> b, idle |-> t]]
  BY <1>4, <1>6, <1>8, <1>10, <1>12, Zenon
<1>14. Entries' /\ DOMAIN clients' = DOMAIN clients /\ clients'[main.fd].conn = b
  BY <1>0, <1>11, <1>13, VisitGoes
<1>15. Sockets'
  <2>1. PICK s : s = [sock[peer] EXCEPT !.rx = x]
    OBVIOUS
  <2>2. s \in [state : {"new", "queued", "open", "closed", "lost"}, nonblocking : BOOLEAN,
               rx : Seq(Byte), fin : BOOLEAN, rst : BOOLEAN, tx : Seq(Byte)]
        /\ s.tx = sock[peer].tx
    BY <1>1, <1>7, <2>1 DEF Socket
  <2>3. Socket(s)
    BY <1>1, <2>2 DEF Socket
  <2>4. sock' = [sock EXCEPT ![peer] = s]
    BY <1>4, <1>6, <2>1
  <2> QED
    BY <1>0, <1>1, <2>3, <2>4, OneSocket DEF Data
<1>16. UNCHANGED <<store, file, epoll, queue>> /\ Goto("exec")
  BY DEF VisitRecv
<1>17. Tables' /\ BoundedStore(store)'
  BY <1>0, <1>14, <1>16 DEF Data, Tables, BoundedStore
<1>18. Locals' /\ main'.pc = "exec" /\ main'.fd = main.fd
  BY <1>0, <1>16 DEF Locals, Goto, Labels
<1> QED
  BY <1>11, <1>14, <1>15, <1>17, <1>18 DEF Types, Place, Data

(* One frame: its reply fits, and the store stays bounded.                  *)
LEMMA VisitExecTypes == ASSUME Inv, Types, VisitExec PROVE Types'
<1>0. Locals /\ Data /\ main.pc = "exec" /\ Executing /\ Attempted
  BY DEF Types, VisitExec
<1>1. /\ main.fd \in DOMAIN clients /\ Entry(clients[main.fd])
      /\ Sound(conn) /\ Settled(conn) /\ clients[main.fd].idle \in 0..kIdleTimeout
  BY <1>0, VisitFacts
<1>2. conn.output_cursor = 0 /\ ~conn.output_paused
  BY <1>0 DEF Types, Place, conn, Executing, has_runnable_input
<1>3. PICK newline \in 1..Len(conn.input_buffer) :
          /\ IsNewline(conn.input_buffer, conn.input_cursor, newline)
          /\ store' = Answer(frame_at(conn, newline), store).store
          /\ clients' = [clients EXCEPT ![main.fd].conn =
                queue_response(consume_frame(@, newline),
                               response_of(Answer(frame_at(conn, newline), store).text))]
  BY Zenon DEF VisitExec
<1>4. newline \in Nat
  BY <1>1, PendingFacts
<1>5. PICK f, a : f = frame_at(conn, newline) /\ a = Answer(f, store)
  OBVIOUS
<1>6. f \in Text /\ Len(f) < kMaxInputBytes
  BY <1>1, <1>3, <1>4, <1>5, FrameFacts
<1>7. a.text \in Text /\ Len(a.text) < kMaxResponseBytes /\ BoundedStore(a.store)
  BY <1>0, <1>5, <1>6, AnswerBound DEF Data
<1>8. PICK c, q : c = conn /\ q = queue_response(consume_frame(c, newline), response_of(a.text))
  OBVIOUS
<1>9. Sound(q) /\ Settled(q) /\ q.output_cursor = 0
  BY <1>1, <1>2, <1>3, <1>4, <1>7, <1>8, ExecuteFacts
<1>10. PICK e : e = [clients[main.fd] EXCEPT !.conn = q]
  OBVIOUS
<1>11. e \in [conn : ConnectionType, idle : 0..kIdleTimeout] /\ e.conn = q
  BY <1>1, <1>9, <1>10 DEF Entry, Sound
<1>12. Entry(e)
  BY <1>9, <1>11 DEF Entry
<1>13. clients' = [clients EXCEPT ![main.fd] = e]
  BY <1>3, <1>5, <1>8, <1>10 DEF conn
<1>14. Entries' /\ DOMAIN clients' = DOMAIN clients /\ clients'[main.fd] = e
  BY <1>0, <1>1, <1>12, <1>13, OneEntry DEF Data
<1>15. UNCHANGED <<file, epoll, queue, sock>>
  BY DEF VisitExec
<1>16. Tables' /\ BoundedStore(store)'
  BY <1>0, <1>3, <1>5, <1>7, <1>14, <1>15 DEF Data, Tables, BoundedStore
<1>17. Sockets'
  BY <1>0, <1>15 DEF Data, Sockets, Socket
<1>18. Locals' /\ main'.pc = "exec" /\ main'.fd = main.fd
  BY <1>0, AttemptedLocal DEF Executing
<1> QED
  BY <1>9, <1>11, <1>14, <1>16, <1>17, <1>18 DEF Types, Place, Data

(* The sends of a visit hand the kernel what it has room for, and leave a
   sound and settled connection.                                            *)
LEMMA FlushedFacts ==
    ASSUME Inv, Data, main.pc = "exec", NEW after \in Flushed
    PROVE  /\ Sound(after.conn) /\ Settled(after.conn) /\ after.idle \in 0..kIdleTimeout
           /\ after.tx \in Seq(Byte) /\ Len(after.tx) <= SendQueue
<1>1. /\ Sound(conn) /\ clients[main.fd].idle \in 0..kIdleTimeout
      /\ sock[peer].tx \in Seq(Byte) /\ Len(sock[peer].tx) <= SendQueue
  BY VisitFacts
<1>2. PICK e, t : e = Processed /\ t = sock[peer].tx
  OBVIOUS
<1>3. /\ Sound(e) /\ pending_output_bytes(e) \in Nat
      /\ pending_output(e) \in Seq(Byte) /\ Len(pending_output(e)) = pending_output_bytes(e)
  <2>1. Sound(e)
    BY <1>1, <1>2, EndProcessingFacts DEF Processed
  <2>2. pending_output_bytes(e) \in Nat
    BY <2>1, PendingFacts, WatermarkAssumption
  <2> QED
    BY <2>1, <2>2, PendingBytes
<1>4. Len(t) \in Nat /\ SendQueue \in Nat /\ kWriteBytes \in Nat
  BY <1>1, <1>2, LenProperties, EventLoopAssumption
<1>5. PICK bound : bound = IF sock[peer].rst THEN 0
                           ELSE Lesser(Lesser(pending_output_bytes(e), kWriteBytes),
                                       SendQueue - Len(t))
  OBVIOUS
<1>6. /\ bound \in Nat /\ bound <= pending_output_bytes(e) /\ bound <= SendQueue - Len(t)
  BY <1>1, <1>2, <1>3, <1>4, <1>5 DEF Lesser
<1>7. PICK n \in 0..bound :
        after = [conn |-> settle(end_flush(advance_output(e, n))),
                 tx |-> t \o SubSeq(pending_output(e), 1, n),
                 idle |-> IF n = 0 THEN clients[main.fd].idle ELSE 0]
  BY <1>2, <1>5, Zenon DEF Flushed
<1>8. n \in Nat /\ n <= pending_output_bytes(e) /\ n <= SendQueue - Len(t)
  BY <1>3, <1>4, <1>6
<1>9. PICK a, l, d : a = advance_output(e, n) /\ l = end_flush(a) /\ d = settle(l)
  OBVIOUS
<1>10. Sound(a)
  BY <1>3, <1>8, <1>9, AdvanceFacts
<1>11. Sound(l)
  BY <1>9, <1>10, EndFlushFacts
<1>12. Sound(d) /\ Settled(d)
  BY <1>9, <1>11, SettleKeeps
<1>13. PICK u, v : u = SubSeq(pending_output(e), 1, n) /\ v = t \o u
  OBVIOUS
<1>14. u \in Seq(Byte) /\ Len(u) = n
  BY <1>3, <1>8, <1>13, PrefixFacts
<1>15. v \in Seq(Byte) /\ Len(v) = Len(t) + n
  BY <1>1, <1>2, <1>13, <1>14, ConcatProperties
<1>16. after.conn = d /\ after.tx = v /\ after.idle \in 0..kIdleTimeout
  BY <1>1, <1>7, <1>9, <1>13, EventLoopAssumption
<1> QED
  BY <1>4, <1>8, <1>12, <1>15, <1>16

(* The steps that end a visit.                                              *)
LEMMA VisitEndTypes ==
    ASSUME Inv, Inv', Types, VisitRecvError \/ VisitFails \/ VisitEnds
    PROVE  Types'
<1>0. Locals /\ Data /\ main.pc \in {"recv", "exec"}
  BY DEF Types, VisitRecvError, VisitFails, VisitEnds
<1>1. /\ main.fd \in DOMAIN clients /\ Entry(clients[main.fd]) /\ peer \in Peers
      /\ Socket(sock[peer]) /\ sock[peer].tx \in Seq(Byte) /\ Len(sock[peer].tx) <= SendQueue
  BY <1>0, VisitFacts
<1>2. ASSUME NEW state \in {"closed", "lost"}, NEW tx \in Seq(Byte), Len(tx) <= SendQueue,
             retire_client(main.fd, state, tx), VisitOver(FALSE)
      PROVE  Types'
  <2>1. Data'
    BY <1>0, <1>1, <1>2, RetireData
  <2>2. Locals' /\ main'.pc = "scan"
    BY <1>0, <1>2, VisitOverLocals
  <2> QED
    BY <2>1, <2>2 DEF Types, Place
<1>3. CASE VisitRecvError
  <2>1. <<>> \in Seq(Byte) /\ Len(<<>>) <= SendQueue
    BY EmptySeq, EventLoopAssumption
  <2> QED
    BY <1>2, <1>3, <2>1 DEF VisitRecvError
<1>4. CASE VisitFails
  BY <1>1, <1>2, <1>4 DEF VisitFails
<1>5. CASE VisitEnds
  <2>1. PICK after \in Flushed :
          \/ retire_client(main.fd, "closed", after.tx) /\ VisitOver(FALSE)
          \/ /\ clients' = [clients EXCEPT ![main.fd] = [@ EXCEPT !.conn = after.conn,
                                                                  !.idle = after.idle]]
             /\ sock' = [sock EXCEPT ![peer].tx = after.tx]
             /\ epoll' = [epoll EXCEPT ![main.fd] = [@ EXCEPT !.read = can_read(after.conn),
                                                              !.write = has_pending_output(after.conn)]]
             /\ VisitOver(has_runnable_input(after.conn))
             /\ UNCHANGED <<store, file, queue>>
          \/ retire_client(main.fd, "lost", after.tx) /\ VisitOver(FALSE)
    BY <1>5, Zenon DEF VisitEnds
  <2>2. main.pc = "exec"
    BY <1>5 DEF VisitEnds
  <2>3. /\ Sound(after.conn) /\ Settled(after.conn) /\ after.idle \in 0..kIdleTimeout
        /\ after.tx \in Seq(Byte) /\ Len(after.tx) <= SendQueue
    BY <1>0, <2>2, FlushedFacts
  <2>4. CASE \/ retire_client(main.fd, "closed", after.tx) /\ VisitOver(FALSE)
             \/ retire_client(main.fd, "lost", after.tx) /\ VisitOver(FALSE)
    BY <1>2, <2>3, <2>4
  <2>5. CASE /\ clients' = [clients EXCEPT ![main.fd] = [@ EXCEPT !.conn = after.conn,
                                                                  !.idle = after.idle]]
             /\ sock' = [sock EXCEPT ![peer].tx = after.tx]
             /\ epoll' = [epoll EXCEPT ![main.fd] = [@ EXCEPT !.read = can_read(after.conn),
                                                              !.write = has_pending_output(after.conn)]]
             /\ VisitOver(has_runnable_input(after.conn))
             /\ UNCHANGED <<store, file, queue>>
    <3>1. PICK c, i, x : c = after.conn /\ i = after.idle /\ x = after.tx
      OBVIOUS
    <3>2. PICK e : e = [clients[main.fd] EXCEPT !.conn = c, !.idle = i]
      OBVIOUS
    <3>3. /\ e \in [conn : ConnectionType, idle : 0..kIdleTimeout] /\ e.conn = c
      BY <1>1, <2>3, <3>1, <3>2 DEF Entry, Sound
    <3>4. Entry(e)
      BY <2>3, <3>1, <3>3 DEF Entry
    <3>5. clients' = [clients EXCEPT ![main.fd] = e]
      BY <2>5, <3>1, <3>2
    <3>6. Entries' /\ DOMAIN clients' = DOMAIN clients
      BY <1>0, <1>1, <3>4, <3>5, OneEntry DEF Data
    <3>7. PICK s : s = [sock[peer] EXCEPT !.tx = x]
      OBVIOUS
    <3>8. s \in [state : {"new", "queued", "open", "closed", "lost"}, nonblocking : BOOLEAN,
                 rx : Seq(Byte), fin : BOOLEAN, rst : BOOLEAN, tx : Seq(Byte)]
          /\ s.tx = x
      BY <1>1, <2>3, <3>1, <3>7 DEF Socket
    <3>9. Socket(s)
      BY <2>3, <3>1, <3>8 DEF Socket
    <3>10. sock' = [sock EXCEPT ![peer] = s]
      BY <2>5, <3>1, <3>7
    <3>11. Sockets'
      BY <1>0, <1>1, <3>9, <3>10, OneSocket DEF Data
    <3>12. DOMAIN epoll' = DOMAIN epoll
      BY <2>5
    <3>13. Tables' /\ BoundedStore(store)'
      BY <1>0, <2>5, <3>6, <3>12 DEF Data, Tables, BoundedStore
    <3>14. Locals' /\ main'.pc = "scan"
      BY <1>0, <2>5, VisitOverLocals
    <3> QED
      BY <3>6, <3>11, <3>13, <3>14 DEF Types, Place, Data
  <2> QED
    BY <2>1, <2>4, <2>5
<1> QED
  BY <1>3, <1>4, <1>5

(* What the variables hold is inductive.                                    *)
LEMMA StepTypes == Inv /\ Types /\ [Next]_vars => Types'
<1> SUFFICES ASSUME Inv, Types, [Next]_vars PROVE Types'
  OBVIOUS
<1>1. Inv'
  BY StepInv
<1>2. CASE Server
  <2>1. CASE Visit
    BY <1>1, <2>1, VisitRecvTypes, VisitExecTypes, VisitEndTypes DEF Visit
  <2>2. CASE Start \/ Unwind \/ Scan
    BY <2>2, StartTypes, UnwindTypes, ScanTypes
  <2>3. CASE Wait \/ Dispatch \/ Accept
    BY <1>1, <2>3, WaitTypes, DispatchTypes, AcceptTypes
  <2> QED
    BY <1>2, <2>1, <2>2, <2>3 DEF Server
<1>3. CASE \E p \in Peers : PeerConnect(p) \/ PeerStep(p)
  BY <1>3, PeerTypes
<1>4. CASE UNCHANGED vars
  <2>1. UNCHANGED <<clients, store, file, epoll, queue, sock>> /\ main' = main
    BY <1>4 DEF vars
  <2>2. Data'
    BY <2>1, DataKept DEF Types
  <2> QED
    BY <2>1, <2>2 DEF Types, Locals, Place
<1> QED
  BY <1>2, <1>3, <1>4 DEF Next

(* In every reachable state every entry of the client map holds a sound
   connection whose flag agrees with the watermarks, whoever used its
   descriptor before, and the store holds only what fits in a reply.        *)
THEOREM TypesInvariance == Spec => []Types
  BY Invariance, InitTypes, StepTypes, PTL DEF Spec

(* For any number of peers, slots and descriptors: the kernel never holds
   more reply bytes for a peer than its queue takes, the idle timers stay
   within the timeout, the attempts within their budgets, and the maps
   within the descriptor numbers (server.cpp:49-344).                       *)
THEOREM TypeCorrect == Spec => []TypeOK
<1>1. Inv /\ Types => TypeOK
  <2> SUFFICES ASSUME Inv, Types PROVE TypeOK
    OBVIOUS
  <2>1. main \in [pc : {"socket", "configure", "create", "register", "scan", "wait",
                       "dispatch", "accept", "accepted", "emplaced", "attempted",
                       "recv", "exec", "exit", "stopped"},
                 exit : Exits, listener : Fd \cup {-1}, poller : Fd \cup {-1},
                 todo : SUBSET Fd, runnable : BOOLEAN,
                 event : [fd : Fd \cup {-1}, readable : BOOLEAN, broken : BOOLEAN],
                 fd : Fd \cup {-1}, attempt : 0..(kCommandBudget + kAcceptBudget)]
    BY Zenon DEF Types, Locals, Labels, Events
  <2>2. \A m \in {clients, file, epoll} : DOMAIN m \subseteq Fd
    BY DEF Inv, Owned, Types, Data, Tables
  <2>3. \A fd \in DOMAIN clients : clients[fd].idle \in 0..kIdleTimeout
    BY DEF Types, Data, Entries, Entry
  <2>4. \A fd \in DOMAIN file : file[fd] \in Peers \cup {"listener", "epoll"}
    BY DEF Types, Data, Tables
  <2>5. \A i \in 1..Len(queue) : queue[i] \in Peers
    BY ElementOfSeq DEF Types, Data, Tables
  <2>6. \A p \in Peers : /\ Len(sock[p].tx) <= SendQueue
                         /\ sock[p].state \in {"new", "queued", "open", "closed", "lost"}
    BY DEF Types, Data, Sockets, Socket
  <2> QED
    BY <2>1, <2>2, <2>3, <2>4, <2>5, <2>6 DEF TypeOK
<1> QED
  BY Invariance, TypesInvariance, <1>1, PTL

-----------------------------------------------------------------------------
(* The event loop implements the abstract service                           *)

Put(f, c, y) == [f EXCEPT ![c] = y]

(* What the service sees of the other clients stays as it was.              *)
OthersKeep(p) ==
    \A q \in Peers \ {p} :
        Inbox(q)' = Inbox(q) /\ Outbox(q)' = Outbox(q) /\ Status(q)' = Status(q)

(* Nothing that the service sees changes.                                   *)
NothingSeen ==
    /\ \A q \in Peers :
          Inbox(q)' = Inbox(q) /\ Outbox(q)' = Outbox(q) /\ Status(q)' = Status(q)
    /\ store' = store

(* The functions of the service, peer by peer.                              *)
LEMMA SeenOf ==
    ASSUME NEW p \in Peers
    PROVE  Inboxes[p] = Inbox(p) /\ Outboxes[p] = Outbox(p) /\ Statuses[p] = Status(p)
  BY DEF Inboxes, Outboxes, Statuses

(* A change of one peer's part is a change of the function at that peer.    *)
LEMMA InboxPut ==
    ASSUME NEW p \in Peers, OthersKeep(p), NEW x, Inbox(p)' = x
    PROVE  Inboxes' = Put(Inboxes, p, x)
<1>1. \A q \in Peers : Inbox(q)' = IF q = p THEN x ELSE Inbox(q)
  BY DEF OthersKeep
<1>2. Inboxes' = [q \in Peers |-> Inbox(q)']
  BY DEF Inboxes
<1>3. Inboxes = [q \in Peers |-> Inbox(q)]
  BY DEF Inboxes
<1> QED
  BY <1>1, <1>2, <1>3 DEF Put

(* The same for the replies.                                                *)
LEMMA OutboxPut ==
    ASSUME NEW p \in Peers, OthersKeep(p), NEW x, Outbox(p)' = x
    PROVE  Outboxes' = Put(Outboxes, p, x)
<1>1. \A q \in Peers : Outbox(q)' = IF q = p THEN x ELSE Outbox(q)
  BY DEF OthersKeep
<1>2. Outboxes' = [q \in Peers |-> Outbox(q)']
  BY DEF Outboxes
<1>3. Outboxes = [q \in Peers |-> Outbox(q)]
  BY DEF Outboxes
<1> QED
  BY <1>1, <1>2, <1>3 DEF Put

(* The same for the states of the connections.                              *)
LEMMA StatusPut ==
    ASSUME NEW p \in Peers, OthersKeep(p), NEW x, Status(p)' = x
    PROVE  Statuses' = Put(Statuses, p, x)
<1>1. \A q \in Peers : Status(q)' = IF q = p THEN x ELSE Status(q)
  BY DEF OthersKeep
<1>2. Statuses' = [q \in Peers |-> Status(q)']
  BY DEF Statuses
<1>3. Statuses = [q \in Peers |-> Status(q)]
  BY DEF Statuses
<1> QED
  BY <1>1, <1>2, <1>3 DEF Put

(* What one peer keeps, all keep.                                           *)
LEMMA KeptWhole ==
    ASSUME NEW p \in Peers, OthersKeep(p)
    PROVE  /\ Inbox(p)' = Inbox(p) => Inboxes' = Inboxes
           /\ Outbox(p)' = Outbox(p) => Outboxes' = Outboxes
           /\ Status(p)' = Status(p) => Statuses' = Statuses
<1>1. ASSUME Inbox(p)' = Inbox(p) PROVE Inboxes' = Inboxes
  <2>1. \A q \in Peers : Inbox(q)' = Inbox(q)
    BY <1>1 DEF OthersKeep
  <2> QED
    BY <2>1 DEF Inboxes
<1>2. ASSUME Outbox(p)' = Outbox(p) PROVE Outboxes' = Outboxes
  <2>1. \A q \in Peers : Outbox(q)' = Outbox(q)
    BY <1>2 DEF OthersKeep
  <2> QED
    BY <2>1 DEF Outboxes
<1>3. ASSUME Status(p)' = Status(p) PROVE Statuses' = Statuses
  <2>1. \A q \in Peers : Status(q)' = Status(q)
    BY <1>3 DEF OthersKeep
  <2> QED
    BY <2>1 DEF Statuses
<1> QED
  BY <1>1, <1>2, <1>3

(* The service reads a stream and answers a line as Protocol does.          *)
LEMMA SameProtocol ==
    ASSUME NEW s, NEW n, NEW data
    PROVE  /\ Service!IsNewline(s, 0, n) = IsNewline(s, 0, n)
           /\ Service!HasNewline(s, 0) = HasNewline(s, 0)
           /\ Service!Answer(s, data) = Answer(s, data)
<1>1. Service!parse_command(s) = parse_command(s)
  BY DEF Service!parse_command, parse_command, Service!Command, Command, Service!nullopt, nullopt
<1>2. ASSUME NEW c PROVE Service!execute_command(c, data) = execute_command(c, data)
  BY DEF Service!execute_command, execute_command, Service!set, set, Service!get, get,
      Service!exists, exists, Service!erase, erase, Service!erased, erased,
      Service!count, count, Service!nullopt, nullopt
<1>3. Service!Answer(s, data) = Answer(s, data)
  BY <1>1, <1>2 DEF Service!Answer, Answer
<1>4. /\ Service!IsNewline(s, 0, n) = IsNewline(s, 0, n)
      /\ Service!HasNewline(s, 0) = HasNewline(s, 0)
  BY DEF Service!IsNewline, IsNewline, Service!HasNewline, HasNewline
<1> QED
  BY <1>3, <1>4

(* A line taken, executed and answered is a step of the service.            *)
LEMMA ServiceExecutes ==
    ASSUME NEW p \in Peers, OthersKeep(p), Status(p)' = Status(p),
           NEW n \in 1..Len(Inbox(p)), IsNewline(Inbox(p), 0, n),
           NEW line, line = SubSeq(Inbox(p), 1, n - 1),
           store' = Answer(line, store).store,
           Inbox(p)' = SubSeq(Inbox(p), n + 1, Len(Inbox(p))),
           Outbox(p)' = IF Status(p) = "lost" THEN Outbox(p)
                        ELSE Outbox(p) \o Append(Answer(line, store).text, NL)
    PROVE  Service!Next
<1>1. Inboxes[p] = Inbox(p) /\ Outboxes[p] = Outbox(p) /\ Statuses[p] = Status(p)
  BY SeenOf
<1>2. Service!IsNewline(Inbox(p), 0, n) /\ Service!Answer(line, store) = Answer(line, store)
  BY SameProtocol
<1>3. Inboxes' = Put(Inboxes, p, SubSeq(Inboxes[p], n + 1, Len(Inboxes[p])))
  BY <1>1, InboxPut
<1>4. Outboxes' = IF Statuses[p] = "lost" THEN Outboxes
                  ELSE Put(Outboxes, p, Outboxes[p] \o Append(Service!Answer(line, store).text, NL))
  <2>1. CASE Status(p) = "lost"
    BY <1>1, <2>1, KeptWhole
  <2>2. CASE Status(p) # "lost"
    <3>1. Outbox(p)' = Outboxes[p] \o Append(Service!Answer(line, store).text, NL)
      BY <1>1, <1>2, <2>2
    <3>2. PICK x : x = Outboxes[p] \o Append(Service!Answer(line, store).text, NL)
      OBVIOUS
    <3>3. Outboxes' = Put(Outboxes, p, x)
      BY <3>1, <3>2, OutboxPut
    <3> QED
      BY <1>1, <2>2, <3>2, <3>3
  <2> QED
    BY <2>1, <2>2
<1>5. Statuses' = Statuses
  BY KeptWhole
<1>6. \E m \in 1..Len(Inboxes[p]) :
         /\ Service!IsNewline(Inboxes[p], 0, m)
         /\ LET answer == Service!Answer(SubSeq(Inboxes[p], 1, m - 1), store) IN
              /\ store' = answer.store
              /\ Inboxes' = [Inboxes EXCEPT ![p] = SubSeq(@, m + 1, Len(@))]
              /\ Outboxes' = IF Statuses[p] = "lost" THEN Outboxes
                             ELSE [Outboxes EXCEPT ![p] = @ \o Append(answer.text, NL)]
  <2>1. n \in 1..Len(Inboxes[p])
    BY <1>1
  <2> WITNESS n \in 1..Len(Inboxes[p])
  <2>2. SubSeq(Inboxes[p], 1, n - 1) = line
    BY <1>1
  <2> QED
    BY <1>1, <1>2, <1>3, <1>4, <2>2 DEF Put
<1>7. Service!Execute(p)
  BY <1>5, <1>6 DEF Service!Execute
<1> QED
  BY <1>7 DEF Service!Next

(* So are bytes from the peer, ...                                          *)
LEMMA ServiceSends ==
    ASSUME NEW p \in Peers, OthersKeep(p), Status(p) = "open", Status(p)' = Status(p),
           NEW s \in Lines, Inbox(p)' = Inbox(p) \o s, Outbox(p)' = Outbox(p), store' = store
    PROVE  Service!Next
<1>1. Inboxes[p] = Inbox(p) /\ Statuses[p] = "open"
  BY SeenOf
<1>2. Inboxes' = Put(Inboxes, p, Inboxes[p] \o s)
  BY <1>1, InboxPut
<1>3. \E t \in Lines : Inboxes' = [Inboxes EXCEPT ![p] = @ \o t]
  <2> WITNESS s \in Lines
  <2> QED
    BY <1>2 DEF Put
<1>4. Outboxes' = Outboxes /\ Statuses' = Statuses
  BY KeptWhole
<1>5. Service!Send(p)
  BY <1>1, <1>3, <1>4 DEF Service!Send
<1> QED
  BY <1>5 DEF Service!Next

(* ... its half-close, ...                                                  *)
LEMMA ServiceHalfCloses ==
    ASSUME NEW p \in Peers, OthersKeep(p), Status(p) = "open", Status(p)' = "ended",
           Inbox(p)' = Inbox(p), Outbox(p)' = Outbox(p), store' = store
    PROVE  Service!Next
<1>1. Statuses[p] = "open"
  BY SeenOf
<1>2. Statuses' = Put(Statuses, p, "ended")
  BY StatusPut
<1>3. Outboxes' = Outboxes /\ Inboxes' = Inboxes
  BY KeptWhole
<1>4. Service!HalfClose(p)
  BY <1>1, <1>2, <1>3 DEF Service!HalfClose, Put
<1> QED
  BY <1>4 DEF Service!Next

(* ... replies delivered, ...                                               *)
LEMMA ServiceDelivers ==
    ASSUME NEW p \in Peers, OthersKeep(p), NEW n \in 1..Len(Outbox(p)),
           Outbox(p)' = SubSeq(Outbox(p), n + 1, Len(Outbox(p))),
           Inbox(p)' = Inbox(p), Status(p)' = Status(p), store' = store
    PROVE  Service!Next
<1>1. Outboxes[p] = Outbox(p)
  BY SeenOf
<1>2. Outboxes' = Put(Outboxes, p, SubSeq(Outboxes[p], n + 1, Len(Outboxes[p])))
  BY <1>1, OutboxPut
<1>3. \E m \in 1..Len(Outboxes[p]) :
         Outboxes' = [Outboxes EXCEPT ![p] = SubSeq(@, m + 1, Len(@))]
  <2>1. n \in 1..Len(Outboxes[p])
    BY <1>1
  <2> WITNESS n \in 1..Len(Outboxes[p])
  <2> QED
    BY <1>2 DEF Put
<1>4. Statuses' = Statuses /\ Inboxes' = Inboxes
  BY KeptWhole
<1>5. Service!Receive(p)
  BY <1>3, <1>4 DEF Service!Receive
<1> QED
  BY <1>5 DEF Service!Next

(* ... an incomplete line dropped at the end of the stream, ...             *)
LEMMA ServiceDropsTail ==
    ASSUME NEW p \in Peers, OthersKeep(p), Status(p) # "open", ~HasNewline(Inbox(p), 0),
           Inbox(p)' = <<>>, Outbox(p)' = Outbox(p), Status(p)' = Status(p), store' = store
    PROVE  Service!Next
<1>1. Inboxes[p] = Inbox(p) /\ Statuses[p] # "open"
  BY SeenOf
<1>2. ~Service!HasNewline(Inboxes[p], 0)
  BY <1>1, SameProtocol
<1>3. Inboxes' = Put(Inboxes, p, <<>>)
  BY InboxPut
<1>4. Outboxes' = Outboxes /\ Statuses' = Statuses
  BY KeptWhole
<1>5. Service!DropTail(p)
  BY <1>1, <1>2, <1>3, <1>4 DEF Service!DropTail, Put
<1> QED
  BY <1>5 DEF Service!Next

(* ... and the loss of the client.                                          *)
LEMMA ServiceLoses ==
    ASSUME NEW p \in Peers, OthersKeep(p), Status(p)' = "lost",
           NEW m \in 0..Len(Inbox(p)), NEW n \in 0..Len(Outbox(p)),
           Inbox(p)' = SubSeq(Inbox(p), 1, m), Outbox(p)' = SubSeq(Outbox(p), 1, n),
           store' = store
    PROVE  Service!Next
<1>1. Inboxes[p] = Inbox(p) /\ Outboxes[p] = Outbox(p)
  BY SeenOf
<1>2. PICK i, o : i = SubSeq(Inbox(p), 1, m) /\ o = SubSeq(Outbox(p), 1, n)
  OBVIOUS
<1>3. i \in Service!Prefixes(Inboxes[p]) /\ o \in Service!Prefixes(Outboxes[p])
  BY <1>1, <1>2 DEF Service!Prefixes
<1>4. Inboxes' = Put(Inboxes, p, i)
  BY <1>2, InboxPut
<1>5. Outboxes' = Put(Outboxes, p, o)
  BY <1>2, OutboxPut
<1>6. Statuses' = Put(Statuses, p, "lost")
  BY StatusPut
<1>7. \E s \in Service!Prefixes(Inboxes[p]) : Inboxes' = [Inboxes EXCEPT ![p] = s]
  <2> USE <1>3
  <2> WITNESS i \in Service!Prefixes(Inboxes[p])
  <2> QED
    BY <1>4 DEF Put
<1>8. \E s \in Service!Prefixes(Outboxes[p]) : Outboxes' = [Outboxes EXCEPT ![p] = s]
  <2> USE <1>3
  <2> WITNESS o \in Service!Prefixes(Outboxes[p])
  <2> QED
    BY <1>5 DEF Put
<1>9. Service!Lose(p)
  BY <1>6, <1>7, <1>8 DEF Service!Lose, Put
<1> QED
  BY <1>9 DEF Service!Next
-----------------------------------------------------------------------------
(* ConnectionOf, for any two tables.                                        *)
FdsIn(cl, fi, p) == {fd \in DOMAIN cl : fi[fd] = p}

ConnIn(cl, fi, p) ==
    IF FdsIn(cl, fi, p) = {} THEN NewConnection
    ELSE cl[CHOOSE fd \in FdsIn(cl, fi, p) : TRUE].conn

(* It is what the tables hold before and after a step.                      *)
LEMMA ConnForms ==
    ASSUME NEW p
    PROVE  /\ ConnectionOf(p) = ConnIn(clients, file, p)
           /\ ConnectionOf(p)' = ConnIn(clients', file', p)
  BY DEF ConnectionOf, EntryOf, ConnIn, FdsIn

(* The same descriptors with the same connections.                          *)
LEMMA SameConn ==
    ASSUME NEW cl, NEW fi, NEW dl, NEW gi, NEW p, FdsIn(dl, gi, p) = FdsIn(cl, fi, p),
           \A fd \in FdsIn(cl, fi, p) : dl[fd].conn = cl[fd].conn
    PROVE  ConnIn(dl, gi, p) = ConnIn(cl, fi, p)
<1>1. PICK S : S = FdsIn(cl, fi, p)
  OBVIOUS
<1>2. CASE S = {}
  BY <1>1, <1>2 DEF ConnIn
<1>3. CASE S # {}
  <2>1. PICK x : x = CHOOSE fd \in S : TRUE
    OBVIOUS
  <2>2. x \in S
    BY <1>3, <2>1
  <2>3. ConnIn(cl, fi, p) = cl[x].conn /\ ConnIn(dl, gi, p) = dl[x].conn
    BY <1>1, <1>3, <2>1 DEF ConnIn
  <2> QED
    BY <1>1, <2>2, <2>3
<1> QED
  BY <1>2, <1>3

(* The only descriptor of a peer.                                           *)
LEMMA OneConn ==
    ASSUME NEW cl, NEW fi, NEW p, NEW fd, FdsIn(cl, fi, p) = {fd}
    PROVE  ConnIn(cl, fi, p) = cl[fd].conn
<1>1. PICK x : x = CHOOSE g \in FdsIn(cl, fi, p) : TRUE
  OBVIOUS
<1>2. x = fd
  BY <1>1
<1> QED
  BY <1>1, <1>2 DEF ConnIn

(* A peer without a descriptor.                                             *)
LEMMA NoConn ==
    ASSUME NEW cl, NEW fi, NEW p, FdsIn(cl, fi, p) = {}
    PROVE  ConnIn(cl, fi, p) = NewConnection
  BY DEF ConnIn

(* In every state a client's descriptor refers to an open connection, no
   two to the same one, and what is queued is not accepted yet.             *)
Seats ==
    /\ \A fd \in DOMAIN clients : sock[file[fd]].state = "open"
    /\ \A fd, gd \in DOMAIN clients : file[fd] = file[gd] => fd = gd
    /\ \A i \in 1..Len(queue) : sock[queue[i]].state = "queued"
    /\ \A i, j \in 1..Len(queue) : queue[i] = queue[j] => i = j

(* EOF was read behind everything the peer has sent.                        *)
Ended ==
    \A fd \in DOMAIN clients :
        clients[fd].conn.read_eof = TRUE =>
            sock[file[fd]].fin = TRUE /\ sock[file[fd]].rx = <<>>

(* A connection the server has closed holds nothing it has not read, and
   one it has closed in good order had ended.                               *)
Gone ==
    \A p \in Peers :
        /\ sock[p].state \in {"closed", "lost"} => sock[p].rx = <<>>
        /\ sock[p].state = "closed" => sock[p].fin = TRUE

Streams == Seats /\ Ended /\ Gone

(* The connections of the peers when no entry comes or goes.                *)
LEMMA SameConns ==
    ASSUME DOMAIN clients' = DOMAIN clients,
           \A fd \in DOMAIN clients : file'[fd] = file[fd] /\ clients'[fd].conn = clients[fd].conn
    PROVE  \A q : ConnectionOf(q)' = ConnectionOf(q)
<1> SUFFICES ASSUME NEW q PROVE ConnectionOf(q)' = ConnectionOf(q)
  OBVIOUS
<1>1. FdsIn(clients', file', q) = FdsIn(clients, file, q)
  BY DEF FdsIn
<1>2. \A fd \in FdsIn(clients, file, q) : clients'[fd].conn = clients[fd].conn
  BY DEF FdsIn
<1> QED
  BY <1>1, <1>2, SameConn, ConnForms

(* The connections when one entry changes.                                  *)
LEMMA VisitConns ==
    ASSUME Seats, NEW fd \in DOMAIN clients, NEW p, p = file[fd],
           DOMAIN clients' = DOMAIN clients, file' = file,
           \A g \in DOMAIN clients \ {fd} : clients'[g] = clients[g]
    PROVE  /\ ConnectionOf(p) = clients[fd].conn /\ ConnectionOf(p)' = clients'[fd].conn
           /\ \A q \in Peers \ {p} : ConnectionOf(q)' = ConnectionOf(q)
<1>1. FdsIn(clients, file, p) = {fd} /\ FdsIn(clients', file', p) = {fd}
  BY DEF Seats, FdsIn
<1>2. ConnectionOf(p) = clients[fd].conn /\ ConnectionOf(p)' = clients'[fd].conn
  BY <1>1, OneConn, ConnForms
<1>3. ASSUME NEW q \in Peers \ {p} PROVE ConnectionOf(q)' = ConnectionOf(q)
  <2>1. FdsIn(clients', file', q) = FdsIn(clients, file, q)
    BY DEF FdsIn
  <2>2. \A g \in FdsIn(clients, file, q) : clients'[g].conn = clients[g].conn
    BY <1>3 DEF FdsIn
  <2> QED
    BY <2>1, <2>2, SameConn, ConnForms
<1> QED
  BY <1>2, <1>3

(* The connections when an entry goes.                                      *)
LEMMA GoneConns ==
    ASSUME Seats, NEW fd \in DOMAIN clients, NEW p, p = file[fd],
           DOMAIN clients \subseteq DOMAIN file,
           clients' = erased(clients, fd), file' = erased(file, fd)
    PROVE  /\ ConnectionOf(p) = clients[fd].conn /\ ConnectionOf(p)' = NewConnection
           /\ \A q \in Peers \ {p} : ConnectionOf(q)' = ConnectionOf(q)
<1>1. /\ DOMAIN clients' = DOMAIN clients \ {fd}
      /\ \A g \in DOMAIN clients \ {fd} : clients'[g] = clients[g]
      /\ \A g \in DOMAIN file \ {fd} : file'[g] = file[g]
  BY ErasedDomain
<1>2. \A g \in DOMAIN clients' : file'[g] = file[g]
  BY <1>1
<1>3. FdsIn(clients, file, p) = {fd} /\ FdsIn(clients', file', p) = {}
  BY <1>1, <1>2 DEF Seats, FdsIn
<1>4. ConnectionOf(p) = clients[fd].conn /\ ConnectionOf(p)' = NewConnection
  BY <1>3, OneConn, NoConn, ConnForms
<1>5. ASSUME NEW q \in Peers \ {p} PROVE ConnectionOf(q)' = ConnectionOf(q)
  <2>1. FdsIn(clients', file', q) = FdsIn(clients, file, q)
    BY <1>1, <1>2, <1>5 DEF FdsIn
  <2>2. \A g \in FdsIn(clients, file, q) : clients'[g].conn = clients[g].conn
    BY <1>1, <1>5 DEF FdsIn
  <2> QED
    BY <2>1, <2>2, SameConn, ConnForms
<1> QED
  BY <1>4, <1>5

(* The connections when an entry comes.                                     *)
LEMMA NewConns ==
    ASSUME NEW n, n \notin DOMAIN clients, NEW p, p = file[n],
           \A fd \in DOMAIN clients : file[fd] # p, NEW e, e.conn = NewConnection,
           clients' = set(clients, n, e), file' = file
    PROVE  \A q : ConnectionOf(q)' = ConnectionOf(q)
<1>1. /\ DOMAIN clients' = DOMAIN clients \cup {n} /\ clients'[n] = e
      /\ \A g \in DOMAIN clients : clients'[g] = clients[g]
  BY DEF set
<1>2. FdsIn(clients, file, p) = {} /\ FdsIn(clients', file', p) = {n}
  BY <1>1 DEF FdsIn
<1>3. ConnectionOf(p) = NewConnection /\ ConnectionOf(p)' = NewConnection
  BY <1>1, <1>2, OneConn, NoConn, ConnForms
<1>4. ASSUME NEW q, q # p PROVE ConnectionOf(q)' = ConnectionOf(q)
  <2>1. FdsIn(clients', file', q) = FdsIn(clients, file, q)
    BY <1>1, <1>4 DEF FdsIn
  <2>2. \A g \in FdsIn(clients, file, q) : clients'[g].conn = clients[g].conn
    BY <1>1 DEF FdsIn
  <2> QED
    BY <2>1, <2>2, SameConn, ConnForms
<1> QED
  BY <1>3, <1>4

(* What is untouched is seen as before.                                     *)
LEMMA Untouched ==
    ASSUME NEW q, ConnectionOf(q)' = ConnectionOf(q), sock'[q] = sock[q]
    PROVE  Inbox(q)' = Inbox(q) /\ Outbox(q)' = Outbox(q) /\ Status(q)' = Status(q)
  BY DEF Inbox, Outbox, Status, LostPeer

(* EOF stays behind the end of the stream.                                  *)
LEMMA EndedKept ==
    ASSUME Ended,
           \A g \in DOMAIN clients' :
              \/ clients'[g].conn.read_eof = FALSE
              \/ /\ g \in DOMAIN clients /\ file'[g] = file[g]
                 /\ clients'[g].conn.read_eof = clients[g].conn.read_eof
                 /\ sock'[file[g]].fin \in {sock[file[g]].fin, TRUE}
                 /\ sock'[file[g]].rx \in {sock[file[g]].rx, <<>>}
    PROVE  Ended'
  BY DEF Ended

(* What the service sees is bytes.                                          *)
LEMMA SeenBytes ==
    ASSUME Data, NEW p \in Peers
    PROVE  /\ Sound(ConnectionOf(p)) /\ Socket(sock[p])
           /\ sock[p].rx \in Seq(Byte) /\ sock[p].tx \in Seq(Byte)
           /\ pending_input(ConnectionOf(p)) \in Seq(Byte)
           /\ pending_output(ConnectionOf(p)) \in Seq(Byte)
           /\ Inbox(p) \in Seq(Byte) /\ Outbox(p) \in Seq(Byte)
<1>1. Sound(ConnectionOf(p))
  <2>1. CASE EntryOf(p) = {}
    BY <2>1, NewConnectionSound DEF ConnectionOf
  <2>2. CASE EntryOf(p) # {}
    <3>1. PICK fd : fd = CHOOSE g \in EntryOf(p) : TRUE
      OBVIOUS
    <3>2. fd \in DOMAIN clients
      BY <2>2, <3>1 DEF EntryOf
    <3>3. ConnectionOf(p) = clients[fd].conn
      BY <2>2, <3>1 DEF ConnectionOf
    <3> QED
      BY <3>2, <3>3 DEF Data, Entries, Entry
  <2> QED
    BY <2>1, <2>2
<1>2. Socket(sock[p]) /\ sock[p].rx \in Seq(Byte) /\ sock[p].tx \in Seq(Byte)
  BY DEF Data, Sockets, Socket
<1>3. /\ pending_input(ConnectionOf(p)) \in Seq(Byte)
      /\ pending_output(ConnectionOf(p)) \in Seq(Byte)
  BY <1>1, PendingBytes
<1>4. Inbox(p) \in Seq(Byte)
  BY <1>2, <1>3, ConcatProperties DEF Inbox
<1>5. Outbox(p) \in Seq(Byte)
  BY <1>2, <1>3, ConcatProperties DEF Outbox
<1> QED
  BY <1>1, <1>2, <1>3, <1>4, <1>5

(* A new connection holds nothing.                                          *)
LEMMA NothingPending == pending_input(NewConnection) = <<>> /\ pending_output(NewConnection) = <<>>
<1>1. Sound(NewConnection) /\ pending_output_bytes(NewConnection) = 0
  BY NewConnectionSound DEF has_pending_output
<1>2. pending_input_bytes(NewConnection) = 0
  BY EmptySeq DEF NewConnection, pending_input_bytes
<1> QED
  BY <1>1, <1>2, PendingBytes

-----------------------------------------------------------------------------
(* Steps that move nothing.                                                 *)
LEMMA QuietSeen ==
    ASSUME Ended, UNCHANGED <<store, sock>>, DOMAIN clients' = DOMAIN clients,
           \A fd \in DOMAIN clients : file'[fd] = file[fd] /\ clients'[fd].conn = clients[fd].conn
    PROVE  NothingSeen /\ Ended'
<1>1. \A q : ConnectionOf(q)' = ConnectionOf(q)
  BY SameConns
<1>2. NothingSeen
  BY <1>1, Untouched DEF NothingSeen
<1>3. Ended'
  BY EndedKept
<1> QED
  BY <1>2, <1>3

(* A client that is given up loses the end of its streams.                  *)
LEMMA GivenUp ==
    ASSUME Data, NEW p \in Peers, OthersKeep(p), ConnectionOf(p)' = NewConnection,
           NEW t \in Seq(Byte), NEW rest \in Seq(Byte), Outbox(p) = t \o rest,
           Shut(p, "lost", t), store' = store
    PROVE  Service!Next
<1>1. PICK kept \in (IF sock[p].rx = <<>> THEN {Len(t)} ELSE 0..Len(t)) :
        sock' = [sock EXCEPT ![p] = [@ EXCEPT !.state = "lost", !.rx = <<>>,
                                              !.tx = SubSeq(t, 1, kept)]]
  BY Zenon DEF Shut
<1>2. Len(t) \in Nat /\ kept \in 0..Len(t) /\ kept \in Nat /\ kept <= Len(t)
  BY <1>1, LenProperties
<1>3. PICK u : u = SubSeq(t, 1, kept)
  OBVIOUS
<1>4. sock'[p].state = "lost" /\ sock'[p].rx = <<>> /\ sock'[p].tx = u
  BY <1>1, <1>3 DEF Data, Sockets, Socket
<1>5. Inbox(p) \in Seq(Byte) /\ Outbox(p) \in Seq(Byte)
  BY SeenBytes
<1>6. Inbox(p)' = <<>> \o <<>>
  BY <1>4, NothingPending DEF Inbox
<1>7. Inbox(p)' = SubSeq(Inbox(p), 1, 0) /\ 0 \in 0..Len(Inbox(p))
  <2>1. <<>> \o <<>> = <<>>
    BY EmptySeq, ConcatEmptySeq
  <2>2. SubSeq(Inbox(p), 1, 0) = <<>> /\ Len(Inbox(p)) \in Nat
    BY <1>5, SubSeqEmpty, LenProperties
  <2> QED
    BY <1>6, <2>1, <2>2
<1>8. LostPeer(p)'
  BY <1>4 DEF LostPeer
<1>9. Status(p)' = "lost" /\ Outbox(p)' = u
  BY <1>4, <1>8 DEF Status, Outbox
<1>10. SubSeq(t \o rest, 1, kept) = SubSeq(t, 1, kept)
  BY <1>2, PrefixOfConcat
<1>11. Len(t \o rest) = Len(t) + Len(rest) /\ Len(rest) \in Nat
  BY ConcatProperties, LenProperties
<1>12. kept \in 0..Len(Outbox(p)) /\ Outbox(p)' = SubSeq(Outbox(p), 1, kept)
  BY <1>2, <1>3, <1>9, <1>10, <1>11
<1> QED
  BY <1>7, <1>9, <1>12, ServiceLoses

(* close changes one socket.                                                *)
LEMMA ShutOne ==
    ASSUME Data, NEW p \in Peers, NEW state, NEW t, Shut(p, state, t)
    PROVE  /\ \A q \in Peers \ {p} : sock'[q] = sock[q]
           /\ sock'[p].fin = sock[p].fin /\ sock'[p].rx = <<>> /\ sock'[p].rst = sock[p].rst
<1>1. PICK kept : sock' = [sock EXCEPT ![p] = [@ EXCEPT !.state = state, !.rx = <<>>,
                                                        !.tx = SubSeq(t, 1, kept)]]
  BY Zenon DEF Shut
<1> QED
  BY <1>1 DEF Data, Sockets, Socket

(* Retiring a client touches no other one.                                  *)
LEMMA RetireKeeps ==
    ASSUME Inv, Data, Streams, NEW fd \in DOMAIN clients, NEW p, p = file[fd],
           NEW state, NEW t, clients' = erased(clients, fd), close(fd, state, t)
    PROVE  /\ p \in Peers /\ Shut(p, state, t) /\ OthersKeep(p) /\ Ended'
           /\ ConnectionOf(p) = clients[fd].conn /\ ConnectionOf(p)' = NewConnection
<1>1. p \in Peers /\ Shut(p, state, t) /\ file' = erased(file, fd)
  BY DEF close, Data, Tables
<1>2. \A q \in Peers \ {p} : sock'[q] = sock[q]
  BY <1>1, ShutOne
<1>3. DOMAIN clients \subseteq DOMAIN file
  BY DEF Inv, Owned
<1>4. /\ ConnectionOf(p) = clients[fd].conn /\ ConnectionOf(p)' = NewConnection
      /\ \A q \in Peers \ {p} : ConnectionOf(q)' = ConnectionOf(q)
  BY <1>1, <1>3, GoneConns DEF Streams
<1>5. OthersKeep(p)
  BY <1>2, <1>4, Untouched DEF OthersKeep
<1>6. Ended'
  <2>1. /\ DOMAIN clients' = DOMAIN clients \ {fd}
        /\ \A g \in DOMAIN clients \ {fd} : clients'[g] = clients[g]
        /\ \A g \in DOMAIN file \ {fd} : file'[g] = file[g]
    BY <1>1, ErasedDomain
  <2>2. \A g \in DOMAIN clients \ {fd} : file[g] \in Peers \ {p}
    BY DEF Streams, Seats, Data, Tables
  <2>3. \A g \in DOMAIN clients' : sock'[file[g]] = sock[file[g]]
    BY <1>2, <2>1, <2>2
  <2> QED
    BY <1>3, <2>1, <2>3, EndedKept DEF Streams
<1> QED
  BY <1>1, <1>4, <1>5, <1>6

(* A client retired without its answers is lost.                            *)
LEMMA RetireSeen ==
    ASSUME Inv, Data, Streams, NEW fd \in DOMAIN clients, NEW p, p = file[fd],
           NEW t \in Seq(Byte), NEW rest \in Seq(Byte), Outbox(p) = t \o rest,
           clients' = erased(clients, fd), close(fd, "lost", t), store' = store
    PROVE  Service!Next /\ Ended'
<1>1. /\ p \in Peers /\ Shut(p, "lost", t) /\ OthersKeep(p) /\ Ended'
      /\ ConnectionOf(p)' = NewConnection
  BY RetireKeeps
<1> QED
  BY <1>1, GivenUp

(* Most often nothing is handed over at the end.                            *)
LEMMA DropSeen ==
    ASSUME Inv, Data, Streams, NEW fd \in DOMAIN clients,
           clients' = erased(clients, fd), close(fd, "lost", sock[file[fd]].tx), store' = store
    PROVE  Service!Next /\ Ended'
<1>1. PICK p, t : p = file[fd] /\ t = sock[p].tx
  OBVIOUS
<1>2. p \in Peers
  BY <1>1 DEF Data, Tables
<1>3. t \in Seq(Byte) /\ pending_output(ConnectionOf(p)) \in Seq(Byte)
  BY <1>1, <1>2, SeenBytes
<1>4. \E rest \in Seq(Byte) : Outbox(p) = t \o rest
  <2>1. CASE LostPeer(p)
    <3>1. <<>> \in Seq(Byte) /\ t \o <<>> = t
      BY <1>3, EmptySeq, ConcatEmptySeq
    <3> QED
      BY <1>1, <2>1, <3>1 DEF Outbox
  <2>2. CASE ~LostPeer(p)
    BY <1>1, <1>3, <2>2 DEF Outbox
  <2> QED
    BY <2>1, <2>2
<1>5. PICK rest \in Seq(Byte) : Outbox(p) = t \o rest
  BY <1>4
<1>6. close(fd, "lost", t)
  BY <1>1
<1> QED
  BY <1>1, <1>3, <1>5, <1>6, RetireSeen

(* Startup is not seen.                                                     *)
LEMMA StartSeen == ASSUME Inv, Ended, Start PROVE NothingSeen /\ Ended'
<1>1. main.pc \in Starting /\ UNCHANGED <<clients, store, sock>>
  BY DEF Start, create_socket, ConfigureListener, CreatePoller, RegisterListener, StartupFails,
      Starting
<1>2. DOMAIN clients = {}
  BY <1>1 DEF Inv, Fresh
<1> QED
  BY <1>1, <1>2, QuietSeen

(* A queued connection has no entry.                                        *)
LEMMA QueuedPeer ==
    ASSUME Data, Streams, queue # <<>>
    PROVE  /\ Head(queue) \in Peers /\ sock[Head(queue)].state = "queued"
           /\ \A fd \in DOMAIN clients : file[fd] # Head(queue)
<1>1. queue \in Seq(Peers)
  BY DEF Data, Tables
<1>2. Len(queue) \in Nat /\ Len(queue) # 0
  BY <1>1, LenProperties, EmptySeq
<1>3. Head(queue) = queue[1] /\ 1 \in 1..Len(queue)
  BY <1>1, <1>2, HeadTailProperties
<1>4. Head(queue) \in Peers
  BY QueueHead
<1>5. sock[Head(queue)].state = "queued"
  BY <1>3 DEF Streams, Seats
<1> QED
  BY <1>4, <1>5 DEF Streams, Seats

(* A connection without an entry that is closed is lost.                    *)
LEMMA LeftSeen ==
    ASSUME Data, Streams, NEW p \in Peers, Shut(p, "lost", <<>>),
           \A fd \in DOMAIN clients : file[fd] # p /\ file'[fd] = file[fd],
           UNCHANGED <<clients, store>>
    PROVE  Service!Next /\ Ended'
<1>1. \A q \in Peers \ {p} : sock'[q] = sock[q]
  BY ShutOne
<1>2. \A q : ConnectionOf(q)' = ConnectionOf(q)
  BY SameConns
<1>3. OthersKeep(p)
  BY <1>1, <1>2, Untouched DEF OthersKeep
<1>4. FdsIn(clients, file, p) = {}
  BY DEF FdsIn
<1>5. ConnectionOf(p)' = NewConnection
  BY <1>2, <1>4, NoConn, ConnForms
<1>6. PICK o : o = Outbox(p)
  OBVIOUS
<1>7. o \in Seq(Byte) /\ <<>> \in Seq(Byte) /\ <<>> \o o = o
  BY <1>6, SeenBytes, EmptySeq, ConcatEmptySeq
<1>8. Service!Next
  BY <1>3, <1>5, <1>6, <1>7, GivenUp
<1>9. \A g \in DOMAIN clients : sock'[file[g]] = sock[file[g]]
  BY <1>1 DEF Data, Tables
<1>10. Ended'
  BY <1>9, EndedKept DEF Streams
<1> QED
  BY <1>8, <1>10

(* So is one that leaves the queue unanswered.                              *)
LEMMA RefuseSeen ==
    ASSUME Data, Streams, queue # <<>>, Shut(Head(queue), "lost", <<>>),
           UNCHANGED <<clients, file, store>>
    PROVE  Service!Next /\ Ended'
<1>1. PICK p : p = Head(queue)
  OBVIOUS
<1>2. p \in Peers /\ \A fd \in DOMAIN clients : file[fd] # p
  BY <1>1, QueuedPeer
<1>3. Shut(p, "lost", <<>>)
  BY <1>1
<1> QED
  BY <1>2, <1>3, LeftSeen

(* The end of main is the loss of every client that is left.                *)
LEMMA UnwindSeen ==
    ASSUME Inv, Data, Streams, Unwind
    PROVE  (Service!Next \/ NothingSeen) /\ Ended'
<1>0. UNCHANGED store /\ DOMAIN clients \subseteq DOMAIN file
      /\ main.listener \notin DOMAIN clients
  BY DEF Unwind, Inv, Owned
<1>1. ASSUME NEW fd \in DOMAIN clients, clients' = erased(clients, fd),
             close(fd, "lost", sock[file[fd]].tx)
      PROVE  Service!Next /\ Ended'
  BY <1>0, <1>1, DropSeen
<1>2. ASSUME DOMAIN clients = {}, UNCHANGED <<clients, sock>>
      PROVE  NothingSeen /\ Ended'
  BY <1>0, <1>2, QuietSeen DEF Streams
<1>3. ASSUME queue # <<>>, Shut(Head(queue), "lost", <<>>), UNCHANGED <<clients, file>>
      PROVE  Service!Next /\ Ended'
  BY <1>0, <1>3, RefuseSeen
<1>4. ASSUME file' = erased(file, main.listener), UNCHANGED <<clients, sock>>
      PROVE  NothingSeen /\ Ended'
  <2>1. \A fd \in DOMAIN clients : file'[fd] = file[fd]
    BY <1>0, <1>4, ErasedDomain
  <2> QED
    BY <1>0, <1>4, <2>1, QuietSeen DEF Streams
<1> QED
  BY <1>1, <1>2, <1>3, <1>4 DEF Unwind

(* One entry changes, and neither its pending bytes nor its EOF.            *)
LEMMA EntrySeen ==
    ASSUME Data, Streams, NEW fd \in DOMAIN clients, UNCHANGED <<store, file, sock>>,
           DOMAIN clients' = DOMAIN clients,
           \A g \in DOMAIN clients \ {fd} : clients'[g] = clients[g],
           pending_input(clients'[fd].conn) = pending_input(clients[fd].conn),
           pending_output(clients'[fd].conn) = pending_output(clients[fd].conn),
           clients'[fd].conn.read_eof = clients[fd].conn.read_eof
    PROVE  NothingSeen /\ Ended'
<1>1. PICK p : p = file[fd]
  OBVIOUS
<1>2. /\ ConnectionOf(p) = clients[fd].conn /\ ConnectionOf(p)' = clients'[fd].conn
      /\ \A q \in Peers \ {p} : ConnectionOf(q)' = ConnectionOf(q)
  BY <1>1, VisitConns DEF Streams
<1>3. Inbox(p)' = Inbox(p) /\ Outbox(p)' = Outbox(p) /\ Status(p)' = Status(p)
  BY <1>2 DEF Inbox, Outbox, Status, LostPeer
<1>4. NothingSeen
  BY <1>2, <1>3, Untouched DEF NothingSeen
<1>5. Ended'
  BY EndedKept DEF Streams
<1> QED
  BY <1>4, <1>5

(* The scan drops the clients whose time is up, and begins visits.          *)
LEMMA ScanSeen ==
    ASSUME Inv, Data, Streams, Scan
    PROVE  (Service!Next \/ NothingSeen) /\ Ended'
<1>1. ASSUME NEW fd \in Fd, ScanExpired(fd) PROVE Service!Next /\ Ended'
  <2>1. fd \in DOMAIN clients
    BY <1>1 DEF ScanExpired, Scanning, Inv, Iterators
  <2> QED
    BY <1>1, <2>1, DropSeen DEF ScanExpired, retire_client
<1>2. ASSUME NEW fd \in Fd, ScanRunnable(fd) PROVE NothingSeen /\ Ended'
  <2>1. fd \in DOMAIN clients /\ UNCHANGED <<store, file, sock>>
    BY <1>2 DEF ScanRunnable, Scanning, Inv, Iterators
  <2>2. Entry(clients[fd])
    BY <2>1 DEF Data, Entries
  <2>3. PICK c, b : c = clients[fd].conn /\ b = begin_processing(c)
    OBVIOUS
  <2>4. clients' = [clients EXCEPT ![fd].conn = b]
    BY <1>2, <2>3 DEF ScanRunnable
  <2>5. /\ DOMAIN clients' = DOMAIN clients /\ clients'[fd].conn = b
        /\ \A g \in DOMAIN clients \ {fd} : clients'[g] = clients[g]
    BY <2>1, <2>2, <2>4 DEF Entry
  <2>6. Sound(c)
    BY <2>2, <2>3 DEF Entry
  <2>7. pending_input(b) = pending_input(c) /\ pending_output(b) = pending_output(c)
    BY <2>3, <2>6, SamePending
  <2>8. b.read_eof = c.read_eof
    BY <2>3, <2>6, BeginFacts
  <2> QED
    BY <2>1, <2>3, <2>5, <2>7, <2>8, EntrySeen
<1>3. ASSUME UNCHANGED <<clients, store, file, sock>> PROVE NothingSeen /\ Ended'
  BY <1>3, QuietSeen DEF Streams
<1>4. ASSUME NEW fd \in Fd, ScanQuiet(fd) PROVE NothingSeen /\ Ended'
  BY <1>3, <1>4 DEF ScanQuiet
<1>5. CASE ScanEnd
  BY <1>3, <1>5 DEF ScanEnd
<1> QED
  BY <1>1, <1>2, <1>4, <1>5 DEF Scan

(* A wait lets time pass.                                                   *)
LEMMA WaitSeen == ASSUME Data, Streams, Wait PROVE NothingSeen /\ Ended'
<1>1. UNCHANGED <<store, file, sock>> /\ (LetPass \/ UNCHANGED clients)
  BY DEF Wait, WaitNothing, WaitFails, WaitEvent
<1>2. CASE LetPass
  <2>1. PICK ticks : clients' = [fd \in DOMAIN clients |->
                        [clients[fd] EXCEPT !.idle = Lesser(@ + ticks, kIdleTimeout)]]
    BY <1>2, Zenon DEF LetPass
  <2>2. DOMAIN clients' = DOMAIN clients
    BY <2>1
  <2>3. ASSUME NEW fd \in DOMAIN clients PROVE clients'[fd].conn = clients[fd].conn
    BY <2>1 DEF Data, Entries, Entry
  <2> QED
    BY <1>1, <2>2, <2>3, QuietSeen DEF Streams
<1>3. CASE UNCHANGED clients
  BY <1>1, <1>3, QuietSeen DEF Streams
<1> QED
  BY <1>1, <1>2, <1>3

(* A broken connection is lost; other events are dispatched unseen.         *)
LEMMA DispatchSeen ==
    ASSUME Inv, Data, Streams, Dispatch
    PROVE  (Service!Next \/ NothingSeen) /\ Ended'
<1>1. CASE DispatchBroken
  <2>1. PICK fd \in DOMAIN clients : retire_client(fd, "lost", sock[file[fd]].tx)
    BY <1>1 DEF DispatchBroken
  <2> QED
    BY <2>1, DropSeen DEF retire_client
<1>2. CASE DispatchClient \/ DispatchListener
  <2>1. UNCHANGED <<clients, store, file, sock>>
    BY <1>2 DEF DispatchClient, DispatchListener
  <2> QED
    BY <2>1, QuietSeen DEF Streams
<1> QED
  BY <1>1, <1>2 DEF Dispatch

(* What accept has returned is an open connection that has no entry yet.    *)
LEMMA ArrivedPeer ==
    ASSUME Inv, Watch, main.pc = "accepted"
    PROVE  /\ file[main.fd] \in Peers /\ sock[file[main.fd]].state = "open"
           /\ main.fd \notin DOMAIN clients /\ DOMAIN clients \subseteq DOMAIN file
           /\ \A fd \in DOMAIN clients : file[fd] # file[main.fd]
<1>1. Incoming
  BY DEF Watch, InLoop
<1>2. main.fd \notin DOMAIN clients /\ DOMAIN clients \subseteq DOMAIN file
  BY DEF Inv, Owned
<1> QED
  BY <1>1, <1>2 DEF Incoming

(* Accepting a connection changes nothing that its client can see.          *)
LEMMA AcceptReturnsSeen ==
    ASSUME Inv, Data, Streams, AcceptReturns PROVE NothingSeen /\ Ended'
<1>1. PICK n, p : n = Lowest /\ p = Head(queue)
  OBVIOUS
<1>2. /\ queue # <<>> /\ Free # {} /\ file' = set(file, n, p)
      /\ sock' = [sock EXCEPT ![p].state = "open"] /\ UNCHANGED <<clients, store>>
  BY <1>1 DEF AcceptReturns
<1>3. p \in Peers /\ sock[p].state = "queued" /\ \A fd \in DOMAIN clients : file[fd] # p
  BY <1>1, <1>2, QueuedPeer
<1>4. n \notin DOMAIN file /\ DOMAIN clients \subseteq DOMAIN file
  BY <1>1, <1>2, FreshNumber DEF Inv, Owned
<1>5. \A fd \in DOMAIN clients : file'[fd] = file[fd]
  BY <1>2, <1>4 DEF set
<1>6. \A q : ConnectionOf(q)' = ConnectionOf(q)
  BY <1>2, <1>5, SameConns
<1>7. /\ \A q \in Peers \ {p} : sock'[q] = sock[q]
      /\ sock'[p].rx = sock[p].rx /\ sock'[p].tx = sock[p].tx /\ sock'[p].fin = sock[p].fin
      /\ sock'[p].rst = sock[p].rst /\ sock'[p].state = "open"
  BY <1>2, <1>3 DEF Data, Sockets, Socket
<1>8. Inbox(p)' = Inbox(p) /\ Outbox(p)' = Outbox(p) /\ Status(p)' = Status(p)
  <2>1. LostPeer(p)' = LostPeer(p)
    BY <1>3, <1>7 DEF LostPeer
  <2> QED
    BY <1>6, <1>7, <2>1 DEF Inbox, Outbox, Status
<1>9. NothingSeen
  BY <1>2, <1>6, <1>7, <1>8, Untouched DEF NothingSeen
<1>10. \A g \in DOMAIN clients : sock'[file[g]] = sock[file[g]]
  BY <1>3, <1>7 DEF Data, Tables
<1>11. Ended'
  BY <1>2, <1>5, <1>10, EndedKept DEF Streams
<1> QED
  BY <1>9, <1>11

(* Nor does the entry it gets.                                              *)
LEMMA AcceptEmplacesSeen ==
    ASSUME Inv, Watch, Data, Streams, AcceptEmplaces PROVE NothingSeen /\ Ended'
<1>1. PICK n, p, e : n = main.fd /\ p = file[main.fd] /\ e = [conn |-> NewConnection, idle |-> 0]
  OBVIOUS
<1>2. /\ p \in Peers /\ sock[p].state = "open" /\ n \notin DOMAIN clients
      /\ \A fd \in DOMAIN clients : file[fd] # p
  BY <1>1, ArrivedPeer DEF AcceptEmplaces
<1>3. /\ clients' = set(clients, n, e) /\ sock' = [sock EXCEPT ![p].nonblocking = TRUE]
      /\ UNCHANGED <<store, file>>
  BY <1>1, <1>2 DEF AcceptEmplaces, set_nonblocking
<1>4. e.conn = NewConnection
  BY <1>1
<1>5. \A q : ConnectionOf(q)' = ConnectionOf(q)
  BY <1>1, <1>2, <1>3, <1>4, NewConns
<1>6. /\ \A q \in Peers \ {p} : sock'[q] = sock[q]
      /\ sock'[p].rx = sock[p].rx /\ sock'[p].tx = sock[p].tx /\ sock'[p].fin = sock[p].fin
      /\ sock'[p].rst = sock[p].rst /\ sock'[p].state = sock[p].state
  BY <1>2, <1>3 DEF Data, Sockets, Socket
<1>7. Inbox(p)' = Inbox(p) /\ Outbox(p)' = Outbox(p) /\ Status(p)' = Status(p)
  <2>1. LostPeer(p)' = LostPeer(p)
    BY <1>6 DEF LostPeer
  <2> QED
    BY <1>5, <1>6, <2>1 DEF Inbox, Outbox, Status
<1>8. NothingSeen
  BY <1>3, <1>5, <1>6, <1>7, Untouched DEF NothingSeen
<1>9. Ended'
  <2>1. /\ DOMAIN clients' = DOMAIN clients \cup {n} /\ clients'[n] = e
        /\ \A g \in DOMAIN clients : clients'[g] = clients[g]
    BY <1>2, <1>3 DEF set
  <2>2. clients'[n].conn.read_eof = FALSE
    BY <1>4, <2>1 DEF NewConnection
  <2>3. \A g \in DOMAIN clients : sock'[file[g]] = sock[file[g]]
    BY <1>2, <1>6 DEF Data, Tables
  <2> QED
    BY <1>3, <2>1, <2>2, <2>3, EndedKept DEF Streams
<1> QED
  BY <1>8, <1>9

(* A connection that is refused, or that epoll does not take, is lost.      *)
LEMMA AcceptSeen ==
    ASSUME Inv, Watch, Data, Streams, Accept
    PROVE  (Service!Next \/ NothingSeen) /\ Ended'
<1>1. CASE AcceptAborted
  <2>1. queue # <<>> /\ Shut(Head(queue), "lost", <<>>) /\ UNCHANGED <<clients, file, store>>
    BY <1>1 DEF AcceptAborted
  <2> QED
    BY <2>1, RefuseSeen
<1>2. CASE AcceptFull \/ AcceptUnusable
  <2>1. main.pc = "accepted" /\ close(main.fd, "lost", <<>>) /\ UNCHANGED <<clients, store>>
    BY <1>2 DEF AcceptFull, AcceptUnusable, Refused
  <2>2. PICK p : p = file[main.fd]
    OBVIOUS
  <2>3. /\ p \in Peers /\ main.fd \notin DOMAIN clients /\ DOMAIN clients \subseteq DOMAIN file
        /\ \A fd \in DOMAIN clients : file[fd] # p
    BY <2>1, <2>2, ArrivedPeer
  <2>4. Shut(p, "lost", <<>>) /\ file' = erased(file, main.fd)
    BY <2>1, <2>2 DEF close
  <2>5. \A fd \in DOMAIN clients : file'[fd] = file[fd]
    BY <2>3, <2>4, ErasedDomain
  <2> QED
    BY <2>1, <2>3, <2>4, <2>5, LeftSeen
<1>3. CASE AcceptInterrupted \/ AcceptFails \/ AcceptDone \/ AcceptClient \/ AttemptEnds
  <2>1. UNCHANGED <<clients, store, file, sock>>
    BY <1>3 DEF AcceptInterrupted, AcceptFails, AcceptDone, AcceptClient, AttemptEnds
  <2> QED
    BY <2>1, QuietSeen DEF Streams
<1>4. CASE AcceptUnwatched
  <2>1. PICK fd \in DOMAIN clients : fd = main.fd
    BY <1>4 DEF AcceptUnwatched, Inv, Iterators
  <2>2. clients' = erased(clients, fd) /\ close(fd, "lost", <<>>) /\ store' = store
    BY <1>4, <2>1 DEF AcceptUnwatched
  <2>3. PICK p : p = file[fd]
    OBVIOUS
  <2>4. PICK o : o = Outbox(p)
    OBVIOUS
  <2>5. o \in Seq(Byte) /\ <<>> \in Seq(Byte) /\ <<>> \o o = o
    BY <2>3, <2>4, SeenBytes, EmptySeq, ConcatEmptySeq DEF Data, Tables
  <2> QED
    BY <2>2, <2>3, <2>4, <2>5, RetireSeen
<1> QED
  BY <1>1, <1>2, <1>3, <1>4, AcceptReturnsSeen, AcceptEmplacesSeen DEF Accept

-----------------------------------------------------------------------------
(* b holds the bytes of a, with none lost, replayed or reordered.           *)
Moved(a, b) ==
    /\ pending_input(b.conn) \o b.rx = pending_input(a.conn) \o a.rx
    /\ pending_output(b.conn) = pending_output(a.conn)
    /\ b.conn.read_eof = a.conn.read_eof
    /\ a.conn.read_eof = TRUE => b.rx = a.rx

(* A recv call moves bytes from the kernel to the end of the input.         *)
LEMMA RecvCallMoves ==
    ASSUME NEW b \in RecvStates PROVE Moved(b, recv_call(b))
<1>1. b \in [conn : ConnectionType, rx : Seq(Byte)] /\ Sound(b.conn)
  BY DEF RecvStates
<1>2. CASE ~can_read(b.conn)
  BY <1>2 DEF recv_call, Moved
<1>3. CASE can_read(b.conn)
  <2>1. PICK c, q : c = b.conn /\ q = b.rx
    OBVIOUS
  <2>2. Sound(c) /\ q \in Seq(Byte) /\ Len(q) \in Nat /\ c.read_eof = FALSE
    BY <1>1, <1>3, <2>1, LenProperties, PendingFacts DEF can_read
  <2>3. PICK n : n = Lesser(Lesser(kMaxInputBytes - pending_input_bytes(c), kReadBufferSize), Len(q))
    OBVIOUS
  <2>4. n \in Nat /\ n <= Len(q) /\ n <= kMaxInputBytes - pending_input_bytes(c)
    <3>1. kMaxInputBytes \in Nat /\ kReadBufferSize \in Nat
          /\ pending_input_bytes(c) \in 0..kMaxInputBytes
      BY <2>2, PendingFacts, AllowanceAssumption, EventLoopAssumption
    <3> QED
      BY <2>2, <2>3, <3>1 DEF Lesser
  <2>5. PICK t, r : t = SubSeq(q, 1, n) /\ r = SubSeq(q, n + 1, Len(q))
    OBVIOUS
  <2>6. t \in Seq(Byte) /\ r \in Seq(Byte) /\ Len(t) = n
    BY <2>2, <2>4, <2>5, PrefixFacts, SuffixFacts
  <2>7. PICK a, i : a = append_input(c, t) /\ i = pending_input(c)
    OBVIOUS
  <2>8. /\ Sound(a) /\ input_fits(c, t) /\ a.input_cursor = 0
        /\ a.input_buffer = i \o t /\ a.read_eof = c.read_eof
        /\ a.output_buffer = c.output_buffer /\ a.output_cursor = c.output_cursor
    BY <2>2, <2>4, <2>6, <2>7, AppendFacts
  <2>9. recv_call(b) = [conn |-> a, rx |-> r]
    BY <1>3, <2>1, <2>3, <2>5, <2>7 DEF recv_call
  <2>10. i \in Seq(Byte)
    BY <2>2, <2>7, PendingBytes
  <2>11. i \o t \in Seq(Byte)
    BY <2>6, <2>10, ConcatProperties
  <2>12. pending_input(a) = i \o t
    <3>1. PICK ib : ib = i \o t
      OBVIOUS
    <3>2. ib \in Seq(Byte) /\ a.input_buffer = ib
      BY <2>8, <2>11, <3>1
    <3>3. SubSeq(ib, 0 + 1, Len(ib)) = ib
      BY <3>2, SubSeqFull
    <3> QED
      BY <2>8, <3>1, <3>2, <3>3 DEF pending_input
  <2>13. (i \o t) \o r = i \o q
    BY <2>2, <2>4, <2>5, <2>10, BytesMove
  <2>14. pending_output(a) = pending_output(c)
    BY <2>8 DEF pending_output
  <2>15. PICK after : after = recv_call(b)
    OBVIOUS
  <2>16. after.conn = a /\ after.rx = r
    BY <2>9, <2>15
  <2>17. pending_input(after.conn) \o after.rx = pending_input(b.conn) \o b.rx
    BY <2>1, <2>7, <2>12, <2>13, <2>16
  <2>18. pending_output(after.conn) = pending_output(b.conn)
    BY <2>1, <2>14, <2>16
  <2>19. after.conn.read_eof = b.conn.read_eof /\ b.conn.read_eof = FALSE
    BY <2>1, <2>2, <2>8, <2>16
  <2> QED
    BY <2>15, <2>17, <2>18, <2>19 DEF Moved
<1> QED
  BY <1>2, <1>3

(* So do the calls of a visit together.                                     *)
LEMMA ReceivedMoves ==
    ASSUME RecvStart \in RecvStates, NEW k \in 0..kReadCallBudget
    PROVE  Moved(RecvStart, Received[k])
<1>1. kReadCallBudget \in Nat
  BY EventLoopAssumption
<1>2. PICK r, z : r = Received /\ z = RecvStart
  OBVIOUS
<1>3. /\ r[0] = z
      /\ \A n \in 1..kReadCallBudget : r[n] = recv_call(r[n - 1])
      /\ \A n \in 0..kReadCallBudget : r[n] \in RecvStates
  BY <1>2, ReceivedFacts
<1> DEFINE T == {n \in 0..kReadCallBudget : ~Moved(z, r[n])}
<1>4. T = {}
  <2>1. SUFFICES ASSUME T # {} PROVE FALSE
    OBVIOUS
  <2>2. T \in SUBSET Nat
    BY <1>1
  <2>3. PICK n \in T : \A m \in T : n <= m
    <3> HIDE DEF T
    <3> QED
      BY <2>1, <2>2, Least
  <2>4. n \in 0..kReadCallBudget /\ ~Moved(z, r[n])
    OBVIOUS
  <2>5. Moved(z, z)
    BY DEF Moved
  <2>6. n \in 1..kReadCallBudget
    BY <1>1, <1>3, <2>4, <2>5
  <2>7. n - 1 \in 0..kReadCallBudget /\ Moved(z, r[n - 1])
    <3>1. n - 1 \in 0..kReadCallBudget /\ ~(n <= n - 1)
      BY <1>1, <2>6
    <3>2. n - 1 \notin T
      <4> HIDE DEF T
      <4> QED
        BY <2>3, <3>1
    <3> QED
      BY <3>1, <3>2
  <2>8. PICK b : b = r[n - 1]
    OBVIOUS
  <2>9. b \in RecvStates /\ r[n] = recv_call(b) /\ Moved(z, b)
    BY <1>3, <2>6, <2>7, <2>8
  <2>10. Moved(b, recv_call(b))
    BY <2>9, RecvCallMoves
  <2> QED
    BY <2>4, <2>9, <2>10 DEF Moved
<1> QED
  BY <1>2, <1>4

(* A visit leaves the entry e and the socket s of the client it works on.   *)
Leaves(fd, p, e, s) ==
    /\ main.pc \in {"recv", "exec"} /\ fd = main.fd /\ p = peer /\ file' = file
    /\ DOMAIN clients' = DOMAIN clients /\ clients'[fd] = e
    /\ \A g \in DOMAIN clients \ {fd} : clients'[g] = clients[g]
    /\ sock'[p] = s /\ \A q \in Peers \ {p} : sock'[q] = sock[q]

(* What a visit does to its entry and its socket, no other client sees.     *)
LEMMA VisitKeeps ==
    ASSUME Inv, Data, Streams, NEW fd, NEW p, NEW e, NEW s, Leaves(fd, p, e, s)
    PROVE  /\ fd \in DOMAIN clients /\ p \in Peers
           /\ OthersKeep(p) /\ ConnectionOf(p) = conn /\ ConnectionOf(p)' = e.conn
           /\ sock[p].state = "open"
           /\ (e.conn.read_eof = TRUE => s.fin = TRUE /\ s.rx = <<>>) => Ended'
<1>0. /\ file' = file /\ DOMAIN clients' = DOMAIN clients /\ clients'[fd] = e
      /\ \A g \in DOMAIN clients \ {fd} : clients'[g] = clients[g]
      /\ sock'[p] = s /\ \A q \in Peers \ {p} : sock'[q] = sock[q]
  BY DEF Leaves
<1>1. fd \in DOMAIN clients /\ p \in Peers /\ p = file[fd] /\ conn = clients[fd].conn
  BY VisitFacts DEF peer, conn, Leaves
<1>2. /\ ConnectionOf(p) = clients[fd].conn /\ ConnectionOf(p)' = clients'[fd].conn
      /\ \A q \in Peers \ {p} : ConnectionOf(q)' = ConnectionOf(q)
  BY <1>0, <1>1, VisitConns DEF Streams
<1>3. OthersKeep(p)
  BY <1>0, <1>2, Untouched DEF OthersKeep
<1>4. sock[p].state = "open"
  BY <1>1 DEF Streams, Seats
<1>5. ASSUME e.conn.read_eof = TRUE => s.fin = TRUE /\ s.rx = <<>> PROVE Ended'
  <2>1. \A g \in DOMAIN clients \ {fd} : file[g] \in Peers \ {p}
    BY <1>1 DEF Streams, Seats, Data, Tables
  <2>2. \A g \in DOMAIN clients \ {fd} : sock'[file'[g]] = sock[file[g]]
    BY <1>0, <2>1
  <2>3. sock'[file'[fd]] = s
    BY <1>0, <1>1
  <2> QED
    BY <1>0, <1>5, <2>2, <2>3 DEF Ended, Streams
<1> QED
  BY <1>0, <1>1, <1>2, <1>3, <1>4, <1>5

(* If what p has sent and is owed stays the same, nobody sees the step.     *)
LEMMA SeenByNobody ==
    ASSUME NEW p \in Peers, OthersKeep(p), store' = store,
           Inbox(p)' = Inbox(p), Outbox(p)' = Outbox(p), Status(p)' = Status(p)
    PROVE  NothingSeen
  BY DEF NothingSeen, OthersKeep

(* The recv loop moves bytes from the kernel to the input (server.cpp:81-112). *)
LEMMA VisitRecvSeen == ASSUME Inv, Data, Streams, VisitRecv PROVE NothingSeen /\ Ended'
<1>0. main.pc = "recv" /\ UNCHANGED <<store, file>>
  BY DEF VisitRecv
<1>1. /\ main.fd \in DOMAIN clients /\ Sound(conn) /\ peer \in Peers /\ Socket(sock[peer])
      /\ sock[peer].rx \in Seq(Byte)
  BY <1>0, VisitFacts
<1>2. RecvStart \in RecvStates
  BY <1>1 DEF RecvStart, RecvStates, Sound
<1>3. kReadCallBudget \in Nat
  BY EventLoopAssumption
<1>4. PICK n \in (IF main.event.readable THEN 0..kReadCallBudget ELSE {0}), eof \in BOOLEAN :
          /\ eof => main.event.readable /\ ReadsOn(n) /\ sock[peer].fin
          /\ clients' = [clients EXCEPT ![main.fd] =
                [conn |-> begin_processing([Received[n].conn EXCEPT !.read_eof = @ \/ eof]),
                 idle |-> IF Received[n].rx = sock[peer].rx THEN @.idle ELSE 0]]
          /\ sock' = [sock EXCEPT ![peer].rx = Received[n].rx]
  BY Zenon DEF VisitRecv
<1>5. n \in 0..kReadCallBudget
  BY <1>3
<1>6. PICK c, x, p, fd : c = Received[n].conn /\ x = Received[n].rx /\ p = peer /\ fd = main.fd
  OBVIOUS
<1>7. Sound(c) /\ x \in Seq(Byte)
  <2>1. Received[n] \in RecvStates
    BY <1>2, <1>5, ReceivedFacts
  <2> QED
    BY <1>6, <2>1 DEF RecvStates
<1>8. /\ pending_input(c) \o x = pending_input(conn) \o sock[p].rx
      /\ pending_output(c) = pending_output(conn) /\ c.read_eof = conn.read_eof
      /\ conn.read_eof = TRUE => x = sock[p].rx
  <2>1. Moved(RecvStart, Received[n])
    BY <1>2, <1>5, ReceivedMoves
  <2>2. RecvStart.conn = conn /\ RecvStart.rx = sock[p].rx
    BY <1>6 DEF RecvStart
  <2> QED
    BY <1>6, <2>1, <2>2 DEF Moved
<1>9. PICK d : d = [c EXCEPT !.read_eof = @ \/ eof]
  OBVIOUS
<1>10. /\ Sound(d) /\ pending_input(d) = pending_input(c)
       /\ pending_output(d) = pending_output(c) /\ d.read_eof = (c.read_eof \/ eof)
  <2>1. /\ d \in ConnectionType /\ d.read_eof = (c.read_eof \/ eof)
        /\ d.input_buffer = c.input_buffer /\ d.input_cursor = c.input_cursor
        /\ d.output_buffer = c.output_buffer /\ d.output_cursor = c.output_cursor
    BY <1>7, <1>9 DEF Sound, ConnectionType
  <2>2. Sound(d)
    BY <1>7, <2>1 DEF Sound, WithinBounds
  <2> QED
    BY <2>1, <2>2 DEF pending_input, pending_output
<1>11. PICK b : b = begin_processing(d)
  OBVIOUS
<1>12. /\ pending_input(b) = pending_input(c) /\ pending_output(b) = pending_output(c)
       /\ b.read_eof = d.read_eof
  BY <1>10, <1>11, SamePending, BeginFacts
<1>13. PICK t : t = IF x = sock[p].rx THEN clients[fd].idle ELSE 0
  OBVIOUS
<1>14. PICK e, s : e = [conn |-> b, idle |-> t] /\ s = [sock[p] EXCEPT !.rx = x]
  OBVIOUS
<1>15. clients' = [clients EXCEPT ![fd] = e]
  BY <1>4, <1>6, <1>9, <1>11, <1>13, <1>14, Zenon
<1>16. sock' = [sock EXCEPT ![p] = s]
  BY <1>4, <1>6, <1>14
<1>17. /\ s.rx = x /\ s.fin = sock[p].fin /\ s.rst = sock[p].rst /\ s.tx = sock[p].tx
       /\ s.state = sock[p].state /\ e.conn = b /\ sock[p].fin \in BOOLEAN
  BY <1>1, <1>6, <1>14 DEF Socket
<1>18. b.read_eof = TRUE => s.fin = TRUE /\ s.rx = <<>>
  <2>1. CASE conn.read_eof = TRUE
    <3>1. sock[p].fin = TRUE /\ sock[p].rx = <<>>
      BY <1>1, <1>6, <2>1 DEF Streams, Ended, conn, peer
    <3> QED
      BY <1>8, <1>17, <2>1, <3>1
  <2>2. CASE conn.read_eof # TRUE
    <3>1. conn.read_eof = FALSE
      BY <1>1, <2>2, PendingFacts
    <3>2. b.read_eof = eof
      BY <1>8, <1>10, <1>12, <3>1
    <3>3. ASSUME eof = TRUE PROVE sock[p].fin = TRUE /\ x = <<>>
      <4>1. ReadsOn(n) /\ sock[p].fin
        BY <1>4, <1>6, <3>3
      <4> QED
        BY <1>6, <1>17, <4>1 DEF ReadsOn
    <3> QED
      BY <1>17, <3>2, <3>3
  <2> QED
    BY <2>1, <2>2
<1>19. /\ p \in Peers /\ OthersKeep(p) /\ ConnectionOf(p) = conn /\ ConnectionOf(p)' = b
       /\ sock'[p] = s /\ Ended'
  <2>1. main.pc \in {"recv", "exec"} /\ file' = file
    BY <1>0
  <2>2. /\ DOMAIN clients' = DOMAIN clients /\ clients'[fd] = e
        /\ \A g \in DOMAIN clients \ {fd} : clients'[g] = clients[g]
    BY <1>1, <1>6, <1>15
  <2>3. sock'[p] = s /\ \A q \in Peers \ {p} : sock'[q] = sock[q]
    BY <1>1, <1>6, <1>16 DEF Data, Sockets
  <2>4. e.conn.read_eof = TRUE => s.fin = TRUE /\ s.rx = <<>>
    BY <1>17, <1>18
  <2>5. /\ p \in Peers /\ OthersKeep(p) /\ ConnectionOf(p) = conn
        /\ ConnectionOf(p)' = e.conn /\ Ended'
    <3>1. Leaves(fd, p, e, s)
      BY <1>6, <2>1, <2>2, <2>3 DEF Leaves
    <3> QED
      BY <2>4, <3>1, VisitKeeps
  <2> QED
    BY <1>17, <2>3, <2>5
<1>20. Inbox(p)' = Inbox(p)
  BY <1>8, <1>12, <1>17, <1>19 DEF Inbox
<1>21. LostPeer(p)' = LostPeer(p)
  BY <1>17, <1>19 DEF LostPeer
<1>22. Outbox(p)' = Outbox(p) /\ Status(p)' = Status(p)
  BY <1>8, <1>12, <1>17, <1>19, <1>21 DEF Outbox, Status
<1> QED
  BY <1>0, <1>19, <1>20, <1>22, SeenByNobody

-----------------------------------------------------------------------------
(* A frame that a visit executes is the first line of its client's stream,
   and its reply goes to that client (server.cpp:114-118,
   connection.cpp:48-82).                                                   *)
LEMMA VisitExecSeen == ASSUME Inv, Types, Streams, VisitExec PROVE Service!Next /\ Ended'
<1>0. /\ Data /\ main.pc = "exec" /\ Executing /\ UNCHANGED <<file, sock>>
  BY DEF Types, VisitExec
<1>1. /\ main.fd \in DOMAIN clients /\ Entry(clients[main.fd]) /\ peer \in Peers
      /\ Sound(conn) /\ Settled(conn) /\ Socket(sock[peer])
      /\ sock[peer].rx \in Seq(Byte) /\ sock[peer].tx \in Seq(Byte)
  BY <1>0, VisitFacts
<1>2. conn.output_cursor = 0 /\ ~conn.output_paused
  BY <1>0 DEF Types, Place, conn, Executing, has_runnable_input
<1>3. PICK newline \in 1..Len(conn.input_buffer) :
          /\ IsNewline(conn.input_buffer, conn.input_cursor, newline)
          /\ store' = Answer(frame_at(conn, newline), store).store
          /\ clients' = [clients EXCEPT ![main.fd].conn =
                queue_response(consume_frame(@, newline),
                               response_of(Answer(frame_at(conn, newline), store).text))]
  BY Zenon DEF VisitExec
<1>4. newline \in Nat
  BY <1>1, PendingFacts
<1>5. PICK f, a : f = frame_at(conn, newline) /\ a = Answer(f, store)
  OBVIOUS
<1>6. f \in Text /\ Len(f) < kMaxInputBytes
  BY <1>1, <1>3, <1>4, <1>5, FrameFacts
<1>7. a.text \in Text /\ Len(a.text) < kMaxResponseBytes
  BY <1>0, <1>5, <1>6, AnswerBound DEF Data
<1>8. PICK c, text, r : c = conn /\ text = a.text /\ r = Append(text, NL)
  OBVIOUS
<1>9. PICK q : q = queue_response(consume_frame(c, newline), response_of(text))
  OBVIOUS
<1>10. /\ pending_input(q) = SubSeq(c.input_buffer, newline + 1, Len(c.input_buffer))
       /\ pending_output(q) = pending_output(c) \o r /\ q.read_eof = c.read_eof
  <2>1. Executes(c, newline, text, q)
    BY <1>1, <1>2, <1>3, <1>4, <1>7, <1>8, <1>9 DEF Executes
  <2>2. /\ pending_input(q) = SubSeq(c.input_buffer, newline + 1, Len(c.input_buffer))
        /\ pending_output(q) = pending_output(c) \o Append(text, NL)
        /\ q.read_eof = c.read_eof
    BY <2>1, ExecuteMoves
  <2> QED
    BY <1>8, <2>2
<1>11. PICK e, p, fd : e = [clients[main.fd] EXCEPT !.conn = q] /\ p = peer /\ fd = main.fd
  OBVIOUS
<1>12. e.conn = q
  BY <1>1, <1>11 DEF Entry
<1>13. clients' = [clients EXCEPT ![fd] = e]
  BY <1>3, <1>5, <1>8, <1>9, <1>11 DEF conn
<1>14. /\ DOMAIN clients' = DOMAIN clients /\ clients'[fd] = e
       /\ \A g \in DOMAIN clients \ {fd} : clients'[g] = clients[g]
  BY <1>1, <1>11, <1>13
<1>15. PICK s : s = sock[p]
  OBVIOUS
<1>16. sock'[p] = s /\ \A z \in Peers \ {p} : sock'[z] = sock[z]
  BY <1>0, <1>15
<1>17. e.conn.read_eof = TRUE => s.fin = TRUE /\ s.rx = <<>>
  BY <1>1, <1>8, <1>10, <1>11, <1>12, <1>15 DEF Streams, Ended, conn, peer
<1>18. /\ p \in Peers /\ OthersKeep(p) /\ ConnectionOf(p) = c /\ ConnectionOf(p)' = q
       /\ s.state = "open" /\ Ended'
  <2>1. main.pc \in {"recv", "exec"} /\ file' = file
    BY <1>0
  <2>2. /\ p \in Peers /\ OthersKeep(p) /\ ConnectionOf(p) = conn
        /\ ConnectionOf(p)' = e.conn /\ sock[p].state = "open" /\ Ended'
    <3>1. Leaves(fd, p, e, s)
      BY <1>0, <1>11, <1>14, <1>16, <2>1 DEF Leaves
    <3> QED
      BY <1>0, <1>17, <3>1, VisitKeeps
  <2> QED
    BY <1>8, <1>12, <1>15, <2>2
<1>19. PICK rx, tx, o : rx = s.rx /\ tx = s.tx /\ o = pending_output(c)
  OBVIOUS
<1>20. rx \in Seq(Byte) /\ tx \in Seq(Byte) /\ o \in Seq(Byte) /\ r \in Seq(Byte) /\ Sound(c)
  BY <1>1, <1>7, <1>8, <1>11, <1>15, <1>19, PendingBytes, TextFacts
<1>21. PICK all : all = pending_input(c) \o rx
  OBVIOUS
<1>22. Inbox(p) = all /\ Inbox(p)' = pending_input(q) \o rx
  BY <1>15, <1>16, <1>18, <1>19, <1>21 DEF Inbox
<1>23. PICK m : FirstLine(all, m, f, pending_input(q) \o rx)
  <2>1. IsNewline(c.input_buffer, c.input_cursor, newline)
    BY <1>3, <1>8
  <2>2. f = frame_at(c, newline)
    BY <1>5, <1>8
  <2> QED
    <3>1. Sound(c) /\ rx \in Seq(Byte)
      BY <1>20
    <3>2. pending_input(q) = SubSeq(c.input_buffer, newline + 1, Len(c.input_buffer))
      BY <1>10
    <3>3. PICK rest : rest = pending_input(q)
      OBVIOUS
    <3>4. \E m : FirstLine(all, m, frame_at(c, newline), rest \o rx)
      BY <1>4, <1>21, <2>1, <3>1, <3>2, <3>3, FrameIsLine
    <3> QED
      BY <2>2, <3>3, <3>4
<1>24. (tx \o o) \o r = tx \o (o \o r)
  BY <1>20, ConcatAssociative
<1>25. LostPeer(p)' = LostPeer(p)
  BY <1>15, <1>16 DEF LostPeer
<1>26. Status(p)' = Status(p) /\ (Status(p) = "lost" <=> LostPeer(p))
  BY <1>15, <1>16, <1>25 DEF Status
<1>27. Outbox(p)' = IF Status(p) = "lost" THEN Outbox(p) ELSE Outbox(p) \o r
  BY <1>10, <1>15, <1>16, <1>18, <1>19, <1>24, <1>25, <1>26 DEF Outbox
<1>28. /\ m \in 1..Len(Inbox(p)) /\ IsNewline(Inbox(p), 0, m)
       /\ f = SubSeq(Inbox(p), 1, m - 1)
       /\ Inbox(p)' = SubSeq(Inbox(p), m + 1, Len(Inbox(p)))
  BY <1>22, <1>23 DEF FirstLine
<1>29. /\ store' = Answer(f, store).store
       /\ Outbox(p)' = IF Status(p) = "lost" THEN Outbox(p)
                       ELSE Outbox(p) \o Append(Answer(f, store).text, NL)
  BY <1>3, <1>5, <1>8, <1>27
<1>30. Service!Next
  BY <1>18, <1>26, <1>28, <1>29, ServiceExecutes
<1> QED
  BY <1>18, <1>30

(* The sends of a visit move bytes to the kernel, and nothing but a tail
   that EOF has cut off is dropped.                                         *)
LEMMA FlushedMoves ==
    ASSUME Inv, Data, main.pc = "exec", NEW after \in Flushed
    PROVE  /\ after.tx \o pending_output(after.conn) = sock[peer].tx \o pending_output(conn)
           /\ sock[peer].rst => after.tx = sock[peer].tx
           /\ after.conn.read_eof = conn.read_eof
           /\ AtEnd(after.conn) => AtEnd(conn) /\ pending_input(after.conn) = <<>>
           /\ \/ pending_input(after.conn) = pending_input(conn)
              \/ AtEnd(conn) /\ pending_input(after.conn) = <<>>
<1>1. Sound(conn) /\ sock[peer].tx \in Seq(Byte) /\ Len(sock[peer].tx) <= SendQueue
  BY VisitFacts
<1>2. PICK e, t, c : e = Processed /\ t = sock[peer].tx /\ c = conn
  OBVIOUS
<1>3. /\ Sound(e) /\ pending_output_bytes(e) \in Nat /\ e.read_eof = c.read_eof
      /\ pending_input(e) = pending_input(c) /\ pending_output(e) = pending_output(c)
  <2>1. Sound(e) /\ e.read_eof = c.read_eof
    BY <1>1, <1>2, EndProcessingFacts DEF Processed
  <2>2. pending_output_bytes(e) \in Nat
    BY <2>1, PendingFacts, WatermarkAssumption
  <2>3. pending_input(e) = pending_input(c) /\ pending_output(e) = pending_output(c)
    BY <1>1, <1>2, SamePending DEF Processed
  <2> QED
    BY <2>1, <2>2, <2>3
<1>4. PICK o : o = pending_output(e)
  OBVIOUS
<1>5. o \in Seq(Byte) /\ Len(o) = pending_output_bytes(e) /\ Len(o) \in Nat
  BY <1>3, <1>4, PendingBytes
<1>6. Len(t) \in Nat /\ SendQueue \in Nat /\ kWriteBytes \in Nat
  BY <1>1, <1>2, LenProperties, EventLoopAssumption
<1>7. PICK bound : bound = IF sock[peer].rst THEN 0
                           ELSE Lesser(Lesser(pending_output_bytes(e), kWriteBytes),
                                       SendQueue - Len(t))
  OBVIOUS
<1>8. bound \in Nat /\ bound <= Len(o) /\ (sock[peer].rst => bound = 0)
  BY <1>1, <1>2, <1>3, <1>5, <1>6, <1>7 DEF Lesser
<1>9. PICK n \in 0..bound :
        after = [conn |-> settle(end_flush(advance_output(e, n))),
                 tx |-> t \o SubSeq(pending_output(e), 1, n),
                 idle |-> IF n = 0 THEN clients[main.fd].idle ELSE 0]
  BY <1>2, <1>7, Zenon DEF Flushed
<1>10. n \in Nat /\ n <= Len(o) /\ n <= pending_output_bytes(e) /\ (sock[peer].rst => n = 0)
  BY <1>5, <1>8
<1>11. PICK a, l, d : a = advance_output(e, n) /\ l = end_flush(a) /\ d = settle(l)
  OBVIOUS
<1>12. /\ Sound(a) /\ a.input_buffer = e.input_buffer /\ a.input_cursor = e.input_cursor
       /\ a.output_buffer = e.output_buffer /\ a.output_cursor = e.output_cursor + n
       /\ a.read_eof = e.read_eof
  BY <1>3, <1>10, <1>11, AdvanceFacts
<1>13. pending_input(a) = pending_input(e)
  BY <1>12 DEF pending_input
<1>14. pending_output(a) = SubSeq(o, n + 1, Len(o))
  <2>1. PICK s, k : s = e.output_buffer /\ k = e.output_cursor
    OBVIOUS
  <2>2. s \in Seq(Byte) /\ k \in Nat /\ Len(s) \in Nat /\ k + n <= Len(s)
    BY <1>3, <1>10, <2>1, PendingFacts DEF Sound, WithinBounds, pending_output_bytes
  <2>3. o = SubSeq(s, k + 1, Len(s))
    BY <1>4, <2>1 DEF pending_output
  <2>4. pending_output(a) = SubSeq(s, (k + n) + 1, Len(s))
    BY <1>12, <2>1 DEF pending_output
  <2> QED
    BY <1>10, <2>2, <2>3, <2>4, SuffixOfSuffix
<1>15. /\ Sound(l) /\ l.read_eof = a.read_eof
       /\ pending_input(l) = pending_input(a) /\ pending_output(l) = pending_output(a)
  BY <1>11, <1>12, EndFlushFacts, SamePending
<1>16. /\ Sound(d) /\ pending_output(d) = pending_output(l) /\ d.read_eof = l.read_eof
       /\ AtEnd(d) => pending_input(d) = <<>>
       /\ pending_input(d) = pending_input(l) \/ (AtEnd(l) /\ pending_input(d) = <<>>)
  BY <1>11, <1>15, SettleKeeps
<1>17. pending_input(l) = pending_input(c) /\ l.read_eof = c.read_eof
  BY <1>3, <1>12, <1>13, <1>15
<1>18. ASSUME NEW x, Sound(x) PROVE has_complete_frame(x) <=> HasNewline(pending_input(x), 0)
  BY <1>18, PendingBytes
<1>19. Sound(c)
  BY <1>1, <1>2
<1>20. AtEnd(l) <=> AtEnd(c)
  BY <1>15, <1>17, <1>18, <1>19 DEF AtEnd
<1>21. AtEnd(d) => AtEnd(c)
  BY <1>16, <1>17, <1>18, <1>19, <1>20 DEF AtEnd
<1>22. PICK u : u = SubSeq(o, 1, n)
  OBVIOUS
<1>23. after.conn = d /\ after.tx = t \o u
  BY <1>4, <1>9, <1>11, <1>22
<1>24. (t \o u) \o SubSeq(o, n + 1, Len(o)) = t \o o
  BY <1>1, <1>2, <1>5, <1>10, <1>22, BytesMove
<1>25. after.tx \o pending_output(after.conn) = t \o pending_output(c)
  BY <1>3, <1>4, <1>14, <1>15, <1>16, <1>23, <1>24
<1>26. ASSUME sock[peer].rst PROVE after.tx = t
  <2>1. n = 0
    BY <1>10, <1>26
  <2>2. u = <<>>
    BY <1>5, <1>22, <2>1, SubSeqEmpty
  <2>3. t \o <<>> = t
    BY <1>1, <1>2, ConcatEmptySeq
  <2> QED
    BY <1>23, <2>2, <2>3
<1> QED
  BY <1>2, <1>16, <1>17, <1>20, <1>21, <1>23, <1>25, <1>26

(* A failed recv gives the client up with all it is owed.                   *)
LEMMA VisitRecvErrorSeen ==
    ASSUME Inv, Data, Streams, VisitRecvError PROVE Service!Next /\ Ended'
<1>1. main.pc = "recv" /\ retire_client(main.fd, "lost", <<>>)
  BY DEF VisitRecvError
<1>2. main.fd \in DOMAIN clients
  BY <1>1, VisitFacts
<1>3. PICK fd, p, o : fd = main.fd /\ p = file[fd] /\ o = Outbox(p)
  OBVIOUS
<1>4. p \in Peers
  BY <1>2, <1>3 DEF Data, Tables
<1>5. o \in Seq(Byte)
  BY <1>3, <1>4, SeenBytes
<1>6. <<>> \in Seq(Byte) /\ <<>> \o o = o
  BY <1>5, EmptySeq, ConcatEmptySeq
<1>7. clients' = erased(clients, fd) /\ close(fd, "lost", <<>>) /\ store' = store
  BY <1>1, <1>3 DEF retire_client
<1>8. PICK t : t = <<>>
  OBVIOUS
<1>9. t \in Seq(Byte) /\ Outbox(p) = t \o o /\ close(fd, "lost", t)
  BY <1>3, <1>6, <1>7, <1>8
<1> QED
  BY <1>2, <1>3, <1>5, <1>7, <1>9, RetireSeen

(* So do a full buffer without a newline and a failed send.                 *)
LEMMA VisitFailsSeen ==
    ASSUME Inv, Data, Streams, VisitFails PROVE Service!Next /\ Ended'
<1>1. main.pc = "exec" /\ retire_client(main.fd, "lost", sock[peer].tx)
  BY DEF VisitFails
<1>2. PICK fd \in DOMAIN clients : fd = main.fd
  BY <1>1, VisitFacts
<1>3. clients' = erased(clients, fd) /\ close(fd, "lost", sock[file[fd]].tx) /\ store' = store
  BY <1>1, <1>2 DEF retire_client, peer
<1> QED
  BY <1>3, DropSeen

(* What a client is owed when its visit ends.                               *)
LEMMA OwedAfter ==
    ASSUME Inv, Data, Streams, main.pc = "exec", NEW after \in Flushed,
           NEW p, p = peer, NEW a, a = after.conn, NEW u, u = after.tx
    PROVE  /\ p \in Peers /\ Socket(sock[p]) /\ sock[p].state = "open"
           /\ Sound(conn) /\ Sound(a) /\ u \in Seq(Byte)
           /\ pending_output(a) \in Seq(Byte) /\ ConnectionOf(p) = conn
           /\ sock[p].rst = TRUE => Outbox(p) = u /\ u = sock[p].tx
           /\ sock[p].rst = FALSE => Outbox(p) = u \o pending_output(a)
<1>1. /\ main.fd \in DOMAIN clients /\ p \in Peers /\ Socket(sock[p]) /\ Sound(conn)
  BY VisitFacts
<1>2. Sound(a) /\ u \in Seq(Byte)
  BY FlushedFacts
<1>3. pending_output(a) \in Seq(Byte)
  BY <1>2, PendingBytes
<1>4. PICK fd \in DOMAIN clients : fd = main.fd
  BY <1>1
<1>5. p = file[fd] /\ conn = clients[fd].conn
  BY <1>4 DEF peer, conn
<1>6. sock[p].state = "open"
  BY <1>5 DEF Streams, Seats
<1>7. ConnectionOf(p) = conn
  <2>1. FdsIn(clients, file, p) = {fd}
    BY <1>5 DEF Streams, Seats, FdsIn
  <2> QED
    BY <1>5, <2>1, OneConn, ConnForms
<1>8. /\ u \o pending_output(a) = sock[p].tx \o pending_output(conn)
      /\ sock[p].rst => u = sock[p].tx
  BY FlushedMoves
<1>9. LostPeer(p) <=> sock[p].rst
  BY <1>6 DEF LostPeer
<1> QED
  BY <1>1, <1>2, <1>3, <1>6, <1>7, <1>8, <1>9 DEF Outbox

(* A client that has ended has nothing left in the kernel.                  *)
LEMMA EndedStream ==
    ASSUME Inv, Data, Streams, main.pc = "exec", AtEnd(conn), NEW p, p = peer
    PROVE  /\ sock[p].fin = TRUE /\ sock[p].rx = <<>>
           /\ pending_input(conn) \o sock[p].rx = pending_input(conn)
           /\ ~HasNewline(pending_input(conn), 0)
<1>1. main.fd \in DOMAIN clients /\ Sound(conn)
  BY VisitFacts
<1>2. conn.read_eof = TRUE /\ ~has_complete_frame(conn)
  BY <1>1, PendingFacts DEF AtEnd
<1>3. sock[p].fin = TRUE /\ sock[p].rx = <<>>
  BY <1>1, <1>2 DEF Streams, Ended, conn, peer
<1>4. pending_input(conn) \in Seq(Byte) /\ ~HasNewline(pending_input(conn), 0)
  BY <1>1, <1>2, PendingBytes
<1>5. pending_input(conn) \o <<>> = pending_input(conn)
  BY <1>4, ConcatEmptySeq
<1> QED
  BY <1>3, <1>4, <1>5

(* The orderly end drops what is no line and keeps every reply.             *)
LEMMA VisitClosesSeen ==
    ASSUME Inv, Data, Streams, main.pc = "exec", NEW after \in Flushed,
           Drained(after.conn), retire_client(main.fd, "closed", after.tx)
    PROVE  Service!Next /\ Ended'
<1>1. PICK fd, p, a, u, s, c :
          /\ fd = main.fd /\ p = peer /\ a = after.conn /\ u = after.tx
          /\ s = sock[p] /\ c = conn
  OBVIOUS
<1>2. /\ p \in Peers /\ Socket(s) /\ s.state = "open" /\ Sound(c) /\ Sound(a)
      /\ u \in Seq(Byte) /\ ConnectionOf(p) = c
      /\ s.rst = TRUE => Outbox(p) = u
      /\ s.rst = FALSE => Outbox(p) = u \o pending_output(a)
  BY <1>1, OwedAfter
<1>3. pending_output(a) = <<>>
  BY <1>1, <1>2, PendingBytes DEF Drained, has_pending_output
<1>4. u \o <<>> = u
  BY <1>2, ConcatEmptySeq
<1>5. s.rst \in BOOLEAN
  BY <1>2 DEF Socket
<1>6. Outbox(p) = u
  BY <1>2, <1>3, <1>4, <1>5
<1>7. AtEnd(conn)
  BY <1>1, FlushedMoves DEF Drained
<1>8. /\ s.fin = TRUE /\ s.rx = <<>> /\ pending_input(c) \o s.rx = pending_input(c)
      /\ ~HasNewline(pending_input(c), 0)
  BY <1>1, <1>7, EndedStream
<1>9. Inbox(p) = pending_input(c)
  BY <1>1, <1>2, <1>8 DEF Inbox
<1>10. fd \in DOMAIN clients /\ p = file[fd]
  BY <1>1, VisitFacts DEF peer
<1>11. /\ clients' = erased(clients, fd) /\ close(fd, "closed", u) /\ store' = store
  BY <1>1 DEF retire_client
<1>12. /\ Shut(p, "closed", u) /\ OthersKeep(p) /\ Ended' /\ ConnectionOf(p)' = NewConnection
  BY <1>10, <1>11, RetireKeeps
<1>13. PICK kept \in {Len(u)} :
         sock' = [sock EXCEPT ![p] = [@ EXCEPT !.state = "closed", !.rx = <<>>,
                                               !.tx = SubSeq(u, 1, kept)]]
  BY <1>1, <1>8, <1>12, Zenon DEF Shut
<1>14. SubSeq(u, 1, Len(u)) = u
  BY <1>2, SubSeqFull
<1>15. sock' = [sock EXCEPT ![p] = [@ EXCEPT !.state = "closed", !.rx = <<>>, !.tx = u]]
  BY <1>13, <1>14
<1>16. /\ sock'[p].state = "closed" /\ sock'[p].rx = <<>> /\ sock'[p].tx = u
       /\ sock'[p].fin = s.fin /\ sock'[p].rst = s.rst
  BY <1>1, <1>2, <1>15 DEF Data, Sockets, Socket
<1>17. (LostPeer(p) <=> s.rst) /\ (LostPeer(p)' <=> s.rst)
  BY <1>1, <1>2, <1>16 DEF LostPeer
<1>18. Status(p)' = Status(p) /\ Status(p) # "open"
  BY <1>1, <1>8, <1>16, <1>17 DEF Status
<1>19. Outbox(p)' = u
  BY <1>4, <1>12, <1>16, NothingPending DEF Outbox
<1>20. Inbox(p)' = <<>>
  <2>1. <<>> \o <<>> = <<>>
    BY EmptySeq, ConcatEmptySeq
  <2> QED
    BY <1>12, <1>16, <2>1, NothingPending DEF Inbox
<1>21. Service!Next
  BY <1>2, <1>6, <1>8, <1>9, <1>11, <1>12, <1>18, <1>19, <1>20, ServiceDropsTail
<1> QED
  BY <1>12, <1>21

(* A registration that fails loses the client after its last bytes.         *)
LEMMA VisitLosesSeen ==
    ASSUME Inv, Data, Streams, main.pc = "exec", NEW after \in Flushed,
           retire_client(main.fd, "lost", after.tx)
    PROVE  Service!Next /\ Ended'
<1>1. PICK fd, p, a, u : fd = main.fd /\ p = peer /\ a = after.conn /\ u = after.tx
  OBVIOUS
<1>2. /\ Socket(sock[p]) /\ u \in Seq(Byte) /\ pending_output(a) \in Seq(Byte)
      /\ sock[p].rst = TRUE => Outbox(p) = u
      /\ sock[p].rst = FALSE => Outbox(p) = u \o pending_output(a)
  BY <1>1, OwedAfter
<1>3. <<>> \in Seq(Byte) /\ u \o <<>> = u
  BY <1>2, EmptySeq, ConcatEmptySeq
<1>4. PICK rest \in Seq(Byte) : Outbox(p) = u \o rest
  <2>1. CASE sock[p].rst = TRUE
    <3> WITNESS <<>> \in Seq(Byte)
    <3> QED
      BY <1>2, <1>3, <2>1
  <2>2. CASE sock[p].rst = FALSE
    BY <1>2, <2>2
  <2> QED
    BY <1>2, <2>1, <2>2 DEF Socket
<1>5. fd \in DOMAIN clients /\ p = file[fd]
  BY <1>1, VisitFacts DEF peer
<1>6. clients' = erased(clients, fd) /\ close(fd, "lost", u) /\ store' = store
  BY <1>1 DEF retire_client
<1> QED
  BY <1>2, <1>4, <1>5, <1>6, RetireSeen

(* A visit that keeps its client moves replies to the kernel, and may drop
   what is no line.                                                         *)
LEMMA VisitStaysSeen ==
    ASSUME Inv, Data, Streams, main.pc = "exec", NEW after \in Flushed,
           clients' = [clients EXCEPT ![main.fd] = [@ EXCEPT !.conn = after.conn,
                                                             !.idle = after.idle]],
           sock' = [sock EXCEPT ![peer].tx = after.tx], UNCHANGED <<store, file>>
    PROVE  (Service!Next \/ NothingSeen) /\ Ended'
<1>1. PICK fd, p, a, u, c :
          fd = main.fd /\ p = peer /\ a = after.conn /\ u = after.tx /\ c = conn
  OBVIOUS
<1>2. PICK e, s : e = [clients[fd] EXCEPT !.conn = a, !.idle = after.idle]
                  /\ s = [sock[p] EXCEPT !.tx = u]
  OBVIOUS
<1>3. /\ p \in Peers /\ Socket(sock[p]) /\ sock[p].state = "open" /\ Sound(c) /\ Sound(a)
      /\ u \in Seq(Byte)
      /\ sock[p].rst = TRUE => Outbox(p) = u
      /\ sock[p].rst = FALSE => Outbox(p) = u \o pending_output(a)
  BY <1>1, OwedAfter
<1>4. fd \in DOMAIN clients /\ Entry(clients[fd])
  BY <1>1, VisitFacts
<1>5. /\ e.conn = a /\ s.tx = u /\ s.rx = sock[p].rx /\ s.fin = sock[p].fin
      /\ s.rst = sock[p].rst /\ s.state = "open" /\ s.rst \in BOOLEAN
  BY <1>2, <1>3, <1>4 DEF Entry, Socket
<1>6. Leaves(fd, p, e, s)
  <2>1. clients' = [clients EXCEPT ![fd] = e] /\ sock' = [sock EXCEPT ![p] = s]
    BY <1>1, <1>2
  <2>2. /\ DOMAIN clients' = DOMAIN clients /\ clients'[fd] = e
        /\ \A g \in DOMAIN clients \ {fd} : clients'[g] = clients[g]
    BY <1>4, <2>1
  <2>3. sock'[p] = s /\ \A q \in Peers \ {p} : sock'[q] = sock[q]
    BY <1>3, <2>1 DEF Data, Sockets
  <2> QED
    BY <1>1, <2>2, <2>3 DEF Leaves
<1>7. /\ a.read_eof = c.read_eof
      /\ \/ pending_input(a) = pending_input(c)
         \/ AtEnd(c) /\ pending_input(a) = <<>>
  BY <1>1, FlushedMoves
<1>8. e.conn.read_eof = TRUE => s.fin = TRUE /\ s.rx = <<>>
  BY <1>1, <1>4, <1>5, <1>7 DEF Streams, Ended, conn, peer
<1>9. /\ OthersKeep(p) /\ ConnectionOf(p) = c /\ ConnectionOf(p)' = a /\ Ended'
  <2>1. OthersKeep(p) /\ ConnectionOf(p) = conn /\ ConnectionOf(p)' = e.conn
    BY <1>6, VisitKeeps
  <2>2. Ended'
    BY <1>6, <1>8, VisitKeeps
  <2> QED
    BY <1>1, <1>5, <2>1, <2>2
<1>10. sock'[p] = s
  BY <1>6 DEF Leaves
<1>11. (LostPeer(p) <=> s.rst) /\ (LostPeer(p)' <=> s.rst)
  BY <1>3, <1>5, <1>10 DEF LostPeer
<1>12. Status(p)' = Status(p)
  BY <1>5, <1>10, <1>11 DEF Status
<1>13. Outbox(p)' = Outbox(p)
  BY <1>3, <1>5, <1>9, <1>10, <1>11 DEF Outbox
<1>14. Inbox(p) = pending_input(c) \o s.rx /\ Inbox(p)' = pending_input(a) \o s.rx
  BY <1>5, <1>9, <1>10 DEF Inbox
<1>15. CASE pending_input(a) = pending_input(c)
  BY <1>3, <1>9, <1>12, <1>13, <1>14, <1>15, SeenByNobody
<1>16. CASE AtEnd(c) /\ pending_input(a) = <<>>
  <2>1. /\ s.fin = TRUE /\ s.rx = <<>> /\ pending_input(c) \o s.rx = pending_input(c)
        /\ ~HasNewline(pending_input(c), 0)
    BY <1>1, <1>5, <1>16, EndedStream
  <2>2. <<>> \o <<>> = <<>>
    BY EmptySeq, ConcatEmptySeq
  <2>3. Inbox(p)' = <<>> /\ ~HasNewline(Inbox(p), 0)
    BY <1>14, <1>16, <2>1, <2>2
  <2>4. Status(p) # "open"
    BY <1>5, <2>1 DEF Status
  <2>5. Service!Next
    BY <1>3, <1>9, <1>12, <1>13, <2>3, <2>4, ServiceDropsTail
  <2> QED
    BY <1>9, <2>5
<1> QED
  BY <1>7, <1>15, <1>16

(* Together: the end of a visit.                                            *)
LEMMA VisitEndsSeen ==
    ASSUME Inv, Data, Streams, VisitEnds PROVE (Service!Next \/ NothingSeen) /\ Ended'
<1>1. main.pc = "exec"
  BY DEF VisitEnds
<1>2. PICK after \in Flushed :
        \/ Drained(after.conn) /\ retire_client(main.fd, "closed", after.tx)
        \/ /\ clients' = [clients EXCEPT ![main.fd] = [@ EXCEPT !.conn = after.conn,
                                                                !.idle = after.idle]]
           /\ sock' = [sock EXCEPT ![peer].tx = after.tx]
           /\ UNCHANGED <<store, file>>
        \/ retire_client(main.fd, "lost", after.tx)
  BY DEF VisitEnds
<1> QED
  BY <1>1, <1>2, VisitClosesSeen, VisitStaysSeen, VisitLosesSeen

-----------------------------------------------------------------------------
(* The peers                                                                *)

(* A client that comes back is a step of the service.                       *)
LEMMA ServiceReturns ==
    ASSUME NEW p \in Peers, p \in Reconnecting, OthersKeep(p), Status(p) # "open",
           Inbox(p) = <<>>, Status(p)' = "open", Inbox(p)' = <<>>, Outbox(p)' = <<>>,
           store' = store
    PROVE  Service!Next
<1>1. Inboxes[p] = <<>> /\ Statuses[p] # "open"
  BY SeenOf
<1>2. Outboxes' = Put(Outboxes, p, <<>>)
  BY OutboxPut
<1>3. Statuses' = Put(Statuses, p, "open")
  BY StatusPut
<1>4. Inboxes' = Inboxes
  BY KeptWhole
<1>5. Service!Return(p)
  BY <1>1, <1>2, <1>3, <1>4 DEF Service!Return, Put
<1> QED
  BY <1>5 DEF Service!Next

(* What a peer does to its connection, no other client sees.                *)
LEMMA PeerKeeps ==
    ASSUME Data, Streams, NEW p \in Peers, NEW s, UNCHANGED <<clients, file>>,
           sock' = [sock EXCEPT ![p] = s],
           \/ sock[p].state \in {"closed", "lost"} \/ sock[p].fin = FALSE
           \/ s.fin = sock[p].fin /\ s.rx = sock[p].rx
    PROVE  /\ OthersKeep(p) /\ ConnectionOf(p)' = ConnectionOf(p) /\ sock'[p] = s /\ Ended'
<1>1. sock'[p] = s /\ \A q \in Peers \ {p} : sock'[q] = sock[q]
  BY DEF Data, Sockets
<1>2. \A q : ConnectionOf(q)' = ConnectionOf(q)
  BY SameConns
<1>3. OthersKeep(p)
  BY <1>1, <1>2, Untouched DEF OthersKeep
<1>4. Ended'
  <2> SUFFICES ASSUME NEW fd \in DOMAIN clients, clients[fd].conn.read_eof = TRUE
               PROVE  sock'[file[fd]].fin = TRUE /\ sock'[file[fd]].rx = <<>>
    BY DEF Ended
  <2>1. /\ file[fd] \in Peers /\ sock[file[fd]].state = "open"
        /\ sock[file[fd]].fin = TRUE /\ sock[file[fd]].rx = <<>>
    BY DEF Data, Tables, Streams, Seats, Ended
  <2> QED
    BY <1>1, <2>1
<1> QED
  BY <1>1, <1>2, <1>3, <1>4

(* A line sent and a half-close.                                            *)
LEMMA PeerWritesSeen ==
    ASSUME Data, Streams, NEW p \in Peers, Connected(p), sock[p].fin = FALSE,
           UNCHANGED <<clients, store, file>>,
           \/ \E line \in Script[p] : sock' = [sock EXCEPT ![p].rx = @ \o line]
           \/ sock' = [sock EXCEPT ![p].fin = TRUE]
    PROVE  Service!Next /\ Ended'
<1>1. Socket(sock[p]) /\ pending_input(ConnectionOf(p)) \in Seq(Byte) /\ sock[p].rx \in Seq(Byte)
  BY SeenBytes
<1>2. LostPeer(p) = FALSE /\ Status(p) = "open" /\ sock[p].rst = FALSE
  BY <1>1 DEF Connected, LostPeer, Status, Socket
<1>3. PICK r, i : r = sock[p] /\ i = pending_input(ConnectionOf(p))
  OBVIOUS
<1>4. CASE \E line \in Script[p] : sock' = [sock EXCEPT ![p].rx = @ \o line]
  <2>1. PICK l \in Script[p] : sock' = [sock EXCEPT ![p].rx = @ \o l]
    BY <1>4
  <2>2. l \in Seq(Byte) /\ l \in Lines
    BY EventLoopAssumption DEF Lines
  <2>3. PICK x, s : x = r.rx \o l /\ s = [sock[p] EXCEPT !.rx = x]
    OBVIOUS
  <2>4. /\ s.rx = x /\ s.tx = r.tx /\ s.fin = r.fin /\ s.rst = r.rst /\ s.state = r.state
    BY <1>1, <1>3, <2>1, <2>3 DEF Socket
  <2>5. sock' = [sock EXCEPT ![p] = s]
    BY <1>1, <1>3, <2>1, <2>3
  <2>6. OthersKeep(p) /\ ConnectionOf(p)' = ConnectionOf(p) /\ sock'[p] = s /\ Ended'
    BY <2>5, PeerKeeps
  <2>7. LostPeer(p)' = FALSE
    BY <1>2, <1>3, <2>4, <2>6 DEF LostPeer, Connected
  <2>8. Status(p)' = Status(p) /\ Outbox(p)' = Outbox(p)
    BY <1>2, <1>3, <2>4, <2>6, <2>7 DEF Status, Outbox
  <2>9. i \o (r.rx \o l) = (i \o r.rx) \o l
    <3>1. PICK y : y = r.rx
      OBVIOUS
    <3>2. i \in Seq(Byte) /\ y \in Seq(Byte) /\ l \in Seq(Byte)
      BY <1>1, <1>3, <2>2, <3>1
    <3>3. i \o (y \o l) = (i \o y) \o l
      BY <3>2, ConcatAssociative
    <3> QED
      BY <3>1, <3>3
  <2>10. Inbox(p)' = Inbox(p) \o l
    BY <1>3, <2>3, <2>4, <2>6, <2>9 DEF Inbox
  <2>11. Service!Next
    BY <1>2, <2>2, <2>6, <2>8, <2>10, ServiceSends
  <2> QED
    BY <2>6, <2>11
<1>5. CASE sock' = [sock EXCEPT ![p].fin = TRUE]
  <2>1. PICK s : s = [sock[p] EXCEPT !.fin = TRUE]
    OBVIOUS
  <2>2. s.rx = r.rx /\ s.tx = r.tx /\ s.fin = TRUE /\ s.rst = r.rst /\ s.state = r.state
    BY <1>1, <1>3, <2>1 DEF Socket
  <2>3. sock' = [sock EXCEPT ![p] = s]
    BY <1>5, <2>1
  <2>4. OthersKeep(p) /\ ConnectionOf(p)' = ConnectionOf(p) /\ sock'[p] = s /\ Ended'
    BY <2>3, PeerKeeps
  <2>5. LostPeer(p)' = FALSE
    BY <1>2, <1>3, <2>2, <2>4 DEF LostPeer, Connected
  <2>6. Status(p)' = "ended" /\ Outbox(p)' = Outbox(p) /\ Inbox(p)' = Inbox(p)
    BY <1>2, <1>3, <2>2, <2>4, <2>5 DEF Status, Outbox, Inbox
  <2>7. Service!Next
    BY <1>2, <2>4, <2>6, ServiceHalfCloses
  <2> QED
    BY <2>4, <2>7
<1> QED
  BY <1>4, <1>5

(* A reset, and replies read.                                               *)
LEMMA PeerReadsSeen ==
    ASSUME Data, Streams, NEW p \in Peers, UNCHANGED <<clients, store, file>>,
           \/ sock' = [sock EXCEPT ![p] = [@ EXCEPT !.rst = TRUE, !.tx = <<>>]]
           \/ sock[p].tx # <<>> /\ sock' = [sock EXCEPT ![p].tx = <<>>]
    PROVE  Service!Next /\ Ended'
<1>1. /\ Socket(sock[p]) /\ sock[p].tx \in Seq(Byte) /\ Inbox(p) \in Seq(Byte)
      /\ Outbox(p) \in Seq(Byte) /\ pending_output(ConnectionOf(p)) \in Seq(Byte)
  BY SeenBytes
<1>2. PICK r, t, o : r = sock[p] /\ t = sock[p].tx /\ o = pending_output(ConnectionOf(p))
  OBVIOUS
<1>3. CASE sock' = [sock EXCEPT ![p] = [@ EXCEPT !.rst = TRUE, !.tx = <<>>]]
  <2>1. PICK s : s = [sock[p] EXCEPT !.rst = TRUE, !.tx = <<>>]
    OBVIOUS
  <2>2. s.rx = r.rx /\ s.tx = <<>> /\ s.fin = r.fin /\ s.rst = TRUE
    BY <1>1, <1>2, <2>1 DEF Socket
  <2>3. sock' = [sock EXCEPT ![p] = s]
    BY <1>3, <2>1
  <2>4. OthersKeep(p) /\ ConnectionOf(p)' = ConnectionOf(p) /\ sock'[p] = s /\ Ended'
    BY <1>2, <2>2, <2>3, PeerKeeps
  <2>5. LostPeer(p)'
    BY <2>2, <2>4 DEF LostPeer
  <2>6. Status(p)' = "lost" /\ Outbox(p)' = <<>> /\ Inbox(p)' = Inbox(p)
    BY <1>2, <2>2, <2>4, <2>5 DEF Status, Outbox, Inbox
  <2>7. PICK m, i : i = Inbox(p) /\ m = Len(i)
    OBVIOUS
  <2>8. m \in 0..Len(Inbox(p)) /\ Inbox(p)' = SubSeq(Inbox(p), 1, m)
    <3>1. i \in Seq(Byte) /\ Len(i) \in Nat
      BY <1>1, <2>7, LenProperties
    <3>2. SubSeq(i, 1, Len(i)) = i
      BY <3>1, SubSeqFull
    <3> QED
      BY <2>6, <2>7, <3>1, <3>2
  <2>9. 0 \in 0..Len(Outbox(p)) /\ Outbox(p)' = SubSeq(Outbox(p), 1, 0)
    BY <1>1, <2>6, SubSeqEmpty, LenProperties
  <2>10. Service!Next
    BY <2>4, <2>6, <2>8, <2>9, ServiceLoses
  <2> QED
    BY <2>4, <2>10
<1>4. CASE sock[p].tx # <<>> /\ sock' = [sock EXCEPT ![p].tx = <<>>]
  <2>1. PICK s : s = [sock[p] EXCEPT !.tx = <<>>]
    OBVIOUS
  <2>2. s.rx = r.rx /\ s.tx = <<>> /\ s.fin = r.fin /\ s.rst = r.rst /\ s.state = r.state
    BY <1>1, <1>2, <2>1 DEF Socket
  <2>3. sock' = [sock EXCEPT ![p] = s]
    BY <1>4, <2>1
  <2>4. OthersKeep(p) /\ ConnectionOf(p)' = ConnectionOf(p) /\ sock'[p] = s /\ Ended'
    BY <1>2, <2>2, <2>3, PeerKeeps
  <2>5. LostPeer(p)' = LostPeer(p)
    BY <1>2, <2>2, <2>4 DEF LostPeer
  <2>6. Status(p)' = Status(p) /\ Inbox(p)' = Inbox(p)
    BY <1>2, <2>2, <2>4, <2>5 DEF Status, Inbox
  <2>7. t \in Seq(Byte) /\ o \in Seq(Byte) /\ Len(t) \in Nat /\ Len(t) # 0 /\ Len(o) \in Nat
    BY <1>1, <1>2, <1>4, EmptySeq, LenProperties
  <2>8. PICK n : n = Len(t)
    OBVIOUS
  <2>9. SubSeq(t, n + 1, Len(t)) = <<>>
    BY <2>7, <2>8, SubSeqEmpty
  <2>10. n \in 1..Len(Outbox(p)) /\ Outbox(p)' = SubSeq(Outbox(p), n + 1, Len(Outbox(p)))
    <3>1. CASE LostPeer(p)
      <4>1. Outbox(p) = t /\ Outbox(p)' = <<>>
        BY <1>2, <2>2, <2>4, <2>5, <3>1 DEF Outbox
      <4> QED
        BY <2>7, <2>8, <2>9, <4>1
    <3>2. CASE ~LostPeer(p)
      <4>1. Outbox(p) = t \o o /\ Outbox(p)' = <<>> \o o
        BY <1>2, <2>2, <2>4, <2>5, <3>2 DEF Outbox
      <4>2. SubSeq(t \o o, n + 1, Len(t \o o)) = SubSeq(t, n + 1, Len(t)) \o o
        BY <2>7, <2>8, SuffixOfConcat
      <4>3. Len(t \o o) = Len(t) + Len(o)
        BY <2>7, ConcatProperties
      <4>4. n \in 1..Len(t \o o)
        BY <2>7, <2>8, <4>3
      <4> QED
        BY <2>9, <4>1, <4>2, <4>4
    <3> QED
      BY <3>1, <3>2
  <2>11. Service!Next
    BY <2>4, <2>6, <2>10, ServiceDelivers
  <2> QED
    BY <2>4, <2>11
<1> QED
  BY <1>3, <1>4

(* A peer comes back, and nothing of its last connection is left.           *)
LEMMA PeerReturnsSeen ==
    ASSUME Data, Streams, NEW p \in Peers, UNCHANGED <<clients, store, file>>,
           p \in Reconnecting, sock[p].state \in {"closed", "lost"},
           sock' = [sock EXCEPT ![p] = NewSocket]
    PROVE  Service!Next /\ Ended'
<1>1. PICK s : s = NewSocket
  OBVIOUS
<1>2. s.rx = <<>> /\ s.tx = <<>> /\ s.fin = FALSE /\ s.rst = FALSE /\ s.state = "new"
  BY <1>1 DEF NewSocket
<1>3. OthersKeep(p) /\ ConnectionOf(p)' = ConnectionOf(p) /\ sock'[p] = s /\ Ended'
  BY <1>1, PeerKeeps
<1>4. ConnectionOf(p) = NewConnection
  <2>1. FdsIn(clients, file, p) = {}
    BY DEF FdsIn, Streams, Seats
  <2> QED
    BY <2>1, NoConn, ConnForms
<1>5. sock[p].rx = <<>> /\ (sock[p].state = "closed" => sock[p].fin = TRUE)
  BY DEF Streams, Gone
<1>6. <<>> \o <<>> = <<>>
  BY EmptySeq, ConcatEmptySeq
<1>7. Inbox(p) = <<>> /\ Inbox(p)' = <<>>
  BY <1>2, <1>3, <1>4, <1>5, <1>6, NothingPending DEF Inbox
<1>8. Status(p) # "open"
  BY <1>5 DEF Status, LostPeer
<1>9. LostPeer(p)' = FALSE
  BY <1>2, <1>3 DEF LostPeer
<1>10. Status(p)' = "open" /\ Outbox(p)' = <<>>
  BY <1>2, <1>3, <1>4, <1>6, <1>9, NothingPending DEF Status, Outbox
<1>11. Service!Next
  BY <1>3, <1>7, <1>8, <1>10, ServiceReturns
<1> QED
  BY <1>3, <1>11

(* A connection in the queue is already open to the client.                 *)
LEMMA ConnectSeen ==
    ASSUME Data, Streams, NEW p \in Peers, PeerConnect(p) PROVE NothingSeen /\ Ended'
<1>1. /\ sock[p].state = "new" /\ sock' = [sock EXCEPT ![p].state = "queued"]
      /\ UNCHANGED <<clients, store, file>>
  BY DEF PeerConnect
<1>2. Socket(sock[p])
  BY DEF Data, Sockets
<1>3. PICK s : s = [sock[p] EXCEPT !.state = "queued"]
  OBVIOUS
<1>4. /\ s.rx = sock[p].rx /\ s.tx = sock[p].tx /\ s.fin = sock[p].fin
      /\ s.rst = sock[p].rst /\ s.state = "queued"
  BY <1>2, <1>3 DEF Socket
<1>5. sock' = [sock EXCEPT ![p] = s]
  BY <1>1, <1>3
<1>6. OthersKeep(p) /\ ConnectionOf(p)' = ConnectionOf(p) /\ sock'[p] = s /\ Ended'
  BY <1>1, <1>4, <1>5, PeerKeeps
<1>7. LostPeer(p)' = LostPeer(p)
  BY <1>1, <1>4, <1>6 DEF LostPeer
<1>8. Inbox(p)' = Inbox(p) /\ Outbox(p)' = Outbox(p) /\ Status(p)' = Status(p)
  BY <1>4, <1>6, <1>7 DEF Inbox, Outbox, Status
<1> QED
  BY <1>1, <1>6, <1>8, SeenByNobody

(* Together: what the peers do.                                             *)
LEMMA PeerSeen ==
    ASSUME Data, Streams, NEW p \in Peers, PeerConnect(p) \/ PeerStep(p)
    PROVE  (Service!Next \/ NothingSeen) /\ Ended'
<1>1. Socket(sock[p])
  BY DEF Data, Sockets
<1>2. CASE PeerConnect(p)
  BY <1>2, ConnectSeen
<1>3. CASE PeerStep(p)
  <2>1. UNCHANGED <<clients, store, file>>
    BY <1>3 DEF PeerStep
  <2>2. CASE Connected(p) /\ ~sock[p].fin
             /\ \E line \in Script[p] : sock' = [sock EXCEPT ![p].rx = @ \o line]
    <3>1. sock[p].fin = FALSE
      BY <1>1, <2>2 DEF Socket
    <3> QED
      BY <2>1, <2>2, <3>1, PeerWritesSeen
  <2>3. CASE Connected(p) /\ ~sock[p].fin /\ sock' = [sock EXCEPT ![p].fin = TRUE]
    <3>1. sock[p].fin = FALSE
      BY <1>1, <2>3 DEF Socket
    <3> QED
      BY <2>1, <2>3, <3>1, PeerWritesSeen
  <2>4. CASE \/ sock' = [sock EXCEPT ![p] = [@ EXCEPT !.rst = TRUE, !.tx = <<>>]]
             \/ sock[p].tx # <<>> /\ sock' = [sock EXCEPT ![p].tx = <<>>]
    BY <2>1, <2>4, PeerReadsSeen
  <2>5. CASE p \in Reconnecting /\ sock[p].state \in {"closed", "lost"}
             /\ sock' = [sock EXCEPT ![p] = NewSocket]
    BY <2>1, <2>5, PeerReturnsSeen
  <2> QED
    BY <1>3, <2>2, <2>3, <2>4, <2>5, Zenon DEF PeerStep
<1> QED
  BY <1>2, <1>3

-----------------------------------------------------------------------------
(* The seats                                                                *)

(* What a step may do to a socket that it neither accepts nor closes.       *)
Tame(q) ==
    \/ sock'[q] = sock[q]
    \/ sock[q].state \in {"queued", "open"} /\ sock'[q].state = sock[q].state
    \/ /\ sock'[q].state = sock[q].state /\ sock'[q].rx = sock[q].rx
       /\ sock'[q].fin = sock[q].fin
    \/ sock[q].state \in {"closed", "lost"} /\ sock'[q].state = "new"

(* The seats stay when no entry comes or goes.                              *)
LEMMA SeatsKept ==
    ASSUME Data, Streams, \A q \in Peers : Tame(q), queue' = queue,
           DOMAIN clients' = DOMAIN clients, \A fd \in DOMAIN clients : file'[fd] = file[fd]
    PROVE  Seats' /\ Gone'
<1>1. \A i \in 1..Len(queue) : queue[i] \in Peers
  BY ElementOfSeq DEF Data, Tables
<1>2. \A q \in Peers : sock[q].state \in {"queued", "open"} => sock'[q].state = sock[q].state
  BY DEF Tame
<1>3. \A fd \in DOMAIN clients : file[fd] \in Peers
  BY DEF Data, Tables
<1>4. Seats'
  BY <1>1, <1>2, <1>3 DEF Streams, Seats
<1>5. ASSUME NEW q \in Peers
      PROVE  /\ sock'[q].state \in {"closed", "lost"} => sock'[q].rx = <<>>
             /\ sock'[q].state = "closed" => sock'[q].fin = TRUE
  BY DEF Streams, Gone, Tame
<1>6. Gone'
  BY <1>5 DEF Gone
<1> QED
  BY <1>4, <1>6

(* One socket is closed.                                                    *)
LEMMA GoneShut ==
    ASSUME Data, Streams, NEW p \in Peers, NEW state \in {"closed", "lost"}, NEW t,
           Shut(p, state, t), state = "closed" => sock[p].fin = TRUE
    PROVE  Gone'
<1>1. /\ \A q \in Peers \ {p} : sock'[q] = sock[q]
      /\ sock'[p].fin = sock[p].fin /\ sock'[p].rx = <<>>
  BY ShutOne
<1>2. sock'[p].state = state
  BY DEF Shut, Data, Sockets, Socket
<1>3. ASSUME NEW q \in Peers
      PROVE  /\ sock'[q].state \in {"closed", "lost"} => sock'[q].rx = <<>>
             /\ sock'[q].state = "closed" => sock'[q].fin = TRUE
  BY <1>1, <1>2 DEF Streams, Gone
<1> QED
  BY <1>3 DEF Gone

(* A client that goes frees its seat.                                       *)
LEMMA RetireSeats ==
    ASSUME Inv, Data, Streams, NEW fd \in DOMAIN clients, NEW p, p = file[fd],
           NEW state \in {"closed", "lost"}, NEW t, clients' = erased(clients, fd),
           close(fd, state, t), queue' = queue, state = "closed" => sock[p].fin = TRUE
    PROVE  Seats' /\ Gone'
<1>1. p \in Peers /\ Shut(p, state, t) /\ file' = erased(file, fd)
  BY DEF close, Data, Tables
<1>2. Gone'
  BY <1>1, GoneShut
<1>3. \A q \in Peers \ {p} : sock'[q] = sock[q]
  BY <1>1, ShutOne
<1>4. DOMAIN clients \subseteq DOMAIN file
  BY DEF Inv, Owned
<1>5. /\ DOMAIN clients' = DOMAIN clients \ {fd}
      /\ \A g \in DOMAIN clients' : file'[g] = file[g]
  <2>1. DOMAIN clients' = DOMAIN clients \ {fd} /\ \A g \in DOMAIN file \ {fd} : file'[g] = file[g]
    BY <1>1, ErasedDomain
  <2> QED
    BY <1>4, <2>1
<1>6. \A g \in DOMAIN clients' : file[g] \in Peers \ {p}
  BY <1>5 DEF Streams, Seats, Data, Tables
<1>7. \A i \in 1..Len(queue) : queue[i] \in Peers \ {p}
  <2>1. \A i \in 1..Len(queue) : queue[i] \in Peers
    BY ElementOfSeq DEF Data, Tables
  <2> QED
    BY <2>1 DEF Streams, Seats
<1>8. Seats'
  BY <1>3, <1>5, <1>6, <1>7 DEF Streams, Seats
<1> QED
  BY <1>2, <1>8

(* So does a connection that leaves the queue.                              *)
LEMMA RefuseSeats ==
    ASSUME Data, Streams, queue # <<>>, queue' = Tail(queue),
           Shut(Head(queue), "lost", <<>>), UNCHANGED <<clients, file>>
    PROVE  Seats' /\ Gone'
<1>1. PICK p : p = Head(queue)
  OBVIOUS
<1>2. p \in Peers /\ \A fd \in DOMAIN clients : file[fd] # p
  BY <1>1, QueuedPeer
<1>3. Shut(p, "lost", <<>>)
  BY <1>1
<1>4. Gone'
  BY <1>2, <1>3, GoneShut
<1>5. \A q \in Peers \ {p} : sock'[q] = sock[q]
  BY <1>2, <1>3, ShutOne
<1>6. Queued
  BY DEF Streams, Seats, Queued, Data, Tables
<1>7. Queued'
  BY <1>1, <1>5, <1>6, QueueTail
<1>8. \A fd \in DOMAIN clients : sock'[file[fd]] = sock[file[fd]]
  BY <1>2, <1>5 DEF Data, Tables
<1>9. Seats'
  BY <1>7, <1>8 DEF Streams, Seats, Queued
<1> QED
  BY <1>4, <1>9

(* accept takes a connection out of the queue, ...                          *)
LEMMA AcceptReturnsSeats ==
    ASSUME Inv, Data, Streams, AcceptReturns PROVE Seats' /\ Gone'
<1>1. PICK p, n : p = Head(queue) /\ n = Lowest
  OBVIOUS
<1>2. /\ queue # <<>> /\ Free # {} /\ queue' = Tail(queue) /\ file' = set(file, n, p)
      /\ sock' = [sock EXCEPT ![p].state = "open"] /\ clients' = clients
  BY <1>1 DEF AcceptReturns
<1>3. p \in Peers /\ \A fd \in DOMAIN clients : file[fd] # p
  BY <1>1, <1>2, QueuedPeer
<1>4. sock'[p].state = "open" /\ \A q \in Peers \ {p} : sock'[q] = sock[q]
  BY <1>2, <1>3 DEF Data, Sockets, Socket
<1>5. n \notin DOMAIN file /\ DOMAIN clients \subseteq DOMAIN file
  BY <1>1, <1>2, FreshNumber DEF Inv, Owned
<1>6. \A g \in DOMAIN clients : file'[g] = file[g] /\ file[g] \in Peers \ {p}
  BY <1>2, <1>3, <1>5 DEF set, Data, Tables
<1>7. Queued
  BY DEF Streams, Seats, Queued, Data, Tables
<1>8. Queued'
  BY <1>1, <1>2, <1>4, <1>7, QueueTail
<1>9. Seats'
  BY <1>2, <1>4, <1>6, <1>8 DEF Streams, Seats, Queued
<1>10. ASSUME NEW q \in Peers
       PROVE  /\ sock'[q].state \in {"closed", "lost"} => sock'[q].rx = <<>>
              /\ sock'[q].state = "closed" => sock'[q].fin = TRUE
  BY <1>4 DEF Streams, Gone
<1>11. Gone'
  BY <1>10 DEF Gone
<1> QED
  BY <1>9, <1>11

(* ... the map gives it a seat of its own, ...                              *)
LEMMA AcceptEmplacesSeats ==
    ASSUME Inv, Watch, Data, Streams, AcceptEmplaces PROVE Seats' /\ Gone'
<1>1. PICK n, p, e : n = main.fd /\ p = file[main.fd] /\ e = [conn |-> NewConnection, idle |-> 0]
  OBVIOUS
<1>2. /\ p \in Peers /\ sock[p].state = "open" /\ n \notin DOMAIN clients
      /\ \A fd \in DOMAIN clients : file[fd] # p
  BY <1>1, ArrivedPeer DEF AcceptEmplaces
<1>3. /\ clients' = set(clients, n, e) /\ sock' = [sock EXCEPT ![p].nonblocking = TRUE]
      /\ UNCHANGED <<file, queue>>
  BY <1>1, <1>2 DEF AcceptEmplaces, set_nonblocking
<1>4. DOMAIN clients' = DOMAIN clients \cup {n}
  BY <1>3 DEF set
<1>5. /\ \A q \in Peers \ {p} : sock'[q] = sock[q]
      /\ sock'[p].state = sock[p].state
  BY <1>2, <1>3 DEF Data, Sockets, Socket
<1>6. \A q \in Peers : sock'[q].state = sock[q].state
  BY <1>5
<1>7. \A i \in 1..Len(queue) : queue[i] \in Peers
  BY ElementOfSeq DEF Data, Tables
<1>8. \A g \in DOMAIN clients : file[g] \in Peers
  BY DEF Data, Tables
<1>9. \A g \in DOMAIN clients' : sock'[file[g]].state = "open"
  BY <1>1, <1>2, <1>4, <1>6, <1>8 DEF Streams, Seats
<1>10. \A g, h \in DOMAIN clients' : file[g] = file[h] => g = h
  BY <1>1, <1>2, <1>4 DEF Streams, Seats
<1>11. Seats'
  BY <1>3, <1>6, <1>7, <1>9, <1>10 DEF Streams, Seats
<1>12. ASSUME NEW q \in Peers
       PROVE  /\ sock'[q].state \in {"closed", "lost"} => sock'[q].rx = <<>>
              /\ sock'[q].state = "closed" => sock'[q].fin = TRUE
  BY <1>2, <1>5 DEF Streams, Gone
<1>13. Gone'
  BY <1>12 DEF Gone
<1> QED
  BY <1>11, <1>13

(* ... or it is refused and leaves the seats as they are.                   *)
LEMMA RefusedSeats ==
    ASSUME Inv, Watch, Data, Streams, main.pc = "accepted", Refused PROVE Seats' /\ Gone'
<1>1. PICK p : p = file[main.fd]
  OBVIOUS
<1>2. /\ p \in Peers /\ sock[p].state = "open" /\ main.fd \notin DOMAIN clients
      /\ DOMAIN clients \subseteq DOMAIN file /\ \A fd \in DOMAIN clients : file[fd] # p
  BY <1>1, ArrivedPeer
<1>3. /\ Shut(p, "lost", <<>>) /\ file' = erased(file, main.fd)
      /\ UNCHANGED <<clients, queue>>
  BY <1>1 DEF Refused, close
<1>4. \A g \in DOMAIN clients : file'[g] = file[g]
  BY <1>2, <1>3, ErasedDomain
<1>5. Gone'
  BY <1>2, <1>3, GoneShut
<1>6. \A q \in Peers \ {p} : sock'[q] = sock[q]
  BY <1>2, <1>3, ShutOne
<1>7. \A i \in 1..Len(queue) : queue[i] \in Peers \ {p}
  <2>1. \A i \in 1..Len(queue) : queue[i] \in Peers
    BY ElementOfSeq DEF Data, Tables
  <2> QED
    BY <1>2, <2>1 DEF Streams, Seats
<1>8. \A g \in DOMAIN clients : file[g] \in Peers \ {p}
  BY <1>2 DEF Data, Tables
<1>9. Seats'
  BY <1>3, <1>4, <1>6, <1>7, <1>8 DEF Streams, Seats
<1> QED
  BY <1>5, <1>9

(* A connection that joins the queue is in it once.                         *)
LEMMA ConnectSeats ==
    ASSUME Data, Streams, NEW p \in Peers, PeerConnect(p)
    PROVE  Seats' /\ Gone'
<1>1. /\ sock[p].state = "new" /\ sock' = [sock EXCEPT ![p].state = "queued"]
      /\ queue' = Append(queue, p) /\ UNCHANGED <<clients, file>>
  BY DEF PeerConnect
<1>2. sock'[p].state = "queued" /\ \A q \in Peers \ {p} : sock'[q] = sock[q]
  BY <1>1 DEF Data, Sockets, Socket
<1>3. queue \in Seq(Peers) /\ Len(queue) \in Nat
  BY LenProperties DEF Data, Tables
<1>4. /\ Len(queue') = Len(queue) + 1 /\ queue'[Len(queue) + 1] = p
      /\ \A i \in 1..Len(queue) : queue'[i] = queue[i]
  BY <1>1, <1>3, AppendProperties
<1>5. \A i \in 1..Len(queue) : queue[i] \in Peers \ {p}
  <2>1. \A i \in 1..Len(queue) : queue[i] \in Peers
    BY <1>3, ElementOfSeq
  <2> QED
    BY <1>1, <2>1 DEF Streams, Seats
<1>6. \A i \in 1..Len(queue') : i \in 1..Len(queue) \/ i = Len(queue) + 1
  BY <1>3, <1>4
<1>7. \A i \in 1..Len(queue') : sock'[queue'[i]].state = "queued"
  BY <1>2, <1>4, <1>5, <1>6 DEF Streams, Seats
<1>8. \A i, j \in 1..Len(queue') : queue'[i] = queue'[j] => i = j
  <2> SUFFICES ASSUME NEW i \in 1..Len(queue'), NEW j \in 1..Len(queue'), queue'[i] = queue'[j]
               PROVE  i = j
    OBVIOUS
  <2>1. CASE i \in 1..Len(queue) /\ j \in 1..Len(queue)
    BY <1>4, <2>1 DEF Streams, Seats
  <2>2. CASE i = Len(queue) + 1 /\ j \in 1..Len(queue)
    BY <1>4, <1>5, <2>2
  <2>3. CASE j = Len(queue) + 1 /\ i \in 1..Len(queue)
    BY <1>4, <1>5, <2>3
  <2> QED
    BY <1>6, <2>1, <2>2, <2>3
<1>9. \A fd \in DOMAIN clients : sock'[file[fd]] = sock[file[fd]]
  <2>1. \A fd \in DOMAIN clients : file[fd] \in Peers \ {p}
    BY <1>1 DEF Streams, Seats, Data, Tables
  <2> QED
    BY <1>2, <2>1
<1>10. Seats'
  BY <1>1, <1>7, <1>8, <1>9 DEF Streams, Seats
<1>11. ASSUME NEW q \in Peers
       PROVE  /\ sock'[q].state \in {"closed", "lost"} => sock'[q].rx = <<>>
              /\ sock'[q].state = "closed" => sock'[q].fin = TRUE
  BY <1>2 DEF Streams, Gone
<1>12. Gone'
  BY <1>11 DEF Gone
<1> QED
  BY <1>10, <1>12

(* A step that leaves the sockets and the queue alone.                      *)
LEMMA SeatsQuiet ==
    ASSUME Data, Streams, UNCHANGED <<queue, sock>>, DOMAIN clients' = DOMAIN clients,
           \A fd \in DOMAIN clients : file'[fd] = file[fd]
    PROVE  Seats' /\ Gone'
<1>1. \A q \in Peers : Tame(q)
  BY DEF Tame
<1> QED
  BY <1>1, SeatsKept

(* Startup, the scan, the wait and the dispatch.                            *)
LEMMA LoopSeats ==
    ASSUME Inv, Data, Streams, Start \/ Scan \/ Wait \/ Dispatch
    PROVE  Seats' /\ Gone'
<1>0. ASSUME NEW fd \in DOMAIN clients, retire_client(fd, "lost", sock[file[fd]].tx)
      PROVE  Seats' /\ Gone'
  <2>1. PICK p, t : p = file[fd] /\ t = sock[file[fd]].tx
    OBVIOUS
  <2>2. clients' = erased(clients, fd) /\ close(fd, "lost", t) /\ queue' = queue
    BY <1>0, <2>1 DEF retire_client
  <2> QED
    BY <2>1, <2>2, RetireSeats
<1>1. CASE Start
  <2>1. main.pc \in Starting /\ UNCHANGED <<clients, queue, sock>>
    BY <1>1 DEF Start, create_socket, ConfigureListener, CreatePoller, RegisterListener,
        StartupFails, Starting
  <2>2. DOMAIN clients = {}
    BY <2>1 DEF Inv, Fresh
  <2> QED
    BY <2>1, <2>2, SeatsQuiet
<1>2. ASSUME NEW fd \in Fd, ScanExpired(fd) PROVE Seats' /\ Gone'
  BY <1>0, <1>2 DEF ScanExpired, Scanning, Inv, Iterators
<1>3. CASE ScanEnd \/ \E fd \in Fd : ScanRunnable(fd) \/ ScanQuiet(fd)
  <2>1. UNCHANGED <<file, queue, sock>> /\ DOMAIN clients' = DOMAIN clients
    BY <1>3 DEF ScanEnd, ScanRunnable, ScanQuiet
  <2> QED
    BY <2>1, SeatsQuiet
<1>4. CASE Wait
  <2>1. UNCHANGED <<file, queue, sock>> /\ (LetPass \/ UNCHANGED clients)
    BY <1>4 DEF Wait, WaitNothing, WaitFails, WaitEvent
  <2>2. DOMAIN clients' = DOMAIN clients
    BY <2>1 DEF LetPass
  <2> QED
    BY <2>1, <2>2, SeatsQuiet
<1>5. CASE DispatchBroken
  <2>1. PICK fd \in DOMAIN clients : retire_client(fd, "lost", sock[file[fd]].tx)
    BY <1>5 DEF DispatchBroken
  <2> QED
    BY <1>0, <2>1
<1>6. CASE DispatchClient \/ DispatchListener
  <2>1. UNCHANGED <<clients, file, queue, sock>>
    BY <1>6 DEF DispatchClient, DispatchListener
  <2> QED
    BY <2>1, SeatsQuiet
<1> QED
  BY <1>1, <1>2, <1>3, <1>4, <1>5, <1>6 DEF Scan, Dispatch

(* The end of main and the accept loop.                                     *)
LEMMA QueueSeats ==
    ASSUME Inv, Watch, Data, Streams, Unwind \/ Accept
    PROVE  Seats' /\ Gone'
<1>0. DOMAIN clients \subseteq DOMAIN file /\ main.listener \notin DOMAIN clients
  BY DEF Inv, Owned
<1>1. ASSUME NEW fd \in DOMAIN clients, clients' = erased(clients, fd), queue' = queue,
             close(fd, "lost", sock[file[fd]].tx)
      PROVE  Seats' /\ Gone'
  <2>1. PICK p, t : p = file[fd] /\ t = sock[file[fd]].tx
    OBVIOUS
  <2>2. close(fd, "lost", t)
    BY <1>1, <2>1
  <2> QED
    BY <1>1, <2>1, <2>2, RetireSeats
<1>2. ASSUME queue # <<>>, queue' = Tail(queue), Shut(Head(queue), "lost", <<>>),
             UNCHANGED <<clients, file>>
      PROVE  Seats' /\ Gone'
  BY <1>2, RefuseSeats
<1>3. CASE Unwind
  <2>1. ASSUME DOMAIN clients = {}, UNCHANGED <<clients, queue, sock>>
        PROVE  Seats' /\ Gone'
    BY <2>1, SeatsQuiet
  <2>2. ASSUME file' = erased(file, main.listener), UNCHANGED <<clients, queue, sock>>
        PROVE  Seats' /\ Gone'
    <3>1. \A fd \in DOMAIN clients : file'[fd] = file[fd]
      BY <1>0, <2>2, ErasedDomain
    <3> QED
      BY <2>2, <3>1, SeatsQuiet
  <2> QED
    BY <1>1, <1>2, <1>3, <2>1, <2>2 DEF Unwind
<1>4. CASE AcceptAborted
  BY <1>2, <1>4 DEF AcceptAborted
<1>5. CASE AcceptInterrupted \/ AcceptFails \/ AcceptDone \/ AcceptClient \/ AttemptEnds
  <2>1. UNCHANGED <<clients, file, queue, sock>>
    BY <1>5 DEF AcceptInterrupted, AcceptFails, AcceptDone, AcceptClient, AttemptEnds
  <2> QED
    BY <2>1, SeatsQuiet
<1>6. CASE AcceptFull \/ AcceptUnusable
  BY <1>6, RefusedSeats DEF AcceptFull, AcceptUnusable
<1>7. CASE AcceptUnwatched
  <2>1. PICK fd \in DOMAIN clients : fd = main.fd
    BY <1>7 DEF AcceptUnwatched, Inv, Iterators
  <2>2. clients' = erased(clients, fd) /\ close(fd, "lost", <<>>) /\ queue' = queue
    BY <1>7, <2>1 DEF AcceptUnwatched
  <2> QED
    BY <2>2, RetireSeats
<1> QED
  BY <1>3, <1>4, <1>5, <1>6, <1>7, AcceptReturnsSeats, AcceptEmplacesSeats DEF Accept

(* The visits.                                                              *)
LEMMA VisitSeats ==
    ASSUME Inv, Data, Streams, Visit
    PROVE  Seats' /\ Gone'
<1>0. main.pc \in {"recv", "exec"}
  BY DEF Visit, VisitRecv, VisitRecvError, VisitExec, VisitFails, VisitEnds
<1>1. PICK fd \in DOMAIN clients : fd = main.fd
  BY <1>0, VisitFacts
<1>2. PICK p \in Peers : p = peer
  BY <1>0, VisitFacts
<1>3. p = file[fd] /\ sock[p].state = "open" /\ Socket(sock[p])
  BY <1>1, <1>2 DEF peer, Streams, Seats, Data, Sockets
<1>4. ASSUME NEW state \in {"closed", "lost"}, NEW t, retire_client(main.fd, state, t),
             state = "closed" => sock[p].fin = TRUE
      PROVE  Seats' /\ Gone'
  <2>1. clients' = erased(clients, fd) /\ close(fd, state, t) /\ queue' = queue
    BY <1>1, <1>4 DEF retire_client
  <2> QED
    BY <1>3, <1>4, <2>1, RetireSeats
<1>5. ASSUME DOMAIN clients' = DOMAIN clients, UNCHANGED <<file, queue>>,
             sock'[p].state = sock[p].state, \A q \in Peers \ {p} : sock'[q] = sock[q]
      PROVE  Seats' /\ Gone'
  <2>1. \A q \in Peers : Tame(q)
    BY <1>3, <1>5 DEF Tame
  <2> QED
    BY <1>5, <2>1, SeatsKept
<1>6. CASE VisitRecv
  <2>1. /\ DOMAIN clients' = DOMAIN clients /\ UNCHANGED <<file, queue>>
        /\ \E x : sock' = [sock EXCEPT ![peer].rx = x]
    BY <1>6, Zenon DEF VisitRecv
  <2>2. PICK x : sock' = [sock EXCEPT ![peer].rx = x]
    BY <2>1
  <2>3. sock'[p].state = sock[p].state /\ \A q \in Peers \ {p} : sock'[q] = sock[q]
    BY <1>2, <1>3, <2>2 DEF Data, Sockets, Socket
  <2> QED
    BY <1>5, <2>1, <2>3
<1>7. CASE VisitExec
  <2>1. DOMAIN clients' = DOMAIN clients /\ UNCHANGED <<file, queue, sock>>
    BY <1>7 DEF VisitExec
  <2> QED
    BY <1>5, <2>1
<1>8. CASE VisitRecvError \/ VisitFails
  <2>1. \E t : retire_client(main.fd, "lost", t)
    BY <1>8, Zenon DEF VisitRecvError, VisitFails
  <2>2. PICK t : retire_client(main.fd, "lost", t)
    BY <2>1
  <2>3. PICK state \in {"closed", "lost"} : state = "lost"
    OBVIOUS
  <2> QED
    BY <1>4, <2>2, <2>3
<1>9. CASE VisitEnds
  <2>1. PICK after \in Flushed :
          \/ Drained(after.conn) /\ retire_client(main.fd, "closed", after.tx)
          \/ /\ clients' = [clients EXCEPT ![main.fd] = [@ EXCEPT !.conn = after.conn,
                                                                  !.idle = after.idle]]
             /\ sock' = [sock EXCEPT ![peer].tx = after.tx]
             /\ UNCHANGED <<file, queue>>
          \/ retire_client(main.fd, "lost", after.tx)
    BY <1>9 DEF VisitEnds
  <2>2. main.pc = "exec"
    BY <1>9 DEF VisitEnds
  <2>3. PICK t : t = after.tx
    OBVIOUS
  <2>4. CASE Drained(after.conn) /\ retire_client(main.fd, "closed", after.tx)
    <3>1. AtEnd(conn)
      BY <2>2, <2>4, FlushedMoves DEF Drained
    <3>2. sock[p].fin = TRUE
      BY <1>2, <2>2, <3>1, EndedStream
    <3>3. PICK state \in {"closed", "lost"} : state = "closed"
      OBVIOUS
    <3> QED
      BY <1>4, <2>3, <2>4, <3>2, <3>3
  <2>5. CASE retire_client(main.fd, "lost", after.tx)
    <3>1. PICK state \in {"closed", "lost"} : state = "lost"
      OBVIOUS
    <3> QED
      BY <1>4, <2>3, <2>5, <3>1
  <2>6. CASE /\ clients' = [clients EXCEPT ![main.fd] = [@ EXCEPT !.conn = after.conn,
                                                                  !.idle = after.idle]]
             /\ sock' = [sock EXCEPT ![peer].tx = after.tx]
             /\ UNCHANGED <<file, queue>>
    <3>1. DOMAIN clients' = DOMAIN clients
      BY <2>6
    <3>2. sock'[p].state = sock[p].state /\ \A q \in Peers \ {p} : sock'[q] = sock[q]
      BY <1>2, <1>3, <2>6 DEF Data, Sockets, Socket
    <3> QED
      BY <1>5, <2>6, <3>1, <3>2
  <2> QED
    BY <2>1, <2>4, <2>5, <2>6
<1> QED
  BY <1>6, <1>7, <1>8, <1>9 DEF Visit

(* The peers.                                                               *)
LEMMA PeerSeats ==
    ASSUME Data, Streams, NEW p \in Peers, PeerStep(p)
    PROVE  Seats' /\ Gone'
<1>0. Socket(sock[p]) /\ UNCHANGED <<clients, file, queue>>
  BY DEF PeerStep, Data, Sockets
<1>1. ASSUME NEW s, sock' = [sock EXCEPT ![p] = s],
             \/ Connected(p) /\ s.state = sock[p].state
             \/ s.state = sock[p].state /\ s.rx = sock[p].rx /\ s.fin = sock[p].fin
             \/ sock[p].state \in {"closed", "lost"} /\ s.state = "new"
      PROVE  Seats' /\ Gone'
  <2>1. sock'[p] = s /\ \A q \in Peers \ {p} : sock'[q] = sock[q]
    BY <1>1 DEF Data, Sockets
  <2>2. \A q \in Peers : Tame(q)
    BY <1>1, <2>1 DEF Tame, Connected
  <2> QED
    BY <1>0, <2>2, SeatsKept
<1>2. CASE Connected(p) /\ \E line \in Script[p] : sock' = [sock EXCEPT ![p].rx = @ \o line]
  <2>1. PICK x : sock' = [sock EXCEPT ![p].rx = x]
    BY <1>2
  <2>2. PICK s : s = [sock[p] EXCEPT !.rx = x]
    OBVIOUS
  <2>3. s.state = sock[p].state
    BY <1>0, <2>2 DEF Socket
  <2>4. sock' = [sock EXCEPT ![p] = s]
    BY <2>1, <2>2
  <2> QED
    BY <1>1, <1>2, <2>3, <2>4
<1>3. CASE Connected(p) /\ sock' = [sock EXCEPT ![p].fin = TRUE]
  <2>1. PICK s : s = [sock[p] EXCEPT !.fin = TRUE]
    OBVIOUS
  <2>2. s.state = sock[p].state /\ sock' = [sock EXCEPT ![p] = s]
    BY <1>0, <1>3, <2>1 DEF Socket
  <2> QED
    BY <1>1, <1>3, <2>2
<1>4. CASE Connected(p) /\ sock' = [sock EXCEPT ![p] = [@ EXCEPT !.rst = TRUE, !.tx = <<>>]]
  <2>1. PICK s : s = [sock[p] EXCEPT !.rst = TRUE, !.tx = <<>>]
    OBVIOUS
  <2>2. s.state = sock[p].state /\ sock' = [sock EXCEPT ![p] = s]
    BY <1>0, <1>4, <2>1 DEF Socket
  <2> QED
    BY <1>1, <1>4, <2>2
<1>5. CASE sock' = [sock EXCEPT ![p].tx = <<>>]
  <2>1. PICK s : s = [sock[p] EXCEPT !.tx = <<>>]
    OBVIOUS
  <2>2. /\ s.state = sock[p].state /\ s.rx = sock[p].rx /\ s.fin = sock[p].fin
        /\ sock' = [sock EXCEPT ![p] = s]
    BY <1>0, <1>5, <2>1 DEF Socket
  <2> QED
    BY <1>1, <2>2
<1>6. CASE sock[p].state \in {"closed", "lost"} /\ sock' = [sock EXCEPT ![p] = NewSocket]
  <2>1. PICK s : s = NewSocket
    OBVIOUS
  <2>2. s.state = "new" /\ sock' = [sock EXCEPT ![p] = s]
    BY <1>6, <2>1 DEF NewSocket
  <2> QED
    BY <1>1, <1>6, <2>2
<1> QED
  BY <1>2, <1>3, <1>4, <1>5, <1>6, Zenon DEF PeerStep

-----------------------------------------------------------------------------
(* Every step is a step of the service or unseen, and keeps the streams.    *)
LEMMA StepSeen ==
    Inv /\ Watch /\ Types /\ Streams /\ [Next]_vars =>
        (Service!Next \/ NothingSeen) /\ Streams'
<1> SUFFICES ASSUME Inv, Watch, Types, Streams, [Next]_vars
             PROVE  (Service!Next \/ NothingSeen) /\ Streams'
  OBVIOUS
<1>0. Data /\ Ended
  BY DEF Types, Streams
<1>1. CASE Start \/ Scan \/ Wait \/ Dispatch
  <2>1. (Service!Next \/ NothingSeen) /\ Ended'
    BY <1>0, <1>1, StartSeen, ScanSeen, WaitSeen, DispatchSeen
  <2>2. Seats' /\ Gone'
    BY <1>0, <1>1, LoopSeats
  <2> QED
    BY <2>1, <2>2 DEF Streams
<1>2. CASE Unwind \/ Accept
  <2>1. (Service!Next \/ NothingSeen) /\ Ended'
    BY <1>0, <1>2, UnwindSeen, AcceptSeen
  <2>2. Seats' /\ Gone'
    BY <1>0, <1>2, QueueSeats
  <2> QED
    BY <2>1, <2>2 DEF Streams
<1>3. CASE Visit
  <2>1. (Service!Next \/ NothingSeen) /\ Ended'
    BY <1>0, <1>3, VisitRecvSeen, VisitRecvErrorSeen, VisitExecSeen, VisitFailsSeen, VisitEndsSeen
    DEF Visit
  <2>2. Seats' /\ Gone'
    BY <1>0, <1>3, VisitSeats
  <2> QED
    BY <2>1, <2>2 DEF Streams
<1>4. ASSUME NEW p \in Peers, PeerConnect(p) \/ PeerStep(p)
      PROVE  (Service!Next \/ NothingSeen) /\ Streams'
  <2>1. (Service!Next \/ NothingSeen) /\ Ended'
    BY <1>0, <1>4, PeerSeen
  <2>2. Seats' /\ Gone'
    BY <1>0, <1>4, ConnectSeats, PeerSeats
  <2> QED
    BY <2>1, <2>2 DEF Streams
<1>5. CASE UNCHANGED vars
  <2>1. UNCHANGED <<clients, store, file, queue, sock>>
    BY <1>5 DEF vars
  <2>2. NothingSeen /\ Ended'
    BY <1>0, <2>1, QuietSeen
  <2>3. Seats' /\ Gone'
    BY <1>0, <2>1, SeatsQuiet
  <2> QED
    BY <2>2, <2>3 DEF Streams
<1> QED
  BY <1>1, <1>2, <1>3, <1>4, <1>5 DEF Next, Server

(* In every reachable state, until the last destructor has run and whoever
   comes back, a client's descriptor refers to an open connection that no
   other entry refers to, a queued connection is in the queue once and has no
   entry, EOF was read behind everything its peer has sent, and a connection
   closed in good order had ended (server.cpp:88-97, 168-185, 285-340).     *)
THEOREM StreamsInvariance == Spec => []Streams
<1>1. Init => Streams
  <2> SUFFICES ASSUME Init PROVE Streams
    OBVIOUS
  <2>1. DOMAIN clients = {} /\ Len(queue) = 0
    BY EmptySeq DEF Init, EmptyStore
  <2>2. \A p \in Peers : sock[p].state = "new"
    BY DEF Init, NewSocket
  <2>3. Gone
    BY <2>2 DEF Gone
  <2>4. Seats /\ Ended
    BY <2>1 DEF Seats, Ended
  <2> QED
    BY <2>3, <2>4 DEF Streams
<1>2. Inv /\ Watch /\ Types /\ Streams /\ [Next]_vars => Streams'
  BY StepSeen
<1> QED
  BY Invariance, WatchInvariance, TypesInvariance, <1>1, <1>2, PTL DEF Spec

(* For any number of peers, slots and descriptors, all budgets, watermarks
   and timeouts, the clients together see the abstract service: one store,
   each line of each client executed once, in the order of its stream, and
   each reply sent to the client that asked for it, whoever used its
   descriptor number before, through partial sends, expiries, refusals,
   resets, reconnections and the end of main (server.cpp:57-344).           *)
THEOREM SharedServiceRefined == Spec => ImplementsSharedService
<1>1. Init => Service!Init
  <2> SUFFICES ASSUME Init PROVE Service!Init
    OBVIOUS
  <2>1. <<>> \o <<>> = <<>>
    BY EmptySeq, ConcatEmptySeq
  <2>2. ASSUME NEW p \in Peers
        PROVE  Inbox(p) = <<>> /\ Outbox(p) = <<>> /\ Status(p) = "open"
    <3>1. FdsIn(clients, file, p) = {}
      BY DEF Init, EmptyStore, FdsIn
    <3>2. ConnectionOf(p) = NewConnection
      BY <3>1, NoConn, ConnForms
    <3>3. /\ sock[p].rx = <<>> /\ sock[p].tx = <<>> /\ sock[p].fin = FALSE
          /\ sock[p].rst = FALSE /\ sock[p].state = "new"
      BY DEF Init, NewSocket
    <3>4. LostPeer(p) = FALSE
      BY <3>3 DEF LostPeer
    <3> QED
      BY <2>1, <3>2, <3>3, <3>4, NothingPending DEF Inbox, Outbox, Status
  <2>3. Inboxes = [p \in Peers |-> <<>>]
    BY <2>2 DEF Inboxes
  <2>4. Outboxes = [p \in Peers |-> <<>>]
    BY <2>2 DEF Outboxes
  <2>5. Statuses = [p \in Peers |-> "open"]
    BY <2>2 DEF Statuses
  <2>6. store = Service!EmptyStore
    BY DEF Init, EmptyStore, Service!EmptyStore
  <2> QED
    BY <2>3, <2>4, <2>5, <2>6 DEF Service!Init
<1>2. Inv /\ Watch /\ Types /\ Streams /\ [Next]_vars => [Service!Next]_(Service!kvVars)
  <2> SUFFICES ASSUME Inv, Watch, Types, Streams, [Next]_vars PROVE [Service!Next]_(Service!kvVars)
    OBVIOUS
  <2>1. CASE Service!Next
    BY <2>1
  <2>2. CASE NothingSeen
    <3>1. Inboxes' = Inboxes
      BY <2>2 DEF NothingSeen, Inboxes
    <3>2. Outboxes' = Outboxes
      BY <2>2 DEF NothingSeen, Outboxes
    <3>3. Statuses' = Statuses /\ store' = store
      BY <2>2 DEF NothingSeen, Statuses
    <3> QED
      BY <3>1, <3>2, <3>3 DEF Service!kvVars
  <2> QED
    BY <2>1, <2>2, StepSeen
<1> QED
  BY Invariance, WatchInvariance, TypesInvariance, StreamsInvariance, <1>1, <1>2, PTL
  DEF Spec, ImplementsSharedService, Service!Spec
=============================================================================
