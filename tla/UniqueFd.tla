------------------------------ MODULE UniqueFd ------------------------------
(***************************************************************************)
(* class UniqueFd of include/tcp/net/unique_fd.hpp and                     *)
(* src/net/unique_fd.cpp: movable owners of descriptor numbers, used in    *)
(* any order a program can construct, move, assign and destroy them.  The  *)
(* kernel hands out any number that is not in use, so that a number closed *)
(* twice may by then belong to somebody else.                              *)
(***************************************************************************)
EXTENDS Integers, FiniteSets

CONSTANTS
    Object,     \* the places of the program that may hold a UniqueFd
    Fd          \* the descriptor numbers of the process

ASSUME FdAssumption == -1 \notin Fd

VARIABLES
    alive,      \* the objects constructed and not destroyed
    fd_,        \* what each object holds; -1 when nothing, or not alive
    open        \* the numbers in use

fdVars == <<alive, fd_, open>>

Init == alive = {} /\ fd_ = [o \in Object |-> -1] /\ open = {}

close(o) == open \ {fd_[o]}

(* UniqueFd{}, and UniqueFd{n} for the result n of a system call: a fresh
   number, or -1 when the call failed.                                     *)
Construct(o) ==
    /\ o \notin alive
    /\ alive' = alive \cup {o}
    /\ \E n \in (Fd \ open) \cup {-1} :
          /\ fd_' = [fd_ EXCEPT ![o] = n]
          /\ open' = open \cup ({n} \ {-1})

(* Mutant of MoveConstruct: the number is copied, not exchanged.           *)
CopyConstruct(o, other) ==
    /\ o \notin alive /\ other \in alive
    /\ alive' = alive \cup {o}
    /\ fd_' = [fd_ EXCEPT ![o] = fd_[other]]
    /\ UNCHANGED open

MoveConstruct(o, other) ==
    /\ o \notin alive /\ other \in alive
    /\ alive' = alive \cup {o}
    /\ fd_' = [fd_ EXCEPT ![o] = fd_[other], ![other] = -1]
    /\ UNCHANGED open

(* Mutant of MoveAssign: no test for self-assignment.  exchange leaves the
   object with its old number, which it has just closed.                   *)
MoveAssignUnchecked(o, other) ==
    /\ {o, other} \subseteq alive
    /\ open' = close(o)
    /\ fd_' = [[fd_ EXCEPT ![other] = -1] EXCEPT ![o] = fd_[other]]
    /\ UNCHANGED alive

MoveAssign(o, other) ==
    /\ {o, other} \subseteq alive
    /\ IF o = other THEN UNCHANGED <<fd_, open>>
       ELSE /\ open' = close(o)
            /\ fd_' = [fd_ EXCEPT ![o] = fd_[other], ![other] = -1]
    /\ UNCHANGED alive

Destroy(o) ==
    /\ o \in alive
    /\ alive' = alive \ {o}
    /\ open' = close(o)
    /\ fd_' = [fd_ EXCEPT ![o] = -1]

Next ==
    \E o \in Object :
        \/ Construct(o) \/ Destroy(o)
        \/ \E other \in Object : MoveConstruct(o, other) \/ MoveAssign(o, other)

Spec == Init /\ [][Next]_fdVars

-----------------------------------------------------------------------------
TypeOK ==
    /\ alive \subseteq Object
    /\ fd_ \in [Object -> Fd \cup {-1}]
    /\ \A o \in Object \ alive : fd_[o] = -1
    /\ open \subseteq Fd

(* Every descriptor in use has exactly one owner, and an owner's number is
   in use: nothing leaks, nothing is closed twice, and no object closes a
   number that was meanwhile reused for another one (unique_fd.cpp:16-43). *)
ExactlyOneOwner ==
    /\ open = {fd_[o] : o \in alive} \ {-1}
    /\ \A o, p \in alive : fd_[o] = fd_[p] /\ fd_[o] # -1 => o = p
=============================================================================
