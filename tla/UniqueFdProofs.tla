--------------------------- MODULE UniqueFdProofs ---------------------------
(* Ownership of descriptors for any number of objects and descriptors.     *)
EXTENDS UniqueFd, TLAPS

Inv == TypeOK /\ ExactlyOneOwner

(* No object exists and no descriptor is in use when a program starts.     *)
LEMMA InitInv == Init => Inv
  BY FdAssumption DEF Init, Inv, TypeOK, ExactlyOneOwner

(* Every construction, move, assignment (also to itself) and destruction
   keeps the owners and the open descriptors in step.                      *)
LEMMA StepInv == Inv /\ [Next]_fdVars => Inv'
<1> SUFFICES ASSUME Inv, [Next]_fdVars
             PROVE  Inv'
  OBVIOUS
<1> USE FdAssumption DEF Inv, TypeOK, ExactlyOneOwner
<1>1. ASSUME NEW o \in Object, Construct(o)
      PROVE  Inv'
  <2>1. PICK n \in (Fd \ open) \cup {-1} :
          /\ fd_' = [fd_ EXCEPT ![o] = n]
          /\ open' = open \cup ({n} \ {-1})
    BY <1>1 DEF Construct
  <2>2. TypeOK'
    BY <1>1, <2>1 DEF Construct
  <2>3. ExactlyOneOwner'
    BY <1>1, <2>1 DEF Construct
  <2> QED
    BY <2>2, <2>3
<1>2. ASSUME NEW o \in Object, Destroy(o)
      PROVE  Inv'
  <2>1. TypeOK'
    BY <1>2 DEF Destroy, close
  <2>2. ExactlyOneOwner'
    BY <1>2 DEF Destroy, close
  <2> QED
    BY <2>1, <2>2
<1>3. ASSUME NEW o \in Object, NEW other \in Object, MoveConstruct(o, other)
      PROVE  Inv'
  <2>1. TypeOK'
    BY <1>3 DEF MoveConstruct
  <2>2. ExactlyOneOwner'
    BY <1>3 DEF MoveConstruct
  <2> QED
    BY <2>1, <2>2
<1>4. ASSUME NEW o \in Object, NEW other \in Object, MoveAssign(o, other)
      PROVE  Inv'
  <2>1. CASE o = other
    BY <1>4, <2>1 DEF MoveAssign
  <2>2. CASE o # other
    <3>1. TypeOK'
      BY <1>4, <2>2 DEF MoveAssign, close
    <3>2. ExactlyOneOwner'
      BY <1>4, <2>2 DEF MoveAssign, close
    <3> QED
      BY <3>1, <3>2
  <2> QED
    BY <2>1, <2>2
<1>5. CASE UNCHANGED fdVars
  BY <1>5 DEF fdVars
<1> QED
  BY <1>1, <1>2, <1>3, <1>4, <1>5 DEF Next

(* For every program and any supply of numbers, each descriptor in use has
   exactly one owner (unique_fd.cpp:16-43).                                *)
THEOREM Ownership == Spec => []ExactlyOneOwner
<1>1. Inv => ExactlyOneOwner
  BY DEF Inv
<1> QED
  BY InitInv, StepInv, <1>1, PTL DEF Spec
=============================================================================
