----------------------------- MODULE CopyOnWrite -----------------------------
(***************************************************************************)
(* cow_ptr and heptane_shared_ptr (cow_ptr.h): pointers that share the     *)
(* object they point to, counted by ref_cnt_, until one of them is written *)
(* through.  The abstract caches hold their sets in such pointers: every   *)
(* node's ACS_in and ACS_out share the sets that no access told apart.     *)
(***************************************************************************)
EXTENDS Integers, FiniteSets

CONSTANTS
  Pointer,   \* the cow_ptrs of the program
  Object,    \* addresses the allocator hands out
  Value,     \* values of the pointed type T
  NULL,      \* the null pointer
  Nothing    \* not a value

ASSUME PointerAssumption ==
  /\ IsFiniteSet(Pointer)
  /\ NULL \notin Object
  /\ Nothing \notin Value

VARIABLES
  p_,        \* p_[x]: the object of x, or NULL
  heap       \* the objects allocated, with their values and counters

cowVars == <<p_, heap>>

Free == Object \ DOMAIN heap
-----------------------------------------------------------------------------
(* new T(v), owned by one pointer. *)
Allocate(h, o, v) ==
  [u \in DOMAIN h \cup {o} |-> IF u = o THEN [value |-> v, ref_cnt |-> 1] ELSE h[u]]

(* Mutant of Release: the last owner does not delete the object. *)
ReleaseOnly(h, o) ==
  IF o = NULL THEN h ELSE [h EXCEPT ![o].ref_cnt = @ - 1]

(* Mutant of Release: the counter of a shared object stays. *)
ReleaseUnique(h, o) ==
  IF o = NULL \/ h[o].ref_cnt # 1 THEN h
  ELSE [u \in DOMAIN h \ {o} |-> h[u]]

(* release(): the last owner deletes the object. *)
Release(h, o) ==
  IF o = NULL THEN h
  ELSE IF h[o].ref_cnt = 1 THEN [u \in DOMAIN h \ {o} |-> h[u]]
  ELSE [h EXCEPT ![o].ref_cnt = @ - 1]

(* operator= of heptane_shared_ptr: one more owner. *)
Share(h, o) == [h EXCEPT ![o].ref_cnt = @ + 1]

(* reset(): x leaves its object for a fresh one that holds v.  The fresh   *)
(* one is allocated before the old one is released.                        *)
Reset(x, v) ==
  \E o \in Free :
     /\ heap' = Allocate(Release(heap, p_[x]), o, v)
     /\ p_' = [p_ EXCEPT ![x] = o]

(* The constructors from a T or a T*, and the assignment from a T. *)
New(x, v) == Reset(x, v)

(* The copy constructor and the assignment.  An empty y would be           *)
(* dereferenced (its counter is incremented unless x is empty too); the    *)
(* sets of a cache are never empty pointers.                               *)
Assign(x, y) ==
  /\ p_[y] # NULL
  /\ IF p_[x] = p_[y]
       THEN UNCHANGED cowVars
       ELSE /\ heap' = Share(Release(heap, p_[x]), p_[y])
            /\ p_' = [p_ EXCEPT ![x] = p_[y]]

(* Mutant of Write: written through without copy(). *)
WriteThrough(x, v) ==
  /\ p_[x] # NULL
  /\ heap' = [heap EXCEPT ![p_[x]].value = v]
  /\ UNCHANGED p_

(* operator* or operator->: copy() gives x an object of its own, which the *)
(* caller then writes.                                                     *)
Write(x, v) ==
  /\ p_[x] # NULL
  /\ IF heap[p_[x]].ref_cnt = 1
       THEN /\ heap' = [heap EXCEPT ![p_[x]].value = v]
            /\ UNCHANGED p_
       ELSE Reset(x, v)

(* The destructor. *)
Destroy(x) ==
  /\ heap' = Release(heap, p_[x])
  /\ p_' = [p_ EXCEPT ![x] = NULL]

CowInit ==
  /\ p_ = [x \in Pointer |-> NULL]
  /\ heap = [o \in {} |-> NULL]

CowNext ==
  \E x \in Pointer :
     \/ \E v \in Value : New(x, v) \/ Write(x, v)
     \/ \E y \in Pointer : Assign(x, y)
     \/ Destroy(x)

CowSpec == CowInit /\ [][CowNext]_cowVars
-----------------------------------------------------------------------------
(* Every variable has its type; what is pointed to is allocated. *)
TypeOK ==
  /\ DOMAIN heap \subseteq Object
  /\ heap \in [DOMAIN heap -> [value : Value, ref_cnt : Nat \ {0}]]
  /\ p_ \in [Pointer -> DOMAIN heap \cup {NULL}]

Owners(o) == {x \in Pointer : p_[x] = o}

(* ref_cnt_ counts the owners of every object allocated: none leaks, and   *)
(* none is deleted while a pointer still reads it.                         *)
CountsOwners ==
  \A o \in DOMAIN heap : heap[o].ref_cnt = Cardinality(Owners(o))

(* Copies are independent: what is written through one pointer is seen by  *)
(* no other.  The analyses count on it when they update a copy of a node's *)
(* ACS_in to make its ACS_out.                                             *)
C == INSTANCE Cells WITH
       value <- [x \in Pointer |-> IF p_[x] = NULL THEN Nothing
                                   ELSE heap[p_[x]].value]

Independent == C!Spec
=============================================================================
