-------------------------------- MODULE Cells --------------------------------
(***************************************************************************)
(* What a copy-on-write pointer promises: every pointer is a variable of   *)
(* its own, holding a value no operation on another pointer changes.       *)
(***************************************************************************)
CONSTANTS
  Pointer,   \* the pointers a program declares
  Value,     \* the values they may hold
  Nothing    \* what a pointer holds when it owns no value

VARIABLE value

Init == value = [x \in Pointer |-> Nothing]

Set(x, v) == value' = [value EXCEPT ![x] = v]

Next == \E x \in Pointer, v \in Value \cup {Nothing} : Set(x, v)

Spec == Init /\ [][Next]_value
=============================================================================
