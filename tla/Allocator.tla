------------------------------ MODULE Allocator ------------------------------
(***************************************************************************)
(* What the device memory interface promises to an application, however    *)
(* many of its threads call it: a handle is given out only while nobody    *)
(* owns it, its recorded size is the size that was asked for and stays the *)
(* same until the owner gives the handle back, and nothing else changes    *)
(* what is owned.  No lock, no driver, no intermediate step.               *)
(***************************************************************************)
CONSTANTS Handles, Sizes, NoSize

VARIABLES
  owned,    \* the handles the application owns
  size      \* size[h]: the size recorded for h, NoSize when not owned

vars == <<owned, size>>

Init ==
  /\ owned = {}
  /\ size = [h \in Handles |-> NoSize]

Allocate(h, s) ==
  /\ h \notin owned
  /\ owned' = owned \cup {h}
  /\ size' = [size EXCEPT ![h] = s]

Release(h) ==
  /\ h \in owned
  /\ owned' = owned \ {h}
  /\ size' = [size EXCEPT ![h] = NoSize]

Next == \E h \in Handles : Release(h) \/ \E s \in Sizes : Allocate(h, s)

Spec == Init /\ [][Next]_vars
=============================================================================
