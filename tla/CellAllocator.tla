--------------------------- MODULE CellAllocator ---------------------------
(***************************************************************************)
(* What memory_pool promises its clients (memory_pool.hpp:109-112, 247):   *)
(* allocate() hands out a cell that nobody else owns, a cell comes back    *)
(* only through deallocate(), and the pool's memory stays in place until   *)
(* the pool itself goes.                                                   *)
(***************************************************************************)
CONSTANT Cell

VARIABLES
  free,       \* the cells that allocate() may hand out
  held,       \* the cells that clients own
  returning,  \* the cells that a call of deallocate() is giving back
  open        \* the pool has not begun to go

vars == <<free, held, returning, open>>

Init ==
  /\ free \in SUBSET Cell
  /\ held = {}
  /\ returning = {}
  /\ open = TRUE

(* The pool obtains new memory. *)
Grow(S) ==
  /\ open
  /\ S \cap (free \cup held \cup returning) = {}
  /\ free' = free \cup S
  /\ UNCHANGED <<held, returning, open>>

Allocate(c) ==
  /\ open
  /\ c \in free
  /\ free' = free \ {c}
  /\ held' = held \cup {c}
  /\ UNCHANGED <<returning, open>>

Deallocate(c) ==
  /\ open
  /\ c \in held
  /\ held' = held \ {c}
  /\ returning' = returning \cup {c}
  /\ UNCHANGED <<free, open>>

Recycle(c) ==
  /\ open
  /\ c \in returning
  /\ returning' = returning \ {c}
  /\ free' = free \cup {c}
  /\ UNCHANGED <<held, open>>

(* No call is under way when the pool goes. *)
Close ==
  /\ open
  /\ returning = {}
  /\ open' = FALSE
  /\ UNCHANGED <<free, held, returning>>

(* A closed pool gives memory back to the system, whoever owns it. *)
Retire(S) ==
  /\ ~open
  /\ free' = free \ S
  /\ held' = held \ S
  /\ UNCHANGED <<returning, open>>

Next ==
  \/ \E S \in SUBSET Cell : Grow(S) \/ Retire(S)
  \/ \E c \in Cell : Allocate(c) \/ Deallocate(c) \/ Recycle(c)
  \/ Close

Spec == Init /\ [][Next]_vars
=============================================================================
