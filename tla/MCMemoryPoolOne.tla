-------------------------- MODULE MCMemoryPoolOne --------------------------
(* One thread allocates, and it and two others give cells back. *)
EXTENDS MemoryPool
CONSTANTS a, d1, d2, b1, b2, null
MCThread == {a, d1, d2}
MCAllocator == {a}
MCBlock == {b1, b2}
MCFirst == [i \in {0} |-> b1]
MCUserWord == {null}
=============================================================================
