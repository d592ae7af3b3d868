-------------------------- MODULE MCMemoryPoolMany --------------------------
(* Two threads allocate and give back, and make MaxCalls calls between them. *)
EXTENDS MemoryPool, TLC
CONSTANTS t1, t2, b1, b2, b3, b4, null, junk, MaxCalls
MCThread == {t1, t2}
MCBlock == {b1, b2, b3, b4}
MCFirst == [i \in {0, 1} |-> IF i = 0 THEN b1 ELSE b2]
MCUserWord == {null, junk}

VARIABLE calls

CallBegins == \E t \in Thread : pc[t] = "idle" /\ pc'[t] # "idle"

MCInit == Init /\ calls = 0
MCNext ==
  /\ Next
  /\ calls' = IF CallBegins THEN calls + 1 ELSE calls
  /\ calls' <= MaxCalls

(* Threads differ only in name, and so do the blocks that new will return. *)
Symmetric == Permutations({t1, t2}) \cup Permutations({b3, b4})

MCSpec == MCInit /\ [][MCNext]_<<vars, calls>>

(* The same with one barrel and clients that never write to their cells, so *)
(* that every word in the pool is one that the pool itself has written.    *)
MCFirstOne == [i \in {0} |-> b1]
QuietNext  == MCNext /\ \A c \in held : word'[c] = word[c]
QuietSpec  == MCInit /\ [][QuietNext]_<<vars, calls>>
=============================================================================
