------------------------- MODULE MCConsistentHashing -------------------------
(* Two keys on a ring of three points: a second set of k2 finds its first   *)
(* point taken, and k2 after k1 its second one; lookups go around the end. *)
EXTENDS ConsistentHashing
CONSTANTS t1, t2, h1, h2, k1, k2, v1, v2, novalue, none
MCThread == {t1, t2}
MCHandle == {h1, h2}
MCKey == {k1, k2}
MCPoints == [k \in MCKey |-> IF k = k1 THEN <<0, 2>> ELSE <<1, 0>>]
MCValue == {v1, v2}
=============================================================================
