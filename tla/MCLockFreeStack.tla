--------------------------- MODULE MCLockFreeStack ---------------------------
(* The threads and cells of the runs of LockFreeStack. *)
EXTENDS LockFreeStack
CONSTANTS p1, p2, c1, c2, n1, n2, v1, v2, term, junk, null
MCTwoPushers == {p1, p2}
MCOnePusher == {p1}
MCOnePopper == {c1}
MCTwoPoppers == {c1, c2}
MCNode == {n1, n2}
MCValue == {v1, v2}
MCOneValue == {v1}
=============================================================================
