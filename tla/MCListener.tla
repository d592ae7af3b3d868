----------------------------- MODULE MCListener -----------------------------
(* No worker or one, three sockets, one subscribed event. *)
EXTENDS Listener
CONSTANTS w1, s1, s2, s3, f1, f2
MCWorker == {w1}
MCSocket == {s1, s2, s3}
MCEvent == {"accept"}
MCFunc == {f1, f2}
=============================================================================
