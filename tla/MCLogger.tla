------------------------------ MODULE MCLogger ------------------------------
(* Two producers; a thread besides the writer may call reset(). *)
EXTENDS Logger
CONSTANTS p1, p2, r, w, s1, s2, s3, s4, none
MCProducer == {p1, p2}
MCResetter == {r}
MCStream == {s1, s2, s3, s4}
=============================================================================
