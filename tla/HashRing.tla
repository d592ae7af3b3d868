------------------------------ MODULE HashRing ------------------------------
(***************************************************************************)
(* What a consistent hashing container promises: a member joins with all   *)
(* its points at once or not at all, leaves with all of them, and a lookup *)
(* is answered by the member that has the next point of the ring.          *)
(***************************************************************************)
EXTENDS Naturals

CONSTANTS
  Thread,   \* the callers
  Handle,   \* the names of members
  NPoints,  \* the size of the ring, 2^32 in the code
  Value,    \* what a member stands for
  NoValue,  \* the answer of an empty ring, T() in the code
  None      \* nothing asked, nothing answered

Point == 0 .. NPoints - 1

VARIABLES
  member,  \* for each handle, its points
  stands,  \* for each handle, its value
  asked,   \* for each thread, the point it looks up
  got      \* for each thread, the last answer

vars == <<member, stands, asked, got>>

Init ==
  /\ member = [h \in Handle |-> {}]
  /\ stands = [h \in Handle |-> None]
  /\ asked = [t \in Thread |-> None]
  /\ got = [t \in Thread |-> None]

Taken == UNION {member[h] : h \in Handle}

(* The first point of S at or after p, around the ring. *)
Successor(S, p) ==
  LET after == {q \in S : q >= p}
      from  == IF after = {} THEN S ELSE after
  IN CHOOSE q \in from : \A r \in from : q <= r

Lookup(p) ==
  IF Taken = {} THEN NoValue
  ELSE stands[CHOOSE h \in Handle : Successor(Taken, p) \in member[h]]

Join(h, v, S) ==
  /\ member[h] = {}
  /\ S # {} /\ S \cap Taken = {}
  /\ member' = [member EXCEPT ![h] = S]
  /\ stands' = [stands EXCEPT ![h] = v]
  /\ UNCHANGED <<asked, got>>

Leave(h) ==
  /\ member[h] # {}
  /\ member' = [member EXCEPT ![h] = {}]
  /\ stands' = [stands EXCEPT ![h] = None]
  /\ UNCHANGED <<asked, got>>

Ask(t, p) ==
  /\ asked[t] = None
  /\ asked' = [asked EXCEPT ![t] = p]
  /\ got' = [got EXCEPT ![t] = None]
  /\ UNCHANGED <<member, stands>>

Answer(t) ==
  /\ asked[t] # None
  /\ got' = [got EXCEPT ![t] = Lookup(asked[t])]
  /\ asked' = [asked EXCEPT ![t] = None]
  /\ UNCHANGED <<member, stands>>

Next ==
  \/ \E h \in Handle, v \in Value, S \in SUBSET Point : Join(h, v, S)
  \/ \E h \in Handle : Leave(h)
  \/ \E t \in Thread, p \in Point : Ask(t, p)
  \/ \E t \in Thread : Answer(t)

Spec == Init /\ [][Next]_vars
=============================================================================
