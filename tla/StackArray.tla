----------------------------- MODULE StackArray -----------------------------
(***************************************************************************)
(* What lockfree::stack promises once its eight heads are taken as they    *)
(* are: each head is a stack of its own, a push and a pop take effect at   *)
(* one instant, and a pop gives its caller the value it has removed.       *)
(***************************************************************************)
EXTENDS Sequences

CONSTANTS
  Thread,  \* the callers
  Barrel,    \* the heads of the stack
  Value,   \* what is pushed
  None     \* not a value

VARIABLES
  stacks,  \* for each head, the values on it, the newest first
  out      \* for each thread, the value its pop has removed and not yet returned

vars == <<stacks, out>>

Init ==
  /\ stacks = [i \in Barrel |-> <<>>]
  /\ out = [t \in Thread |-> None]

Push(i, v) ==
  /\ stacks' = [stacks EXCEPT ![i] = <<v>> \o @]
  /\ UNCHANGED out

Pop(t, i) ==
  /\ out[t] = None
  /\ stacks[i] # <<>>
  /\ out' = [out EXCEPT ![t] = stacks[i][1]]
  /\ stacks' = [stacks EXCEPT ![i] = Tail(@)]

Return(t) ==
  /\ out[t] # None
  /\ out' = [out EXCEPT ![t] = None]
  /\ UNCHANGED stacks

Next ==
  \/ \E i \in Barrel, v \in Value : Push(i, v)
  \/ \E t \in Thread, i \in Barrel : Pop(t, i)
  \/ \E t \in Thread : Return(t)

Spec == Init /\ [][Next]_vars
=============================================================================
