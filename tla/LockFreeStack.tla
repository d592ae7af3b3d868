---------------------------- MODULE LockFreeStack ----------------------------
(***************************************************************************)
(* lugce/lockfree/stack.hpp: a stack spread over eight heads.  A push or   *)
(* pop takes the next head round robin and moves it with compare-and-set.  *)
(* The nodes come from a memory pool, which is taken at its promise        *)
(* (CellAllocator); the pool overwrites the first word of a node that is   *)
(* given back, and that word is the member `next'.                         *)
(*                                                                         *)
(* A step of a thread is one access to shared memory.                      *)
(***************************************************************************)
EXTENDS Naturals, FiniteSets

CONSTANTS
  Pusher,      \* the threads that push
  Popper,      \* the threads that pop
  Node,        \* the cells of the pool
  Terminator,  \* the cell that ends a free list of the pool
  Value,       \* what is pushed
  Junk,        \* what the value of a cell is before anything was stored there
  NHeads,      \* 8 in the code
  Null         \* the null pointer

ASSUME StackAssumption ==
  /\ NHeads \in Nat \ {0}
  /\ IsFiniteSet(Node) /\ Terminator \notin Node
  /\ Null \notin Node \cup {Terminator}
  /\ Junk \notin Value

Thread  == Pusher \cup Popper
Barrel    == 0 .. NHeads - 1
Cell    == Node \cup {Terminator}
Pointer == Cell \cup {Null}

VARIABLES
  head,      \* _head
  next,      \* the member `next' of each cell
  value,     \* the member `value' of each cell
  pushMark,  \* _push_mark & 7
  popMark,   \* _pop_mark & 7
  free,      \* the cells the pool may hand out
  held,      \* the cells the pool has handed out
  returning, \* the cells that are being given back to the pool
  handles,   \* the nodes that a shared_ptr from pop() keeps
  pc,        \* where each thread is
  reg        \* the local variables of each thread

pool == <<free, held, returning>>
vars == <<head, next, value, pushMark, popMark, pool, handles, pc, reg>>

(* node: n of push.  old, nval: the operands of pop's compare-and-set. *)
Fresh == [idx |-> 0, node |-> Null, old |-> Null, nval |-> Null]

Goto(t, from, to) == pc[t] = from /\ pc' = [pc EXCEPT ![t] = to]

Init ==
  /\ head = [i \in Barrel |-> Null]
  /\ next = [c \in Cell |-> IF c = Terminator THEN Null ELSE Terminator]
  /\ value = [c \in Cell |-> Junk]
  /\ pushMark = 0
  /\ popMark = 0
  /\ free = Node
  /\ held = {}
  /\ returning = {}
  /\ handles = {}
  /\ pc = [t \in Thread |-> "idle"]
  /\ reg = [t \in Thread |-> Fresh]

-----------------------------------------------------------------------------
(* n = _alloc.allocate(); n->value = t.  No other thread can reach n yet. *)
PushAllocate(t, n, v) ==
  /\ t \in Pusher
  /\ n \in free
  /\ Goto(t, "idle", "pick")
  /\ free' = free \ {n}
  /\ held' = held \cup {n}
  /\ value' = [value EXCEPT ![n] = v]
  /\ reg' = [reg EXCEPT ![t].node = n]
  /\ UNCHANGED <<head, next, pushMark, popMark, returning, handles>>

(* idx = _push_mark++ & 0x7; the postfix ++ returns the incremented value. *)
PushPick(t) ==
  /\ Goto(t, "pick", "read")
  /\ pushMark' = (pushMark + 1) % NHeads
  /\ reg' = [reg EXCEPT ![t].idx = pushMark']
  /\ UNCHANGED <<head, next, value, popMark, pool, handles>>

(* n->next = head *)
PushReadHead(t) ==
  /\ Goto(t, "read", "link")
  /\ next' = [next EXCEPT ![reg[t].node] = head[reg[t].idx]]
  /\ UNCHANGED <<head, value, pushMark, popMark, pool, handles, reg>>

(* Wrong: the head is stored without comparing. *)
PushCas_Store(t) ==
  LET r == reg[t] IN
  /\ Goto(t, "link", "idle")
  /\ head' = [head EXCEPT ![r.idx] = r.node]
  /\ reg' = [reg EXCEPT ![t] = Fresh]
  /\ UNCHANGED <<next, value, pushMark, popMark, pool, handles>>

(* head.compare_and_set( n->next, n ) *)
PushCas(t) ==
  LET r == reg[t] IN
  /\ pc[t] = "link"
  /\ \/ /\ head[r.idx] = next[r.node]
        /\ Goto(t, "link", "idle")
        /\ head' = [head EXCEPT ![r.idx] = r.node]
        /\ reg' = [reg EXCEPT ![t] = Fresh]
     \/ /\ head[r.idx] # next[r.node]
        /\ Goto(t, "link", "read")
        /\ UNCHANGED <<head, reg>>
  /\ UNCHANGED <<next, value, pushMark, popMark, pool, handles>>

-----------------------------------------------------------------------------
(* Wrong: the increment is lost, so every pop looks at the same head. *)
PopPick_Stuck(t) ==
  /\ t \in Popper
  /\ Goto(t, "idle", "top")
  /\ reg' = [reg EXCEPT ![t].idx = popMark]
  /\ UNCHANGED <<head, next, value, pushMark, popMark, pool, handles>>

(* idx = _pop_mark++ & 0x7 *)
PopPick(t) ==
  /\ t \in Popper
  /\ Goto(t, "idle", "top")
  /\ popMark' = (popMark + 1) % NHeads
  /\ reg' = [reg EXCEPT ![t].idx = popMark']
  /\ UNCHANGED <<head, next, value, pushMark, pool, handles>>

(* old = head; an empty head ends the call, whatever the other heads hold. *)
PopReadHead(t) ==
  LET old == head[reg[t].idx] IN
  /\ \/ /\ old = Null
        /\ Goto(t, "top", "idle")
        /\ reg' = [reg EXCEPT ![t] = Fresh]
     \/ /\ old # Null
        /\ Goto(t, "top", "next")
        /\ reg' = [reg EXCEPT ![t].old = old]
  /\ UNCHANGED <<head, next, value, pushMark, popMark, pool, handles>>

(* The operand old->next; old may have gone back to the pool by now. *)
PopReadNext(t) ==
  /\ Goto(t, "next", "cas")
  /\ reg' = [reg EXCEPT ![t].nval = next[reg[t].old]]
  /\ UNCHANGED <<head, next, value, pushMark, popMark, pool, handles>>

(* Wrong: the head is stored without comparing. *)
PopCas_Store(t) ==
  LET r == reg[t] IN
  /\ Goto(t, "cas", "took")
  /\ head' = [head EXCEPT ![r.idx] = r.nval]
  /\ UNCHANGED <<next, value, pushMark, popMark, pool, handles, reg>>

(* head.compare_and_set( old, old->next ) *)
PopCas(t) ==
  LET r == reg[t] IN
  /\ \/ /\ head[r.idx] = r.old
        /\ Goto(t, "cas", "took")
        /\ head' = [head EXCEPT ![r.idx] = r.nval]
     \/ /\ head[r.idx] # r.old
        /\ Goto(t, "cas", "top")
        /\ UNCHANGED head
  /\ UNCHANGED <<next, value, pushMark, popMark, pool, handles, reg>>

(* pop( v ): v = old->value, then deallocate( old ) begins. *)
PopDeliver(t) ==
  /\ Goto(t, "took", "free")
  /\ held' = held \ {reg[t].old}
  /\ returning' = returning \cup {reg[t].old}
  /\ UNCHANGED <<head, next, value, pushMark, popMark, free, handles, reg>>

(* Wrong: the node goes back to the pool at once, handle or no handle. *)
PopHandle_FreesNode(t) ==
  /\ Goto(t, "took", "free")
  /\ handles' = handles \cup {reg[t].old}
  /\ held' = held \ {reg[t].old}
  /\ returning' = returning \cup {reg[t].old}
  /\ UNCHANGED <<head, next, value, pushMark, popMark, free, reg>>

(* pop(): the node stays alive until the shared_ptr lets it go. *)
PopHandle(t) ==
  /\ Goto(t, "took", "idle")
  /\ handles' = handles \cup {reg[t].old}
  /\ reg' = [reg EXCEPT ![t] = Fresh]
  /\ UNCHANGED <<head, next, value, pushMark, popMark, pool>>

(* destorier: the last copy of the shared_ptr is dropped, on any thread. *)
DropHandle(t, n) ==
  /\ n \in handles
  /\ Goto(t, "idle", "free")
  /\ handles' = handles \ {n}
  /\ held' = held \ {n}
  /\ returning' = returning \cup {n}
  /\ reg' = [reg EXCEPT ![t].old = n]
  /\ UNCHANGED <<head, next, value, pushMark, popMark, free>>

(* deallocate( old ): the pool links the cell to the top of a free list. *)
PoolLink(t, c) ==
  /\ Goto(t, "free", "freed")
  /\ next' = [next EXCEPT ![reg[t].old] = c]
  /\ UNCHANGED <<head, value, pushMark, popMark, pool, handles, reg>>

(* The pool's compare-and-set puts the cell on the list, or has to retry. *)
PoolTakesBack(t) ==
  /\ \/ /\ Goto(t, "freed", "idle")
        /\ returning' = returning \ {reg[t].old}
        /\ free' = free \cup ({reg[t].old} \cap Node)
        /\ reg' = [reg EXCEPT ![t] = Fresh]
     \/ /\ Goto(t, "freed", "free")
        /\ UNCHANGED <<free, returning, reg>>
  /\ UNCHANGED <<head, next, value, pushMark, popMark, held, handles>>

-----------------------------------------------------------------------------
PushStep(t) == PushPick(t) \/ PushReadHead(t) \/ PushCas(t)

PopStep(t) ==
  \/ PopReadHead(t) \/ PopReadNext(t) \/ PopCas(t)
  \/ PopDeliver(t) \/ PopHandle(t)

PoolStep(t) ==
  \/ \E c \in free \cup {Terminator} : PoolLink(t, c)
  \/ PoolTakesBack(t)

Next ==
  \E t \in Thread :
    \/ \E n \in Node, v \in Value : PushAllocate(t, n, v)
    \/ \E n \in handles : DropHandle(t, n)
    \/ PopPick(t)
    \/ PushStep(t) \/ PopStep(t) \/ PoolStep(t)

Spec == Init /\ [][Next]_vars

(* Threads inside a call are run by the operating system, the pool's        *)
(* compare-and-set succeeds in the end, and the popping threads pop again  *)
(* and again, as the loop of lockfree_test.cpp:61-66 does.                 *)
Fairness ==
  \A t \in Thread :
    /\ WF_vars(PushStep(t) \/ PopStep(t) \/ PoolStep(t))
    /\ SF_vars(PoolTakesBack(t) /\ pc'[t] = "idle")
    /\ WF_vars(PopPick(t))

FairSpec == Spec /\ Fairness
-----------------------------------------------------------------------------
Labels == {"idle", "pick", "read", "link", "top", "next", "cas", "took", "free", "freed"}

InPush(t) == pc[t] \in {"pick", "read", "link"}
InPop(t)  == pc[t] \in {"top", "next", "cas", "took"}
HasNode(t) == InPush(t) \/ pc[t] = "took"
NodeOf(t)  == IF InPush(t) THEN reg[t].node ELSE reg[t].old

(* Every variable is of its kind. *)
TypeOK ==
  /\ head \in [Barrel -> Pointer]
  /\ next \in [Cell -> Pointer]
  /\ value \in [Cell -> Value \cup {Junk}]
  /\ pushMark \in Barrel /\ popMark \in Barrel
  /\ free \subseteq Node /\ held \subseteq Node
  /\ returning \subseteq Cell /\ handles \subseteq Cell
  /\ pc \in [Thread -> Labels]
  /\ reg \in [Thread -> [idx : Barrel, node : Node \cup {Null}, old : Pointer, nval : Pointer]]
  /\ \A t \in Thread : InPush(t) => reg[t].node \in Node
  /\ \A t \in Thread : pc[t] \in {"next", "cas", "took", "free", "freed"} => reg[t].old \in Cell

(* What one finds walking `next' from head i: Place(i)[k] is the k-th cell. *)
Place(i) ==
  LET at[k \in 0 .. Cardinality(Node)] ==
        IF k = 0 THEN head[i]
        ELSE IF at[k - 1] \in Node THEN next[at[k - 1]] ELSE Null
  IN at

ListSize(i) == Cardinality({k \in DOMAIN Place(i) : Place(i)[k] \in Node})
OnHead(i)   == {Place(i)[k] : k \in 0 .. ListSize(i) - 1}
ValuesOn(i) == [k \in 1 .. ListSize(i) |-> value[Place(i)[k - 1]]]

(* Each node the pool has handed out is in exactly one place: on one head,  *)
(* with one thread, or with one shared_ptr; and every list ends            *)
(* (stack.hpp:49-51, 58-65 and 73-79).                                     *)
NodesInOnePlace ==
  /\ \A i \in Barrel : Place(i)[ListSize(i)] = Null
  /\ \A i, j \in Barrel : i # j => OnHead(i) \cap OnHead(j) = {}
  /\ \A t, u \in Thread : HasNode(t) /\ HasNode(u) /\ NodeOf(t) = NodeOf(u) => t = u
  /\ LET onHeads   == UNION {OnHead(i) : i \in Barrel}
         inThreads == {NodeOf(t) : t \in {u \in Thread : HasNode(u)}}
     IN /\ held = onHeads \cup inThreads \cup handles
        /\ onHeads \cap inThreads = {}
        /\ onHeads \cap handles = {}
        /\ inThreads \cap handles = {}

(* With one popping thread every head is a linearizable stack: a push and a *)
(* pop take effect at their compare-and-set, and the caller gets the value *)
(* that was on top, though the node is read after it left the stack        *)
(* (stack.hpp:62-64).                                                      *)
Stacks == INSTANCE StackArray WITH
            None <- Junk,
            stacks <- [i \in Barrel |-> ValuesOn(i)],
            out <- [t \in Thread |-> IF pc[t] = "took" THEN value[reg[t].old] ELSE Junk]

ImplementsStackArray == Stacks!Spec

(* The stack keeps to the rules of its allocator: it gives back only nodes  *)
(* it has, and each of them once (stack.hpp:65 and 87).                    *)
Memory == INSTANCE CellAllocator WITH Cell <- Node, open <- TRUE

UsesPoolProperly == Memory!Spec

(* Once nobody pushes any more, popping goes on until every head is empty:  *)
(* a pop that reports an empty head leaves nothing behind for good, since  *)
(* the next pops look at the other heads (stack.hpp:56-61).                *)
Drained == \A i \in Barrel : head[i] = Null
PopsDrainStack == <>[](\A t \in Thread : ~InPush(t)) => <>[]Drained

(* What a pop returns has been pushed (the oracle of lockfree_test.cpp:64). *)
NeverBad == \A t \in Thread : pc[t] = "took" => value[reg[t].old] # Junk
=============================================================================
