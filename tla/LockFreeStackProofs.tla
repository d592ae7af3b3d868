------------------------- MODULE LockFreeStackProofs -------------------------
(***************************************************************************)
(* For any number of pushing threads, nodes, heads and values, and one     *)
(* popping thread: each node is in one place, every list ends, each head   *)
(* is a linearizable stack, a pop returns what was pushed, and the stack   *)
(* keeps to the rules of its pool.                                         *)
(***************************************************************************)
EXTENDS LockFreeStack, FiniteSetTheorems, SequenceTheorems, WellFoundedInduction,
        NaturalsInduction, TLAPS

-----------------------------------------------------------------------------
(* The lists, seen from below: n[i] is the number of cells on head i, and  *)
(* c[i][k] the k-th of them, with Null under the first.  A push adds on    *)
(* top and a pop takes from the top, so that the others keep their places. *)
Heights == [Barrel -> Nat]
Columns == [Barrel -> [Nat -> Pointer]]

(* hd and nx are heads and words `next'. *)
Lists(hd, nx, n, c) ==
  \A i \in Barrel :
    /\ c[i][0] = Null /\ hd[i] = c[i][n[i]]
    /\ \A k \in 1 .. n[i] : c[i][k] \in Node /\ nx[c[i][k]] = c[i][k - 1]

Apart(n, c) ==
  \A i, j \in Barrel : \A k \in 1 .. n[i], m \in 1 .. n[j] :
    c[i][k] = c[j][m] => i = j /\ k = m

On(n, c, x) == \E i \in Barrel : \E k \in 1 .. n[i] : c[i][k] = x

-----------------------------------------------------------------------------
(* Who has which node. *)
Having(x) == \E t \in Thread : HasNode(t) /\ NodeOf(t) = x

Owners(n, c) ==
  /\ \A x \in Node : x \in held <=> On(n, c, x) \/ Having(x) \/ x \in handles
  /\ \A x \in Node : /\ ~(On(n, c, x) /\ Having(x))
                     /\ ~(On(n, c, x) /\ x \in handles)
                     /\ ~(Having(x) /\ x \in handles)
  /\ \A t, u \in Thread : HasNode(t) /\ HasNode(u) /\ NodeOf(t) = NodeOf(u) => t = u

(* What is given back, and what a node holds whose push has begun. *)
Gives(t) == pc[t] \in {"free", "freed"}

Pool ==
  /\ returning \subseteq Node /\ handles \subseteq Node
  /\ free \cap held = {} /\ returning \cap (free \cup held) = {}
  /\ \A t \in Thread : Gives(t) => reg[t].old \in returning
  /\ \A t, u \in Thread : Gives(t) /\ Gives(u) /\ reg[t].old = reg[u].old => t = u
  /\ \A x \in held : value[x] \in Value

(* A pop that has read a head and not yet compared it has a node that is    *)
(* still on that list, because nobody else takes nodes from it; so the     *)
(* successor that it has read is current too.                              *)
Pops(n, c) ==
  \A t \in Thread :
    /\ InPop(t) => t \in Popper
    /\ pc[t] = "took" => reg[t].old \in Node
    /\ pc[t] \in {"next", "cas"} =>
         \E k \in 1 .. n[reg[t].idx] : c[reg[t].idx][k] = reg[t].old
    /\ pc[t] = "cas" => reg[t].nval = next[reg[t].old]

Held(n, c) ==
  /\ TypeOK /\ Pool
  /\ Lists(head, next, n, c) /\ Apart(n, c) /\ Owners(n, c) /\ Pops(n, c)

IInv == \E n \in Heights, c \in Columns : Held(n, c)

(* At most one thread pops. *)
OnePopper == \A t, u \in Popper : t = u

-----------------------------------------------------------------------------
(* Types, for any number of popping threads. *)
LEMMA InitTypes == Init => TypeOK
<1> SUFFICES ASSUME Init PROVE TypeOK
  OBVIOUS
<1>1. 0 \in Barrel
  BY StackAssumption DEF Barrel
<1>2. reg \in [Thread -> [idx : Barrel, node : Node \cup {Null}, old : Pointer, nval : Pointer]]
  BY <1>1 DEF Init, Fresh, Pointer
<1> QED BY <1>1, <1>2 DEF Init, TypeOK, Pointer, Cell, Labels, InPush

(* The counters select a head. *)
LEMMA MarkTypes == ASSUME NEW m \in Barrel PROVE (m + 1) % NHeads \in Barrel
BY StackAssumption DEF Barrel

(* Every step keeps the types. *)
LEMMA TypeStep == TypeOK /\ [Next]_vars => TypeOK'
<1> SUFFICES ASSUME TypeOK, [Next]_vars PROVE TypeOK'
  OBVIOUS
<1> DEFINE R == [idx : Barrel, node : Node \cup {Null}, old : Pointer, nval : Pointer]
<1>a. Fresh \in R
  <2>1. 0 \in Barrel
    BY StackAssumption DEF Barrel
  <2> QED BY <2>1 DEF Fresh, Pointer
<1>b. \A m \in Barrel : (m + 1) % NHeads \in Barrel
  BY MarkTypes
<1>c. Node \subseteq Cell /\ Cell \subseteq Pointer /\ Null \in Pointer
  BY DEF Cell, Pointer
<1> USE DEF TypeOK, InPush
<1>1. CASE UNCHANGED vars
  BY <1>1 DEF vars, pool
<1>2. ASSUME NEW t \in Thread, NEW n \in Node, NEW v \in Value, PushAllocate(t, n, v) PROVE TypeOK'
  BY <1>2, <1>c DEF PushAllocate, Goto, Labels
<1>3. ASSUME NEW t \in Thread, NEW n \in handles, DropHandle(t, n) PROVE TypeOK'
  BY <1>3, <1>c DEF DropHandle, Goto, Labels
<1>4. ASSUME NEW t \in Thread, PopPick(t) PROVE TypeOK'
  BY <1>4, <1>b DEF PopPick, Goto, Labels, pool
<1>5. ASSUME NEW t \in Thread, PushPick(t) PROVE TypeOK'
  BY <1>5, <1>b DEF PushPick, Goto, Labels, pool
<1>6. ASSUME NEW t \in Thread, PushReadHead(t) PROVE TypeOK'
  BY <1>6, <1>c DEF PushReadHead, Goto, Labels, pool
<1>7. ASSUME NEW t \in Thread, PushCas(t) PROVE TypeOK'
  BY <1>7, <1>a, <1>c, SMTT(30) DEF PushCas, Goto, Labels, pool
<1>8. ASSUME NEW t \in Thread, PopReadHead(t) PROVE TypeOK'
  <2>1. PICK old : old = head[reg[t].idx] /\ old \in Pointer
    OBVIOUS
  <2>2. UNCHANGED <<head, next, value, pushMark, popMark, free, held, returning, handles>>
    BY <1>8 DEF PopReadHead, pool
  <2>3. CASE old = Null
    BY <1>8, <1>a, <2>1, <2>2, <2>3, SMTT(30) DEF PopReadHead, Goto, Labels
  <2>4. CASE old # Null
    <3>1. old \in Cell
      BY <2>1, <2>4 DEF Pointer
    <3>2. pc' = [pc EXCEPT ![t] = "next"] /\ reg' = [reg EXCEPT ![t].old = old]
      BY <1>8, <2>1, <2>4 DEF PopReadHead, Goto
    <3> QED BY <2>1, <2>2, <3>1, <3>2 DEF Labels
  <2> QED BY <2>3, <2>4
<1>9. ASSUME NEW t \in Thread, PopReadNext(t) PROVE TypeOK'
  BY <1>9, <1>c DEF PopReadNext, Goto, Labels, pool
<1>10. ASSUME NEW t \in Thread, PopCas(t) PROVE TypeOK'
  BY <1>10 DEF PopCas, Goto, Labels, pool
<1>11. ASSUME NEW t \in Thread, PopDeliver(t) PROVE TypeOK'
  BY <1>11 DEF PopDeliver, Goto, Labels
<1>12. ASSUME NEW t \in Thread, PopHandle(t) PROVE TypeOK'
  BY <1>12, <1>a DEF PopHandle, Goto, Labels, pool
<1>13. ASSUME NEW t \in Thread, NEW x \in free \cup {Terminator}, PoolLink(t, x) PROVE TypeOK'
  BY <1>13, <1>c DEF PoolLink, Goto, Labels, pool, Cell
<1>14. ASSUME NEW t \in Thread, PoolTakesBack(t) PROVE TypeOK'
  BY <1>14, <1>a, ZenonT(40) DEF PoolTakesBack, Goto, Labels
<1> HIDE DEF TypeOK, InPush
<1> QED BY <1>1, <1>2, <1>3, <1>4, <1>5, <1>6, <1>7, <1>8, <1>9, <1>10, <1>11, <1>12, <1>13, <1>14
        DEF Next, PushStep, PopStep, PoolStep

(* Every variable keeps its type, however many threads push and pop. *)
THEOREM TypeCorrect == Spec => []TypeOK
BY InitTypes, TypeStep, PTL DEF Spec

-----------------------------------------------------------------------------
(* The invariant in every step.  n and c stay but for the two successful   *)
(* compare-and-sets.                                                       *)
LEMMA Initially ==
  Init => Held([i \in Barrel |-> 0], [i \in Barrel |-> [k \in Nat |-> Null]])
<1> SUFFICES ASSUME Init PROVE Held([i \in Barrel |-> 0], [i \in Barrel |-> [k \in Nat |-> Null]])
  OBVIOUS
<1>1. PICK n, c : n = [i \in Barrel |-> 0] /\ c = [i \in Barrel |-> [k \in Nat |-> Null]]
  OBVIOUS
<1>2. \A i \in Barrel : n[i] = 0 /\ c[i][0] = Null /\ 1 .. n[i] = {}
  BY <1>1
<1>3. TypeOK
  BY InitTypes
<1>4. Lists(head, next, n, c) /\ Apart(n, c)
  BY <1>2 DEF Init, Lists, Apart
<1>5. \A t \in Thread : ~HasNode(t) /\ ~InPop(t) /\ ~Gives(t) /\ pc[t] = "idle"
  BY DEF Init, HasNode, InPush, InPop, Gives
<1>6. Owners(n, c)
  BY <1>2, <1>5 DEF Init, Owners, On, Having
<1>7. Pool
  BY <1>5 DEF Init, Pool
<1>8. Pops(n, c)
  BY <1>5 DEF Pops
<1> QED BY <1>1, <1>3, <1>4, <1>6, <1>7, <1>8 DEF Held

(* A step after which every node is where it was. *)
Quiet ==
  /\ UNCHANGED <<head, next, value, free, held, returning, handles>>
  /\ \A t \in Thread : /\ (HasNode(t)' <=> HasNode(t)) /\ (Gives(t)' <=> Gives(t))
                       /\ HasNode(t) => NodeOf(t)' = NodeOf(t)
                       /\ Gives(t) => reg'[t].old = reg[t].old

(* ... keeps the invariant, if the pops stay in order. *)
LEMMA QuietStep ==
  ASSUME NEW n \in Heights, NEW c \in Columns, Held(n, c), TypeOK', Quiet, Pops(n, c)'
  PROVE  Held(n, c)'
<1>1. Pool'
  BY DEF Held, Pool, Quiet
<1>2. Lists(head', next', n, c)
  BY DEF Held, Quiet
<1>3. \A x : Having(x)' <=> Having(x)
  BY DEF Quiet, Having
<1>4. Owners(n, c)'
  BY <1>3 DEF Held, Owners, Quiet
<1> QED BY <1>1, <1>2, <1>4 DEF Held

(* What a step of t does to the program counters and the registers. *)
Moves(t, to, r) ==
  /\ pc'[t] = to /\ reg'[t] = r
  /\ \A u \in Thread : u # t => pc'[u] = pc[u] /\ reg'[u] = reg[u]

(* The steps that move no node. *)
LEMMA PushPickStep ==
  ASSUME NEW n \in Heights, NEW c \in Columns, Held(n, c), TypeOK', NEW t \in Thread, PushPick(t)
  PROVE  Held(n, c)'
<1> USE DEF Held
<1>1. pc[t] = "pick" /\ Moves(t, "read", [reg[t] EXCEPT !.idx = pushMark'])
  BY DEF PushPick, Goto, TypeOK, Moves
<1>2. reg'[t].node = reg[t].node
  BY <1>1 DEF Moves, TypeOK
<1>3. Quiet
  BY <1>1, <1>2 DEF Quiet, Moves, PushPick, pool, HasNode, NodeOf, InPush, Gives
<1>4. Pops(n, c)'
  BY <1>1 DEF Pops, Moves, PushPick, InPop
<1> QED BY <1>3, <1>4, QuietStep

(* pop takes the next head. *)
LEMMA PopPickStep ==
  ASSUME NEW n \in Heights, NEW c \in Columns, Held(n, c), TypeOK', NEW t \in Thread, PopPick(t)
  PROVE  Held(n, c)'
<1> USE DEF Held
<1>1. pc[t] = "idle" /\ t \in Popper /\ Moves(t, "top", [reg[t] EXCEPT !.idx = popMark'])
  BY DEF PopPick, Goto, TypeOK, Moves
<1>2. Quiet
  BY <1>1 DEF Quiet, Moves, PopPick, pool, HasNode, NodeOf, InPush, Gives
<1>3. Pops(n, c)'
  BY <1>1 DEF Pops, Moves, PopPick, InPop
<1> QED BY <1>2, <1>3, QuietStep

(* pop reads the head: what it finds is the top of that list. *)
LEMMA PopReadHeadStep ==
  ASSUME NEW n \in Heights, NEW c \in Columns, Held(n, c), TypeOK', NEW t \in Thread, PopReadHead(t)
  PROVE  Held(n, c)'
<1> USE DEF Held
<1>1. PICK i \in Barrel, old \in Pointer : i = reg[t].idx /\ old = head[i]
  BY DEF TypeOK
<1>2. /\ pc[t] = "top"
      /\ \/ old = Null /\ Moves(t, "idle", Fresh)
         \/ old # Null /\ Moves(t, "next", [reg[t] EXCEPT !.old = old])
  BY <1>1 DEF PopReadHead, Goto, TypeOK, Moves
<1>3. Quiet
  BY <1>2 DEF Quiet, Moves, PopReadHead, pool, HasNode, NodeOf, InPush, Gives
<1>4. CASE old = Null
  <2>1. Moves(t, "idle", Fresh)
    BY <1>2, <1>4
  <2>2. Pops(n, c)'
    BY <2>1 DEF Pops, Moves, PopReadHead, InPop
  <2> QED BY <1>3, <2>2, QuietStep
<1>5. CASE old # Null
  <2>1. Moves(t, "next", [reg[t] EXCEPT !.old = old])
    BY <1>2, <1>5
  <2>2. reg'[t].idx = i /\ reg'[t].old = old
    BY <1>1, <2>1 DEF Moves, TypeOK
  <2>3. n[i] \in 1 .. n[i] /\ c[i][n[i]] = old
    <3>1. c[i][n[i]] = old /\ c[i][0] = Null /\ n[i] \in Nat
      BY <1>1 DEF Lists, Heights
    <3>2. n[i] # 0
      BY <1>5, <3>1
    <3> QED BY <3>1, <3>2
  <2>4. Pops(n, c)'
    <3>1. UNCHANGED next /\ t \in Popper /\ pc'[t] = "next"
      BY <1>2, <2>1 DEF Pops, Moves, PopReadHead, InPop
    <3>2. \E k \in 1 .. n[reg'[t].idx] : c[reg'[t].idx][k] = reg'[t].old
      BY <2>2, <2>3
    <3>3. ASSUME NEW u \in Thread, u # t PROVE pc'[u] = pc[u] /\ reg'[u] = reg[u]
      BY <2>1, <3>3 DEF Moves
    <3> QED BY <3>1, <3>2, <3>3 DEF Pops, InPop
  <2> QED BY <1>3, <2>4, QuietStep
<1> QED BY <1>4, <1>5

(* pop reads the successor of a node that is still on its list. *)
LEMMA PopReadNextStep ==
  ASSUME NEW n \in Heights, NEW c \in Columns, Held(n, c), TypeOK', NEW t \in Thread, PopReadNext(t)
  PROVE  Held(n, c)'
<1> USE DEF Held
<1>1. pc[t] = "next" /\ Moves(t, "cas", [reg[t] EXCEPT !.nval = next[reg[t].old]])
  BY DEF PopReadNext, Goto, TypeOK, Moves
<1>2. reg'[t].idx = reg[t].idx /\ reg'[t].old = reg[t].old /\ reg'[t].nval = next[reg[t].old]
  BY <1>1 DEF Moves, TypeOK
<1>3. Quiet
  BY <1>1, <1>2 DEF Quiet, Moves, PopReadNext, pool, HasNode, NodeOf, InPush, Gives
<1>4. Pops(n, c)'
  BY <1>1, <1>2 DEF Pops, Moves, PopReadNext, InPop
<1> QED BY <1>3, <1>4, QuietStep

(* A compare-and-set that fails. *)
LEMMA FailedCasStep ==
  ASSUME NEW n \in Heights, NEW c \in Columns, Held(n, c), TypeOK', NEW t \in Thread,
         \/ head[reg[t].idx] # reg[t].old /\ PopCas(t)
         \/ head[reg[t].idx] # next[reg[t].node] /\ PushCas(t)
  PROVE  Held(n, c)'
<1> USE DEF Held
<1>1. /\ \/ pc[t] = "cas" /\ Moves(t, "top", reg[t])
         \/ pc[t] = "link" /\ Moves(t, "read", reg[t])
      /\ UNCHANGED <<head, next, value, free, held, returning, handles>>
  BY DEF PopCas, PushCas, Goto, TypeOK, Moves, pool
<1>2. Quiet
  BY <1>1 DEF Quiet, Moves, HasNode, NodeOf, InPush, Gives
<1>3. Pops(n, c)'
  BY <1>1 DEF Pops, Moves, InPop
<1> QED BY <1>2, <1>3, QuietStep

-----------------------------------------------------------------------------
(* The steps that move a node. *)
LEMMA PushAllocateStep ==
  ASSUME NEW n \in Heights, NEW c \in Columns, Held(n, c), TypeOK',
         NEW t \in Thread, NEW x \in Node, NEW v \in Value, PushAllocate(t, x, v)
  PROVE  Held(n, c)' /\ \A y \in held : value'[y] = value[y]
<1> USE DEF Held
<1>1. pc[t] = "idle" /\ Moves(t, "pick", [reg[t] EXCEPT !.node = x])
  BY DEF PushAllocate, Goto, TypeOK, Moves
<1>2. reg'[t].node = x
  BY <1>1 DEF Moves, TypeOK
<1>3. /\ x \in free /\ x \notin held /\ free' = free \ {x} /\ held' = held \cup {x}
      /\ value'[x] = v /\ \A y \in Node : y # x => value'[y] = value[y]
      /\ UNCHANGED <<head, next, returning, handles>>
  BY DEF PushAllocate, Pool, TypeOK, Cell
<1>4. Pool'
  <2>1. \A u \in Thread : Gives(u)' => Gives(u) /\ reg'[u].old = reg[u].old
    BY <1>1 DEF Moves, Gives
  <2>2. held \subseteq Node
    BY DEF TypeOK
  <2> QED BY <1>3, <2>1, <2>2 DEF Pool
<1>5. \A y \in Node : Having(y)' <=> Having(y) \/ y = x
  BY <1>1, <1>2 DEF Having, Moves, HasNode, NodeOf, InPush
<1>6. Owners(n, c)'
  <2>1. \A u \in Thread : HasNode(u)' => (u = t /\ NodeOf(u)' = x) \/ (u # t /\ HasNode(u) /\ NodeOf(u)' = NodeOf(u))
    BY <1>1, <1>2 DEF Moves, HasNode, NodeOf, InPush
  <2>2. \A u \in Thread : HasNode(u) => NodeOf(u) # x
    BY <1>3 DEF Owners, Having
  <2>3. \A u, w \in Thread : HasNode(u)' /\ HasNode(w)' /\ NodeOf(u)' = NodeOf(w)' => u = w
    BY <2>1, <2>2 DEF Owners
  <2> QED BY <1>3, <1>5, <2>3 DEF Owners
<1>7. Pops(n, c)'
  BY <1>1, <1>3 DEF Pops, Moves, InPop
<1>8. Lists(head', next', n, c)
  BY <1>3
<1>9. \A y \in held : value'[y] = value[y]
  BY <1>3 DEF TypeOK
<1> QED BY <1>4, <1>6, <1>7, <1>8, <1>9

(* A word that is written outside the lists leaves them alone. *)
LEMMA WordOutside ==
  ASSUME NEW n \in Heights, NEW c \in Columns, NEW nx, NEW x,
         TypeOK, Lists(head, next, n, c), Pops(n, c), ~On(n, c, x),
         \A y \in Cell : y # x => nx[y] = next[y]
  PROVE  /\ Lists(head, nx, n, c)
         /\ \A t \in Thread : pc[t] = "cas" => reg[t].nval = nx[reg[t].old]
<1>1. \A i \in Barrel : \A k \in 1 .. n[i] : c[i][k] # x /\ c[i][k] \in Cell
  BY DEF On, Lists, Cell
<1>2. Lists(head, nx, n, c)
  BY <1>1 DEF Lists
<1>3. ASSUME NEW t \in Thread, pc[t] = "cas" PROVE reg[t].nval = nx[reg[t].old]
  <2>1. reg[t].idx \in Barrel
    BY DEF TypeOK
  <2>2. PICK k \in 1 .. n[reg[t].idx] : c[reg[t].idx][k] = reg[t].old
    BY <1>3 DEF Pops
  <2>3. reg[t].old # x /\ reg[t].old \in Cell
    BY <1>1, <2>1, <2>2
  <2> QED BY <1>3, <2>3 DEF Pops
<1> QED BY <1>2, <1>3

(* push links its node to the head. *)
LEMMA PushReadHeadStep ==
  ASSUME NEW n \in Heights, NEW c \in Columns, Held(n, c), TypeOK', NEW t \in Thread, PushReadHead(t)
  PROVE  Held(n, c)'
<1> USE DEF Held
<1>1. /\ pc[t] = "read" /\ Moves(t, "link", reg[t]) /\ reg' = reg
      /\ next' = [next EXCEPT ![reg[t].node] = head[reg[t].idx]]
      /\ UNCHANGED <<head, value, free, held, returning, handles>>
  BY DEF PushReadHead, Goto, TypeOK, Moves, pool
<1>2. HasNode(t) /\ NodeOf(t) = reg[t].node /\ reg[t].node \in Node
  BY <1>1 DEF HasNode, NodeOf, InPush, TypeOK
<1>3. ~On(n, c, reg[t].node)
  BY <1>2 DEF Owners, Having
<1>4. /\ Lists(head', next', n, c)
      /\ \A u \in Thread : pc[u] = "cas" => reg[u].nval = next'[reg[u].old]
  <2>1. \A z \in Cell : z # reg[t].node => next'[z] = next[z]
    BY <1>1 DEF TypeOK
  <2>2. UNCHANGED head
    BY <1>1
  <2>3. TypeOK /\ Lists(head, next, n, c) /\ Pops(n, c)
    OBVIOUS
  <2> QED BY <1>3, <2>1, <2>2, <2>3, WordOutside
<1>5. \A u \in Thread : /\ (HasNode(u)' <=> HasNode(u)) /\ (Gives(u)' <=> Gives(u))
                        /\ NodeOf(u)' = NodeOf(u)
  BY <1>1 DEF Moves, HasNode, NodeOf, InPush, Gives
<1>6. Pool'
  BY <1>1, <1>5 DEF Pool
<1>7. \A y : Having(y)' <=> Having(y)
  BY <1>5 DEF Having
<1>8. Owners(n, c)'
  BY <1>1, <1>5, <1>7 DEF Owners
<1>9. Pops(n, c)'
  BY <1>1, <1>4 DEF Pops, Moves, InPop
<1> QED BY <1>4, <1>6, <1>8, <1>9

(* The pool writes the word of a node that comes back. *)
LEMMA PoolLinkStep ==
  ASSUME NEW n \in Heights, NEW c \in Columns, Held(n, c), TypeOK', NEW t \in Thread, NEW y, PoolLink(t, y)
  PROVE  Held(n, c)'
<1> USE DEF Held
<1>1. /\ pc[t] = "free" /\ Moves(t, "freed", reg[t]) /\ reg' = reg
      /\ next' = [next EXCEPT ![reg[t].old] = y]
      /\ UNCHANGED <<head, value, free, held, returning, handles>>
  BY DEF PoolLink, Goto, TypeOK, Moves, pool
<1>2. reg[t].old \in Node /\ reg[t].old \notin held
  BY <1>1 DEF Pool, Gives
<1>3. ~On(n, c, reg[t].old)
  BY <1>2 DEF Owners
<1>4. /\ Lists(head', next', n, c)
      /\ \A u \in Thread : pc[u] = "cas" => reg[u].nval = next'[reg[u].old]
  <2>1. \A z \in Cell : z # reg[t].old => next'[z] = next[z]
    BY <1>1 DEF TypeOK
  <2>2. UNCHANGED head
    BY <1>1
  <2>3. TypeOK /\ Lists(head, next, n, c) /\ Pops(n, c)
    OBVIOUS
  <2> QED BY <1>3, <2>1, <2>2, <2>3, WordOutside
<1>5. \A u \in Thread : /\ (HasNode(u)' <=> HasNode(u)) /\ (Gives(u)' <=> Gives(u))
                        /\ NodeOf(u)' = NodeOf(u)
  BY <1>1 DEF Moves, HasNode, NodeOf, InPush, Gives
<1>6. Pool'
  BY <1>1, <1>5 DEF Pool
<1>7. \A x : Having(x)' <=> Having(x)
  BY <1>5 DEF Having
<1>8. Owners(n, c)'
  BY <1>1, <1>5, <1>7 DEF Owners
<1>9. Pops(n, c)'
  BY <1>1, <1>4 DEF Pops, Moves, InPop
<1> QED BY <1>4, <1>6, <1>8, <1>9

(* The node of a pop( v ) goes back to the pool. *)
LEMMA PopDeliverStep ==
  ASSUME NEW n \in Heights, NEW c \in Columns, Held(n, c), TypeOK', NEW t \in Thread, PopDeliver(t)
  PROVE  Held(n, c)' /\ reg[t].old \in held
<1> USE DEF Held
<1>1. PICK x : x = reg[t].old
  OBVIOUS
<1>2. /\ pc[t] = "took" /\ Moves(t, "free", reg[t]) /\ reg' = reg
      /\ held' = held \ {x} /\ returning' = returning \cup {x}
      /\ UNCHANGED <<head, next, value, free, handles>>
  BY <1>1 DEF PopDeliver, Goto, TypeOK, Moves
<1>3. HasNode(t) /\ NodeOf(t) = x /\ x \in Node
  BY <1>1, <1>2 DEF HasNode, NodeOf, InPush, Pops
<1>4. x \in held /\ ~On(n, c, x) /\ x \notin handles
  BY <1>3 DEF Owners, Having
<1>5. Pool'
  <2>1. \A u \in Thread : Gives(u)' <=> u = t \/ Gives(u)
    BY <1>2 DEF Moves, Gives
  <2>2. \A u \in Thread : Gives(u) => reg[u].old # x
    BY <1>4 DEF Pool
  <2> QED BY <1>1, <1>2, <1>3, <1>4, <2>1, <2>2 DEF Pool
<1>6. \A u \in Thread : /\ HasNode(u)' <=> HasNode(u) /\ u # t
                        /\ u # t => NodeOf(u)' = NodeOf(u)
  BY <1>2 DEF Moves, HasNode, NodeOf, InPush
<1>7. \A y : Having(y)' <=> Having(y) /\ y # x
  BY <1>3, <1>6 DEF Having, Owners
<1>8. Owners(n, c)'
  <2>1. \A u, w \in Thread : HasNode(u)' /\ HasNode(w)' /\ NodeOf(u)' = NodeOf(w)' => u = w
    BY <1>6 DEF Owners
  <2> QED BY <1>2, <1>4, <1>7, <2>1 DEF Owners
<1>9. Pops(n, c)'
  BY <1>2 DEF Pops, Moves, InPop
<1> QED BY <1>1, <1>2, <1>4, <1>5, <1>8, <1>9

(* The node of a pop() goes into a shared_ptr. *)
LEMMA PopHandleStep ==
  ASSUME NEW n \in Heights, NEW c \in Columns, Held(n, c), TypeOK', NEW t \in Thread, PopHandle(t)
  PROVE  Held(n, c)'
<1> USE DEF Held
<1>1. PICK x : x = reg[t].old
  OBVIOUS
<1>2. /\ pc[t] = "took" /\ Moves(t, "idle", Fresh)
      /\ handles' = handles \cup {x}
      /\ UNCHANGED <<head, next, value, free, held, returning>>
  BY <1>1 DEF PopHandle, Goto, TypeOK, Moves, pool
<1>3. HasNode(t) /\ NodeOf(t) = x /\ x \in Node
  BY <1>1, <1>2 DEF HasNode, NodeOf, InPush, Pops
<1>4. x \in held /\ ~On(n, c, x)
  BY <1>3 DEF Owners, Having
<1>5. \A u \in Thread : Gives(u)' => Gives(u) /\ reg'[u] = reg[u]
  BY <1>2 DEF Moves, Gives
<1>6. Pool'
  BY <1>2, <1>3, <1>5 DEF Pool
<1>7. \A u \in Thread : /\ HasNode(u)' <=> HasNode(u) /\ u # t
                        /\ u # t => NodeOf(u)' = NodeOf(u)
  BY <1>2 DEF Moves, HasNode, NodeOf, InPush
<1>8. \A y : Having(y)' <=> Having(y) /\ y # x
  BY <1>3, <1>7 DEF Having, Owners
<1>9. Owners(n, c)'
  <2>1. \A u, w \in Thread : HasNode(u)' /\ HasNode(w)' /\ NodeOf(u)' = NodeOf(w)' => u = w
    BY <1>7 DEF Owners
  <2> QED BY <1>2, <1>4, <1>8, <2>1 DEF Owners
<1>10. Pops(n, c)'
  BY <1>2 DEF Pops, Moves, InPop
<1> QED BY <1>2, <1>6, <1>9, <1>10

(* ... which gives it back. *)
LEMMA DropHandleStep ==
  ASSUME NEW n \in Heights, NEW c \in Columns, Held(n, c), TypeOK',
         NEW t \in Thread, NEW x \in handles, DropHandle(t, x)
  PROVE  Held(n, c)' /\ x \in held
<1> USE DEF Held
<1>1. /\ pc[t] = "idle" /\ Moves(t, "free", [reg[t] EXCEPT !.old = x])
      /\ handles' = handles \ {x} /\ held' = held \ {x} /\ returning' = returning \cup {x}
      /\ UNCHANGED <<head, next, value, free>>
  BY DEF DropHandle, Goto, TypeOK, Moves
<1>2. reg'[t].old = x /\ x \in Node
  BY <1>1 DEF Moves, TypeOK, Pool
<1>3. x \in held /\ ~On(n, c, x) /\ ~Having(x)
  BY <1>2 DEF Owners
<1>4. Pool'
  <2>1. \A u \in Thread : Gives(u)' => (u = t \/ (Gives(u) /\ reg'[u] = reg[u]))
    BY <1>1 DEF Moves, Gives
  <2>2. \A u \in Thread : Gives(u) => reg[u].old # x
    BY <1>3 DEF Pool
  <2> QED BY <1>1, <1>2, <1>3, <2>1, <2>2 DEF Pool
<1>5. \A u \in Thread : /\ HasNode(u)' <=> HasNode(u)
                        /\ HasNode(u) => NodeOf(u)' = NodeOf(u)
  BY <1>1 DEF Moves, HasNode, NodeOf, InPush
<1>6. \A y : Having(y)' <=> Having(y)
  BY <1>5 DEF Having
<1>7. Owners(n, c)'
  <2>1. \A u, w \in Thread : HasNode(u)' /\ HasNode(w)' /\ NodeOf(u)' = NodeOf(w)' => u = w
    BY <1>5 DEF Owners
  <2> QED BY <1>1, <1>3, <1>6, <2>1 DEF Owners
<1>8. Pops(n, c)'
  BY <1>1 DEF Pops, Moves, InPop
<1> QED BY <1>1, <1>3, <1>4, <1>7, <1>8

(* The pool has the node again. *)
LEMMA PoolTakesBackStep ==
  ASSUME NEW n \in Heights, NEW c \in Columns, Held(n, c), TypeOK', NEW t \in Thread, PoolTakesBack(t)
  PROVE  Held(n, c)' /\ reg[t].old \in returning
<1> USE DEF Held
<1>1. PICK x : x = reg[t].old
  OBVIOUS
<1>2. /\ pc[t] = "freed" /\ UNCHANGED <<head, next, value, held, handles>>
      /\ \/ /\ Moves(t, "idle", Fresh)
            /\ returning' = returning \ {x} /\ free' = free \cup ({x} \cap Node)
         \/ Moves(t, "free", reg[t]) /\ UNCHANGED <<free, returning>>
  BY <1>1 DEF PoolTakesBack, Goto, TypeOK, Moves
<1>3. Gives(t) /\ x \in returning
  BY <1>1, <1>2 DEF Gives, Pool
<1>4. \A u \in Thread : u # t => (Gives(u)' <=> Gives(u)) /\ reg'[u] = reg[u]
  BY <1>2 DEF Moves, Gives
<1>5. Pool'
  <2>1. CASE Moves(t, "idle", Fresh) /\ returning' = returning \ {x} /\ free' = free \cup ({x} \cap Node)
    <3>1. ~Gives(t)'
      BY <2>1 DEF Moves, Gives
    <3>2. \A u \in Thread : Gives(u)' => u # t /\ Gives(u) /\ reg'[u] = reg[u] /\ reg[u].old # x
      BY <1>1, <1>3, <1>4, <3>1 DEF Pool
    <3> QED BY <1>2, <1>3, <2>1, <3>2 DEF Pool
  <2>2. CASE Moves(t, "free", reg[t]) /\ UNCHANGED <<free, returning>>
    <3>1. \A u \in Thread : Gives(u)' => Gives(u) /\ reg'[u] = reg[u]
      BY <1>3, <1>4, <2>2 DEF Moves
    <3> QED BY <1>2, <2>2, <3>1 DEF Pool
  <2> QED BY <1>2, <2>1, <2>2
<1>6. \A u \in Thread : /\ HasNode(u)' <=> HasNode(u)
                        /\ HasNode(u) => NodeOf(u)' = NodeOf(u)
  BY <1>2 DEF Moves, HasNode, NodeOf, InPush
<1>7. \A y : Having(y)' <=> Having(y)
  BY <1>6 DEF Having
<1>8. Owners(n, c)'
  <2>1. \A u, w \in Thread : HasNode(u)' /\ HasNode(w)' /\ NodeOf(u)' = NodeOf(w)' => u = w
    BY <1>6 DEF Owners
  <2> QED BY <1>2, <1>7, <2>1 DEF Owners
<1>9. Pops(n, c)'
  BY <1>2, SMTT(30) DEF Pops, Moves, InPop
<1> QED BY <1>1, <1>2, <1>3, <1>5, <1>8, <1>9

(* The new node is on top of its list. *)
Pushed(n, i) == [n EXCEPT ![i] = @ + 1]
OnTop(n, c, i, x) == [c EXCEPT ![i] = [@ EXCEPT ![n[i] + 1] = x]]

(* A push whose compare-and-set succeeds. *)
LEMMA PushCasStep ==
  ASSUME NEW n \in Heights, NEW c \in Columns, Held(n, c), TypeOK', NEW t \in Thread,
         PushCas(t), head[reg[t].idx] = next[reg[t].node]
  PROVE  \E i \in Barrel, x \in held, m \in Heights, d \in Columns :
           /\ i = reg[t].idx /\ x = reg[t].node /\ m = Pushed(n, i) /\ d = OnTop(n, c, i, x)
           /\ Held(m, d)'
<1> USE DEF Held
<1>1. PICK i, x : i = reg[t].idx /\ x = reg[t].node
  OBVIOUS
<1>2. PICK m, d : m = Pushed(n, i) /\ d = OnTop(n, c, i, x)
  OBVIOUS
<1>3. /\ pc[t] = "link" /\ Moves(t, "idle", Fresh) /\ i \in Barrel /\ x \in Node
      /\ head' = [head EXCEPT ![i] = x] /\ head[i] = next[x]
      /\ UNCHANGED <<next, value, free, held, returning, handles>>
  BY <1>1 DEF PushCas, Goto, TypeOK, Moves, pool, InPush
<1>4. HasNode(t) /\ NodeOf(t) = x
  BY <1>1, <1>3 DEF HasNode, NodeOf, InPush
<1>5. x \in held /\ ~On(n, c, x) /\ x \notin handles
  BY <1>3, <1>4 DEF Owners, Having
<1>6. /\ m \in Heights /\ m[i] = n[i] + 1 /\ n[i] \in Nat
      /\ \A j \in Barrel : j # i => m[j] = n[j]
  BY <1>2, <1>3 DEF Pushed, Heights
<1>7. /\ d \in Columns /\ d[i][n[i] + 1] = x
      /\ \A j \in Barrel : \A k \in 0 .. n[j] : d[j][k] = c[j][k]
  <2>1. x \in Pointer /\ c[i] \in [Nat -> Pointer]
    BY <1>3 DEF Pointer, Cell, Columns
  <2>2. PICK e : e = [c[i] EXCEPT ![n[i] + 1] = x]
    OBVIOUS
  <2>3. e \in [Nat -> Pointer] /\ e[n[i] + 1] = x /\ \A k \in 0 .. n[i] : e[k] = c[i][k]
    BY <1>6, <2>1, <2>2
  <2>4. d = [c EXCEPT ![i] = e]
    BY <1>2, <2>2 DEF OnTop
  <2>5. d \in Columns /\ d[i] = e /\ \A j \in Barrel : j # i => d[j] = c[j]
    BY <1>3, <2>3, <2>4 DEF Columns
  <2> QED BY <2>3, <2>5
<1>8. \A j \in Barrel : \A k \in 1 .. m[j] : (j = i /\ k = n[i] + 1) \/ (k \in 1 .. n[j] /\ k \in 0 .. n[j] /\ k - 1 \in 0 .. n[j])
  BY <1>6 DEF Heights
<1>9. \A j \in Barrel : \A k \in 1 .. n[j] : k \in 1 .. m[j] /\ d[j][k] = c[j][k]
  BY <1>6, <1>7 DEF Heights
<1>10. Lists(head', next', m, d)
  <2> SUFFICES ASSUME NEW j \in Barrel
               PROVE  /\ d[j][0] = Null /\ head'[j] = d[j][m[j]]
                      /\ \A k \in 1 .. m[j] : d[j][k] \in Node /\ next'[d[j][k]] = d[j][k - 1]
    BY DEF Lists
  <2>1. n[j] \in Nat /\ 0 \in 0 .. n[j] /\ n[j] \in 0 .. n[j]
    BY DEF Heights
  <2>2. d[j][0] = Null
    BY <1>7, <2>1 DEF Lists
  <2>3. head'[j] = d[j][m[j]]
    <3>1. CASE j = i
      BY <1>3, <1>6, <1>7, <3>1 DEF TypeOK
    <3>2. CASE j # i
      <4>1. head'[j] = head[j] /\ m[j] = n[j] /\ d[j][n[j]] = c[j][n[j]]
        BY <1>3, <1>6, <1>7, <2>1, <3>2 DEF TypeOK
      <4> QED BY <4>1 DEF Lists
    <3> QED BY <3>1, <3>2
  <2>4. ASSUME NEW k \in 1 .. m[j] PROVE d[j][k] \in Node /\ next'[d[j][k]] = d[j][k - 1]
    <3>1. CASE j = i /\ k = n[i] + 1
      <4>1. d[j][k] = x /\ d[j][k - 1] = c[i][n[i]]
        BY <1>7, <2>1, <3>1
      <4> QED BY <1>3, <4>1 DEF Lists
    <3>2. CASE k \in 1 .. n[j] /\ k - 1 \in 0 .. n[j]
      <4>1. d[j][k] = c[j][k] /\ d[j][k - 1] = c[j][k - 1]
        BY <1>7, <1>9, <3>2
      <4> QED BY <1>3, <3>2, <4>1 DEF Lists
    <3> QED BY <1>8, <3>1, <3>2
  <2> QED BY <2>2, <2>3, <2>4
<1>11. \A y : On(m, d, y) <=> On(n, c, y) \/ y = x
  <2>1. ASSUME NEW y, On(m, d, y) PROVE On(n, c, y) \/ y = x
    BY <1>7, <1>8, <1>9, <2>1 DEF On
  <2>2. ASSUME NEW y, On(n, c, y) PROVE On(m, d, y)
    BY <1>9, <2>2 DEF On
  <2>3. On(m, d, x)
    <3>1. n[i] + 1 \in 1 .. m[i]
      BY <1>6
    <3> QED BY <1>3, <1>7, <3>1 DEF On
  <2> QED BY <2>1, <2>2, <2>3
<1>12. Apart(m, d)
  <2> SUFFICES ASSUME NEW j \in Barrel, NEW l \in Barrel, NEW k \in 1 .. m[j], NEW p \in 1 .. m[l],
                      d[j][k] = d[l][p]
               PROVE  j = l /\ k = p
    BY DEF Apart
  <2>1. \A y \in Barrel : \A z \in 1 .. n[y] : d[y][z] # x
    BY <1>5, <1>9 DEF On
  <2>2. CASE j = i /\ k = n[i] + 1
    BY <1>7, <1>8, <2>1, <2>2
  <2>3. CASE l = i /\ p = n[i] + 1
    BY <1>7, <1>8, <2>1, <2>3
  <2>4. CASE k \in 1 .. n[j] /\ p \in 1 .. n[l]
    BY <1>9, <2>4 DEF Apart
  <2> QED BY <1>8, <2>2, <2>3, <2>4
<1>13. \A u \in Thread : /\ HasNode(u)' <=> HasNode(u) /\ u # t
                         /\ u # t => NodeOf(u)' = NodeOf(u)
  BY <1>3 DEF Moves, HasNode, NodeOf, InPush
<1>14. \A y : Having(y)' <=> Having(y) /\ y # x
  BY <1>4, <1>13 DEF Having, Owners
<1>15. Owners(m, d)'
  <2>1. \A u, w \in Thread : HasNode(u)' /\ HasNode(w)' /\ NodeOf(u)' = NodeOf(w)' => u = w
    BY <1>13 DEF Owners
  <2> QED BY <1>3, <1>5, <1>11, <1>14, <2>1 DEF Owners
<1>16. \A u \in Thread : Gives(u)' => Gives(u) /\ reg'[u] = reg[u]
  BY <1>3 DEF Moves, Gives
<1>17. Pool'
  BY <1>3, <1>16 DEF Pool
<1>18. Pops(m, d)'
  <2>1. \A u \in Thread : u # t => pc'[u] = pc[u] /\ reg'[u] = reg[u] /\ reg[u].idx \in Barrel
    BY <1>3 DEF Moves, TypeOK
  <2>2. pc'[t] = "idle" /\ UNCHANGED next
    BY <1>3 DEF Moves
  <2>3. ASSUME NEW u \in Thread, pc'[u] \in {"next", "cas"}
        PROVE  \E k \in 1 .. m[reg'[u].idx] : d[reg'[u].idx][k] = reg'[u].old
    <3>1. PICK k \in 1 .. n[reg[u].idx] : c[reg[u].idx][k] = reg[u].old
      BY <2>1, <2>2, <2>3 DEF Pops
    <3>2. u # t
      BY <2>2, <2>3
    <3> QED BY <1>9, <2>1, <3>1, <3>2
  <2> QED BY <2>1, <2>2, <2>3 DEF Pops, InPop
<1>19. Held(m, d)'
  BY <1>10, <1>12, <1>15, <1>17, <1>18
<1> QED BY <1>1, <1>2, <1>3, <1>5, <1>6, <1>7, <1>19

(* The top node is taken; the one that popped it knew its successor.       *)
Popped(n, i) == [n EXCEPT ![i] = @ - 1]

(* A pop whose compare-and-set succeeds. *)
LEMMA PopCasStep ==
  ASSUME OnePopper, NEW n \in Heights, NEW c \in Columns, Held(n, c), TypeOK', NEW t \in Thread,
         PopCas(t), head[reg[t].idx] = reg[t].old
  PROVE  \E i \in Barrel, m \in Heights :
           /\ i = reg[t].idx /\ m = Popped(n, i) /\ n[i] # 0 /\ c[i][n[i]] = reg[t].old
           /\ Held(m, c)'
<1> USE DEF Held
<1>1. PICK i, x : i = reg[t].idx /\ x = reg[t].old
  OBVIOUS
<1>2. PICK m : m = Popped(n, i)
  OBVIOUS
<1>3. /\ pc[t] = "cas" /\ Moves(t, "took", reg[t]) /\ reg' = reg /\ i \in Barrel
      /\ head' = [head EXCEPT ![i] = reg[t].nval] /\ head[i] = x
      /\ UNCHANGED <<next, value, free, held, returning, handles>>
  BY <1>1 DEF PopCas, Goto, TypeOK, Moves, pool
<1>4. PICK k \in 1 .. n[i] : c[i][k] = x
  BY <1>1, <1>3 DEF Pops
<1>5. n[i] \in Nat /\ n[i] # 0 /\ n[i] \in 1 .. n[i] /\ c[i][n[i]] = x
  BY <1>3, <1>4 DEF Heights, Lists
<1>6. x \in Node /\ reg[t].nval = c[i][n[i] - 1] /\ t \in Popper
  BY <1>1, <1>3, <1>5 DEF Lists, Pops, InPop
<1>7. /\ m \in Heights /\ m[i] = n[i] - 1
      /\ \A j \in Barrel : j # i => m[j] = n[j]
  BY <1>2, <1>3, <1>5 DEF Popped, Heights
<1>8. \A j \in Barrel : \A p \in 1 .. m[j] : p \in 1 .. n[j] /\ (j = i => p # n[i])
  BY <1>5, <1>7 DEF Heights
<1>9. \A j \in Barrel : \A p \in 1 .. n[j] : (j = i /\ p = n[i]) \/ p \in 1 .. m[j]
  BY <1>5, <1>7 DEF Heights
<1>10. Lists(head', next', m, c)
  BY <1>3, <1>6, <1>7, <1>8 DEF Lists, TypeOK
<1>11. \A y : On(m, c, y) <=> On(n, c, y) /\ y # x
  <2>1. ASSUME NEW y, On(m, c, y) PROVE On(n, c, y) /\ y # x
    BY <1>3, <1>5, <1>8, <2>1 DEF On, Apart
  <2>2. ASSUME NEW y, On(n, c, y), y # x PROVE On(m, c, y)
    BY <1>5, <1>9, <2>2 DEF On
  <2> QED BY <2>1, <2>2
<1>12. On(n, c, x)
  BY <1>3, <1>5 DEF On
<1>13. Apart(m, c)
  BY <1>8 DEF Apart
<1>14. \A u \in Thread : /\ HasNode(u)' <=> HasNode(u) \/ u = t
                         /\ HasNode(u) /\ u # t => NodeOf(u)' = NodeOf(u)
                         /\ NodeOf(t)' = x
  BY <1>1, <1>3 DEF Moves, HasNode, NodeOf, InPush
<1>15. x \in held /\ ~Having(x) /\ x \notin handles
  BY <1>6, <1>12 DEF Owners
<1>16. ~HasNode(t)
  BY <1>3 DEF HasNode, InPush
<1>17. \A y : Having(y)' <=> Having(y) \/ y = x
  BY <1>14, <1>16 DEF Having
<1>18. Owners(m, c)'
  <2>1. \A u \in Thread : HasNode(u) => NodeOf(u) # x
    BY <1>15 DEF Having
  <2>2. \A u, w \in Thread : HasNode(u)' /\ HasNode(w)' /\ NodeOf(u)' = NodeOf(w)' => u = w
    BY <1>14, <2>1 DEF Owners
  <2> QED BY <1>3, <1>11, <1>12, <1>15, <1>17, <2>2 DEF Owners
<1>19. \A u \in Thread : (Gives(u)' <=> Gives(u)) /\ reg'[u] = reg[u]
  BY <1>3 DEF Moves, Gives
<1>20. Pool'
  BY <1>3, <1>19 DEF Pool
<1>21. Pops(m, c)'
  <2>1. \A u \in Thread : u # t => pc'[u] = pc[u] /\ ~InPop(u)
    BY <1>3, <1>6 DEF Moves, Pops, OnePopper
  <2>2. pc'[t] = "took" /\ reg'[t].old \in Node
    BY <1>1, <1>3, <1>6 DEF Moves
  <2> QED BY <1>6, <2>1, <2>2 DEF Pops, InPop
<1>22. Held(m, c)'
  BY <1>10, <1>13, <1>18, <1>20, <1>21
<1> QED BY <1>1, <1>2, <1>3, <1>5, <1>7, <1>22

-----------------------------------------------------------------------------
(* Place walks down a list: what it finds is c[i], from the top.  The walk *)
(* is the same for primed variables, hence the parameters.                 *)
Walk(hd, nx) ==
  LET at[k \in 0 .. Cardinality(Node)] ==
        IF k = 0 THEN hd
        ELSE IF at[k - 1] \in Node THEN nx[at[k - 1]] ELSE Null
  IN at

SizeOf(w) == Cardinality({k \in DOMAIN w : w[k] \in Node})

(* Place and ListSize are those. *)
LEMMA Places == \A i : Place(i) = Walk(head[i], next) /\ ListSize(i) = SizeOf(Place(i))
BY DEF Place, Walk, ListSize, SizeOf

(* The same after a step. *)
LEMMA PlacesNext == \A i : Place(i)' = Walk(head'[i], next') /\ ListSize(i)' = SizeOf(Place(i)')
BY DEF Place, Walk, ListSize, SizeOf

(* A set of naturals that is not empty has a least element. *)
LEMMA LeastNatural ==
  ASSUME NEW S \in SUBSET Nat, S # {}
  PROVE  \E k \in S : \A l \in S : k <= l
<1>1. PICK k \in S : \A l \in S : ~ (<<l, k>> \in OpToRel(<, Nat))
  BY NatLessThanWellFounded, WFMin
<1>2. ASSUME NEW l \in S PROVE k <= l
  <2>1. ~(l < k)
    BY <1>1 DEF OpToRel
  <2> QED BY <2>1
<1> QED BY <1>2

(* m different nodes in a column, of finitely many. *)
LEMMA ColumnFits ==
  ASSUME NEW m \in Nat, NEW col \in [Nat -> Pointer], \A k \in 1 .. m : col[k] \in Node,
         \A k, l \in 1 .. m : col[k] = col[l] => k = l
  PROVE  Cardinality(Node) \in Nat /\ m <= Cardinality(Node)
<1>1. IsFiniteSet(Node)
  BY StackAssumption
<1>2. Cardinality(Node) \in Nat
  BY <1>1, FS_CardinalityType
<1>3. PICK g : g = [k \in 1 .. m |-> col[k]]
  OBVIOUS
<1>3a. g \in [1 .. m -> Node] /\ \A k, l \in 1 .. m : g[k] = g[l] => k = l
  BY <1>3
<1>3b. g \in Injection(1 .. m, Node)
  BY <1>3a DEF Injection, IsInjective
<1>4. Cardinality(1 .. m) <= Cardinality(Node)
  BY <1>1, <1>3b, FS_Injection
<1>5. Cardinality(1 .. m) = m
  BY FS_Interval
<1> QED BY <1>2, <1>4, <1>5

(* What a walk finds in a column of m nodes. *)
Reads(w, m, col) ==
  /\ DOMAIN w = 0 .. Cardinality(Node) /\ m \in 0 .. Cardinality(Node)
  /\ \A j \in 0 .. Cardinality(Node) : w[j] = IF j <= m THEN col[m - j] ELSE Null

(* The walk, a recursive function, is that of the column: the column       *)
(* satisfies its equation, and two solutions cannot differ at a least      *)
(* place.                                                                  *)
LEMMA WalkReads ==
  ASSUME NEW nx, NEW m \in Nat, NEW col \in [Nat -> Pointer], col[0] = Null,
         \A k \in 1 .. m : col[k] \in Node /\ nx[col[k]] = col[k - 1],
         Cardinality(Node) \in Nat, m <= Cardinality(Node)
  PROVE  Reads(Walk(col[m], nx), m, col)
<1> DEFINE N == Cardinality(Node)
           Step(g) == [k \in 0 .. N |-> IF k = 0 THEN col[m]
                                        ELSE IF g[k - 1] \in Node THEN nx[g[k - 1]] ELSE Null]
           f == [j \in 0 .. N |-> IF j <= m THEN col[m - j] ELSE Null]
<1>1. Null \notin Node
  BY StackAssumption
<1>2. \A j \in 0 .. N : f[j] = Step(f)[j]
  <2> SUFFICES ASSUME NEW j \in 0 .. N PROVE f[j] = Step(f)[j]
    OBVIOUS
  <2>1. CASE j = 0
    BY <2>1
  <2>2. CASE j # 0 /\ j <= m
    <3>1. /\ j - 1 \in 0 .. N /\ j - 1 <= m /\ m - (j - 1) \in 1 .. m
          /\ m - (j - 1) - 1 = m - j
      BY <2>2
    <3>2. f[j - 1] = col[m - (j - 1)]
      BY <3>1
    <3>3. col[m - (j - 1)] \in Node /\ nx[col[m - (j - 1)]] = col[m - j]
      BY <3>1
    <3>4. Step(f)[j] = col[m - j]
      BY <2>2, <3>2, <3>3
    <3> QED BY <2>2, <3>4
  <2>3. CASE j > m
    <3>1. j - 1 \in 0 .. N /\ j # 0 /\ ~(j <= m)
      BY <2>3
    <3>2. f[j - 1] = Null
      <4>1. CASE j - 1 <= m
        <5>1. m - (j - 1) = 0
          BY <2>3, <4>1
        <5> QED BY <3>1, <4>1, <5>1
      <4>2. CASE ~(j - 1 <= m)
        BY <3>1, <4>2
      <4> QED BY <4>1, <4>2
    <3>3. Step(f)[j] = Null
      BY <1>1, <3>1, <3>2
    <3> QED BY <3>1, <3>3
  <2> QED BY <2>1, <2>2, <2>3
<1>3. f = Step(f)
  BY <1>2, SMTT(30)
<1>4. Walk(col[m], nx) = CHOOSE g : g = Step(g)
  BY DEF Walk
<1>5. PICK w : w = Walk(col[m], nx)
  OBVIOUS
<1>6. w = Step(w)
  BY <1>3, <1>4, <1>5, ZenonT(40)
<1> HIDE DEF Step, f
<1>7. \A k \in 0 .. N : w[k] = IF k = 0 THEN col[m] ELSE IF w[k - 1] \in Node THEN nx[w[k - 1]] ELSE Null
  BY <1>6 DEF Step
<1>8. \A k \in 0 .. N : f[k] = IF k = 0 THEN col[m] ELSE IF f[k - 1] \in Node THEN nx[f[k - 1]] ELSE Null
  BY <1>2 DEF Step
<1>9. \A k \in 0 .. N : w[k] = f[k]
  <2> SUFFICES ASSUME NEW l \in 0 .. N, w[l] # f[l] PROVE FALSE
    OBVIOUS
  <2>1. PICK S : S = {k \in 0 .. N : w[k] # f[k]}
    OBVIOUS
  <2>2. S \in SUBSET Nat /\ S # {}
    BY <2>1
  <2>3. PICK k \in S : \A p \in S : k <= p
    BY <2>2, LeastNatural
  <2>4. k \in 0 .. N /\ w[k] # f[k]
    BY <2>1
  <2>5. k # 0
    BY <1>7, <1>8, <2>4
  <2>6. k - 1 \in 0 .. N /\ k - 1 \notin S
    BY <2>3, <2>4, <2>5
  <2>7. w[k - 1] = f[k - 1]
    BY <2>1, <2>6
  <2> QED BY <1>7, <1>8, <2>4, <2>5, <2>7
<1>10. DOMAIN w = 0 .. N
  BY <1>6 DEF Step
<1>11. \A j \in 0 .. N : f[j] = IF j <= m THEN col[m - j] ELSE Null
  BY DEF f
<1> QED BY <1>5, <1>9, <1>10, <1>11 DEF Reads

(* A walk counts the nodes of its column. *)
LEMMA ReadsSize ==
  ASSUME NEW w, NEW m \in Nat, NEW col, Reads(w, m, col), col[0] = Null,
         \A k \in 1 .. m : col[k] \in Node, Cardinality(Node) \in Nat
  PROVE  SizeOf(w) = m
<1>1. Null \notin Node
  BY StackAssumption
<1>2. {k \in DOMAIN w : w[k] \in Node} = 0 .. m - 1
  <2>1. ASSUME NEW k \in DOMAIN w, w[k] \in Node PROVE k \in 0 .. m - 1
    <3>1. k <= m
      BY <1>1, <2>1 DEF Reads
    <3>2. k # m
      <4>1. ASSUME k = m PROVE FALSE
        <5>1. m - k = 0
          BY <4>1
        <5> QED BY <1>1, <2>1, <3>1, <5>1 DEF Reads
      <4> QED BY <4>1
    <3> QED BY <3>1, <3>2 DEF Reads
  <2>2. ASSUME NEW k \in 0 .. m - 1 PROVE k \in DOMAIN w /\ w[k] \in Node
    <3>1. k \in 0 .. Cardinality(Node) /\ k <= m /\ m - k \in 1 .. m
      BY DEF Reads
    <3> QED BY <3>1 DEF Reads
  <2> QED BY <2>1, <2>2
<1>3. Cardinality(0 .. m - 1) = m
  BY FS_Interval
<1> QED BY <1>2, <1>3 DEF SizeOf

(* The lists as Place sees them. *)
LEMMA ListsRead ==
  ASSUME NEW hd, NEW nx, NEW n \in Heights, NEW c \in Columns, Lists(hd, nx, n, c), Apart(n, c),
         NEW i \in Barrel
  PROVE  Reads(Walk(hd[i], nx), n[i], c[i]) /\ SizeOf(Walk(hd[i], nx)) = n[i] /\ n[i] \in Nat
<1>1. n[i] \in Nat /\ c[i] \in [Nat -> Pointer]
  BY DEF Heights, Columns
<1>2. /\ c[i][0] = Null /\ hd[i] = c[i][n[i]]
      /\ \A k \in 1 .. n[i] : c[i][k] \in Node /\ nx[c[i][k]] = c[i][k - 1]
  BY DEF Lists
<1>3. \A k, l \in 1 .. n[i] : c[i][k] = c[i][l] => k = l
  BY DEF Apart
<1>4. Cardinality(Node) \in Nat /\ n[i] <= Cardinality(Node)
  BY <1>1, <1>2, <1>3, ColumnFits
<1>5. Reads(Walk(hd[i], nx), n[i], c[i])
  BY <1>1, <1>2, <1>4, WalkReads
<1>6. SizeOf(Walk(hd[i], nx)) = n[i]
  BY <1>1, <1>2, <1>4, <1>5, ReadsSize
<1> QED BY <1>1, <1>5, <1>6

-----------------------------------------------------------------------------
(* What a step does to the lists: a push or a pop, or nothing. *)
Pushes(n, c, t, i, x, m, d) ==
  /\ PushCas(t) /\ i = reg[t].idx /\ x = reg[t].node /\ head[i] = next[x]
  /\ m = Pushed(n, i) /\ d = OnTop(n, c, i, x)
  /\ Held(m, d)'

Takes(n, c, t, i, m) ==
  /\ PopCas(t) /\ pc[t] = "cas" /\ i = reg[t].idx /\ head[i] = reg[t].old
  /\ m = Popped(n, i) /\ n[i] # 0 /\ c[i][n[i]] = reg[t].old
  /\ Held(m, c)'

Changes(n, c) ==
  \/ \E t \in Thread, i \in Barrel, x \in held, m \in Heights, d \in Columns : Pushes(n, c, t, i, x, m, d)
  \/ \E t \in Thread, i \in Barrel, m \in Heights : Takes(n, c, t, i, m)

(* A step that neither pushes nor pops leaves n and c. *)
LEMMA StepHolds ==
  ASSUME OnePopper, NEW n \in Heights, NEW c \in Columns, Held(n, c), Next, TypeOK'
  PROVE  Held(n, c)' \/ Changes(n, c)
<1>1. PICK t \in Thread :
        \/ \E x \in Node, v \in Value : PushAllocate(t, x, v)
        \/ \E x \in handles : DropHandle(t, x)
        \/ PopPick(t) \/ PushStep(t) \/ PopStep(t) \/ PoolStep(t)
  BY DEF Next
<1>2. CASE \E x \in Node, v \in Value : PushAllocate(t, x, v)
  BY <1>2, PushAllocateStep
<1>3. CASE \E x \in handles : DropHandle(t, x)
  BY <1>3, DropHandleStep
<1>4. CASE PopPick(t) \/ PushPick(t) \/ PushReadHead(t)
  BY <1>4, PopPickStep, PushPickStep, PushReadHeadStep
<1>5. CASE PushCas(t)
  <2>1. CASE head[reg[t].idx] = next[reg[t].node]
    <3>1. \E i \in Barrel, x \in held, m \in Heights, d \in Columns : Pushes(n, c, t, i, x, m, d)
      BY <1>5, <2>1, PushCasStep DEF Pushes
    <3> QED BY <3>1 DEF Changes
  <2>2. CASE head[reg[t].idx] # next[reg[t].node]
    BY <1>5, <2>2, FailedCasStep
  <2> QED BY <2>1, <2>2
<1>6. CASE PopCas(t)
  <2>1. CASE head[reg[t].idx] = reg[t].old
    <3>1. pc[t] = "cas"
      BY <1>6, <2>1 DEF PopCas, Goto
    <3>2. \E i \in Barrel, m \in Heights : Takes(n, c, t, i, m)
      BY <1>6, <2>1, <3>1, PopCasStep DEF Takes
    <3> QED BY <3>2 DEF Changes
  <2>2. CASE head[reg[t].idx] # reg[t].old
    BY <1>6, <2>2, FailedCasStep
  <2> QED BY <2>1, <2>2
<1>7. CASE PopReadHead(t) \/ PopReadNext(t) \/ PopDeliver(t) \/ PopHandle(t)
  BY <1>7, PopReadHeadStep, PopReadNextStep, PopDeliverStep, PopHandleStep
<1>8. CASE PoolStep(t)
  BY <1>8, PoolLinkStep, PoolTakesBackStep DEF PoolStep
<1> QED BY <1>1, <1>2, <1>3, <1>4, <1>5, <1>6, <1>7, <1>8 DEF PushStep, PopStep

(* A step that changes nothing. *)
LEMMA Stutters ==
  ASSUME NEW n \in Heights, NEW c \in Columns, Held(n, c), UNCHANGED vars
  PROVE  Held(n, c)'
<1>1. UNCHANGED <<head, next, value, pushMark, popMark, free, held, returning, handles, pc, reg>>
  BY DEF vars, pool
<1>2. TypeOK'
  BY <1>1 DEF Held, TypeOK, InPush
<1>3. Quiet
  BY <1>1 DEF Quiet, HasNode, NodeOf, InPush, Gives
<1>4. Pops(n, c)'
  BY <1>1 DEF Held, Pops, InPop
<1> QED BY <1>2, <1>3, <1>4, QuietStep

(* The invariant at the beginning. *)
LEMMA InitHolds == Init => IInv
<1> SUFFICES ASSUME Init PROVE IInv
  OBVIOUS
<1>1. PICK n, c : n = [i \in Barrel |-> 0] /\ c = [i \in Barrel |-> [k \in Nat |-> Null]]
  OBVIOUS
<1>2. n \in Heights
  BY <1>1 DEF Heights
<1>3. c \in Columns
  BY <1>1 DEF Columns, Pointer
<1>4. Held(n, c)
  BY <1>1, Initially
<1> QED BY <1>2, <1>3, <1>4 DEF IInv

(* With one popping thread every step keeps the invariant. *)
LEMMA NextStep == OnePopper /\ IInv /\ [Next]_vars => IInv'
<1> SUFFICES ASSUME OnePopper, IInv, [Next]_vars PROVE IInv'
  OBVIOUS
<1>1. PICK n \in Heights, c \in Columns : Held(n, c)
  BY DEF IInv
<1>2. CASE UNCHANGED vars
  <2>1. Held(n, c)'
    BY <1>1, <1>2, Stutters
  <2> QED BY <2>1 DEF IInv
<1>3. CASE Next
  <2>1. TypeOK'
    BY <1>1, TypeStep DEF Held
  <2>2. Held(n, c)' \/ Changes(n, c)
    BY <1>1, <1>3, <2>1, StepHolds
  <2>3. \E m \in Heights, d \in Columns : Held(m, d)'
    BY <2>2 DEF Changes, Pushes, Takes
  <2> QED BY <2>3 DEF IInv
<1> QED BY <1>2, <1>3

(* With one popping thread: on the lists, in the threads, in the handles   *)
(* and in the pool each node is once, every list ends, and what a pop is   *)
(* about to install is current (stack.hpp:42-80).                          *)
THEOREM StackInvariant == ASSUME OnePopper PROVE Spec => []IInv
<1>1. Init => IInv
  BY InitHolds
<1>2. IInv /\ [Next]_vars => IInv'
  BY NextStep
<1> QED BY <1>1, <1>2, PTL DEF Spec

(* Places, from the invariant. *)
LEMMA PlaceHolds == ASSUME IInv PROVE NodesInOnePlace
<1>1. PICK n \in Heights, c \in Columns : Held(n, c)
  BY DEF IInv
<1> USE <1>1 DEF Held
<1>2. ASSUME NEW i \in Barrel
      PROVE  Reads(Place(i), n[i], c[i]) /\ ListSize(i) = n[i] /\ n[i] \in Nat
  BY ListsRead, Places
<1>3. ASSUME NEW i \in Barrel PROVE Place(i)[ListSize(i)] = Null
  <2>1. n[i] \in 0 .. Cardinality(Node) /\ n[i] - n[i] = 0 /\ c[i][0] = Null /\ n[i] <= n[i]
    BY <1>2 DEF Reads, Lists
  <2>2. Place(i)[n[i]] = c[i][n[i] - n[i]]
    BY <1>2, <2>1 DEF Reads
  <2> QED BY <1>2, <2>1, <2>2
<1>4. ASSUME NEW i \in Barrel, NEW x
      PROVE  x \in OnHead(i) <=> \E k \in 1 .. n[i] : c[i][k] = x
  <2>1. n[i] \in Nat /\ n[i] \in 0 .. Cardinality(Node) /\ OnHead(i) = {Place(i)[k] : k \in 0 .. n[i] - 1}
    BY <1>2 DEF OnHead, Reads
  <2>2. ASSUME NEW k \in 0 .. n[i] - 1
        PROVE  n[i] - k \in 1 .. n[i] /\ Place(i)[k] = c[i][n[i] - k]
    <3>1. Cardinality(Node) \in Nat
      BY StackAssumption, FS_CardinalityType
    <3>2. k \in 0 .. Cardinality(Node) /\ k <= n[i] /\ n[i] - k \in 1 .. n[i]
      BY <2>1, <3>1
    <3> QED BY <1>2, <3>2 DEF Reads
  <2>3. ASSUME NEW k \in 1 .. n[i]
        PROVE  n[i] - k \in 0 .. n[i] - 1 /\ n[i] - (n[i] - k) = k
    BY <2>1
  <2>4. ASSUME x \in OnHead(i) PROVE \E k \in 1 .. n[i] : c[i][k] = x
    BY <2>1, <2>2, <2>4
  <2>5. ASSUME NEW k \in 1 .. n[i], c[i][k] = x PROVE x \in OnHead(i)
    <3>1. n[i] - k \in 0 .. n[i] - 1 /\ Place(i)[n[i] - k] = c[i][k]
      BY <2>2, <2>3
    <3> QED BY <2>1, <2>5, <3>1
  <2> QED BY <2>4, <2>5
<1>5. ASSUME NEW i \in Barrel, NEW j \in Barrel, i # j PROVE OnHead(i) \cap OnHead(j) = {}
  BY <1>4, <1>5 DEF Apart
<1> DEFINE onHeads == UNION {OnHead(i) : i \in Barrel}
           inThreads == {NodeOf(t) : t \in {u \in Thread : HasNode(u)}}
<1>6. \A x : x \in onHeads <=> On(n, c, x)
  BY <1>4 DEF On
<1>7. \A x : x \in inThreads <=> Having(x)
  BY DEF Having
<1>8. \A x : On(n, c, x) \/ Having(x) \/ x \in handles \/ x \in held => x \in Node
  <2>1. \A t \in Thread : HasNode(t) => NodeOf(t) \in Node
    BY DEF HasNode, NodeOf, InPush, TypeOK, Pops
  <2> QED BY <2>1 DEF On, Having, Lists, Pool, TypeOK
<1> HIDE DEF onHeads, inThreads
<1>9. held = onHeads \cup inThreads \cup handles
  BY <1>6, <1>7, <1>8 DEF Owners
<1>10. /\ onHeads \cap inThreads = {} /\ onHeads \cap handles = {} /\ inThreads \cap handles = {}
  BY <1>6, <1>7, <1>8 DEF Owners
<1>11. \A t, u \in Thread : HasNode(t) /\ HasNode(u) /\ NodeOf(t) = NodeOf(u) => t = u
  BY DEF Owners
<1> QED BY <1>3, <1>5, <1>9, <1>10, <1>11 DEF NodesInOnePlace, onHeads, inThreads

(* With one popping thread every node is in exactly one place. *)
THEOREM EveryNodeOnce == ASSUME OnePopper PROVE Spec => []NodesInOnePlace
<1>1. IInv => NodesInOnePlace
  BY PlaceHolds
<1> QED BY <1>1, StackInvariant, PTL

(* With one popping thread a pop returns what was pushed: the value of a   *)
(* node whose push has begun stays until the pop has read it, though the   *)
(* node has left the stack (stack.hpp:62-64).                              *)
THEOREM PopsReturnPushed == ASSUME OnePopper PROVE Spec => []NeverBad
<1>1. IInv => NeverBad
  <2> SUFFICES ASSUME IInv, NEW t \in Thread, pc[t] = "took" PROVE value[reg[t].old] # Junk
    BY DEF NeverBad
  <2>1. PICK n \in Heights, c \in Columns : Held(n, c)
    BY DEF IInv
  <2>2. HasNode(t) /\ NodeOf(t) = reg[t].old /\ reg[t].old \in Node
    BY <2>1 DEF Held, HasNode, NodeOf, InPush, Pops
  <2>3. reg[t].old \in held
    BY <2>1, <2>2 DEF Held, Owners, Having
  <2> QED BY <2>1, <2>3, StackAssumption DEF Held, Pool
<1> QED BY <1>1, StackInvariant, PTL

-----------------------------------------------------------------------------
(* The stack keeps to the rules of its pool: a step is one of the pool's,  *)
(* or none that concerns it.                                               *)
LEMMA PoolStepRefines ==
  ASSUME OnePopper, IInv, [Next]_vars
  PROVE  [Memory!Next]_Memory!vars
<1>1. PICK n \in Heights, c \in Columns : Held(n, c)
  BY DEF IInv
<1> USE DEF Memory!vars
<1>2. CASE UNCHANGED vars
  BY <1>2 DEF vars, pool
<1>3. CASE Next
  <2>0. TypeOK'
    BY <1>1, TypeStep DEF Held
  <2>1. PICK t \in Thread :
          \/ \E x \in Node, v \in Value : PushAllocate(t, x, v)
          \/ \E x \in handles : DropHandle(t, x)
          \/ PopPick(t) \/ PushStep(t) \/ PopStep(t) \/ PoolStep(t)
    BY <1>3 DEF Next
  <2>2. CASE \E x \in Node, v \in Value : PushAllocate(t, x, v)
    <3>1. PICK x \in Node : Memory!Allocate(x)
      BY <2>2 DEF PushAllocate, Memory!Allocate
    <3> QED BY <3>1 DEF Memory!Next
  <2>3. CASE \E x \in handles : DropHandle(t, x)
    <3>1. PICK x \in handles : DropHandle(t, x)
      BY <2>3
    <3>2. x \in held /\ x \in Node
      BY <1>1, <2>0, <3>1, DropHandleStep DEF Held, TypeOK
    <3>3. Memory!Deallocate(x)
      BY <3>1, <3>2 DEF DropHandle, Memory!Deallocate
    <3> QED BY <3>2, <3>3 DEF Memory!Next
  <2>4. CASE PopDeliver(t)
    <3>1. reg[t].old \in held /\ reg[t].old \in Node
      BY <1>1, <2>0, <2>4, PopDeliverStep DEF Held, TypeOK
    <3>2. Memory!Deallocate(reg[t].old)
      BY <2>4, <3>1 DEF PopDeliver, Memory!Deallocate
    <3> QED BY <3>1, <3>2 DEF Memory!Next
  <2>5. CASE PoolTakesBack(t)
    <3>1. reg[t].old \in returning /\ reg[t].old \in Node
      BY <1>1, <2>0, <2>5, PoolTakesBackStep DEF Held, Pool
    <3>2. Memory!Recycle(reg[t].old) \/ UNCHANGED <<free, held, returning>>
      BY <2>5, <3>1 DEF PoolTakesBack, Memory!Recycle
    <3> QED BY <3>1, <3>2 DEF Memory!Next
  <2>6. CASE \/ PopPick(t) \/ PushStep(t) \/ PopReadHead(t) \/ PopReadNext(t) \/ PopCas(t) \/ PopHandle(t)
             \/ \E x \in free \cup {Terminator} : PoolLink(t, x)
    BY <2>6 DEF PopPick, PushStep, PushPick, PushReadHead, PushCas, PopReadHead, PopReadNext, PopCas,
                PopHandle, PoolLink, pool
  <2> QED BY <2>1, <2>2, <2>3, <2>4, <2>5, <2>6 DEF PopStep, PoolStep
<1> QED BY <1>2, <1>3

(* With one popping thread the stack gives back only nodes that it has,    *)
(* and each of them once (stack.hpp:65 and 87).                            *)
THEOREM PoolUsedProperly == ASSUME OnePopper PROVE Spec => UsesPoolProperly
<1>1. Init => Memory!Init
  BY DEF Init, Memory!Init
<1>2. IInv /\ [Next]_vars => [Memory!Next]_Memory!vars
  BY PoolStepRefines
<1> QED BY <1>1, <1>2, StackInvariant, PTL DEF Spec, UsesPoolProperly, Memory!Spec

-----------------------------------------------------------------------------
(* Each head is a stack.  The values on a head, from a walk.               *)
ValuesOf(w, vl) == [k \in 1 .. SizeOf(w) |-> vl[w[k - 1]]]

Out == [t \in Thread |-> IF pc[t] = "took" THEN value[reg[t].old] ELSE Junk]
Tops == [i \in Barrel |-> ValuesOn(i)]

(* A list with the values of a column of m nodes. *)
Shows(s, m, col, vl) == s = [k \in 1 .. m |-> vl[col[m + 1 - k]]]

(* A walk shows the values of its column. *)
LEMMA ReadsValues ==
  ASSUME NEW w, NEW m \in Nat, NEW col, NEW vl, Reads(w, m, col), SizeOf(w) = m
  PROVE  Shows(ValuesOf(w, vl), m, col, vl)
<1>1. \A k \in 1 .. m : w[k - 1] = col[m + 1 - k]
  <2> SUFFICES ASSUME NEW k \in 1 .. m PROVE w[k - 1] = col[m + 1 - k]
    OBVIOUS
  <2>1. Cardinality(Node) \in Nat
    BY StackAssumption, FS_CardinalityType
  <2>2. k - 1 \in 0 .. Cardinality(Node) /\ k - 1 <= m /\ m - (k - 1) = m + 1 - k
    BY <2>1 DEF Reads
  <2>3. w[k - 1] = col[m - (k - 1)]
    BY <2>2 DEF Reads
  <2> QED BY <2>2, <2>3
<1> QED BY <1>1 DEF Shows, ValuesOf

(* The values on a head are those of its column. *)
LEMMA ListsShow ==
  ASSUME NEW n \in Heights, NEW c \in Columns, Held(n, c), NEW i \in Barrel
  PROVE  Shows(ValuesOn(i), n[i], c[i], value)
<1>1. ValuesOn(i) = ValuesOf(Place(i), value)
  BY Places DEF ValuesOn, ValuesOf
<1> QED BY <1>1, ListsRead, ReadsValues, Places DEF Held

(* The same after a step. *)
LEMMA ListsShowNext ==
  ASSUME NEW n \in Heights, NEW c \in Columns, Held(n, c)', NEW i \in Barrel
  PROVE  Shows(ValuesOn(i)', n[i], c[i], value')
<1>1. ValuesOn(i)' = ValuesOf(Place(i)', value')
  BY PlacesNext DEF ValuesOn, ValuesOf
<1>2. Lists(head', next', n, c) /\ Apart(n, c)
  BY DEF Held
<1>3. PICK w, hd, nx, vl : w = Walk(hd[i], nx) /\ hd = head' /\ nx = next' /\ vl = value'
  OBVIOUS
<1>4. Reads(w, n[i], c[i]) /\ SizeOf(w) = n[i] /\ n[i] \in Nat
  BY <1>2, <1>3, ListsRead
<1>5. Shows(ValuesOf(w, vl), n[i], c[i], vl)
  BY <1>4, ReadsValues
<1>6. Place(i)' = w
  BY <1>3, PlacesNext
<1> QED BY <1>1, <1>3, <1>5, <1>6

(* Columns with the same values. *)
LEMMA SameValues ==
  ASSUME NEW r, NEW s, NEW m \in Nat, NEW col, NEW vl, NEW vr, Shows(s, m, col, vl), Shows(r, m, col, vr),
         \A k \in 1 .. m : vr[col[k]] = vl[col[k]]
  PROVE  r = s
<1>1. \A k \in 1 .. m : vr[col[m + 1 - k]] = vl[col[m + 1 - k]]
  <2> SUFFICES ASSUME NEW k \in 1 .. m PROVE vr[col[m + 1 - k]] = vl[col[m + 1 - k]]
    OBVIOUS
  <2>1. m + 1 - k \in 1 .. m
    OBVIOUS
  <2> QED BY <2>1
<1> QED BY <1>1 DEF Shows

(* The values of a column as a sequence. *)
LEMMA ShowsSequence ==
  ASSUME NEW s, NEW m \in Nat, NEW col, NEW vl, Shows(s, m, col, vl),
         \A k \in 1 .. m : vl[col[k]] \in Value
  PROVE  s \in Seq(Value) /\ Len(s) = m /\ \A k \in 1 .. m : s[k] = vl[col[m + 1 - k]]
<1>1. \A k \in 1 .. m : m + 1 - k \in 1 .. m
  OBVIOUS
<1>2. s \in [1 .. m -> Value]
  BY <1>1 DEF Shows
<1>3. s \in Seq(Value)
  BY <1>2
<1>4. Len(s) = m
  BY <1>2, <1>3, LenProperties
<1> QED BY <1>3, <1>4 DEF Shows

(* r is s with v in front. *)
Prepends(r, v, s) == r = <<v>> \o s

(* The values after a push. *)
LEMMA ShowsPush ==
  ASSUME NEW s, NEW r, NEW m \in Nat, NEW col, NEW cnl, NEW vl,
         Shows(s, m, col, vl), Shows(r, m + 1, cnl, vl), \A k \in 1 .. m : vl[col[k]] \in Value,
         \A k \in 1 .. m : cnl[k] = col[k], vl[cnl[m + 1]] \in Value
  PROVE  Prepends(r, vl[cnl[m + 1]], s)
<1>0. PICK v \in Value : v = vl[cnl[m + 1]]
  OBVIOUS
<1>1. s \in Seq(Value) /\ Len(s) = m /\ \A k \in 1 .. m : s[k] = vl[col[m + 1 - k]]
  BY ShowsSequence
<1>2. \A k \in 1 .. m + 1 : k = m + 1 \/ k \in 1 .. m
  OBVIOUS
<1>3. \A k \in 1 .. m + 1 : vl[cnl[k]] \in Value
  BY <1>0, <1>2
<1>4. m + 1 \in Nat
  OBVIOUS
<1>5. r \in Seq(Value) /\ Len(r) = m + 1 /\ \A k \in 1 .. m + 1 : r[k] = vl[cnl[(m + 1) + 1 - k]]
  BY <1>3, <1>4, ShowsSequence
<1>6. PICK u : u = <<v>>
  OBVIOUS
<1>7. u \in Seq(Value) /\ Len(u) = 1 /\ u[1] = v
  BY <1>6
<1>8. PICK p : p = u \o s
  OBVIOUS
<1>9. /\ p \in Seq(Value) /\ Len(p) = m + 1
      /\ \A k \in 1 .. m + 1 : p[k] = IF k <= 1 THEN u[k] ELSE s[k - 1]
  <2>1. /\ p \in Seq(Value) /\ Len(p) = 1 + m
        /\ \A k \in 1 .. 1 + m : p[k] = IF k <= 1 THEN u[k] ELSE s[k - 1]
    <3>1. /\ p \in Seq(Value) /\ Len(p) = Len(u) + Len(s)
          /\ \A k \in 1 .. Len(u) + Len(s) : p[k] = IF k <= Len(u) THEN u[k] ELSE s[k - Len(u)]
      BY <1>1, <1>7, <1>8, ConcatProperties, ZenonT(40)
    <3> QED BY <1>1, <1>7, <3>1
  <2>2. 1 + m = m + 1
    OBVIOUS
  <2> QED BY <2>1, <2>2
<1>10. \A k \in 1 .. m + 1 : r[k] = p[k]
  <2> SUFFICES ASSUME NEW k \in 1 .. m + 1 PROVE r[k] = p[k]
    OBVIOUS
  <2>1. CASE k = 1
    <3>1. (m + 1) + 1 - k = m + 1 /\ k <= 1
      BY <2>1
    <3>2. r[k] = v
      BY <1>0, <1>5, <3>1
    <3> QED BY <1>7, <1>9, <2>1, <3>1, <3>2
  <2>2. CASE k # 1
    <3>1. k - 1 \in 1 .. m /\ m + 1 - (k - 1) \in 1 .. m /\ m + 1 - (k - 1) = (m + 1) + 1 - k /\ ~(k <= 1)
      BY <2>2
    <3>2. p[k] = vl[col[m + 1 - (k - 1)]]
      BY <1>1, <1>9, <3>1
    <3>3. r[k] = vl[cnl[m + 1 - (k - 1)]]
      BY <1>5, <3>1
    <3> QED BY <3>1, <3>2, <3>3
  <2> QED BY <2>1, <2>2
<1>11. r = p
  BY <1>5, <1>9, <1>10, SeqEqual
<1> QED BY <1>0, <1>6, <1>8, <1>11 DEF Prepends

(* The values after a pop are the tail of those before. *)
LEMMA ShowsPop ==
  ASSUME NEW s, NEW r, NEW m \in Nat, NEW p \in Nat, m = p + 1, NEW col, NEW vl,
         Shows(s, m, col, vl), Shows(r, p, col, vl), \A k \in 1 .. m : vl[col[k]] \in Value
  PROVE  s # <<>> /\ s[1] = vl[col[m]] /\ r = Tail(s)
<1>1. s \in Seq(Value) /\ Len(s) = m /\ \A k \in 1 .. m : s[k] = vl[col[m + 1 - k]]
  BY ShowsSequence
<1>2. \A k \in 1 .. p : k \in 1 .. m /\ k + 1 \in 1 .. m /\ m + 1 - (k + 1) = p + 1 - k
  OBVIOUS
<1>3. r \in Seq(Value) /\ Len(r) = p /\ \A k \in 1 .. p : r[k] = vl[col[p + 1 - k]]
  BY <1>2, ShowsSequence
<1>4. s # <<>>
  BY <1>1
<1>5. s[1] = vl[col[m]]
  <2>1. 1 \in 1 .. m /\ m + 1 - 1 = m
    OBVIOUS
  <2> QED BY <1>1, <2>1
<1>6. PICK q : q = Tail(s)
  OBVIOUS
<1>7. q \in Seq(Value) /\ Len(q) = p /\ \A k \in 1 .. p : q[k] = s[k + 1]
  <2>1. q \in Seq(Value) /\ Len(q) = m - 1 /\ \A k \in 1 .. Len(q) : q[k] = s[k + 1]
    BY <1>1, <1>4, <1>6, HeadTailProperties
  <2> QED BY <2>1
<1>8. \A k \in 1 .. p : r[k] = q[k]
  BY <1>1, <1>2, <1>3, <1>7
<1>9. r = q
  BY <1>3, <1>7, <1>8, SeqEqual
<1> QED BY <1>4, <1>5, <1>6, <1>9

(* The values on the lists are values that were pushed, and they stay. *)
LEMMA ValuesStay ==
  ASSUME NEW n \in Heights, NEW c \in Columns, Held(n, c), Next
  PROVE  /\ \A x \in held : value'[x] = value[x]
         /\ \A i \in Barrel : \A k \in 1 .. n[i] :
              c[i][k] \in held /\ value[c[i][k]] \in Value /\ value'[c[i][k]] = value[c[i][k]]
         /\ \A t \in Thread : pc[t] = "took" => reg[t].old \in held /\ value[reg[t].old] \in Value
<1> USE DEF Held
<1>1. \A x \in held : value'[x] = value[x]
  <2>1. CASE \E t \in Thread, x \in Node, v \in Value : PushAllocate(t, x, v)
    BY <2>1 DEF PushAllocate, Pool, TypeOK, Cell
  <2>2. CASE UNCHANGED value
    BY <2>2
  <2> QED BY <2>1, <2>2 DEF Next, PushStep, PopStep, PoolStep, DropHandle, PopPick, PushPick, PushReadHead,
             PushCas, PopReadHead, PopReadNext, PopCas, PopDeliver, PopHandle, PoolLink, PoolTakesBack
<1>2. \A i \in Barrel : \A k \in 1 .. n[i] : c[i][k] \in held
  BY DEF Lists, Owners, On
<1>3. ASSUME NEW t \in Thread, pc[t] = "took" PROVE reg[t].old \in held
  BY <1>3 DEF HasNode, NodeOf, InPush, Pops, Owners, Having
<1> QED BY <1>1, <1>2, <1>3 DEF Pool

(* Lists that no compare-and-set has changed. *)
LEMMA TopsStay ==
  ASSUME NEW n \in Heights, NEW c \in Columns, Held(n, c), Held(n, c)', Next
  PROVE  Tops' = Tops
<1>1. ASSUME NEW i \in Barrel PROVE ValuesOn(i)' = ValuesOn(i)
  <2>1. PICK s, r, vl, vr : s = ValuesOn(i) /\ r = ValuesOn(i)' /\ vl = value /\ vr = value'
    OBVIOUS
  <2>2. Shows(s, n[i], c[i], vl) /\ Shows(r, n[i], c[i], vr)
    BY <2>1, ListsShow, ListsShowNext
  <2>3. n[i] \in Nat /\ \A k \in 1 .. n[i] : vr[c[i][k]] = vl[c[i][k]]
    BY <2>1, ValuesStay DEF Heights
  <2>4. r = s
    BY <2>2, <2>3, SameValues
  <2> QED BY <2>1, <2>4
<1> QED BY <1>1 DEF Tops

(* Steps that neither take a value from the stack nor return one. *)
LEMMA OutStays ==
  ASSUME NEW n \in Heights, NEW c \in Columns, Held(n, c), Next,
         \A t \in Thread : /\ pc'[t] = "took" <=> pc[t] = "took"
                           /\ pc[t] = "took" => reg'[t].old = reg[t].old
  PROVE  Out' = Out
<1>1. \A t \in Thread : pc[t] = "took" => value'[reg'[t].old] = value[reg[t].old]
  BY ValuesStay
<1> QED BY <1>1 DEF Out

(* A successful compare-and-set of push is a push on one stack. *)
LEMMA PushRefines ==
  ASSUME NEW n \in Heights, NEW c \in Columns, Held(n, c), Next, TypeOK',
         NEW t \in Thread, NEW i \in Barrel, NEW x \in held, NEW m \in Heights, NEW d \in Columns,
         Pushes(n, c, t, i, x, m, d)
  PROVE  Stacks!Next
<1>1. PICK v \in Value : v = value[x]
  BY DEF Held, Pool
<1>2. /\ pc[t] = "link" /\ pc' = [pc EXCEPT ![t] = "idle"] /\ reg' = [reg EXCEPT ![t] = Fresh]
      /\ value' = value
  BY DEF Pushes, PushCas, Goto
<1>3. Out' = Out
  BY <1>2, OutStays DEF Held, TypeOK
<1>4. /\ n[i] \in Nat /\ m[i] = n[i] + 1 /\ \A j \in Barrel : j # i => m[j] = n[j]
  BY DEF Pushes, Pushed, Heights
<1>5. /\ d[i][n[i] + 1] = x /\ \A k \in 1 .. n[i] : d[i][k] = c[i][k]
      /\ \A j \in Barrel : j # i => d[j] = c[j]
  <2>1. PICK e : e = [c[i] EXCEPT ![n[i] + 1] = x]
    OBVIOUS
  <2>2. c[i] \in [Nat -> Pointer] /\ n[i] + 1 \in Nat
    BY <1>4 DEF Columns
  <2>3. e[n[i] + 1] = x /\ \A k \in 1 .. n[i] : e[k] = c[i][k]
    BY <1>4, <2>1, <2>2
  <2>4. d = [c EXCEPT ![i] = e]
    BY <2>1 DEF Pushes, OnTop
  <2>5. d[i] = e /\ \A j \in Barrel : j # i => d[j] = c[j]
    BY <2>4 DEF Columns
  <2> QED BY <2>3, <2>5
<1>6. Held(m, d)'
  BY DEF Pushes
<1>7. ValuesOn(i)' = <<v>> \o ValuesOn(i)
  <2>1. PICK s, r, vl : s = ValuesOn(i) /\ r = ValuesOn(i)' /\ vl = value
    OBVIOUS
  <2>2. Shows(s, n[i], c[i], vl) /\ Shows(r, n[i] + 1, d[i], vl)
    BY <1>2, <1>4, <1>6, <2>1, ListsShow, ListsShowNext
  <2>3. \A k \in 1 .. n[i] : vl[c[i][k]] \in Value
    BY <2>1, ValuesStay
  <2>4. vl[d[i][n[i] + 1]] = v
    BY <1>1, <1>5, <2>1
  <2>5. r = <<v>> \o s
    <3>1. PICK p, col, cnl : p = n[i] /\ col = c[i] /\ cnl = d[i]
      OBVIOUS
    <3>2. p \in Nat /\ Shows(s, p, col, vl) /\ Shows(r, p + 1, cnl, vl)
      BY <1>4, <2>2, <3>1
    <3>3. vl[cnl[p + 1]] = v
      BY <2>4, <3>1
    <3>4. \A k \in 1 .. p : vl[col[k]] \in Value
      BY <2>3, <3>1
    <3>5. \A k \in 1 .. p : cnl[k] = col[k]
      BY <1>5, <3>1
    <3>6. vl[cnl[p + 1]] \in Value
      BY <1>1, <3>3
    <3>7. Prepends(r, vl[cnl[p + 1]], s)
      BY <3>2, <3>4, <3>5, <3>6, ShowsPush
    <3> QED BY <3>3, <3>7 DEF Prepends
  <2> QED BY <2>1, <2>5
<1>8. ASSUME NEW j \in Barrel, j # i PROVE ValuesOn(j)' = ValuesOn(j)
  <2>1. PICK s, r, vl : s = ValuesOn(j) /\ r = ValuesOn(j)' /\ vl = value
    OBVIOUS
  <2>2. Shows(s, n[j], c[j], vl) /\ Shows(r, n[j], c[j], vl)
    BY <1>2, <1>4, <1>5, <1>6, <1>8, <2>1, ListsShow, ListsShowNext
  <2>3. r = s
    BY <2>2 DEF Shows
  <2> QED BY <2>1, <2>3
<1>9. Tops' = [Tops EXCEPT ![i] = <<v>> \o @]
  <2>1. \A j \in Barrel : Tops[j] = ValuesOn(j)
    BY DEF Tops
  <2>2. Tops' = [j \in Barrel |-> ValuesOn(j)']
    BY DEF Tops
  <2> QED BY <1>7, <1>8, <2>1, <2>2 DEF Tops
<1>10. Stacks!Push(i, v)
  BY <1>3, <1>9 DEF Stacks!Push, Out, Tops
<1> QED BY <1>10 DEF Stacks!Next

(* A successful compare-and-set of pop is a pop from one stack. *)
LEMMA PopRefines ==
  ASSUME NEW n \in Heights, NEW c \in Columns, Held(n, c), Next, TypeOK',
         NEW t \in Thread, NEW i \in Barrel, NEW m \in Heights, Takes(n, c, t, i, m)
  PROVE  Stacks!Next
<1>1. PICK x : x = reg[t].old
  OBVIOUS
<1>2. /\ pc[t] = "cas" /\ pc' = [pc EXCEPT ![t] = "took"] /\ reg' = reg /\ value' = value
      /\ c[i][n[i]] = x
  BY <1>1 DEF Takes, PopCas, Goto
<1>3. /\ n[i] \in Nat /\ n[i] # 0 /\ m[i] = n[i] - 1 /\ \A j \in Barrel : j # i => m[j] = n[j]
  BY DEF Takes, Popped, Heights
<1>4. Held(m, c)'
  BY DEF Takes
<1>5. ValuesOn(i) # <<>> /\ ValuesOn(i)[1] = value[x] /\ ValuesOn(i)' = Tail(ValuesOn(i))
  <2>1. PICK s, r, vl : s = ValuesOn(i) /\ r = ValuesOn(i)' /\ vl = value
    OBVIOUS
  <2>2. Shows(s, n[i], c[i], vl) /\ Shows(r, m[i], c[i], vl)
    BY <1>2, <1>4, <2>1, ListsShow, ListsShowNext
  <2>3. \A k \in 1 .. n[i] : vl[c[i][k]] \in Value
    BY <2>1, ValuesStay
  <2>4. m[i] \in Nat /\ n[i] = m[i] + 1
    BY <1>3
  <2>5. s # <<>> /\ s[1] = vl[c[i][n[i]]] /\ r = Tail(s)
    BY <1>3, <2>2, <2>3, <2>4, ShowsPop
  <2> QED BY <1>2, <2>1, <2>5
<1>6. ASSUME NEW j \in Barrel, j # i PROVE ValuesOn(j)' = ValuesOn(j)
  <2>1. PICK s, r, vl : s = ValuesOn(j) /\ r = ValuesOn(j)' /\ vl = value
    OBVIOUS
  <2>2. Shows(s, n[j], c[j], vl) /\ Shows(r, n[j], c[j], vl)
    BY <1>2, <1>3, <1>4, <1>6, <2>1, ListsShow, ListsShowNext
  <2>3. r = s
    BY <2>2 DEF Shows
  <2> QED BY <2>1, <2>3
<1>7. \A j \in Barrel : Tops[j] = ValuesOn(j)
  BY DEF Tops
<1>8. Tops' = [Tops EXCEPT ![i] = Tail(@)]
  <2>1. Tops' = [j \in Barrel |-> ValuesOn(j)']
    BY DEF Tops
  <2> QED BY <1>5, <1>6, <1>7, <2>1 DEF Tops
<1>9. Out[t] = Junk /\ Out' = [Out EXCEPT ![t] = Tops[i][1]]
  <2>1. Tops[i][1] = value[x]
    BY <1>5, <1>7
  <2>2. \A u \in Thread : Out'[u] = IF u = t THEN value[x] ELSE Out[u]
    BY <1>1, <1>2 DEF Out, Held, TypeOK
  <2>3. Out[t] = Junk
    BY <1>2 DEF Out
  <2> QED BY <2>1, <2>2, <2>3 DEF Out
<1>10. Stacks!Pop(t, i)
  BY <1>5, <1>7, <1>8, <1>9 DEF Stacks!Pop, Out, Tops
<1> QED BY <1>10 DEF Stacks!Next

(* The caller has its value when the pop returns. *)
LEMMA ReturnRefines ==
  ASSUME NEW n \in Heights, NEW c \in Columns, Held(n, c), Held(n, c)', Next,
         NEW t \in Thread, PopDeliver(t) \/ PopHandle(t)
  PROVE  Stacks!Next
<1>1. /\ pc[t] = "took" /\ pc'[t] # "took" /\ value' = value
      /\ \A u \in Thread : u # t => pc'[u] = pc[u] /\ reg'[u] = reg[u]
  BY DEF PopDeliver, PopHandle, Goto, Held, TypeOK
<1>2. Out[t] # Junk
  BY <1>1, ValuesStay, StackAssumption DEF Out
<1>3. Out' = [Out EXCEPT ![t] = Junk]
  BY <1>1 DEF Out
<1>4. Tops' = Tops
  BY TopsStay
<1>5. Stacks!Return(t)
  BY <1>2, <1>3, <1>4 DEF Stacks!Return, Out, Tops
<1> QED BY <1>5 DEF Stacks!Next

(* With one popping thread every step is one of the array of stacks, or    *)
(* none.                                                                   *)
LEMMA StackStepRefines ==
  ASSUME OnePopper, IInv, [Next]_vars
  PROVE  [Stacks!Next]_Stacks!vars
<1>1. PICK n \in Heights, c \in Columns : Held(n, c)
  BY DEF IInv
<1>2. CASE UNCHANGED vars
  BY <1>2 DEF Stacks!vars, vars, pool, ValuesOn, ListSize, Place
<1>3. CASE Next
  <2>1. TypeOK'
    BY <1>1, <1>3, TypeStep DEF Held
  <2>2. CASE Changes(n, c)
    BY <1>1, <1>3, <2>1, <2>2, PushRefines, PopRefines DEF Changes
  <2>3. CASE ~Changes(n, c)
    <3>1. Held(n, c)'
      BY <1>1, <1>3, <2>1, <2>3, StepHolds
    <3>2. PICK t \in Thread :
            \/ \E x \in Node, v \in Value : PushAllocate(t, x, v)
            \/ \E x \in handles : DropHandle(t, x)
            \/ PopPick(t) \/ PushStep(t) \/ PopStep(t) \/ PoolStep(t)
      BY <1>3 DEF Next
    <3>3. CASE PopDeliver(t) \/ PopHandle(t)
      BY <1>1, <1>3, <3>1, <3>3, ReturnRefines
    <3>4. CASE ~(PopDeliver(t) \/ PopHandle(t))
      <4>1. ASSUME PopCas(t), pc'[t] = "took" PROVE FALSE
        <5>1. head[reg[t].idx] = reg[t].old /\ pc[t] = "cas"
          BY <1>1, <4>1 DEF PopCas, Goto, Held, TypeOK
        <5>2. \E i \in Barrel, m \in Heights : Takes(n, c, t, i, m)
          BY <1>1, <2>1, <4>1, <5>1, PopCasStep DEF Takes
        <5> QED BY <2>3, <5>2 DEF Changes
      <4>2. \A u \in Thread : /\ pc'[u] = "took" <=> pc[u] = "took"
                              /\ pc[u] = "took" => reg'[u].old = reg[u].old
        <5> USE <1>1 DEF Held, TypeOK
        <5>1. CASE \E x \in Node, v \in Value : PushAllocate(t, x, v)
          BY <5>1 DEF PushAllocate, Goto
        <5>2. CASE \E x \in handles : DropHandle(t, x)
          BY <5>2 DEF DropHandle, Goto
        <5>3. CASE PopPick(t)
          BY <5>3 DEF PopPick, Goto
        <5>4. CASE PushStep(t)
          BY <5>4 DEF PushStep, PushPick, PushReadHead, PushCas, Goto
        <5>5. CASE PopReadHead(t) \/ PopReadNext(t)
          BY <5>5 DEF PopReadHead, PopReadNext, Goto
        <5>6. CASE PopCas(t)
          BY <4>1, <5>6 DEF PopCas, Goto
        <5>7. CASE PoolStep(t)
          BY <5>7 DEF PoolStep, PoolLink, PoolTakesBack, Goto
        <5> QED BY <3>2, <3>4, <5>1, <5>2, <5>3, <5>4, <5>5, <5>6, <5>7 DEF PopStep
      <4>3. Out' = Out
        BY <1>1, <1>3, <4>2, OutStays
      <4>4. Tops' = Tops
        BY <1>1, <1>3, <3>1, TopsStay
      <4> QED BY <4>3, <4>4 DEF Stacks!vars, Out, Tops
    <3> QED BY <3>3, <3>4
  <2> QED BY <2>2, <2>3
<1> QED BY <1>2, <1>3

(* Empty heads are empty stacks. *)
LEMMA StackInitRefines == Init => Stacks!Init
<1> SUFFICES ASSUME Init PROVE Stacks!Init
  OBVIOUS
<1>1. PICK n, c : n = [i \in Barrel |-> 0] /\ c = [i \in Barrel |-> [k \in Nat |-> Null]]
  OBVIOUS
<1>2. n \in Heights /\ c \in Columns
  BY <1>1 DEF Heights, Columns, Pointer
<1>3. Held(n, c)
  BY <1>1, Initially
<1>4. ASSUME NEW i \in Barrel PROVE ValuesOn(i) = <<>>
  <2>1. PICK s, vl : s = ValuesOn(i) /\ vl = value
    OBVIOUS
  <2>2. n[i] = 0
    BY <1>1
  <2>3. Shows(s, 0, c[i], vl)
    BY <1>2, <1>3, <2>1, <2>2, ListsShow
  <2>4. \A k \in 1 .. 0 : vl[c[i][k]] \in Value
    OBVIOUS
  <2>5. s \in Seq(Value) /\ Len(s) = 0
    BY <2>3, <2>4, ShowsSequence
  <2> QED BY <2>1, <2>5, EmptySeq
<1>5. Tops = [i \in Barrel |-> <<>>]
  BY <1>4 DEF Tops
<1>6. Out = [t \in Thread |-> Junk]
  BY DEF Out, Init
<1> QED BY <1>5, <1>6 DEF Stacks!Init, Out, Tops

(* With one popping thread the stack implements an array of stacks: each   *)
(* push and pop takes effect at its compare-and-set, on one of them, and   *)
(* the caller of a pop gets the value that was on top.                     *)
THEOREM StackImplementsArray == ASSUME OnePopper PROVE Spec => ImplementsStackArray
<1>1. Init => Stacks!Init
  BY StackInitRefines
<1>2. IInv /\ [Next]_vars => [Stacks!Next]_Stacks!vars
  BY StackStepRefines
<1> QED BY <1>1, <1>2, StackInvariant, PTL DEF Spec, ImplementsStackArray, Stacks!Spec
=============================================================================
