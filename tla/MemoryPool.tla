----------------------------- MODULE MemoryPool -----------------------------
(***************************************************************************)
(* lugce/lockfree/memory_pool.hpp, memory_pool_base: a pool of fixed-size  *)
(* cells.  The pool keeps `barrel' free lists.  A thread picks the list    *)
(* from a shared counter and pops or pushes with compare-and-set.  The     *)
(* lists are threaded through the first word of the free cells.  A list    *)
(* that runs dry is extended by a new block; the blocks of a barrel are    *)
(* chained through their header word so that the destructor finds them.    *)
(*                                                                         *)
(* A step of a thread is one access to shared memory.  Accesses to memory  *)
(* that no other thread can reach yet are folded into the next shared one. *)
(***************************************************************************)
EXTENDS Naturals, FiniteSets

CONSTANTS
  Thread,         \* the threads that use the pool
  Allocator,      \* those of them that call allocate()
  Block,          \* the blocks operator new can return
  NBarrels,       \* `barrel', 16 in the code
  first,          \* _first_block, which the constructor sets once
  CellsPerBlock,  \* _blocksize, at least 256 in the code: data cells and one terminator
  UserWord,       \* what a client stores in the first word of its cell
  Null            \* the null pointer

ASSUME ConstantsAssumption ==
  /\ Allocator \subseteq Thread
  /\ NBarrels \in Nat \ {0}
  /\ CellsPerBlock \in Nat \ {0, 1}
  /\ Null \in UserWord

Barrel == 0 .. NBarrels - 1
Cell   == Block \X (0 .. CellsPerBlock - 1)

(* Cell 0 of a block ends the list the block brings; the others hold data. *)
Terminator(b) == <<b, 0>>
FirstCell(b)  == <<b, 1>>
CellsOf(b)    == {b} \X (0 .. CellsPerBlock - 1)

(* An address space is finite. *)
ASSUME FiniteAssumption == IsFiniteSet(Block)

ASSUME NullAssumption == UserWord \cap Cell = {} /\ Null \notin Block

Pointer == Cell \cup UserWord

(* The constructor gives every barrel a block of its own. *)
ASSUME FirstAssumption ==
  /\ first \in [Barrel -> Block]
  /\ \A i, j \in Barrel : first[i] = first[j] => i = j

VARIABLES
  head,         \* _free_head: barrel -> the cell on top of its free list
  word,         \* the first word of every cell
  nextBlock,    \* the header word of every block
  allocMark,    \* _alloc_mark & 0xF
  deallocMark,  \* _dealloc_mark & 0xF
  heap,         \* the blocks that are allocated from the C++ heap
  held,         \* the cells that clients own
  pc,           \* where each thread is in allocate() or deallocate()
  reg,          \* the local variables of each thread
  dtor          \* progress of ~memory_pool_base

vars == <<head, word, nextBlock, allocMark, deallocMark,
          heap, held, pc, reg, dtor>>

(* old, nval: of allocate and deallocate.  blk, at: the block being added   *)
(* and the place in the chain.  top: `old' of create_new_block.  ptr: the  *)
(* cell being freed.  Dead variables are reset.                            *)
Fresh == [idx |-> 0, old |-> Null, nval |-> Null,
          blk |-> Null, at |-> Null, top |-> Null, ptr |-> Null]

Goto(t, from, to) == pc[t] = from /\ pc' = [pc EXCEPT ![t] = to]

Live    == dtor.phase = "live"
Crashed == \E t \in Thread : pc[t] = "crashed"

(* tadem_block: the data cells are linked one to the next, the last one to *)
(* the terminator, whose word is null.                                     *)
TademBlock(w, b) ==
  [c \in DOMAIN w |->
     IF c[1] # b THEN w[c]
     ELSE IF c[2] = 0 THEN Null
     ELSE <<b, (c[2] + 1) % CellsPerBlock>>]

-----------------------------------------------------------------------------
(* The constructor makes the first block of every barrel its free list. *)
Init ==
  /\ heap = {first[i] : i \in Barrel}
  /\ head = [i \in Barrel |-> FirstCell(first[i])]
  /\ word = [c \in Cell |->
               IF c[1] \notin heap \/ c[2] = 0 THEN Null
               ELSE <<c[1], (c[2] + 1) % CellsPerBlock>>]
  /\ nextBlock = [b \in Block |-> Null]
  /\ allocMark = 0
  /\ deallocMark = 7 % NBarrels
  /\ held = {}
  /\ pc = [t \in Thread |-> "idle"]
  /\ reg = [t \in Thread |-> Fresh]
  /\ dtor = [phase |-> "live", barrel |-> 0, next |-> Null]

-----------------------------------------------------------------------------
(* allocate(): choose the barrel.  The postfix ++ of atomic_integer returns *)
(* the incremented value.                                                  *)
AllocPick(t) ==
  /\ t \in Allocator
  /\ Goto(t, "idle", "head")
  /\ allocMark' = (allocMark + 1) % NBarrels
  /\ reg' = [reg EXCEPT ![t].idx = allocMark']
  /\ UNCHANGED <<head, word, nextBlock, deallocMark, heap, held, dtor>>

(* old = head.data *)
AllocReadHead(t) ==
  /\ Goto(t, "head", "next")
  /\ reg' = [reg EXCEPT ![t].old = head[reg[t].idx]]
  /\ UNCHANGED <<head, word, nextBlock, allocMark, deallocMark, heap, held, dtor>>

(* nval = *next, and the branch on it.  old is dereferenced without a test. *)
AllocReadNext(t) ==
  LET old == reg[t].old IN
  /\ \/ /\ old \in Cell /\ word[old] # Null
        /\ Goto(t, "next", "cas")
     \/ /\ old \in Cell /\ word[old] = Null
        /\ Goto(t, "next", "new")
     \/ /\ old \notin Cell
        /\ Goto(t, "next", "crashed")
  /\ reg' = [reg EXCEPT ![t].nval = IF old \in Cell THEN word[old] ELSE Null]
  /\ UNCHANGED <<head, word, nextBlock, allocMark, deallocMark, heap, held, dtor>>

(* Wrong: the head is not read again after a failed compare-and-set. *)
AllocCas_KeepsOld(t) ==
  LET r == reg[t] IN
  /\ Goto(t, "cas", IF head[r.idx] = r.old THEN "idle" ELSE "next")
  /\ head' = [head EXCEPT ![r.idx] = IF @ = r.old THEN r.nval ELSE @]
  /\ held' = IF head[r.idx] = r.old THEN held \cup {r.old} ELSE held
  /\ UNCHANGED <<word, nextBlock, reg, allocMark, deallocMark, heap, dtor>>

(* Wrong: the head is stored without comparing. *)
AllocCas_Store(t) ==
  LET r == reg[t] IN
  /\ Goto(t, "cas", "idle")
  /\ head' = [head EXCEPT ![r.idx] = r.nval]
  /\ held' = held \cup {r.old}
  /\ reg' = [reg EXCEPT ![t] = Fresh]
  /\ UNCHANGED <<word, nextBlock, allocMark, deallocMark, heap, dtor>>

(* The loop condition, head.compare_and_set(old, nval).  `continue' after  *)
(* create_new_block evaluates it too, with nval = 0.                       *)
AllocCas(t) ==
  LET r == reg[t] IN
  \/ /\ head[r.idx] = r.old
     /\ Goto(t, "cas", "idle")
     /\ head' = [head EXCEPT ![r.idx] = r.nval]
     /\ held' = held \cup {r.old}
     /\ reg' = [reg EXCEPT ![t] = Fresh]
     /\ UNCHANGED <<word, nextBlock, allocMark, deallocMark, heap, dtor>>
  \/ /\ head[r.idx] # r.old
     /\ Goto(t, "cas", "head")
     /\ UNCHANGED <<head, word, nextBlock, allocMark, deallocMark, heap, held, reg, dtor>>

-----------------------------------------------------------------------------
(* create_new_block(): a block from operator new, made into a list. *)
CreateNew(t) ==
  /\ Goto(t, "new", "walk")
  /\ \E b \in Block \ heap :
       /\ heap' = heap \cup {b}
       /\ word' = TademBlock(word, b)
       /\ nextBlock' = [nextBlock EXCEPT ![b] = Null]
       /\ reg' = [reg EXCEPT ![t] = [@ EXCEPT !.blk = b, !.at = first[reg[t].idx]]]
  /\ UNCHANGED <<head, allocMark, deallocMark, held, dtor>>

(* operator new throws std::bad_alloc, which leaves allocate(). *)
CreateThrows(t) ==
  /\ Goto(t, "new", "idle")
  /\ reg' = [reg EXCEPT ![t] = Fresh]
  /\ UNCHANGED <<head, word, nextBlock, allocMark, deallocMark, heap, held, dtor>>

(* while( p->data ) p = p->data.  A header word is written once, so reading *)
(* it twice and reading it once are the same.                              *)
CreateWalk(t) ==
  LET next == nextBlock[reg[t].at] IN
  /\ pc[t] = "walk"
  /\ \/ /\ next # Null
        /\ Goto(t, "walk", "walk")
        /\ reg' = [reg EXCEPT ![t].at = next]
     \/ /\ next = Null
        /\ Goto(t, "walk", "link")
        /\ UNCHANGED reg
  /\ UNCHANGED <<head, word, nextBlock, allocMark, deallocMark, heap, held, dtor>>

(* Wrong: the block is stored at the end of the chain without comparing. *)
CreateLink_Store(t) ==
  /\ Goto(t, "link", "top")
  /\ nextBlock' = [nextBlock EXCEPT ![reg[t].at] = reg[t].blk]
  /\ reg' = [reg EXCEPT ![t].at = Null]
  /\ UNCHANGED <<head, word, allocMark, deallocMark, heap, held, dtor>>

(* while( !cas( *p, 0, block ) ) p = p->data *)
CreateLink(t) ==
  LET r == reg[t] IN
  /\ pc[t] = "link"
  /\ \/ /\ nextBlock[r.at] = Null
        /\ Goto(t, "link", "top")
        /\ nextBlock' = [nextBlock EXCEPT ![r.at] = r.blk]
        /\ reg' = [reg EXCEPT ![t].at = Null]
     \/ /\ nextBlock[r.at] # Null
        /\ Goto(t, "link", "link")
        /\ reg' = [reg EXCEPT ![t].at = nextBlock[r.at]]
        /\ UNCHANGED nextBlock
  /\ UNCHANGED <<head, word, allocMark, deallocMark, heap, held, dtor>>

(* Wrong: the new list is not joined to the old one. *)
CreateReadTop_Unjoined(t) ==
  /\ Goto(t, "top", "push")
  /\ reg' = [reg EXCEPT ![t].top = head[reg[t].idx]]
  /\ UNCHANGED <<head, word, nextBlock, allocMark, deallocMark, heap, held, dtor>>

(* The terminator of the new list is pointed at the old list.  The unused   *)
(* read x = *old may be kept or dropped by the compiler.                   *)
CreateReadTop(t) ==
  LET r == reg[t] IN
  /\ \/ Goto(t, "top", "push")
     \/ /\ head[r.idx] \notin Cell
        /\ Goto(t, "top", "crashed")
  /\ reg' = [reg EXCEPT ![t].top = head[r.idx]]
  /\ word' = [word EXCEPT ![Terminator(r.blk)] = head[r.idx]]
  /\ UNCHANGED <<head, nextBlock, allocMark, deallocMark, heap, held, dtor>>

(* The compare-and-set that puts the new cells on top of the old list. *)
CreatePush(t) ==
  LET r == reg[t] IN
  /\ \/ /\ head[r.idx] = r.top
        /\ Goto(t, "push", "cas")
        /\ head' = [head EXCEPT ![r.idx] = FirstCell(r.blk)]
        /\ reg' = [reg EXCEPT ![t].blk = Null, ![t].top = Null]
     \/ /\ head[r.idx] # r.top
        /\ Goto(t, "push", "top")
        /\ UNCHANGED <<head, reg>>
  /\ UNCHANGED <<word, nextBlock, allocMark, deallocMark, heap, held, dtor>>

-----------------------------------------------------------------------------
(* The owner of a cell may overwrite its first word. *)
ClientWrite(c, v) ==
  /\ c \in held
  /\ word[c] # v
  /\ word' = [word EXCEPT ![c] = v]
  /\ UNCHANGED <<head, nextBlock, allocMark, deallocMark, heap, held, pc, reg, dtor>>

(* deallocate( c ): choose the barrel. *)
FreePick(t, c) ==
  /\ c \in held
  /\ Goto(t, "idle", "freehead")
  /\ held' = held \ {c}
  /\ deallocMark' = (deallocMark + 1) % NBarrels
  /\ reg' = [reg EXCEPT ![t] = [@ EXCEPT !.ptr = c, !.idx = deallocMark']]
  /\ UNCHANGED <<head, word, nextBlock, allocMark, heap, dtor>>

(* old = head.data *)
FreeReadHead(t) ==
  /\ Goto(t, "freehead", "freeword")
  /\ reg' = [reg EXCEPT ![t].old = head[reg[t].idx]]
  /\ UNCHANGED <<head, word, nextBlock, allocMark, deallocMark, heap, held, dtor>>

(* *p = old *)
FreeWriteWord(t) ==
  /\ Goto(t, "freeword", "freecas")
  /\ word' = [word EXCEPT ![reg[t].ptr] = reg[t].old]
  /\ UNCHANGED <<head, nextBlock, allocMark, deallocMark, heap, held, reg, dtor>>

(* Wrong: a failed compare-and-set is repeated with the new head, and the    *)
(* word of the cell keeps the old one.                                     *)
FreeCas_WordNotRewritten(t) ==
  LET r == reg[t] IN
  /\ Goto(t, "freecas", IF head[r.idx] = r.old THEN "idle" ELSE "freecas")
  /\ head' = [head EXCEPT ![r.idx] = IF @ = r.old THEN r.ptr ELSE @]
  /\ reg' = [reg EXCEPT ![t] = IF head[r.idx] = r.old THEN Fresh ELSE [r EXCEPT !.old = head[r.idx]]]
  /\ UNCHANGED <<word, nextBlock, allocMark, deallocMark, heap, held, dtor>>

(* Wrong: the loop is left when the compare-and-set fails. *)
FreeCas_Inverted(t) ==
  LET r == reg[t] IN
  /\ Goto(t, "freecas", IF head[r.idx] = r.old THEN "freehead" ELSE "idle")
  /\ head' = [head EXCEPT ![r.idx] = IF @ = r.old THEN r.ptr ELSE @]
  /\ reg' = [reg EXCEPT ![t] = IF head[r.idx] = r.old THEN r ELSE Fresh]
  /\ UNCHANGED <<word, nextBlock, allocMark, deallocMark, heap, held, dtor>>

(* head.compare_and_set( old, ptr ) *)
FreeCas(t) ==
  LET r == reg[t] IN
  /\ \/ /\ head[r.idx] = r.old
        /\ Goto(t, "freecas", "idle")
        /\ head' = [head EXCEPT ![r.idx] = r.ptr]
        /\ reg' = [reg EXCEPT ![t] = Fresh]
     \/ /\ head[r.idx] # r.old
        /\ Goto(t, "freecas", "freehead")
        /\ UNCHANGED <<head, reg>>
  /\ UNCHANGED <<word, nextBlock, allocMark, deallocMark, heap, held, dtor>>

-----------------------------------------------------------------------------
(* ~memory_pool_base runs when the last shared_ptr to the pool goes, so no  *)
(* thread is inside the pool.  Cells that clients never returned go with   *)
(* their blocks.                                                           *)
DestroyBegin ==
  /\ Live
  /\ \A t \in Thread : pc[t] = "idle"
  /\ dtor' = [phase |-> "walk", barrel |-> 0, next |-> first[0]]
  /\ UNCHANGED <<head, word, nextBlock, allocMark, deallocMark, heap, held, pc, reg>>

(* Wrong: only the first block of the last barrel is deleted. *)
DestroyBlock_DropsLastChain ==
  LET p == dtor.next
      more == nextBlock[p] # Null IN
  /\ dtor.phase = "walk"
  /\ heap' = heap \ {p}
  /\ \/ /\ more /\ dtor.barrel + 1 \in Barrel
        /\ dtor' = [dtor EXCEPT !.next = nextBlock[p]]
     \/ /\ ~more /\ dtor.barrel + 1 \in Barrel
        /\ dtor' = [dtor EXCEPT !.barrel = @ + 1, !.next = first[dtor.barrel + 1]]
     \/ /\ dtor.barrel + 1 \notin Barrel
        /\ dtor' = [dtor EXCEPT !.phase = "done", !.next = Null]
  /\ UNCHANGED <<head, word, nextBlock, allocMark, deallocMark, held, pc, reg>>

(* next = *p; delete[] p; on to the next barrel when next is null. *)
DestroyBlock ==
  LET p == dtor.next
      more == nextBlock[p] # Null IN
  /\ dtor.phase = "walk"
  /\ heap' = heap \ {p}
  /\ \/ /\ more
        /\ dtor' = [dtor EXCEPT !.next = nextBlock[p]]
     \/ /\ ~more /\ dtor.barrel + 1 \in Barrel
        /\ dtor' = [dtor EXCEPT !.barrel = @ + 1, !.next = first[dtor.barrel + 1]]
     \/ /\ ~more /\ dtor.barrel + 1 \notin Barrel
        /\ dtor' = [dtor EXCEPT !.phase = "done", !.next = Null]
  /\ UNCHANGED <<head, word, nextBlock, allocMark, deallocMark, held, pc, reg>>

-----------------------------------------------------------------------------
AllocStep(t) ==
  \/ AllocReadHead(t) \/ AllocReadNext(t) \/ AllocCas(t)
  \/ CreateNew(t) \/ CreateThrows(t) \/ CreateWalk(t)
  \/ CreateLink(t) \/ CreateReadTop(t) \/ CreatePush(t)

FreeStep(t) == FreeReadHead(t) \/ FreeWriteWord(t) \/ FreeCas(t)

(* The program ends at a crash or when the pool is gone. *)
Ended ==
  /\ Crashed \/ dtor.phase = "done"
  /\ UNCHANGED vars

Next ==
  \/ /\ Live /\ ~Crashed
     /\ \/ \E t \in Thread : AllocPick(t) \/ AllocStep(t) \/ FreeStep(t)
        \/ \E t \in Thread, c \in Cell : FreePick(t, c)
        \/ \E c \in Cell, v \in UserWord : ClientWrite(c, v)
        \/ DestroyBegin
  \/ DestroyBlock
  \/ Ended

Spec == Init /\ [][Next]_vars

(* The operating system runs every thread that is inside the pool. *)
Fairness == \A t \in Thread : WF_vars(~Crashed /\ (AllocStep(t) \/ FreeStep(t)))
FairSpec == Spec /\ Fairness
-----------------------------------------------------------------------------
(* Who has each cell of the heap: a client, a thread that is giving it back, *)
(* a thread that is still adding its block, or else a free list.           *)
InFree(t)   == pc[t] \in {"freehead", "freeword", "freecas"}
InCreate(t) == pc[t] \in {"walk", "link", "top", "push"}
InAlloc(t)  == pc[t] \in {"head", "next", "new", "walk", "link", "top", "push", "cas"}

Returning == {c \in Cell : \E t \in Thread : InFree(t) /\ reg[t].ptr = c}
Building  == {c \in Cell : \E t \in Thread : InCreate(t) /\ reg[t].blk = c[1]}
HeapCells == {c \in Cell : c[1] \in heap}
Free      == HeapCells \ (held \cup Returning \cup Building)

Registers == [idx : Barrel, old : Pointer, nval : Pointer, blk : Block \cup {Null},
              at : Block \cup {Null}, top : Pointer, ptr : Pointer]

PcLabels == {"idle", "head", "next", "cas", "new", "walk", "link", "top", "push",
             "freehead", "freeword", "freecas", "crashed"}

FollowsCells(t) ==
  /\ InAlloc(t) => t \in Allocator
  /\ pc[t] \in {"cas", "new"} \/ InCreate(t) => reg[t].old \in Cell
  /\ InCreate(t) => reg[t].blk \in Block
  /\ pc[t] \in {"walk", "link"} => reg[t].at \in Block
  /\ InFree(t) => reg[t].ptr \in Cell

(* Every variable is of its kind, and so is every pointer a thread follows   *)
(* without a test.                                                         *)
TypeOK ==
  /\ head \in [Barrel -> Pointer]
  /\ word \in [Cell -> Pointer]
  /\ nextBlock \in [Block -> Block \cup {Null}]
  /\ allocMark \in Barrel /\ deallocMark \in Barrel
  /\ heap \subseteq Block
  /\ held \subseteq Cell
  /\ pc \in [Thread -> PcLabels]
  /\ reg \in [Thread -> Registers]
  /\ dtor \in [phase : {"live", "walk", "done"}, barrel : Barrel, next : Block \cup {Null}]
  /\ \A t \in Thread : FollowsCells(t)
  /\ dtor.phase = "walk" => dtor.next \in Block

(* What allocate() is about to hand out belongs to nobody: the top of every  *)
(* free list is a free cell (memory_pool.hpp:109, 119-133).                *)
HeadsAreFree == Live => \A i \in Barrel : head[i] \in Free

(* The free lists share no cell: a free cell is followed by a free cell or  *)
(* ends its list, two cells never have the same successor, no cell leads   *)
(* to the top of a list and no two barrels have the same top               *)
(* (the compare-and-sets of memory_pool.hpp:132, 153 and 87).              *)
FreeListsDisjoint ==
  Live =>
    /\ \A c \in Free : word[c] = Null \/ word[c] \in Free
    /\ \A c, d \in Free : word[c] = word[d] /\ word[c] # Null => c = d
    /\ \A c \in Free, i \in Barrel : word[c] # head[i]
    /\ \A i, j \in Barrel : head[i] = head[j] => i = j

(* The cells on the list of barrel i. *)
OnList(i) ==
  LET reach[n \in 0 .. Cardinality(Cell)] ==
        IF n = 0 THEN {head[i]} \cap Cell
        ELSE reach[n - 1] \cup ({word[c] : c \in reach[n - 1]} \cap Cell)
  IN reach[Cardinality(Cell)]

(* Cells are neither lost nor trapped in a cycle: each barrel's list runs to *)
(* a terminator, and together the lists hold every free cell, whatever     *)
(* barrels the cells were allocated from and returned to.                  *)
FreeListsComplete ==
  Live =>
    /\ \A i \in Barrel : \E c \in OnList(i) : word[c] = Null
    /\ UNION {OnList(i) : i \in Barrel} = Free

(* The pool implements the allocator it promises to be. *)
Promise == INSTANCE CellAllocator WITH
             free <- Free,
             held <- held \cap HeapCells,
             returning <- Returning,
             open <- Live

ImplementsAllocator == Promise!Spec

(* With one allocating thread allocate() returns or throws: the threads that *)
(* push cells back under it cannot keep its compare-and-set failing.       *)
AllocateTerminates == \A t \in Allocator : InAlloc(t) ~> ~InAlloc(t)

-----------------------------------------------------------------------------
(* The chains of blocks.  A block is linked when its creator has got past   *)
(* the compare-and-set of memory_pool.hpp:73.                              *)
Unlinked == {b \in heap : \E t \in Thread : pc[t] \in {"walk", "link"} /\ reg[t].blk = b}

Chain(i) ==
  LET reach[n \in 0 .. Cardinality(Block)] ==
        IF n = 0 THEN {first[i]}
        ELSE reach[n - 1] \cup ({nextBlock[b] : b \in reach[n - 1]} \ {Null})
  IN reach[Cardinality(Block)]

(* Whatever happens to the free lists, each block of the heap is on one     *)
(* chain, once its creator has linked it: none is lost to a race of two    *)
(* creators at the end of the same chain (memory_pool.hpp:66-75).          *)
ChainsHoldHeap ==
  Live =>
    /\ UNION {Chain(i) : i \in Barrel} = heap \ Unlinked
    /\ \A i, j \in Barrel : i # j => Chain(i) \cap Chain(j) = {}
    /\ \A i \in Barrel : \E b \in Chain(i) : nextBlock[b] = Null

(* The header word of a block is written once. *)
HeaderWrittenOnce ==
  [][\A b \in heap : nextBlock[b] # Null => nextBlock'[b] = nextBlock[b]]_vars

(* The destructor deletes only blocks of the heap, and leaves none          *)
(* (memory_pool.hpp:47-59).                                                *)
DestructorFreesHeap ==
  /\ dtor.phase = "walk" => dtor.next \in heap
  /\ dtor.phase = "done" => heap = {}
=============================================================================
