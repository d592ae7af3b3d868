-------------------------- MODULE MemoryPoolProofs --------------------------
(***************************************************************************)
(* Proofs about MemoryPool, for every number of threads, barrels, blocks   *)
(* and cells.  The chains of blocks and the destructor are right for any   *)
(* number of threads.  The free lists are right when at most one thread    *)
(* calls allocate(), whatever the number that call deallocate().           *)
(***************************************************************************)
EXTENDS MemoryPool, FiniteSetTheorems, WellFoundedInduction, NaturalsInduction, TLAPS

(* At most one thread calls allocate(). *)
OneAllocator == \A t, u \in Allocator : t = u

(* Every cell of the heap has one place, and so has every cell that is given *)
(* back: no cell is given back twice.                                      *)
Placed ==
  /\ held \subseteq HeapCells
  /\ Returning \subseteq HeapCells
  /\ Building \subseteq HeapCells
  /\ held \cap Returning = {}
  /\ held \cap Building = {}
  /\ Returning \cap Building = {}
  /\ \A t, u \in Thread : InFree(t) /\ InFree(u) /\ reg[t].ptr = reg[u].ptr => t = u

HeadsFree    == \A i \in Barrel : head[i] \in Free
LinksFree    == \A c \in Free : word[c] = Null \/ word[c] \in Free
OneLinkTo    == \A c, d \in Free : word[c] = word[d] /\ word[c] # Null => c = d
HeadUnlinked == \A c \in Free, i \in Barrel : word[c] # head[i]
HeadsDiffer  == \A i, j \in Barrel : head[i] = head[j] => i = j

Lists == HeadsFree /\ LinksFree /\ OneLinkTo /\ HeadUnlinked /\ HeadsDiffer

(* What the allocating thread knows: old stays free, and at the             *)
(* compare-and-set nval still follows it, or old is no longer on top.      *)
AllocKnows(t) ==
  /\ pc[t] \in {"next", "new", "walk", "link", "top", "push", "cas"} => reg[t].old \in Free
  /\ pc[t] \in {"new", "walk", "link", "top", "push"} => reg[t].nval = Null
  /\ pc[t] = "cas" => IF reg[t].nval = Null THEN head[reg[t].idx] # reg[t].old
                                            ELSE word[reg[t].old] = reg[t].nval

(* The block under construction is a list. *)
BlockIsList(t) ==
  InCreate(t) =>
    /\ \A k \in 1 .. CellsPerBlock - 1 :
         word[<<reg[t].blk, k>>] = <<reg[t].blk, (k + 1) % CellsPerBlock>>
    /\ pc[t] = "push" => word[Terminator(reg[t].blk)] = reg[t].top

(* A cell that is being pushed points at the head that was read. *)
FreeKnows(t) == pc[t] = "freecas" => word[reg[t].ptr] = reg[t].old

Knows(t) == AllocKnows(t) /\ BlockIsList(t) /\ FreeKnows(t)

Good == Placed /\ Lists /\ \A t \in Thread : Knows(t)

IInv == Live => Good

-----------------------------------------------------------------------------
(* Type correctness holds for any number of allocating threads. *)
LEMMA TypeInit == Init => TypeOK
<1> SUFFICES ASSUME Init PROVE TypeOK
  OBVIOUS
<1> USE ConstantsAssumption, NullAssumption, FirstAssumption
<1>1. 0 \in Barrel /\ 7 % NBarrels \in Barrel
  BY DEF Barrel
<1>2. \A b \in Block : FirstCell(b) \in Cell
  BY DEF FirstCell, Cell
<1>3. \A c \in Cell : <<c[1], (c[2] + 1) % CellsPerBlock>> \in Cell
  BY DEF Cell
<1>4. Fresh \in Registers
  BY <1>1 DEF Fresh, Registers, Pointer
<1>5. QED
  BY <1>1, <1>2, <1>3, <1>4 DEF Init, TypeOK, FollowsCells, Pointer, PcLabels, InAlloc, InCreate, InFree

LEMMA TypeStep ==
  ASSUME TypeOK, [Next]_vars
  PROVE  TypeOK'
<1> USE ConstantsAssumption, NullAssumption, FirstAssumption
<1>1. Fresh \in Registers /\ 0 \in Barrel
  BY DEF Fresh, Registers, Pointer, Barrel
<1>2. \A m \in Barrel : (m + 1) % NBarrels \in Barrel
  BY DEF Barrel
<1>3. Null \in Pointer /\ Cell \subseteq Pointer /\ UserWord \subseteq Pointer
  BY DEF Pointer
<1>4. \A b \in Block : FirstCell(b) \in Cell /\ Terminator(b) \in Cell
  BY DEF FirstCell, Terminator, Cell
<1>5. \A t \in Thread : /\ reg[t].idx \in Barrel
                        /\ reg[t].old \in Pointer /\ reg[t].nval \in Pointer
                        /\ reg[t].top \in Pointer /\ reg[t].ptr \in Pointer
                        /\ reg[t].blk \in Block \cup {Null} /\ reg[t].at \in Block \cup {Null}
  BY DEF TypeOK, Registers
<1>6. \A t \in Thread : FollowsCells(t)
  BY DEF TypeOK
<1>7. \A b \in Block : TademBlock(word, b) \in [Cell -> Pointer]
  BY DEF TademBlock, TypeOK, Cell, Pointer
<1>8. ASSUME NEW t \in Thread, AllocPick(t) PROVE TypeOK'
  <2>1. pc' \in [Thread -> PcLabels] /\ reg' \in [Thread -> Registers]
    <3>1. pc' \in [Thread -> PcLabels]
      BY <1>8 DEF AllocPick, TypeOK, Goto, PcLabels
    <3>2. reg' \in [Thread -> Registers]
      BY <1>1, <1>2, <1>3, <1>5, <1>8 DEF AllocPick, TypeOK, Registers
    <3> QED
      BY <3>1, <3>2
  <2>2. \A u \in Thread : FollowsCells(u)'
    BY <1>6, <1>8 DEF AllocPick, TypeOK, Goto, FollowsCells, Registers, Fresh, InAlloc, InCreate, InFree
  <2>3. QED
    BY <1>1, <1>2, <1>3, <1>4, <1>5, <1>6, <1>7, <1>8, <2>1, <2>2 DEF AllocPick, TypeOK, Goto, FollowsCells, InCreate, InFree
<1>9. ASSUME NEW t \in Thread, AllocReadHead(t) PROVE TypeOK'
  <2>1. pc' \in [Thread -> PcLabels] /\ reg' \in [Thread -> Registers]
    <3>1. pc' \in [Thread -> PcLabels]
      BY <1>9 DEF AllocReadHead, TypeOK, Goto, PcLabels
    <3>2. reg' \in [Thread -> Registers]
      BY <1>1, <1>2, <1>3, <1>5, <1>9 DEF AllocReadHead, TypeOK, Registers
    <3> QED
      BY <3>1, <3>2
  <2>2. \A u \in Thread : FollowsCells(u)'
    BY <1>6, <1>9 DEF AllocReadHead, TypeOK, Goto, FollowsCells, Registers, Fresh, InAlloc, InCreate, InFree
  <2>3. QED
    BY <1>1, <1>2, <1>3, <1>4, <1>5, <1>6, <1>7, <1>9, <2>1, <2>2 DEF AllocReadHead, TypeOK, Goto, FollowsCells, InCreate, InFree
<1>10. ASSUME NEW t \in Thread, AllocReadNext(t) PROVE TypeOK'
  <2>1. pc' \in [Thread -> PcLabels] /\ reg' \in [Thread -> Registers]
    <3>1. pc' \in [Thread -> PcLabels]
      BY <1>10 DEF AllocReadNext, TypeOK, Goto, PcLabels
    <3>2. reg' \in [Thread -> Registers]
      BY <1>1, <1>2, <1>3, <1>5, <1>10 DEF AllocReadNext, TypeOK, Registers
    <3> QED
      BY <3>1, <3>2
  <2>2. \A u \in Thread : FollowsCells(u)'
    BY <1>6, <1>10 DEF AllocReadNext, TypeOK, Goto, FollowsCells, Registers, Fresh, InAlloc, InCreate, InFree
  <2>3. QED
    BY <1>1, <1>2, <1>3, <1>4, <1>5, <1>6, <1>7, <1>10, <2>1, <2>2 DEF AllocReadNext, TypeOK, Goto, FollowsCells, InCreate, InFree
<1>11. ASSUME NEW t \in Thread, AllocCas(t) PROVE TypeOK'
  <2>1. CASE head[reg[t].idx] = reg[t].old
    <3>1. pc' \in [Thread -> PcLabels] /\ reg' \in [Thread -> Registers]
      <4>1. pc' \in [Thread -> PcLabels]
        BY <1>11, <2>1 DEF AllocCas, TypeOK, Goto, PcLabels
      <4>2. reg' \in [Thread -> Registers]
        BY <1>1, <1>3, <1>11, <2>1 DEF AllocCas, TypeOK, Registers, Goto
      <4> QED
        BY <4>1, <4>2
    <3>2. \A u \in Thread : FollowsCells(u)'
      BY <1>6, <1>11, <2>1 DEF AllocCas, TypeOK, Goto, FollowsCells, Registers, Fresh, InAlloc, InCreate, InFree
    <3>3. QED
      BY <1>3, <1>4, <1>5, <1>6, <1>11, <2>1, <3>1, <3>2 DEF AllocCas, TypeOK, Goto, FollowsCells, InCreate, InFree
  <2>2. CASE ~(head[reg[t].idx] = reg[t].old)
    <3>1. pc' \in [Thread -> PcLabels] /\ reg' \in [Thread -> Registers]
      <4>1. pc' \in [Thread -> PcLabels]
        BY <1>11, <2>2 DEF AllocCas, TypeOK, Goto, PcLabels
      <4>2. reg' \in [Thread -> Registers]
        BY <1>1, <1>3, <1>6, <1>11, <2>2 DEF AllocCas, TypeOK, FollowsCells, Registers, Goto
      <4> QED
        BY <4>1, <4>2
    <3>2. \A u \in Thread : FollowsCells(u)'
      BY <1>6, <1>11, <2>2 DEF AllocCas, TypeOK, Goto, FollowsCells, Registers, Fresh, InAlloc, InCreate, InFree
    <3>3. QED
      BY <1>11, <2>2, <3>1, <3>2 DEF AllocCas, TypeOK
  <2> QED
    BY <2>1, <2>2
<1>12. ASSUME NEW t \in Thread, CreateNew(t) PROVE TypeOK'
  <2>1. pc' \in [Thread -> PcLabels] /\ reg' \in [Thread -> Registers]
    <3>1. pc' \in [Thread -> PcLabels]
      BY <1>12 DEF CreateNew, TypeOK, Goto, PcLabels
    <3>2. reg' \in [Thread -> Registers]
      <4>1. PICK b \in Block : reg' = [reg EXCEPT ![t] = [@ EXCEPT !.blk = b, !.at = first[reg[t].idx]]]
        BY <1>12 DEF CreateNew
      <4>2. first[reg[t].idx] \in Block
        BY <1>5
      <4>3. [reg[t] EXCEPT !.blk = b, !.at = first[reg[t].idx]] \in Registers
        <5>1. reg[t] \in Registers /\ b \in Block
          BY <4>1 DEF TypeOK
        <5> QED
          BY <4>2, <5>1 DEF Registers
      <4> QED
        BY <4>1, <4>3 DEF TypeOK
    <3> QED
      BY <3>1, <3>2
  <2>2. \A u \in Thread : FollowsCells(u)'
    BY <1>6, <1>12 DEF CreateNew, TypeOK, Goto, FollowsCells, Registers, Fresh, InAlloc, InCreate, InFree
  <2>3. QED
    BY <1>1, <1>2, <1>3, <1>4, <1>5, <1>6, <1>7, <1>12, <2>1, <2>2 DEF CreateNew, TypeOK, Goto, FollowsCells, InCreate, InFree
<1>13. ASSUME NEW t \in Thread, CreateThrows(t) PROVE TypeOK'
  <2>1. pc' \in [Thread -> PcLabels] /\ reg' \in [Thread -> Registers]
    <3>1. pc' \in [Thread -> PcLabels]
      BY <1>13 DEF CreateThrows, TypeOK, Goto, PcLabels
    <3>2. reg' \in [Thread -> Registers]
      BY <1>1, <1>2, <1>3, <1>5, <1>13 DEF CreateThrows, TypeOK, Registers
    <3> QED
      BY <3>1, <3>2
  <2>2. \A u \in Thread : FollowsCells(u)'
    BY <1>6, <1>13 DEF CreateThrows, TypeOK, Goto, FollowsCells, Registers, Fresh, InAlloc, InCreate, InFree
  <2>3. QED
    BY <1>1, <1>2, <1>3, <1>4, <1>5, <1>6, <1>7, <1>13, <2>1, <2>2 DEF CreateThrows, TypeOK, Goto, FollowsCells, InCreate, InFree
<1>14. ASSUME NEW t \in Thread, CreateWalk(t) PROVE TypeOK'
  <2>1. CASE nextBlock[reg[t].at] = Null
    <3>1. pc' \in [Thread -> PcLabels] /\ reg' \in [Thread -> Registers]
      <4>1. pc' \in [Thread -> PcLabels]
        BY <1>14, <2>1 DEF CreateWalk, TypeOK, Goto, PcLabels
      <4>2. reg' \in [Thread -> Registers]
        BY <1>1, <1>3, <1>14, <2>1 DEF CreateWalk, TypeOK, Registers, Goto
      <4> QED
        BY <4>1, <4>2
    <3>2. \A u \in Thread : FollowsCells(u)'
      BY <1>6, <1>14, <2>1 DEF CreateWalk, TypeOK, Goto, FollowsCells, Registers, Fresh, InAlloc, InCreate, InFree
    <3>3. QED
      BY <1>3, <1>4, <1>5, <1>6, <1>14, <2>1, <3>1, <3>2 DEF CreateWalk, TypeOK, Goto, FollowsCells, InCreate, InFree
  <2>2. CASE ~(nextBlock[reg[t].at] = Null)
    <3>1. pc' \in [Thread -> PcLabels] /\ reg' \in [Thread -> Registers]
      <4>1. pc' \in [Thread -> PcLabels]
        BY <1>14, <2>2 DEF CreateWalk, TypeOK, Goto, PcLabels
      <4>2. reg' \in [Thread -> Registers]
        BY <1>1, <1>3, <1>6, <1>14, <2>2, SMTT(30) DEF CreateWalk, TypeOK, FollowsCells, Registers, Goto
      <4> QED
        BY <4>1, <4>2
    <3>2. \A u \in Thread : FollowsCells(u)'
      BY <1>6, <1>14, <2>2 DEF CreateWalk, TypeOK, Goto, FollowsCells, Registers, Fresh, InAlloc, InCreate, InFree
    <3>3. QED
      BY <1>14, <2>2, <3>1, <3>2 DEF CreateWalk, TypeOK
  <2> QED
    BY <2>1, <2>2
<1>15. ASSUME NEW t \in Thread, CreateLink(t) PROVE TypeOK'
  <2>1. CASE nextBlock[reg[t].at] = Null
    <3>1. pc' \in [Thread -> PcLabels] /\ reg' \in [Thread -> Registers]
      <4>1. pc' \in [Thread -> PcLabels]
        BY <1>15, <2>1 DEF CreateLink, TypeOK, Goto, PcLabels
      <4>2. reg' \in [Thread -> Registers]
        BY <1>1, <1>3, <1>15, <2>1 DEF CreateLink, TypeOK, Registers, Goto
      <4> QED
        BY <4>1, <4>2
    <3>2. \A u \in Thread : FollowsCells(u)'
      BY <1>6, <1>15, <2>1 DEF CreateLink, TypeOK, Goto, FollowsCells, Registers, Fresh, InAlloc, InCreate, InFree
    <3>3. QED
      BY <1>3, <1>4, <1>5, <1>6, <1>15, <2>1, <3>1, <3>2 DEF CreateLink, TypeOK, Goto, FollowsCells, InCreate, InFree
  <2>2. CASE ~(nextBlock[reg[t].at] = Null)
    <3>1. pc' \in [Thread -> PcLabels] /\ reg' \in [Thread -> Registers]
      <4>1. pc' \in [Thread -> PcLabels]
        BY <1>15, <2>2 DEF CreateLink, TypeOK, Goto, PcLabels
      <4>2. reg' \in [Thread -> Registers]
        <5>1. reg' = [reg EXCEPT ![t].at = nextBlock[reg[t].at]] /\ reg[t].at \in Block
          BY <1>6, <1>15, <2>2 DEF CreateLink, FollowsCells
        <5>2. nextBlock[reg[t].at] \in Block \cup {Null}
          BY <5>1 DEF TypeOK
        <5> QED
          BY <5>1, <5>2, SMTT(30) DEF TypeOK, Registers
      <4> QED
        BY <4>1, <4>2
    <3>2. \A u \in Thread : FollowsCells(u)'
      BY <1>6, <1>15, <2>2 DEF CreateLink, TypeOK, Goto, FollowsCells, Registers, Fresh, InAlloc, InCreate, InFree
    <3>3. QED
      BY <1>15, <2>2, <3>1, <3>2 DEF CreateLink, TypeOK
  <2> QED
    BY <2>1, <2>2
<1>16. ASSUME NEW t \in Thread, CreateReadTop(t) PROVE TypeOK'
  <2>1. pc' \in [Thread -> PcLabels] /\ reg' \in [Thread -> Registers]
    <3>1. pc' \in [Thread -> PcLabels]
      BY <1>16 DEF CreateReadTop, TypeOK, Goto, PcLabels
    <3>2. reg' \in [Thread -> Registers]
      BY <1>1, <1>2, <1>3, <1>5, <1>16 DEF CreateReadTop, TypeOK, Registers
    <3> QED
      BY <3>1, <3>2
  <2>2. \A u \in Thread : FollowsCells(u)'
    BY <1>6, <1>16 DEF CreateReadTop, TypeOK, Goto, FollowsCells, Registers, Fresh, InAlloc, InCreate, InFree
  <2>3. QED
    BY <1>1, <1>2, <1>3, <1>4, <1>5, <1>6, <1>7, <1>16, <2>1, <2>2 DEF CreateReadTop, TypeOK, Goto, FollowsCells, InCreate, InFree
<1>17. ASSUME NEW t \in Thread, CreatePush(t) PROVE TypeOK'
  <2>1. CASE head[reg[t].idx] = reg[t].top
    <3>1. pc' \in [Thread -> PcLabels] /\ reg' \in [Thread -> Registers]
      <4>1. pc' \in [Thread -> PcLabels]
        BY <1>17, <2>1 DEF CreatePush, TypeOK, Goto, PcLabels
      <4>2. reg' \in [Thread -> Registers]
        BY <1>1, <1>3, <1>17, <2>1, SMTT(30) DEF CreatePush, TypeOK, Registers, Goto
      <4> QED
        BY <4>1, <4>2
    <3>2. \A u \in Thread : FollowsCells(u)'
      BY <1>6, <1>17, <2>1 DEF CreatePush, TypeOK, Goto, FollowsCells, Registers, Fresh, InAlloc, InCreate, InFree
    <3>3. QED
      BY <1>3, <1>4, <1>5, <1>6, <1>17, <2>1, <3>1, <3>2 DEF CreatePush, TypeOK, Goto, FollowsCells, InCreate, InFree
  <2>2. CASE ~(head[reg[t].idx] = reg[t].top)
    <3>1. pc' \in [Thread -> PcLabels] /\ reg' \in [Thread -> Registers]
      <4>1. pc' \in [Thread -> PcLabels]
        BY <1>17, <2>2 DEF CreatePush, TypeOK, Goto, PcLabels
      <4>2. reg' \in [Thread -> Registers]
        BY <1>1, <1>3, <1>6, <1>17, <2>2 DEF CreatePush, TypeOK, FollowsCells, Registers, Goto
      <4> QED
        BY <4>1, <4>2
    <3>2. \A u \in Thread : FollowsCells(u)'
      BY <1>6, <1>17, <2>2 DEF CreatePush, TypeOK, Goto, FollowsCells, Registers, Fresh, InAlloc, InCreate, InFree
    <3>3. QED
      BY <1>17, <2>2, <3>1, <3>2 DEF CreatePush, TypeOK
  <2> QED
    BY <2>1, <2>2
<1>18. ASSUME NEW t \in Thread, FreeReadHead(t) PROVE TypeOK'
  <2>1. pc' \in [Thread -> PcLabels] /\ reg' \in [Thread -> Registers]
    <3>1. pc' \in [Thread -> PcLabels]
      BY <1>18 DEF FreeReadHead, TypeOK, Goto, PcLabels
    <3>2. reg' \in [Thread -> Registers]
      BY <1>1, <1>2, <1>3, <1>5, <1>18 DEF FreeReadHead, TypeOK, Registers
    <3> QED
      BY <3>1, <3>2
  <2>2. \A u \in Thread : FollowsCells(u)'
    BY <1>6, <1>18 DEF FreeReadHead, TypeOK, Goto, FollowsCells, Registers, Fresh, InAlloc, InCreate, InFree
  <2>3. QED
    BY <1>1, <1>2, <1>3, <1>4, <1>5, <1>6, <1>7, <1>18, <2>1, <2>2 DEF FreeReadHead, TypeOK, Goto, FollowsCells, InCreate, InFree
<1>19. ASSUME NEW t \in Thread, FreeWriteWord(t) PROVE TypeOK'
  <2>1. pc' \in [Thread -> PcLabels] /\ reg' \in [Thread -> Registers]
    <3>1. pc' \in [Thread -> PcLabels]
      BY <1>19 DEF FreeWriteWord, TypeOK, Goto, PcLabels
    <3>2. reg' \in [Thread -> Registers]
      BY <1>1, <1>2, <1>3, <1>5, <1>19 DEF FreeWriteWord, TypeOK, Registers
    <3> QED
      BY <3>1, <3>2
  <2>2. \A u \in Thread : FollowsCells(u)'
    BY <1>6, <1>19 DEF FreeWriteWord, TypeOK, Goto, FollowsCells, Registers, Fresh, InAlloc, InCreate, InFree
  <2>3. QED
    BY <1>1, <1>2, <1>3, <1>4, <1>5, <1>6, <1>7, <1>19, <2>1, <2>2 DEF FreeWriteWord, TypeOK, Goto, FollowsCells, InCreate, InFree
<1>20. ASSUME NEW t \in Thread, FreeCas(t) PROVE TypeOK'
  <2>1. CASE head[reg[t].idx] = reg[t].old
    <3>1. pc' \in [Thread -> PcLabels] /\ reg' \in [Thread -> Registers]
      <4>1. pc' \in [Thread -> PcLabels]
        BY <1>20, <2>1 DEF FreeCas, TypeOK, Goto, PcLabels
      <4>2. reg' \in [Thread -> Registers]
        BY <1>1, <1>3, <1>20, <2>1 DEF FreeCas, TypeOK, Registers, Goto
      <4> QED
        BY <4>1, <4>2
    <3>2. \A u \in Thread : FollowsCells(u)'
      BY <1>6, <1>20, <2>1 DEF FreeCas, TypeOK, Goto, FollowsCells, Registers, Fresh, InAlloc, InCreate, InFree
    <3>3. QED
      BY <1>3, <1>4, <1>5, <1>6, <1>20, <2>1, <3>1, <3>2 DEF FreeCas, TypeOK, Goto, FollowsCells, InCreate, InFree
  <2>2. CASE ~(head[reg[t].idx] = reg[t].old)
    <3>1. pc' \in [Thread -> PcLabels] /\ reg' \in [Thread -> Registers]
      <4>1. pc' \in [Thread -> PcLabels]
        BY <1>20, <2>2 DEF FreeCas, TypeOK, Goto, PcLabels
      <4>2. reg' \in [Thread -> Registers]
        BY <1>1, <1>3, <1>6, <1>20, <2>2 DEF FreeCas, TypeOK, FollowsCells, Registers, Goto
      <4> QED
        BY <4>1, <4>2
    <3>2. \A u \in Thread : FollowsCells(u)'
      BY <1>6, <1>20, <2>2 DEF FreeCas, TypeOK, Goto, FollowsCells, Registers, Fresh, InAlloc, InCreate, InFree
    <3>3. QED
      BY <1>20, <2>2, <3>1, <3>2 DEF FreeCas, TypeOK
  <2> QED
    BY <2>1, <2>2
<1>21. ASSUME NEW t \in Thread, NEW c \in Cell, FreePick(t, c) PROVE TypeOK'
  <2>1. pc' \in [Thread -> PcLabels] /\ reg' \in [Thread -> Registers]
    <3>1. pc' \in [Thread -> PcLabels]
      BY <1>21 DEF FreePick, TypeOK, Goto, PcLabels
    <3>2. reg' \in [Thread -> Registers]
      BY <1>1, <1>2, <1>3, <1>21, ZenonT(40) DEF FreePick, TypeOK, Registers
    <3> QED
      BY <3>1, <3>2
  <2>2. \A u \in Thread : FollowsCells(u)'
    BY <1>6, <1>21 DEF FreePick, TypeOK, Goto, FollowsCells, Registers, Fresh, InAlloc, InCreate, InFree
  <2>3. QED
    BY <1>1, <1>2, <1>3, <1>4, <1>5, <1>6, <1>7, <1>21, <2>1, <2>2 DEF FreePick, TypeOK, Goto, FollowsCells, InCreate, InFree
<1>22. ASSUME NEW c \in Cell, NEW v \in UserWord, ClientWrite(c, v) PROVE TypeOK'
  BY <1>1, <1>3, <1>6, <1>22 DEF ClientWrite, TypeOK, FollowsCells, InAlloc, InCreate, InFree
<1>23. ASSUME DestroyBegin PROVE TypeOK'
  BY <1>1, <1>3, <1>6, <1>23 DEF DestroyBegin, TypeOK, FollowsCells, InAlloc, InCreate, InFree
<1>24. ASSUME DestroyBlock PROVE TypeOK'
  BY <1>1, <1>3, <1>6, <1>24, ZenonT(40) DEF DestroyBlock, TypeOK, FollowsCells, InAlloc, InCreate, InFree
<1>25. ASSUME UNCHANGED vars PROVE TypeOK'
  BY <1>25 DEF vars, TypeOK, FollowsCells, InAlloc, InCreate, InFree
<1> QED
  BY <1>8, <1>9, <1>10, <1>11, <1>12, <1>13, <1>14, <1>15, <1>16, <1>17, <1>18, <1>19, <1>20, <1>21, <1>22, <1>23, <1>24, <1>25 DEF Next, AllocStep, FreeStep, Ended

(* Type correctness (memory_pool.hpp:113-154): whatever the interleaving, a *)
(* thread dereferences only a pointer it has tested or was given.          *)
THEOREM TypeCorrect == Spec => []TypeOK
  BY TypeInit, TypeStep, PTL DEF Spec

-----------------------------------------------------------------------------
(* Preservation of IInv.  Most steps move no cell and touch no free list. *)
LEMMA SamePlaces ==
  ASSUME Placed, held' = held, heap' = heap,
         \A u \in Thread : InFree(u)' = InFree(u) /\ InCreate(u)' = InCreate(u),
         \A u \in Thread : InFree(u) => reg'[u].ptr = reg[u].ptr,
         \A u \in Thread : InCreate(u) => reg'[u].blk = reg[u].blk
  PROVE  Placed' /\ Free' = Free /\ Returning' = Returning
<1>1. Returning' = Returning
  BY DEF Returning
<1>2. Building' = Building
  BY DEF Building
<1>3. HeapCells' = HeapCells
  BY DEF HeapCells
<1>4. Free' = Free
  BY <1>1, <1>2, <1>3 DEF Free
<1>5. Placed'
  BY <1>1, <1>2, <1>3 DEF Placed
<1> QED
  BY <1>1, <1>4, <1>5

LEMMA SameLists ==
  ASSUME Lists, head' = head, Free' = Free, \A c \in Free : word'[c] = word[c]
  PROVE  Lists'
BY DEF Lists, HeadsFree, LinksFree, OneLinkTo, HeadUnlinked, HeadsDiffer

(* What thread u knows is not disturbed by a step of another thread that     *)
(* leaves u's registers, u's cells and the free lists alone.               *)
LEMMA SameKnowledge ==
  ASSUME NEW u \in Thread, pc'[u] = pc[u], reg'[u] = reg[u],
         Knows(u),
         head' = head, Free' = Free, \A c \in Free : word'[c] = word[c],
         InFree(u) => word'[reg[u].ptr] = word[reg[u].ptr],
         InCreate(u) => \A k \in 0 .. CellsPerBlock - 1 :
                          word'[<<reg[u].blk, k>>] = word[<<reg[u].blk, k>>]
  PROVE  Knows(u)'
<1>1. AllocKnows(u)'
  BY DEF Knows, AllocKnows
<1>2. BlockIsList(u)'
  BY ConstantsAssumption DEF Knows, BlockIsList, InCreate, Terminator
<1>3. FreeKnows(u)'
  BY DEF Knows, FreeKnows, InFree
<1> QED
  BY <1>1, <1>2, <1>3 DEF Knows

(* Thread t works alone on cell c. *)
Owns(t, c) == /\ c \in Cell
              /\ \/ InFree(t) /\ c = reg[t].ptr
                 \/ InCreate(t) /\ c[1] = reg[t].blk

LEMMA OwnIsOwn ==
  ASSUME OneAllocator, TypeOK, Placed, NEW t \in Thread, NEW c, Owns(t, c)
  PROVE  /\ c \in Cell /\ c \notin Free /\ c \notin held
         /\ \A u \in Thread : u # t => ~Owns(u, c)
<1>1. c \in Cell /\ c \in Returning \cup Building
  BY DEF Owns, Returning, Building
<1>2. c \notin Free /\ c \notin held
  BY <1>1 DEF Free, Placed
<1>3. ASSUME NEW u \in Thread, Owns(u, c) PROVE u = t
  <2>1. CASE InFree(t) /\ InFree(u) /\ c = reg[t].ptr /\ c = reg[u].ptr
    BY <2>1 DEF Placed
  <2>2. CASE InCreate(t) /\ InCreate(u)
    BY <2>2 DEF OneAllocator, TypeOK, FollowsCells, InCreate, InAlloc
  <2>3. CASE (InFree(t) /\ c = reg[t].ptr /\ InCreate(u) /\ c[1] = reg[u].blk)
             \/ (InFree(u) /\ c = reg[u].ptr /\ InCreate(t) /\ c[1] = reg[t].blk)
    <3>1. c \in Returning /\ c \in Building
      BY <1>1, <2>3 DEF Returning, Building
    <3> QED
      BY <3>1 DEF Placed
  <2> QED
    BY <1>3, <2>1, <2>2, <2>3 DEF Owns
<1> QED
  BY <1>1, <1>2, <1>3

(* A step of thread t that moves no cell, leaves the heads alone and writes  *)
(* only t's own cells preserves everything but t's own knowledge.          *)
LEMMA QuietStep ==
  ASSUME OneAllocator, TypeOK, Good, NEW t \in Thread,
         \A u \in Thread : u # t => pc'[u] = pc[u] /\ reg'[u] = reg[u],
         InFree(t)' = InFree(t), InCreate(t)' = InCreate(t),
         InFree(t) => reg'[t].ptr = reg[t].ptr,
         InCreate(t) => reg'[t].blk = reg[t].blk,
         head' = head, held' = held, heap' = heap,
         \A c \in Cell : ~Owns(t, c) => word'[c] = word[c],
         Free' = Free => Knows(t)'
  PROVE  Good' /\ Free' = Free /\ Returning' = Returning
<1>1. \A u \in Thread : InFree(u)' = InFree(u) /\ InCreate(u)' = InCreate(u)
  BY DEF InFree, InCreate
<1>2. Placed' /\ Free' = Free /\ Returning' = Returning
  <2>1. \A u \in Thread : InFree(u) => reg'[u].ptr = reg[u].ptr
    OBVIOUS
  <2>2. \A u \in Thread : InCreate(u) => reg'[u].blk = reg[u].blk
    OBVIOUS
  <2> QED
    BY <1>1, <2>1, <2>2, SamePlaces DEF Good
<1>3. \A c \in Free : word'[c] = word[c]
  BY OwnIsOwn DEF Good, Free, HeapCells
<1>4. Lists'
  BY <1>2, <1>3, SameLists DEF Good
<1>5. ASSUME NEW u \in Thread, u # t PROVE Knows(u)'
  <2>1. InFree(u) => word'[reg[u].ptr] = word[reg[u].ptr]
    <3>1. InFree(u) => Owns(u, reg[u].ptr)
      <4>1. FollowsCells(u)
        BY DEF TypeOK
      <4> QED
        BY <4>1 DEF FollowsCells, Owns
    <3> QED
      BY <1>5, <3>1, OwnIsOwn DEF Good
  <2>2. InCreate(u) => \A k \in 0 .. CellsPerBlock - 1 :
                         word'[<<reg[u].blk, k>>] = word[<<reg[u].blk, k>>]
    <3>1. InCreate(u) => \A k \in 0 .. CellsPerBlock - 1 : Owns(u, <<reg[u].blk, k>>)
      BY DEF TypeOK, FollowsCells, Owns, Cell
    <3> QED
      BY <1>5, <3>1, OwnIsOwn DEF Good
  <2>3. pc'[u] = pc[u] /\ reg'[u] = reg[u] /\ Knows(u)
    BY <1>5 DEF Good
  <2> QED
    BY <1>2, <1>3, <2>1, <2>2, <2>3, SameKnowledge
<1> QED
  BY <1>2, <1>4, <1>5 DEF Good

LEMMA QuietSteps ==
  ASSUME OneAllocator, TypeOK, Good, Live, NEW t \in Thread,
         \/ AllocPick(t) \/ AllocReadHead(t) \/ AllocReadNext(t)
         \/ AllocCas(t) /\ head[reg[t].idx] # reg[t].old
         \/ CreateThrows(t) \/ CreateWalk(t) \/ CreateLink(t) \/ CreateReadTop(t)
         \/ CreatePush(t) /\ head[reg[t].idx] # reg[t].top
         \/ FreeReadHead(t) \/ FreeWriteWord(t)
         \/ FreeCas(t) /\ head[reg[t].idx] # reg[t].old
  PROVE  Good' /\ Free' = Free /\ Returning' = Returning /\ held' = held
<1> USE DEF Goto
<1>1. reg[t] \in Registers /\ FollowsCells(t) /\ pc \in [Thread -> PcLabels]
      /\ reg \in [Thread -> Registers] /\ word \in [Cell -> Pointer]
  BY DEF TypeOK
<1>2. Knows(t)
  BY DEF Good
<1>3. \A i \in Barrel : head[i] \in Free /\ head[i] \in Cell /\ head[i] # Null
  BY NullAssumption, ConstantsAssumption DEF Good, Lists, HeadsFree, Free, HeapCells
<1>4. reg[t].idx \in Barrel
  BY <1>1 DEF Registers
<1> DEFINE Quiet ==
      /\ \A u \in Thread : u # t => pc'[u] = pc[u] /\ reg'[u] = reg[u]
      /\ InFree(t)' = InFree(t) /\ InCreate(t)' = InCreate(t)
      /\ InFree(t) => reg'[t].ptr = reg[t].ptr
      /\ InCreate(t) => reg'[t].blk = reg[t].blk
      /\ head' = head /\ held' = held /\ heap' = heap
      /\ \A c \in Cell : ~Owns(t, c) => word'[c] = word[c]
      /\ Free' = Free => Knows(t)'
<1>5. Quiet => Good' /\ Free' = Free /\ Returning' = Returning /\ held' = held
  BY QuietStep
<1>6. CASE AllocPick(t)
  <2>1. Free' = Free => AllocKnows(t)'
    BY <1>1, <1>2, <1>3, <1>4, <1>6 DEF AllocPick, Knows, AllocKnows, Fresh, Registers
  <2>2. BlockIsList(t)' /\ FreeKnows(t)'
    BY <1>1, <1>2, <1>3, <1>4, <1>6 DEF AllocPick, Knows, BlockIsList, FreeKnows, InCreate, Registers, FollowsCells
  <2>3. \A c \in Cell : ~Owns(t, c) => word'[c] = word[c]
    BY <1>1, <1>6 DEF AllocPick, Owns, Terminator, InCreate, InFree
  <2>4. Quiet
    BY <1>1, <1>3, <1>4, <1>6, <2>1, <2>2, <2>3 DEF AllocPick, Knows, InFree, InCreate
  <2> QED
    BY <1>5, <2>4
<1>7. CASE AllocReadHead(t)
  <2>1. Free' = Free => AllocKnows(t)'
    BY <1>1, <1>2, <1>3, <1>4, <1>7 DEF AllocReadHead, Knows, AllocKnows, Fresh, Registers
  <2>2. BlockIsList(t)' /\ FreeKnows(t)'
    BY <1>1, <1>2, <1>3, <1>4, <1>7 DEF AllocReadHead, Knows, BlockIsList, FreeKnows, InCreate, Registers, FollowsCells
  <2>3. \A c \in Cell : ~Owns(t, c) => word'[c] = word[c]
    BY <1>1, <1>7 DEF AllocReadHead, Owns, Terminator, InCreate, InFree
  <2>4. Quiet
    BY <1>1, <1>3, <1>4, <1>7, <2>1, <2>2, <2>3 DEF AllocReadHead, Knows, InFree, InCreate
  <2> QED
    BY <1>5, <2>4
<1>8. CASE AllocReadNext(t)
  <2>1. Free' = Free => AllocKnows(t)'
    BY <1>1, <1>2, <1>3, <1>4, <1>8 DEF AllocReadNext, Knows, AllocKnows, Fresh, Registers
  <2>2. BlockIsList(t)' /\ FreeKnows(t)'
    BY <1>1, <1>2, <1>3, <1>4, <1>8 DEF AllocReadNext, Knows, BlockIsList, FreeKnows, InCreate, Registers, FollowsCells
  <2>3. \A c \in Cell : ~Owns(t, c) => word'[c] = word[c]
    BY <1>1, <1>8 DEF AllocReadNext, Owns, Terminator, InCreate, InFree
  <2>4. Quiet
    BY <1>1, <1>3, <1>4, <1>8, <2>1, <2>2, <2>3 DEF AllocReadNext, Knows, InFree, InCreate
  <2> QED
    BY <1>5, <2>4
<1>9. CASE AllocCas(t) /\ head[reg[t].idx] # reg[t].old
  <2>1. Free' = Free => AllocKnows(t)'
    BY <1>1, <1>2, <1>3, <1>4, <1>9 DEF AllocCas, Knows, AllocKnows, Fresh, Registers
  <2>2. BlockIsList(t)' /\ FreeKnows(t)'
    BY <1>1, <1>2, <1>3, <1>4, <1>9 DEF AllocCas, Knows, BlockIsList, FreeKnows, InCreate, Registers, FollowsCells
  <2>3. \A c \in Cell : ~Owns(t, c) => word'[c] = word[c]
    BY <1>1, <1>9 DEF AllocCas, Owns, Terminator, InCreate, InFree
  <2>4. Quiet
    BY <1>1, <1>3, <1>4, <1>9, <2>1, <2>2, <2>3 DEF AllocCas, Knows, InFree, InCreate
  <2> QED
    BY <1>5, <2>4
<1>10. CASE CreateThrows(t)
  <2>1. Free' = Free => AllocKnows(t)'
    BY <1>1, <1>2, <1>3, <1>4, <1>10 DEF CreateThrows, Knows, AllocKnows, Fresh, Registers
  <2>2. BlockIsList(t)' /\ FreeKnows(t)'
    BY <1>1, <1>2, <1>3, <1>4, <1>10 DEF CreateThrows, Knows, BlockIsList, FreeKnows, InCreate, Registers, FollowsCells
  <2>3. \A c \in Cell : ~Owns(t, c) => word'[c] = word[c]
    BY <1>1, <1>10 DEF CreateThrows, Owns, Terminator, InCreate, InFree
  <2>4. Quiet
    BY <1>1, <1>3, <1>4, <1>10, <2>1, <2>2, <2>3 DEF CreateThrows, Knows, InFree, InCreate
  <2> QED
    BY <1>5, <2>4
<1>11. CASE CreateWalk(t)
  <2>1. Free' = Free => AllocKnows(t)'
    BY <1>1, <1>2, <1>3, <1>4, <1>11 DEF CreateWalk, Knows, AllocKnows, Fresh, Registers
  <2>2. BlockIsList(t)' /\ FreeKnows(t)'
    BY <1>1, <1>2, <1>3, <1>4, <1>11 DEF CreateWalk, Knows, BlockIsList, FreeKnows, InCreate, Registers, FollowsCells
  <2>3. \A c \in Cell : ~Owns(t, c) => word'[c] = word[c]
    BY <1>1, <1>11 DEF CreateWalk, Owns, Terminator, InCreate, InFree
  <2>4. Quiet
    <3>1. /\ \A u \in Thread : u # t => pc'[u] = pc[u] /\ reg'[u] = reg[u]
          /\ reg'[t].ptr = reg[t].ptr /\ reg'[t].blk = reg[t].blk
      BY <1>1, <1>11 DEF CreateWalk, Registers
    <3>2. InFree(t)' = InFree(t) /\ InCreate(t)' = InCreate(t)
      BY <1>1, <1>11 DEF CreateWalk, InFree, InCreate
    <3> QED
      BY <1>11, <2>1, <2>2, <2>3, <3>1, <3>2 DEF CreateWalk, Knows
  <2> QED
    BY <1>5, <2>4
<1>12. CASE CreateLink(t)
  <2>1. Free' = Free => AllocKnows(t)'
    BY <1>1, <1>2, <1>3, <1>4, <1>12 DEF CreateLink, Knows, AllocKnows, Fresh, Registers
  <2>2. BlockIsList(t)' /\ FreeKnows(t)'
    BY <1>1, <1>2, <1>3, <1>4, <1>12 DEF CreateLink, Knows, BlockIsList, FreeKnows, InCreate, Registers, FollowsCells
  <2>3. \A c \in Cell : ~Owns(t, c) => word'[c] = word[c]
    BY <1>1, <1>12 DEF CreateLink, Owns, Terminator, InCreate, InFree
  <2>4. Quiet
    <3>1. /\ \A u \in Thread : u # t => pc'[u] = pc[u] /\ reg'[u] = reg[u]
          /\ reg'[t].ptr = reg[t].ptr /\ reg'[t].blk = reg[t].blk
      BY <1>1, <1>12 DEF CreateLink, Registers
    <3>2. InFree(t)' = InFree(t) /\ InCreate(t)' = InCreate(t)
      BY <1>1, <1>12 DEF CreateLink, InFree, InCreate
    <3> QED
      BY <1>12, <2>1, <2>2, <2>3, <3>1, <3>2 DEF CreateLink, Knows
  <2> QED
    BY <1>5, <2>4
<1>13. CASE CreateReadTop(t)
  <2>0. /\ pc[t] = "top" /\ pc' = [pc EXCEPT ![t] = "push"]
        /\ reg' = [reg EXCEPT ![t].top = head[reg[t].idx]]
        /\ word' = [word EXCEPT ![Terminator(reg[t].blk)] = head[reg[t].idx]]
        /\ InCreate(t) /\ reg[t].blk \in Block
    BY <1>1, <1>3, <1>4, <1>13 DEF CreateReadTop, FollowsCells, InCreate
  <2>1. Free' = Free => AllocKnows(t)'
    BY <1>1, <1>2, <1>13, <2>0 DEF CreateReadTop, Knows, AllocKnows, Registers
  <2>2. BlockIsList(t)' /\ FreeKnows(t)'
    <3>1. reg'[t].blk = reg[t].blk /\ reg'[t].top = head[reg[t].idx] /\ pc'[t] = "push"
      BY <1>1, <2>0 DEF Registers
    <3>2. Terminator(reg[t].blk) \in Cell
      BY <2>0, ConstantsAssumption DEF Terminator, Cell
    <3>3. \A k \in 1 .. CellsPerBlock - 1 : word'[<<reg[t].blk, k>>] = word[<<reg[t].blk, k>>]
      <4>1. \A k \in 1 .. CellsPerBlock - 1 :
              <<reg[t].blk, k>> \in Cell /\ <<reg[t].blk, k>> # Terminator(reg[t].blk)
        BY <2>0, ConstantsAssumption DEF Terminator, Cell
      <4> QED
        BY <1>1, <2>0, <4>1
    <3>4. word'[Terminator(reg[t].blk)] = head[reg[t].idx]
      BY <1>1, <2>0, <3>2
    <3> QED
      BY <1>2, <2>0, <3>1, <3>3, <3>4 DEF Knows, BlockIsList, FreeKnows
  <2>3. \A c \in Cell : ~Owns(t, c) => word'[c] = word[c]
    BY <1>1, <1>13 DEF CreateReadTop, Owns, Terminator, InCreate, InFree
  <2>4. Quiet
    BY <1>1, <1>13, <2>0, <2>1, <2>2, <2>3 DEF CreateReadTop, Knows, InFree, InCreate
  <2> QED
    BY <1>5, <2>4
<1>14. CASE CreatePush(t) /\ head[reg[t].idx] # reg[t].top
  <2>1. Free' = Free => AllocKnows(t)'
    BY <1>1, <1>2, <1>3, <1>4, <1>14 DEF CreatePush, Knows, AllocKnows, Fresh, Registers
  <2>2. BlockIsList(t)' /\ FreeKnows(t)'
    BY <1>1, <1>2, <1>3, <1>4, <1>14 DEF CreatePush, Knows, BlockIsList, FreeKnows, InCreate, Registers, FollowsCells
  <2>3. \A c \in Cell : ~Owns(t, c) => word'[c] = word[c]
    BY <1>1, <1>14 DEF CreatePush, Owns, Terminator, InCreate, InFree
  <2>4. Quiet
    BY <1>1, <1>3, <1>4, <1>14, <2>1, <2>2, <2>3 DEF CreatePush, Knows, InFree, InCreate
  <2> QED
    BY <1>5, <2>4
<1>15. CASE FreeReadHead(t)
  <2>1. Free' = Free => AllocKnows(t)'
    BY <1>1, <1>2, <1>3, <1>4, <1>15 DEF FreeReadHead, Knows, AllocKnows, Fresh, Registers
  <2>2. BlockIsList(t)' /\ FreeKnows(t)'
    BY <1>1, <1>2, <1>3, <1>4, <1>15 DEF FreeReadHead, Knows, BlockIsList, FreeKnows, InCreate, Registers, FollowsCells
  <2>3. \A c \in Cell : ~Owns(t, c) => word'[c] = word[c]
    BY <1>1, <1>15 DEF FreeReadHead, Owns, Terminator, InCreate, InFree
  <2>4. Quiet
    BY <1>1, <1>3, <1>4, <1>15, <2>1, <2>2, <2>3 DEF FreeReadHead, Knows, InFree, InCreate
  <2> QED
    BY <1>5, <2>4
<1>16. CASE FreeWriteWord(t)
  <2>0. /\ pc[t] = "freeword" /\ pc' = [pc EXCEPT ![t] = "freecas"]
        /\ reg' = reg /\ reg[t].ptr \in Cell /\ InFree(t)
        /\ word' = [word EXCEPT ![reg[t].ptr] = reg[t].old]
    BY <1>1, <1>16 DEF FreeWriteWord, FollowsCells, InFree
  <2>1. Free' = Free => AllocKnows(t)'
    BY <1>1, <2>0 DEF AllocKnows
  <2>2. BlockIsList(t)' /\ FreeKnows(t)'
    BY <1>1, <2>0 DEF BlockIsList, FreeKnows, InCreate
  <2>3. \A c \in Cell : ~Owns(t, c) => word'[c] = word[c]
    <3>1. Owns(t, reg[t].ptr)
      BY <2>0 DEF Owns
    <3> QED
      BY <1>1, <2>0, <3>1
  <2>4. Quiet
    BY <1>1, <1>16, <2>0, <2>1, <2>2, <2>3 DEF FreeWriteWord, Knows, InFree, InCreate
  <2> QED
    BY <1>5, <2>4
<1>17. CASE FreeCas(t) /\ head[reg[t].idx] # reg[t].old
  <2>1. Free' = Free => AllocKnows(t)'
    BY <1>1, <1>2, <1>3, <1>4, <1>17 DEF FreeCas, Knows, AllocKnows, Fresh, Registers
  <2>2. BlockIsList(t)' /\ FreeKnows(t)'
    BY <1>1, <1>2, <1>3, <1>4, <1>17 DEF FreeCas, Knows, BlockIsList, FreeKnows, InCreate, Registers, FollowsCells
  <2>3. \A c \in Cell : ~Owns(t, c) => word'[c] = word[c]
    BY <1>1, <1>17 DEF FreeCas, Owns, Terminator, InCreate, InFree
  <2>4. Quiet
    BY <1>1, <1>3, <1>4, <1>17, <2>1, <2>2, <2>3 DEF FreeCas, Knows, InFree, InCreate
  <2> QED
    BY <1>5, <2>4
<1> QED
  BY <1>6, <1>7, <1>8, <1>9, <1>10, <1>11, <1>12, <1>13, <1>14, <1>15, <1>16, <1>17

(* A client writes only cells it owns. *)
LEMMA ClientWriteStep ==
  ASSUME TypeOK, Good, NEW c \in Cell, NEW v \in UserWord, ClientWrite(c, v)
  PROVE  Good' /\ Free' = Free /\ Returning' = Returning /\ held' = held
<1>1. /\ c \in held /\ word' = [word EXCEPT ![c] = v] /\ word \in [Cell -> Pointer]
      /\ head' = head /\ held' = held /\ heap' = heap /\ pc' = pc /\ reg' = reg
  BY DEF ClientWrite, TypeOK
<1>2. Placed' /\ Free' = Free /\ Returning' = Returning
  BY <1>1, SamePlaces DEF Good, InFree, InCreate
<1>3. c \notin Free /\ c \notin Returning /\ c \notin Building
  BY <1>1 DEF Good, Placed, Free
<1>4. \A d \in Cell : d # c => word'[d] = word[d]
  BY <1>1
<1>5. Lists'
  <2>1. \A d \in Free : word'[d] = word[d]
    BY <1>3, <1>4 DEF Free, HeapCells
  <2> QED
    BY <1>1, <1>2, <2>1, SameLists DEF Good
<1>6. ASSUME NEW u \in Thread PROVE Knows(u)'
  <2>0. FollowsCells(u) /\ Knows(u)
    BY DEF TypeOK, Good
  <2>1. InFree(u) => word'[reg[u].ptr] = word[reg[u].ptr]
    BY <1>3, <1>4, <2>0 DEF Returning, FollowsCells
  <2>2. InCreate(u) => \A i \in 0 .. CellsPerBlock - 1 :
                         word'[<<reg[u].blk, i>>] = word[<<reg[u].blk, i>>]
    <3>1. InCreate(u) => \A i \in 0 .. CellsPerBlock - 1 :
                           <<reg[u].blk, i>> \in Cell /\ <<reg[u].blk, i>> \in Building
      BY <2>0 DEF Building, FollowsCells, Cell
    <3> QED
      BY <1>3, <1>4, <3>1
  <2>3. \A d \in Free : word'[d] = word[d]
    BY <1>3, <1>4 DEF Free, HeapCells
  <2> QED
    BY <1>1, <1>2, <2>0, <2>1, <2>2, <2>3, SameKnowledge
<1> QED
  BY <1>1, <1>2, <1>5, <1>6 DEF Good

(* A cell goes from its client to the thread that gives it back. *)
LEMMA FreePickStep ==
  ASSUME TypeOK, Good, NEW t \in Thread, NEW c \in Cell, FreePick(t, c)
  PROVE  /\ Good' /\ Free' = Free
         /\ c \in held /\ held' = held \ {c} /\ Returning' = Returning \cup {c}
<1>1. /\ c \in held /\ held' = held \ {c} /\ head' = head /\ word' = word /\ heap' = heap
      /\ pc[t] = "idle" /\ pc' = [pc EXCEPT ![t] = "freehead"] /\ pc \in [Thread -> PcLabels]
      /\ \A u \in Thread : u # t => reg'[u] = reg[u]
      /\ reg'[t].ptr = c
  BY DEF FreePick, Goto, TypeOK, Registers
<1>2. /\ ~InFree(t) /\ InFree(t)' /\ ~InCreate(t) /\ ~InCreate(t)'
      /\ \A u \in Thread : u # t => InFree(u)' = InFree(u) /\ InCreate(u)' = InCreate(u)
  BY <1>1 DEF InFree, InCreate
<1>3. Returning' = Returning \cup {c}
  BY <1>1, <1>2 DEF Returning
<1>4. Building' = Building
  BY <1>1, <1>2 DEF Building
<1>5. HeapCells' = HeapCells
  BY <1>1 DEF HeapCells
<1>6. Free' = Free
  BY <1>1, <1>3, <1>4, <1>5 DEF Free
<1>7. Placed'
  <2>1. ASSUME NEW u \in Thread, NEW w \in Thread, InFree(u)', InFree(w)', reg'[u].ptr = reg'[w].ptr
        PROVE  u = w
    <3>1. \A x \in Thread : x # t /\ InFree(x) => reg[x].ptr # c
      BY <1>1 DEF Good, Placed, Returning
    <3> QED
      BY <1>1, <1>2, <2>1, <3>1 DEF Good, Placed
  <2> QED
    BY <1>1, <1>3, <1>4, <1>5, <2>1 DEF Good, Placed
<1>8. Lists'
  BY <1>1, <1>6, SameLists DEF Good
<1>9. ASSUME NEW u \in Thread PROVE Knows(u)'
  <2>1. CASE u = t
    BY <1>1, <1>2, <2>1 DEF Knows, AllocKnows, BlockIsList, FreeKnows
  <2>2. CASE u # t
    BY <1>1, <1>6, <2>2, SameKnowledge DEF Good
  <2> QED
    BY <2>1, <2>2
<1> QED
  BY <1>1, <1>3, <1>6, <1>7, <1>8, <1>9 DEF Good

(* A new block is nobody's but its creator's. *)
LEMMA CreateNewStep ==
  ASSUME OneAllocator, TypeOK, Good, NEW t \in Thread, CreateNew(t)
  PROVE  Good' /\ Free' = Free /\ Returning' = Returning /\ held' = held
<1>1. PICK b \in Block \ heap :
        /\ heap' = heap \cup {b}
        /\ word' = TademBlock(word, b)
        /\ reg' = [reg EXCEPT ![t] = [@ EXCEPT !.blk = b, !.at = first[reg[t].idx]]]
  BY DEF CreateNew
<1>2. /\ pc[t] = "new" /\ pc' = [pc EXCEPT ![t] = "walk"] /\ pc \in [Thread -> PcLabels]
      /\ head' = head /\ held' = held /\ word \in [Cell -> Pointer]
      /\ reg \in [Thread -> Registers]
  BY DEF CreateNew, Goto, TypeOK
<1>3. /\ \A u \in Thread : u # t => reg'[u] = reg[u]
      /\ reg'[t].blk = b /\ reg'[t].old = reg[t].old /\ reg'[t].nval = reg[t].nval
  BY <1>1, <1>2 DEF Registers
<1>4. /\ ~InFree(t) /\ ~InFree(t)' /\ ~InCreate(t) /\ InCreate(t)'
      /\ \A u \in Thread : u # t => InFree(u)' = InFree(u) /\ InCreate(u)' = InCreate(u)
  BY <1>2 DEF InFree, InCreate
<1>5. Returning' = Returning
  BY <1>3, <1>4 DEF Returning
<1>6. Building' = Building \cup {c \in Cell : c[1] = b}
  BY <1>3, <1>4 DEF Building
<1>7. HeapCells' = HeapCells \cup {c \in Cell : c[1] = b}
  BY <1>1 DEF HeapCells
<1>8. \A c \in HeapCells : c \in Cell /\ c[1] # b
  BY <1>1 DEF HeapCells
<1>9. Free' = Free
  BY <1>2, <1>5, <1>6, <1>7, <1>8 DEF Free, Good, Placed
<1>10. Placed'
  BY <1>2, <1>3, <1>4, <1>5, <1>6, <1>7, <1>8 DEF Good, Placed
<1>11. \A c \in Cell : c[1] # b => word'[c] = word[c]
  BY <1>1, <1>2 DEF TademBlock
<1>12. Lists'
  <2>1. \A c \in Free : word'[c] = word[c]
    BY <1>8, <1>11 DEF Free
  <2> QED
    BY <1>2, <1>9, <2>1, SameLists DEF Good
<1>13. ASSUME NEW u \in Thread, u # t PROVE Knows(u)'
  <2>0. FollowsCells(u) /\ Knows(u)
    BY DEF TypeOK, Good
  <2>1. InFree(u) => word'[reg[u].ptr] = word[reg[u].ptr]
    BY <1>8, <1>11, <2>0 DEF Good, Placed, Returning, FollowsCells
  <2>2. ~InCreate(u)
    <3>1. FollowsCells(t) /\ InAlloc(t)
      BY <1>2 DEF TypeOK, InAlloc
    <3> QED
      BY <1>13, <2>0, <3>1 DEF OneAllocator, FollowsCells, InCreate, InAlloc
  <2>3. \A c \in Free : word'[c] = word[c]
    BY <1>8, <1>11 DEF Free
  <2>4. pc'[u] = pc[u] /\ reg'[u] = reg[u]
    BY <1>2, <1>3, <1>13
  <2> QED
    BY <1>2, <1>9, <2>0, <2>1, <2>2, <2>3, <2>4, SameKnowledge
<1>14. Knows(t)'
  <2>1. AllocKnows(t)'
    BY <1>2, <1>3, <1>9 DEF Good, Knows, AllocKnows
  <2>2. BlockIsList(t)'
    <3>1. ASSUME NEW i \in 1 .. CellsPerBlock - 1
          PROVE  word'[<<b, i>>] = <<b, (i + 1) % CellsPerBlock>>
      <4>1. <<b, i>> \in Cell /\ i # 0
        BY ConstantsAssumption DEF Cell
      <4> QED
        BY <1>1, <1>2, <4>1 DEF TademBlock
    <3> QED
      BY <1>2, <1>3, <3>1 DEF BlockIsList
  <2> QED
    BY <1>2, <2>1, <2>2 DEF Knows, FreeKnows
<1> QED
  BY <1>2, <1>5, <1>9, <1>10, <1>12, <1>13, <1>14 DEF Good

(* A pop: the cell on top becomes the client's.  This is where a second      *)
(* allocating thread would break the invariant, by its stale nval.         *)
LEMMA AllocCasStep ==
  ASSUME OneAllocator, TypeOK, Good, NEW t \in Thread, AllocCas(t), head[reg[t].idx] = reg[t].old
  PROVE  /\ Good' /\ Returning' = Returning
         /\ \E c \in Cell : c \in Free /\ Free' = Free \ {c} /\ held' = held \cup {c}
         /\ Free' = Free \ {reg[t].old}
         /\ reg[t].nval # Null /\ word[reg[t].old] = reg[t].nval
<1> DEFINE i == reg[t].idx
           old == reg[t].old
           nval == reg[t].nval
<1>1. /\ pc[t] = "cas" /\ pc' = [pc EXCEPT ![t] = "idle"] /\ pc \in [Thread -> PcLabels]
      /\ head' = [head EXCEPT ![i] = nval] /\ head \in [Barrel -> Pointer] /\ i \in Barrel
      /\ held' = held \cup {old} /\ word' = word /\ heap' = heap
      /\ \A u \in Thread : u # t => reg'[u] = reg[u]
  BY DEF AllocCas, Goto, TypeOK, Registers
<1>2. /\ ~InFree(t) /\ ~InFree(t)' /\ ~InCreate(t) /\ ~InCreate(t)'
      /\ \A u \in Thread : u # t => InFree(u)' = InFree(u) /\ InCreate(u)' = InCreate(u)
  BY <1>1 DEF InFree, InCreate
<1>3. old \in Free /\ nval # Null /\ word[old] = nval /\ nval \in Free
  <2>1. old \in Free /\ nval # Null /\ word[old] = nval
    BY <1>1 DEF Good, Knows, AllocKnows
  <2> QED
    BY <2>1 DEF Good, Lists, LinksFree
<1>4. Returning' = Returning /\ Building' = Building /\ HeapCells' = HeapCells
  BY <1>1, <1>2 DEF Returning, Building, HeapCells
<1>5. Free' = Free \ {old}
  BY <1>1, <1>3, <1>4 DEF Free
<1>6. Placed'
  BY <1>1, <1>2, <1>3, <1>4 DEF Good, Placed, Free
<1>7. Lists'
  <2>1. HeadsFree'
    BY <1>1, <1>3, <1>5 DEF Good, Lists, HeadsFree, HeadUnlinked, HeadsDiffer
  <2>2. LinksFree'
    BY <1>1, <1>3, <1>5 DEF Good, Lists, LinksFree, HeadUnlinked
  <2>3. OneLinkTo'
    BY <1>1, <1>5 DEF Good, Lists, OneLinkTo
  <2>4. HeadUnlinked'
    BY <1>1, <1>3, <1>5 DEF Good, Lists, HeadUnlinked, OneLinkTo
  <2>5. HeadsDiffer'
    BY <1>1, <1>3 DEF Good, Lists, HeadsDiffer, HeadUnlinked
  <2> QED
    BY <2>1, <2>2, <2>3, <2>4, <2>5 DEF Lists
<1>8. ASSUME NEW u \in Thread PROVE Knows(u)'
  <2>1. CASE u = t
    BY <1>1, <1>2, <2>1 DEF Knows, AllocKnows, BlockIsList, FreeKnows
  <2>2. CASE u # t
    <3>1. ~InAlloc(u)
      BY <1>1, <2>2 DEF TypeOK, FollowsCells, InAlloc, OneAllocator
    <3>2. pc'[u] = pc[u] /\ reg'[u] = reg[u] /\ Knows(u)
      BY <1>1, <2>2 DEF Good
    <3> QED
      BY <1>1, <3>1, <3>2 DEF Knows, AllocKnows, BlockIsList, FreeKnows, InAlloc, InCreate
  <2> QED
    BY <2>1, <2>2
<1> QED
  BY <1>1, <1>3, <1>4, <1>5, <1>6, <1>7, <1>8 DEF Good, Free, HeapCells

(* A push of one cell. *)
LEMMA FreeCasStep ==
  ASSUME OneAllocator, TypeOK, Good, NEW t \in Thread, FreeCas(t), head[reg[t].idx] = reg[t].old
  PROVE  /\ Good' /\ held' = held
         /\ \E c \in Cell : c \in Returning /\ Returning' = Returning \ {c} /\ Free' = Free \cup {c}
         /\ Free' = Free \cup {reg[t].ptr} /\ reg[t].ptr \in Cell \ Free
         /\ word[reg[t].ptr] = head[reg[t].idx]
<1> DEFINE i == reg[t].idx
           ptr == reg[t].ptr
<1>1. /\ pc[t] = "freecas" /\ pc' = [pc EXCEPT ![t] = "idle"] /\ pc \in [Thread -> PcLabels]
      /\ head' = [head EXCEPT ![i] = ptr] /\ head \in [Barrel -> Pointer] /\ i \in Barrel
      /\ held' = held /\ word' = word /\ heap' = heap
      /\ \A u \in Thread : u # t => reg'[u] = reg[u]
  BY DEF FreeCas, Goto, TypeOK, Registers
<1>2. /\ InFree(t) /\ ~InFree(t)' /\ ~InCreate(t) /\ ~InCreate(t)'
      /\ \A u \in Thread : u # t => InFree(u)' = InFree(u) /\ InCreate(u)' = InCreate(u)
  BY <1>1 DEF InFree, InCreate
<1>3. ptr \in Returning /\ ptr \notin Free /\ word[ptr] = head[i] /\ ptr \in Cell /\ ptr # Null
  <2>1. FollowsCells(t) /\ Knows(t)
    BY DEF TypeOK, Good
  <2> QED
    BY <1>1, <1>2, <2>1, ConstantsAssumption, NullAssumption
    DEF FollowsCells, Knows, FreeKnows, Returning, Free
<1>4. Returning' = Returning \ {ptr}
  BY <1>1, <1>2 DEF Returning, Good, Placed
<1>5. Building' = Building /\ HeapCells' = HeapCells
  BY <1>1, <1>2 DEF Building, HeapCells
<1>6. Free' = Free \cup {ptr}
  BY <1>1, <1>3, <1>4, <1>5 DEF Free, Good, Placed
<1>7. Placed'
  BY <1>1, <1>2, <1>4, <1>5 DEF Good, Placed
<1>8. Lists'
  <2>1. HeadsFree'
    BY <1>1, <1>6 DEF Good, Lists, HeadsFree
  <2>2. LinksFree'
    BY <1>1, <1>3, <1>6 DEF Good, Lists, LinksFree, HeadsFree
  <2>3. OneLinkTo'
    BY <1>1, <1>3, <1>6 DEF Good, Lists, OneLinkTo, HeadUnlinked
  <2>4. HeadUnlinked'
    BY <1>1, <1>3, <1>6 DEF Good, Lists, HeadsFree, LinksFree, HeadUnlinked, HeadsDiffer
  <2>5. HeadsDiffer'
    BY <1>1, <1>3 DEF Good, Lists, HeadsDiffer, HeadsFree
  <2> QED
    BY <2>1, <2>2, <2>3, <2>4, <2>5 DEF Lists
<1>9. ASSUME NEW u \in Thread PROVE Knows(u)'
  <2>1. CASE u = t
    BY <1>1, <1>2, <2>1 DEF Knows, AllocKnows, BlockIsList, FreeKnows
  <2>2. CASE u # t
    <3>1. pc'[u] = pc[u] /\ reg'[u] = reg[u] /\ Knows(u) /\ reg[u].idx \in Barrel
      BY <1>1, <2>2 DEF Good, TypeOK, Registers
    <3>2. AllocKnows(u)'
      BY <1>1, <1>3, <1>6, <3>1 DEF Knows, AllocKnows
    <3> QED
      BY <1>1, <3>1, <3>2 DEF Knows, BlockIsList, FreeKnows, InCreate
  <2> QED
    BY <2>1, <2>2
<1> QED
  BY <1>1, <1>3, <1>4, <1>6, <1>7, <1>8, <1>9 DEF Good

(* A push of a whole block: its cells become free all at once. *)
LEMMA CreatePushStep ==
  ASSUME OneAllocator, TypeOK, Good, NEW t \in Thread, CreatePush(t), head[reg[t].idx] = reg[t].top
  PROVE  /\ Good' /\ Returning' = Returning /\ held' = held
         /\ \E S \in SUBSET Cell : S \cap (Free \cup held \cup Returning) = {} /\ Free' = Free \cup S
         /\ \A c \in Cell : c \in Free' <=> c \in Free \/ c[1] = reg[t].blk
         /\ \A c \in Free : c[1] # reg[t].blk
         /\ reg[t].blk \in Block /\ word[<<reg[t].blk, 0>>] = head[reg[t].idx]
         /\ \A n \in 1 .. CellsPerBlock - 1 :
              word[<<reg[t].blk, n>>] = <<reg[t].blk, (n + 1) % CellsPerBlock>>
<1> DEFINE i == reg[t].idx
           b == reg[t].blk
           New == {c \in Cell : c[1] = b}
<1>1. /\ pc[t] = "push" /\ pc' = [pc EXCEPT ![t] = "cas"] /\ pc \in [Thread -> PcLabels]
      /\ head' = [head EXCEPT ![i] = FirstCell(b)] /\ head \in [Barrel -> Pointer] /\ i \in Barrel
      /\ held' = held /\ word' = word /\ heap' = heap
      /\ \A u \in Thread : u # t => reg'[u] = reg[u]
      /\ reg'[t].idx = i /\ reg'[t].old = reg[t].old /\ reg'[t].nval = reg[t].nval
  BY DEF CreatePush, Goto, TypeOK, Registers
<1>2. /\ ~InFree(t) /\ ~InFree(t)' /\ InCreate(t) /\ ~InCreate(t)'
      /\ \A u \in Thread : u # t => InFree(u)' = InFree(u) /\ InCreate(u)' = InCreate(u)
  BY <1>1 DEF InFree, InCreate
<1>3. \A u \in Thread : InAlloc(u) => u = t
  BY <1>1 DEF TypeOK, FollowsCells, InAlloc, OneAllocator
<1>4. \A u \in Thread : InCreate(u) => u = t
  BY <1>3 DEF InCreate, InAlloc
<1>5. b \in Block /\ Knows(t)
  BY <1>2 DEF TypeOK, FollowsCells, Good
<1>6. Building = New /\ Building' = {}
  BY <1>2, <1>4 DEF Building
<1>7. Returning' = Returning /\ HeapCells' = HeapCells
  BY <1>1, <1>2 DEF Returning, HeapCells
<1>8. Free' = Free \cup New /\ Free \cap New = {}
  BY <1>1, <1>6, <1>7 DEF Free, Good, Placed
<1>9. Placed'
  BY <1>1, <1>2, <1>6, <1>7 DEF Good, Placed
<1>10. \A c \in New : \E n \in 0 .. CellsPerBlock - 1 : c = <<b, n>>
  BY DEF Cell
<1>11. \A n \in 0 .. CellsPerBlock - 1 : <<b, n>> \in New
  BY <1>5 DEF Cell
<1>12. /\ word[<<b, 0>>] = head[i]
       /\ \A n \in 1 .. CellsPerBlock - 1 : word[<<b, n>>] = <<b, (n + 1) % CellsPerBlock>>
  BY <1>1, <1>2, <1>5 DEF Knows, BlockIsList, Terminator
<1>13. \A n \in 1 .. CellsPerBlock - 1 :
         /\ (n + 1) % CellsPerBlock \in 0 .. CellsPerBlock - 1
         /\ (n + 1) % CellsPerBlock # 1
         /\ n + 1 < CellsPerBlock => (n + 1) % CellsPerBlock = n + 1
         /\ n + 1 = CellsPerBlock => (n + 1) % CellsPerBlock = 0
  BY ConstantsAssumption
<1>14. FirstCell(b) \in New /\ FirstCell(b) # Null
  BY <1>11, ConstantsAssumption, NullAssumption DEF FirstCell
<1>15. head[i] \in Free /\ head[i] # FirstCell(b)
  BY <1>1, <1>8, <1>14 DEF Good, Lists, HeadsFree
<1>16. \A c \in New : word[c] = head[i] \/ word[c] \in New \ {FirstCell(b)}
  <2>1. \A n \in 1 .. CellsPerBlock - 1 : word[<<b, n>>] \in New \ {FirstCell(b)}
    BY <1>11, <1>12, <1>13 DEF FirstCell
  <2> QED
    BY <1>10, <1>12, <2>1
<1>17. \A c, d \in New : word[c] = word[d] => c = d
  <2>1. \A n \in 1 .. CellsPerBlock - 1 : word[<<b, n>>] # head[i]
    BY <1>8, <1>11, <1>12, <1>13, <1>15
  <2>2. ASSUME NEW n \in 1 .. CellsPerBlock - 1, NEW m \in 1 .. CellsPerBlock - 1,
               word[<<b, n>>] = word[<<b, m>>]
        PROVE  n = m
    <3>1. (n + 1) % CellsPerBlock = (m + 1) % CellsPerBlock
      BY <1>12, <2>2
    <3>2. n \in Nat /\ m \in Nat /\ CellsPerBlock \in Nat
          /\ n + 1 <= CellsPerBlock /\ m + 1 <= CellsPerBlock
      BY ConstantsAssumption
    <3> QED
      BY <1>13, <3>1, <3>2
  <2> QED
    BY <1>10, <1>12, <2>1, <2>2
<1>18. Lists'
  <2>1. HeadsFree'
    BY <1>1, <1>8, <1>14 DEF Good, Lists, HeadsFree
  <2>2. LinksFree'
    BY <1>1, <1>8, <1>15, <1>16 DEF Good, Lists, LinksFree
  <2>3. OneLinkTo'
    BY <1>1, <1>8, <1>15, <1>16, <1>17 DEF Good, Lists, OneLinkTo, LinksFree, HeadUnlinked
  <2>4. HeadUnlinked'
    <3>1. ASSUME NEW c \in Free', NEW j \in Barrel PROVE word[c] # head'[j]
      <4>1. CASE c \in Free /\ j # i
        BY <1>1, <4>1 DEF Good, Lists, HeadUnlinked
      <4>2. CASE c \in Free /\ j = i
        BY <1>1, <1>8, <1>14, <4>2 DEF Good, Lists, LinksFree
      <4>3. CASE c \in New /\ j # i
        BY <1>1, <1>8, <1>16, <4>3 DEF Good, Lists, HeadsFree, HeadsDiffer
      <4>4. CASE c \in New /\ j = i
        BY <1>1, <1>15, <1>16, <4>4
      <4> QED
        BY <1>8, <4>1, <4>2, <4>3, <4>4
    <3> QED
      BY <1>1, <3>1 DEF HeadUnlinked
  <2>5. HeadsDiffer'
    BY <1>1, <1>8, <1>14 DEF Good, Lists, HeadsDiffer, HeadsFree
  <2> QED
    BY <2>1, <2>2, <2>3, <2>4, <2>5 DEF Lists
<1>19. ASSUME NEW u \in Thread PROVE Knows(u)'
  <2>1. CASE u = t
    <3>1. reg[t].old \in Free /\ reg[t].nval = Null
      BY <1>1, <1>5 DEF Knows, AllocKnows
    <3>2. head'[i] # reg[t].old
      BY <1>1, <1>8, <1>14, <3>1
    <3>3. AllocKnows(u)'
      BY <1>1, <1>8, <2>1, <3>1, <3>2 DEF AllocKnows
    <3> QED
      BY <1>1, <1>2, <2>1, <3>3 DEF Knows, BlockIsList, FreeKnows
  <2>2. CASE u # t
    <3>1. ~InAlloc(u) /\ ~InCreate(u)
      BY <1>3, <1>4, <2>2
    <3>2. pc'[u] = pc[u] /\ reg'[u] = reg[u] /\ Knows(u)
      BY <1>1, <2>2 DEF Good
    <3> QED
      BY <1>1, <3>1, <3>2 DEF Knows, AllocKnows, BlockIsList, FreeKnows, InAlloc, InCreate
  <2> QED
    BY <2>1, <2>2
<1>20. New \cap (held \cup Returning) = {}
  BY <1>6 DEF Good, Placed
<1>21. Good' /\ Returning' = Returning /\ held' = held
  BY <1>1, <1>7, <1>9, <1>18, <1>19 DEF Good
<1>22. /\ \A c \in Cell : c \in Free' <=> c \in Free \/ c[1] = b
       /\ \A c \in Free : c[1] # b
  BY <1>8 DEF Free, HeapCells
<1>23. \E S \in SUBSET Cell : S \cap (Free \cup held \cup Returning) = {} /\ Free' = Free \cup S
  BY <1>8, <1>20
<1> QED
  BY <1>5, <1>12, <1>21, <1>22, <1>23

-----------------------------------------------------------------------------
(* The invariant of the pool with one allocating thread. *)
LEMMA InvInit == Init => IInv
<1> SUFFICES ASSUME Init PROVE Good
  BY DEF IInv
<1> USE ConstantsAssumption, NullAssumption, FirstAssumption
<1>1. held = {} /\ Returning = {} /\ Building = {}
  BY DEF Init, Returning, Building, InFree, InCreate
<1>2. Free = HeapCells /\ \A c \in Cell : c \in Free <=> \E i \in Barrel : c[1] = first[i]
  BY <1>1 DEF Free, HeapCells, Init
<1>3. Placed
  BY <1>1 DEF Placed, Init, InFree
<1>4. \A c \in Free : /\ c \in Cell /\ c = <<c[1], c[2]>>
                      /\ c[2] = 0 => word[c] = Null
                      /\ c[2] # 0 => /\ c[2] \in 1 .. CellsPerBlock - 1
                                     /\ word[c] = <<c[1], (c[2] + 1) % CellsPerBlock>>
  <2> SUFFICES ASSUME NEW c \in Free
               PROVE  /\ c \in Cell /\ c = <<c[1], c[2]>>
                      /\ c[2] = 0 => word[c] = Null
                      /\ c[2] # 0 => /\ c[2] \in 1 .. CellsPerBlock - 1
                                     /\ word[c] = <<c[1], (c[2] + 1) % CellsPerBlock>>
    OBVIOUS
  <2>1. c \in Cell /\ c[1] \in heap
    BY <1>2 DEF HeapCells
  <2>2. c = <<c[1], c[2]>> /\ c[2] \in 0 .. CellsPerBlock - 1
    BY <2>1 DEF Cell
  <2>3. c[2] # 0 => c[2] \in 1 .. CellsPerBlock - 1
    BY <2>2
  <2>4. word[c] = IF c[2] = 0 THEN Null ELSE <<c[1], (c[2] + 1) % CellsPerBlock>>
    BY <2>1 DEF Init
  <2> QED
    BY <2>1, <2>2, <2>3, <2>4
<1>5. \A n \in 1 .. CellsPerBlock - 1 :
        /\ (n + 1) % CellsPerBlock \in 0 .. CellsPerBlock - 1
        /\ (n + 1) % CellsPerBlock # 1
        /\ n + 1 < CellsPerBlock => (n + 1) % CellsPerBlock = n + 1
        /\ n + 1 = CellsPerBlock => (n + 1) % CellsPerBlock = 0
  OBVIOUS
<1>6. HeadsFree
  BY <1>2, SMTT(30) DEF HeadsFree, Init, FirstCell, Cell
<1>7. LinksFree
  <2>1. ASSUME NEW c \in Free, c[2] # 0 PROVE word[c] \in Free
    <3>1. word[c] = <<c[1], (c[2] + 1) % CellsPerBlock>> /\ c[2] \in 1 .. CellsPerBlock - 1
      BY <1>4, <2>1
    <3>2. (c[2] + 1) % CellsPerBlock \in 0 .. CellsPerBlock - 1
      BY <1>5, <3>1
    <3>3. c[1] \in Block /\ \E i \in Barrel : c[1] = first[i]
      BY <1>2, <1>4 DEF Cell
    <3>4. word[c] \in Cell /\ word[c][1] = c[1]
      BY <3>1, <3>2, <3>3 DEF Cell
    <3> QED
      BY <1>2, <3>3, <3>4
  <2> QED
    BY <1>4, <2>1 DEF LinksFree
<1>8. OneLinkTo
  <2>1. ASSUME NEW c \in Free, NEW d \in Free, word[c] = word[d], word[c] # Null PROVE c = d
    <3>1. c[2] \in 1 .. CellsPerBlock - 1 /\ d[2] \in 1 .. CellsPerBlock - 1
      BY <1>4, <2>1
    <3>2. c[1] = d[1] /\ (c[2] + 1) % CellsPerBlock = (d[2] + 1) % CellsPerBlock
      BY <1>4, <2>1, <3>1
    <3>3. c[2] = d[2]
      <4>1. c[2] \in Nat /\ d[2] \in Nat /\ c[2] + 1 <= CellsPerBlock /\ d[2] + 1 <= CellsPerBlock
        BY <3>1
      <4> QED
        BY <1>5, <3>1, <3>2, <4>1
    <3> QED
      BY <1>4, <3>2, <3>3
  <2> QED
    BY <2>1 DEF OneLinkTo
<1>9. HeadUnlinked
  <2>1. ASSUME NEW c \in Free, NEW i \in Barrel PROVE word[c] # head[i]
    <3>1. head[i] = <<first[i], 1>> /\ head[i] \in Cell
      BY DEF Init, FirstCell, Cell
    <3>2. CASE c[2] = 0
      BY <1>4, <3>1, <3>2
    <3>3. CASE c[2] # 0
      <4>1. c[2] \in 1 .. CellsPerBlock - 1 /\ word[c] = <<c[1], (c[2] + 1) % CellsPerBlock>>
        BY <1>4, <3>3
      <4>2. (c[2] + 1) % CellsPerBlock # 1
        BY <1>5, <4>1
      <4> QED
        BY <3>1, <4>1, <4>2
    <3> QED
      BY <3>2, <3>3
  <2> QED
    BY <2>1 DEF HeadUnlinked
<1>10. HeadsDiffer
  BY DEF HeadsDiffer, Init, FirstCell
<1>11. \A t \in Thread : Knows(t)
  BY DEF Init, Knows, AllocKnows, BlockIsList, FreeKnows, InCreate
<1> QED
  BY <1>3, <1>6, <1>7, <1>8, <1>9, <1>10, <1>11 DEF Good, Lists

LEMMA InvStep ==
  ASSUME OneAllocator, TypeOK, IInv, [Next]_vars
  PROVE  IInv'
<1> SUFFICES ASSUME Live' PROVE Good'
  BY DEF IInv
<1>1. CASE UNCHANGED vars
  <2>1. Good
    BY <1>1 DEF vars, Live, IInv
  <2> QED
    BY <1>1, <2>1 DEF vars, Good, Placed, Lists, HeadsFree, LinksFree, OneLinkTo, HeadUnlinked,
       HeadsDiffer, Knows, AllocKnows, BlockIsList, FreeKnows, Free, HeapCells, Returning, Building,
       InFree, InCreate
<1>2. CASE DestroyBegin \/ DestroyBlock
  <2>1. CASE DestroyBegin
    BY <2>1 DEF DestroyBegin, Live
  <2>2. CASE DestroyBlock
    <3>1. dtor.phase = "walk" /\ dtor'.phase \in {"walk", "done"}
      BY <2>2 DEF DestroyBlock, TypeOK
    <3> QED
      BY <3>1 DEF Live
  <2> QED
    BY <1>2, <2>1, <2>2
<1>3. ASSUME Live, NEW t \in Thread, AllocPick(t) \/ AllocStep(t) \/ FreeStep(t)
      PROVE  Good'
  <2>1. Good
    BY <1>3 DEF IInv
  <2>2. CASE CreateNew(t)
    BY <2>1, <2>2, CreateNewStep
  <2>3. CASE AllocCas(t) /\ head[reg[t].idx] = reg[t].old
    BY <2>1, <2>3, AllocCasStep
  <2>4. CASE FreeCas(t) /\ head[reg[t].idx] = reg[t].old
    BY <2>1, <2>4, FreeCasStep
  <2>5. CASE CreatePush(t) /\ head[reg[t].idx] = reg[t].top
    BY <2>1, <2>5, CreatePushStep
  <2>6. CASE \/ AllocPick(t) \/ AllocReadHead(t) \/ AllocReadNext(t)
             \/ AllocCas(t) /\ head[reg[t].idx] # reg[t].old
             \/ CreateThrows(t) \/ CreateWalk(t) \/ CreateLink(t) \/ CreateReadTop(t)
             \/ CreatePush(t) /\ head[reg[t].idx] # reg[t].top
             \/ FreeReadHead(t) \/ FreeWriteWord(t)
             \/ FreeCas(t) /\ head[reg[t].idx] # reg[t].old
    BY <1>3, <2>1, <2>6, QuietSteps
  <2> QED
    BY <1>3, <2>2, <2>3, <2>4, <2>5, <2>6 DEF AllocStep, FreeStep
<1>4. ASSUME Live, NEW t \in Thread, NEW c \in Cell, FreePick(t, c) PROVE Good'
  BY <1>4, FreePickStep DEF IInv
<1>5. ASSUME Live, NEW c \in Cell, NEW v \in UserWord, ClientWrite(c, v) PROVE Good'
  BY <1>5, ClientWriteStep DEF IInv
<1> QED
  BY <1>1, <1>2, <1>3, <1>4, <1>5 DEF Next, Ended

(* With one allocating thread every cell has one place, the free lists are  *)
(* disjoint, and what the threads have read of them is still true.         *)
THEOREM PoolInvariant == OneAllocator /\ Spec => [](TypeOK /\ IInv)
<1> SUFFICES ASSUME OneAllocator PROVE Spec => [](TypeOK /\ IInv)
  OBVIOUS
<1>1. Init => TypeOK /\ IInv
  BY TypeInit, InvInit
<1>2. TypeOK /\ IInv /\ [Next]_vars => (TypeOK /\ IInv)'
  BY TypeStep, InvStep
<1> QED
  BY <1>1, <1>2, PTL DEF Spec

(* With one allocating thread, the cell that allocate() is about to pop      *)
(* belongs to nobody, however many threads give cells back meanwhile       *)
(* (memory_pool.hpp:119-133, 145-153).                                     *)
THEOREM AllocatedCellWasFree == OneAllocator /\ Spec => []HeadsAreFree
<1>1. IInv => HeadsAreFree
  BY DEF IInv, Good, Lists, HeadsFree, HeadsAreFree
<1> QED
  BY <1>1, PoolInvariant, PTL

(* With one allocating thread the free lists never share a cell. *)
THEOREM ListsStayDisjoint == OneAllocator /\ Spec => []FreeListsDisjoint
<1>1. IInv => FreeListsDisjoint
  BY DEF IInv, Good, Lists, LinksFree, OneLinkTo, HeadUnlinked, HeadsDiffer, FreeListsDisjoint
<1> QED
  BY <1>1, PoolInvariant, PTL

-----------------------------------------------------------------------------
(* The pool implements the allocator. *)
LEMMA PromiseInit == Init => Promise!Init
<1> SUFFICES ASSUME Init PROVE Promise!Init
  OBVIOUS
<1>1. held = {} /\ Returning = {}
  BY DEF Init, Returning, InFree
<1>2. Free \in SUBSET Cell
  BY DEF Free, HeapCells
<1>3. Live = TRUE
  BY DEF Init, Live
<1> QED
  BY <1>1, <1>2, <1>3 DEF Promise!Init

LEMMA PromiseStep ==
  ASSUME OneAllocator, TypeOK, IInv, [Next]_vars
  PROVE  [Promise!Next]_(Promise!vars)
<1> USE DEF Promise!Next, Promise!vars
<1>1. CASE UNCHANGED vars
  BY <1>1 DEF vars, Free, HeapCells, Returning, Building, InFree, InCreate, Live
<1>2. CASE DestroyBegin
  <2>1. Free' = Free /\ Returning' = Returning /\ HeapCells' = HeapCells /\ held' = held
    BY <1>2 DEF DestroyBegin, Free, HeapCells, Returning, Building, InFree, InCreate
  <2>2. Live = TRUE /\ Live' = FALSE /\ Returning = {}
    BY <1>2 DEF DestroyBegin, Live, Returning, InFree
  <2> QED
    BY <2>1, <2>2 DEF Promise!Close
<1>3. CASE DestroyBlock
  <2> DEFINE S == {c \in Cell : c[1] = dtor.next}
  <2>1. HeapCells' = HeapCells \ S /\ held' = held
    BY <1>3 DEF DestroyBlock, HeapCells
  <2>2. Returning' = Returning /\ Building' = Building
    BY <1>3 DEF DestroyBlock, Returning, Building, InFree, InCreate
  <2>3. Free' = Free \ S
    BY <2>1, <2>2 DEF Free
  <2>4. Live = FALSE /\ Live' = FALSE
    <3>1. dtor.phase = "walk" /\ dtor'.phase \in {"walk", "done"}
      BY <1>3 DEF DestroyBlock, TypeOK
    <3> QED
      BY <3>1 DEF Live
  <2>5. Promise!Retire(S)
    BY <2>1, <2>2, <2>3, <2>4 DEF Promise!Retire
  <2> QED
    BY <2>5
<1>4. ASSUME Live, Live', held \subseteq HeapCells, held' \subseteq HeapCells',
             \/ Free' = Free /\ Returning' = Returning /\ held' = held
             \/ /\ Free' = Free
                /\ \E c \in Cell : c \in held /\ held' = held \ {c} /\ Returning' = Returning \cup {c}
             \/ /\ Returning' = Returning
                /\ \E c \in Cell : c \in Free /\ Free' = Free \ {c} /\ held' = held \cup {c}
             \/ /\ held' = held
                /\ \E c \in Cell : c \in Returning /\ Returning' = Returning \ {c} /\ Free' = Free \cup {c}
             \/ /\ Returning' = Returning /\ held' = held
                /\ \E S \in SUBSET Cell : S \cap (Free \cup held \cup Returning) = {} /\ Free' = Free \cup S
      PROVE  [Promise!Next]_(Promise!vars)
  <2>1. held \cap HeapCells = held /\ held' \cap HeapCells' = held' /\ Live = TRUE /\ Live' = TRUE
    BY <1>4 DEF Live
  <2> QED
    BY <1>4, <2>1 DEF Promise!Grow, Promise!Allocate, Promise!Deallocate, Promise!Recycle
<1>5. Good /\ Good' => held \subseteq HeapCells /\ held' \subseteq HeapCells'
  BY DEF Good, Placed
<1>6. ASSUME Live, NEW t \in Thread, AllocPick(t) \/ AllocStep(t) \/ FreeStep(t)
      PROVE  [Promise!Next]_(Promise!vars)
  <2>1. Good
    BY <1>6 DEF IInv
  <2>2. Live'
    BY <1>6 DEF Live, AllocPick, AllocStep, AllocReadHead, AllocReadNext, AllocCas, CreateNew, CreateThrows,
       CreateWalk, CreateLink, CreateReadTop, CreatePush, FreeStep, FreeReadHead, FreeWriteWord, FreeCas
  <2>3. CASE CreateNew(t)
    BY <1>4, <1>5, <1>6, <2>1, <2>2, <2>3, CreateNewStep
  <2>4. CASE AllocCas(t) /\ head[reg[t].idx] = reg[t].old
    BY <1>4, <1>5, <1>6, <2>1, <2>2, <2>4, AllocCasStep
  <2>5. CASE FreeCas(t) /\ head[reg[t].idx] = reg[t].old
    BY <1>4, <1>5, <1>6, <2>1, <2>2, <2>5, FreeCasStep
  <2>6. CASE CreatePush(t) /\ head[reg[t].idx] = reg[t].top
    BY <1>4, <1>5, <1>6, <2>1, <2>2, <2>6, CreatePushStep
  <2>7. CASE \/ AllocPick(t) \/ AllocReadHead(t) \/ AllocReadNext(t)
             \/ AllocCas(t) /\ head[reg[t].idx] # reg[t].old
             \/ CreateThrows(t) \/ CreateWalk(t) \/ CreateLink(t) \/ CreateReadTop(t)
             \/ CreatePush(t) /\ head[reg[t].idx] # reg[t].top
             \/ FreeReadHead(t) \/ FreeWriteWord(t)
             \/ FreeCas(t) /\ head[reg[t].idx] # reg[t].old
    BY <1>4, <1>5, <1>6, <2>1, <2>2, <2>7, QuietSteps
  <2> QED
    BY <1>6, <2>3, <2>4, <2>5, <2>6, <2>7 DEF AllocStep, FreeStep
<1>7. ASSUME Live, NEW t \in Thread, NEW c \in Cell, FreePick(t, c)
      PROVE  [Promise!Next]_(Promise!vars)
  <2>1. Good /\ Live'
    BY <1>7 DEF IInv, FreePick, Live
  <2> QED
    BY <1>4, <1>5, <1>7, <2>1, FreePickStep
<1>8. ASSUME Live, NEW c \in Cell, NEW v \in UserWord, ClientWrite(c, v)
      PROVE  [Promise!Next]_(Promise!vars)
  <2>1. Good /\ Live'
    BY <1>8 DEF IInv, ClientWrite, Live
  <2> QED
    BY <1>4, <1>5, <1>8, <2>1, ClientWriteStep
<1> QED
  BY <1>1, <1>2, <1>3, <1>6, <1>7, <1>8 DEF Next, Ended

(* With one allocating thread the pool keeps its promise: no cell is handed  *)
(* out while a client owns it or while it is being given back, and none is *)
(* taken from a client (memory_pool.hpp:109-112, 247).                     *)
THEOREM PoolImplementsAllocator == OneAllocator /\ Spec => ImplementsAllocator
<1>1. TypeOK /\ IInv /\ OneAllocator /\ [Next]_vars => [Promise!Next]_(Promise!vars)
  BY PromiseStep
<1>2. Spec => Init /\ [][Next]_vars
  BY DEF Spec
<1>3. ImplementsAllocator <=> Promise!Init /\ [][Promise!Next]_(Promise!vars)
  BY DEF ImplementsAllocator, Promise!Spec
<1> SUFFICES ASSUME OneAllocator PROVE Spec => ImplementsAllocator
  OBVIOUS
<1> QED
  BY <1>1, <1>2, <1>3, PromiseInit, PoolInvariant, PTL

(* Whatever the number of allocating threads, the header word that chains a  *)
(* block to the next is written once, so no block of a chain is ever lost  *)
(* (memory_pool.hpp:69-75).                                                *)
THEOREM HeadersAreStable == Spec => HeaderWrittenOnce
<1>1. ASSUME TypeOK, [Next]_vars, NEW b \in heap, nextBlock[b] # Null
      PROVE  nextBlock'[b] = nextBlock[b]
  <2>1. CASE UNCHANGED vars
    BY <2>1 DEF vars
  <2>2. ASSUME NEW t \in Thread, CreateNew(t) PROVE nextBlock'[b] = nextBlock[b]
    BY <1>1, <2>2 DEF CreateNew, TypeOK
  <2>3. ASSUME NEW t \in Thread, CreateLink(t) PROVE nextBlock'[b] = nextBlock[b]
    BY <1>1, <2>3 DEF CreateLink, TypeOK
  <2>4. CASE UNCHANGED nextBlock
    BY <2>4
  <2> QED
    BY <1>1, <2>1, <2>2, <2>3, <2>4 DEF Next, Ended, AllocPick, AllocStep, AllocReadHead, AllocReadNext,
       AllocCas, CreateThrows, CreateWalk, CreateReadTop, CreatePush, FreeStep, FreeReadHead,
       FreeWriteWord, FreeCas, FreePick, ClientWrite, DestroyBegin, DestroyBlock
<1>2. TypeOK /\ [Next]_vars => [\A b \in heap : nextBlock[b] # Null => nextBlock'[b] = nextBlock[b]]_vars
  BY <1>1
<1> QED
  BY <1>2, TypeCorrect, PTL DEF Spec, HeaderWrittenOnce
-----------------------------------------------------------------------------
(* The chains of blocks, for any number of allocating threads.  n[i] is the *)
(* place of the last block on the chain of barrel i, c[i][k] the block in  *)
(* place k.                                                                *)
Heights == [Barrel -> Nat]
Columns == [Barrel -> [Nat -> Block]]

Chains(n, c) ==
  \A i \in Barrel :
    /\ c[i][0] = first[i] /\ nextBlock[c[i][n[i]]] = Null
    /\ \A k \in 1 .. n[i] : nextBlock[c[i][k - 1]] = c[i][k]

Apart(n, c) ==
  \A i, j \in Barrel : \A k \in 0 .. n[i], m \in 0 .. n[j] :
    c[i][k] = c[j][m] => i = j /\ k = m

On(n, c, b) == \E i \in Barrel : \E k \in 0 .. n[i] : c[i][k] = b

(* A thread on its way to link its block follows blocks that are linked.   *)
Linking(t) == pc[t] \in {"walk", "link"}
Linked     == heap \ Unlinked

Linkers ==
  /\ \A t \in Thread : Linking(t) =>
       reg[t].blk \in heap /\ nextBlock[reg[t].blk] = Null /\ reg[t].at \in Linked
  /\ \A t, u \in Thread : Linking(t) /\ Linking(u) /\ reg[t].blk = reg[u].blk => t = u

(* What the destructor has still to delete: from its block on.             *)
Left(n, c, b) ==
  \E i \in Barrel : \E k \in 0 .. n[i] :
    /\ c[i][k] = b
    /\ \/ dtor.barrel < i
       \/ dtor.barrel = i /\ \E m \in 0 .. k : c[i][m] = dtor.next

HeapKnown(n, c) ==
  /\ Live => \A b \in Block : b \in Linked <=> On(n, c, b)
  /\ ~Live => \A t \in Thread : pc[t] = "idle"
  /\ dtor.phase = "walk" => /\ \E m \in 0 .. n[dtor.barrel] : c[dtor.barrel][m] = dtor.next
                            /\ \A b \in Block : b \in heap <=> Left(n, c, b)
  /\ dtor.phase = "done" => heap = {}

Chained(n, c) == Chains(n, c) /\ Apart(n, c) /\ Linkers /\ HeapKnown(n, c)

ChainInv == \E n \in Heights, c \in Columns : Chained(n, c)

(* The blocks of a chain that a linking thread follows stay on the chain.  *)
LEMMA NextIsLinked ==
  ASSUME TypeOK, NEW n \in Heights, NEW c \in Columns, Chained(n, c), Live,
         NEW b \in Linked, nextBlock[b] # Null
  PROVE  nextBlock[b] \in Linked
<1>0. b \in Block
  BY DEF TypeOK, Linked
<1>1. PICK i \in Barrel : \E k \in 0 .. n[i] : c[i][k] = b
  BY <1>0 DEF Chained, HeapKnown, On
<1>2. PICK k \in 0 .. n[i] : c[i][k] = b
  BY <1>1
<1>3. n[i] \in Nat /\ k # n[i]
  BY <1>2 DEF Chained, Chains, Heights
<1>4. k + 1 \in 1 .. n[i] /\ k + 1 \in 0 .. n[i] /\ k + 1 - 1 = k
  BY <1>3
<1>5. nextBlock[b] = c[i][k + 1]
  BY <1>2, <1>4 DEF Chained, Chains
<1>6. On(n, c, nextBlock[b])
  BY <1>4, <1>5 DEF On
<1>7. nextBlock[b] \in Block
  BY <1>0 DEF TypeOK
<1> QED BY <1>6, <1>7 DEF Chained, HeapKnown

(* The constructor makes chains of one block. *)
LEMMA ChainInit == Init => ChainInv
<1> SUFFICES ASSUME Init PROVE ChainInv
  OBVIOUS
<1> USE ConstantsAssumption, NullAssumption, FirstAssumption
<1>1. PICK n, c : n = [i \in Barrel |-> 0] /\ c = [i \in Barrel |-> [k \in Nat |-> first[i]]]
  OBVIOUS
<1>2. n \in Heights /\ c \in Columns /\ \A i \in Barrel : n[i] = 0 /\ c[i][0] = first[i]
  BY <1>1 DEF Heights, Columns
<1>3. Chains(n, c) /\ Apart(n, c)
  <2>1. \A i \in Barrel : nextBlock[first[i]] = Null
    BY DEF Init
  <2> QED BY <1>2, <2>1 DEF Chains, Apart
<1>4. \A b : On(n, c, b) <=> \E i \in Barrel : first[i] = b
  BY <1>2 DEF On
<1>5. \A t \in Thread : ~Linking(t)
  BY DEF Init, Linking
<1>6. Linked = {first[i] : i \in Barrel}
  BY <1>5 DEF Linked, Unlinked, Linking, Init
<1>7. HeapKnown(n, c)
  BY <1>4, <1>6 DEF Init, HeapKnown, Live
<1> QED BY <1>2, <1>3, <1>5, <1>7 DEF ChainInv, Chained, Linkers

(* Most steps leave the blocks alone and move a linking thread at most to   *)
(* the next block.                                                         *)
Still ==
  /\ UNCHANGED <<nextBlock, heap, dtor>>
  /\ Live \/ pc' = pc
  /\ \A u \in Thread : Linking(u)' <=> Linking(u)
  /\ \A u \in Thread : Linking(u) =>
       /\ reg'[u].blk = reg[u].blk
       /\ \/ reg'[u].at = reg[u].at
          \/ nextBlock[reg[u].at] # Null /\ reg'[u].at = nextBlock[reg[u].at]

(* They keep the chains as they are. *)
LEMMA StillKeeps ==
  ASSUME TypeOK, NEW n \in Heights, NEW c \in Columns, Chained(n, c), Still
  PROVE  Chained(n, c)'
<1>1. Unlinked' = Unlinked /\ Linked' = Linked
  BY DEF Still, Unlinked, Linked, Linking
<1>2. Chains(n, c)' /\ Apart(n, c)'
  BY DEF Chained, Chains, Apart, Still
<1>3. HeapKnown(n, c)'
  BY <1>1 DEF Chained, HeapKnown, Still, Live, On, Left
<1>4. Linkers'
  <2>1. ASSUME NEW u \in Thread, Linking(u)'
        PROVE  reg'[u].blk \in heap' /\ nextBlock'[reg'[u].blk] = Null /\ reg'[u].at \in Linked'
    <3>1. Linking(u) /\ reg'[u].blk = reg[u].blk /\ reg[u].at \in Linked /\ Live
          /\ reg[u].blk \in heap /\ nextBlock[reg[u].blk] = Null
      BY <2>1 DEF Still, Chained, Linkers, HeapKnown, Linking
    <3>2. reg'[u].at \in Linked
      BY <3>1, NextIsLinked DEF Still
    <3> QED BY <1>1, <3>1, <3>2 DEF Still
  <2>2. \A u, w \in Thread : Linking(u)' /\ Linking(w)' /\ reg'[u].blk = reg'[w].blk => u = w
    BY DEF Still, Chained, Linkers
  <2> QED BY <2>1, <2>2 DEF Linkers
<1> QED BY <1>2, <1>3, <1>4 DEF Chained

(* All steps but a new block and a successful link are such. *)
LEMMA StillSteps ==
  ASSUME TypeOK, Live, NEW t \in Thread,
         \/ AllocPick(t) \/ AllocReadHead(t) \/ AllocReadNext(t) \/ AllocCas(t)
         \/ CreateThrows(t) \/ CreateWalk(t) \/ CreateReadTop(t) \/ CreatePush(t)
         \/ CreateLink(t) /\ nextBlock[reg[t].at] # Null
         \/ FreeReadHead(t) \/ FreeWriteWord(t) \/ FreeCas(t)
         \/ \E x \in Cell : FreePick(t, x)
  PROVE  Still
<1> DEFINE Moves ==
      /\ UNCHANGED <<nextBlock, heap, dtor>>
      /\ \A u \in Thread : u # t => pc'[u] = pc[u] /\ reg'[u] = reg[u]
      /\ \/ ~Linking(t) /\ ~Linking(t)'
         \/ /\ Linking(t) /\ Linking(t)' /\ reg'[t].blk = reg[t].blk
            /\ \/ reg'[t].at = reg[t].at
               \/ nextBlock[reg[t].at] # Null /\ reg'[t].at = nextBlock[reg[t].at]
<1>1. Moves => Still
  BY DEF Still, Linking
<1>2. /\ pc \in [Thread -> PcLabels] /\ reg \in [Thread -> Registers]
      /\ reg[t] \in Registers
  BY DEF TypeOK
<1> USE <1>2 DEF Goto, Linking
<1>3. CASE AllocPick(t)
  BY <1>1, <1>3 DEF AllocPick
<1>4. CASE AllocReadHead(t)
  BY <1>1, <1>4 DEF AllocReadHead
<1>5. CASE AllocReadNext(t)
  BY <1>1, <1>5 DEF AllocReadNext
<1>6. CASE AllocCas(t)
  BY <1>1, <1>6 DEF AllocCas
<1>7. CASE CreateThrows(t)
  BY <1>1, <1>7 DEF CreateThrows
<1>8. CASE CreateWalk(t)
  BY <1>1, <1>8 DEF CreateWalk, Registers
<1>9. CASE CreateReadTop(t)
  BY <1>1, <1>9 DEF CreateReadTop
<1>10. CASE CreatePush(t)
  BY <1>1, <1>10 DEF CreatePush
<1>11. CASE CreateLink(t) /\ nextBlock[reg[t].at] # Null
  BY <1>1, <1>11 DEF CreateLink, Registers
<1>12. CASE FreeReadHead(t)
  BY <1>1, <1>12 DEF FreeReadHead
<1>13. CASE FreeWriteWord(t)
  BY <1>1, <1>13 DEF FreeWriteWord
<1>14. CASE FreeCas(t)
  BY <1>1, <1>14 DEF FreeCas
<1>15. CASE \E x \in Cell : FreePick(t, x)
  BY <1>1, <1>15 DEF FreePick
<1> QED BY <1>3, <1>4, <1>5, <1>6, <1>7, <1>8, <1>9, <1>10, <1>11, <1>12, <1>13, <1>14, <1>15

(* A new block belongs to its creator, which has it to itself. *)
LEMMA ChainNew ==
  ASSUME TypeOK, NEW n \in Heights, NEW c \in Columns, Chained(n, c), Live,
         NEW t \in Thread, CreateNew(t)
  PROVE  Chained(n, c)'
<1>1. PICK b \in Block \ heap :
        /\ heap' = heap \cup {b}
        /\ nextBlock' = [nextBlock EXCEPT ![b] = Null]
        /\ reg' = [reg EXCEPT ![t] = [@ EXCEPT !.blk = b, !.at = first[reg[t].idx]]]
  BY DEF CreateNew
<1>2. /\ pc[t] = "new" /\ pc' = [pc EXCEPT ![t] = "walk"] /\ dtor' = dtor
      /\ pc \in [Thread -> PcLabels] /\ reg \in [Thread -> Registers] /\ reg[t].idx \in Barrel
      /\ nextBlock \in [Block -> Block \cup {Null}]
  BY DEF CreateNew, Goto, TypeOK, Registers
<1>3. /\ \A u \in Thread : u # t => reg'[u] = reg[u] /\ (Linking(u)' <=> Linking(u))
      /\ reg'[t].blk = b /\ reg'[t].at = first[reg[t].idx] /\ ~Linking(t) /\ Linking(t)'
  BY <1>1, <1>2 DEF Registers, Linking
<1>4. \A u \in Thread : Linking(u) => reg[u].blk # b
  BY <1>1 DEF Chained, Linkers
<1>5. Unlinked' = Unlinked \cup {b}
  <2>1. \A x : x \in Unlinked' <=> x \in Unlinked \/ x = b
    BY <1>1, <1>3 DEF Unlinked, Linking, Chained, Linkers
  <2> QED BY <2>1
<1>6. Linked' = Linked
  BY <1>1, <1>5 DEF Linked
<1>7. \A i \in Barrel : \A k \in 0 .. n[i] : c[i][k] \in Linked /\ c[i][k] # b
  <2> SUFFICES ASSUME NEW i \in Barrel, NEW k \in 0 .. n[i] PROVE c[i][k] \in Linked /\ c[i][k] # b
    OBVIOUS
  <2>1. c[i][k] \in Block /\ On(n, c, c[i][k])
    BY DEF Columns, Heights, On
  <2> QED BY <1>1, <2>1 DEF Chained, HeapKnown, Linked
<1>8. \A x \in Block : x # b => nextBlock'[x] = nextBlock[x]
  BY <1>1, <1>2
<1>9. Chains(n, c)'
  <2> SUFFICES ASSUME NEW i \in Barrel
               PROVE  /\ c[i][0] = first[i] /\ nextBlock'[c[i][n[i]]] = Null
                      /\ \A k \in 1 .. n[i] : nextBlock'[c[i][k - 1]] = c[i][k]
    BY DEF Chains
  <2>1. n[i] \in Nat /\ n[i] \in 0 .. n[i] /\ \A k \in 1 .. n[i] : k - 1 \in 0 .. n[i]
    BY DEF Heights
  <2>2. \A k \in 0 .. n[i] : nextBlock'[c[i][k]] = nextBlock[c[i][k]]
    BY <1>7, <1>8 DEF Columns, Heights
  <2> QED BY <2>1, <2>2 DEF Chained, Chains
<1>10. HeapKnown(n, c)'
  BY <1>2, <1>6 DEF Chained, HeapKnown, Live, On
<1>11. Linkers'
  <2>1. first[reg[t].idx] \in Linked
    <3>1. c[reg[t].idx][0] = first[reg[t].idx] /\ 0 \in 0 .. n[reg[t].idx]
      BY <1>2 DEF Chained, Chains, Heights
    <3> QED BY <1>2, <1>7, <3>1
  <2>2. nextBlock'[b] = Null
    BY <1>1, <1>2
  <2>3. ASSUME NEW u \in Thread, Linking(u)'
        PROVE  reg'[u].blk \in heap' /\ nextBlock'[reg'[u].blk] = Null /\ reg'[u].at \in Linked'
    <3>1. CASE u = t
      BY <1>1, <1>3, <1>6, <2>1, <2>2, <3>1
    <3>2. CASE u # t
      <4>1. Linking(u) /\ reg'[u] = reg[u] /\ reg[u].blk \in heap /\ reg[u].blk # b
            /\ nextBlock[reg[u].blk] = Null /\ reg[u].at \in Linked
        BY <1>3, <1>4, <2>3, <3>2 DEF Chained, Linkers
      <4>2. reg[u].blk \in Block
        BY <4>1 DEF TypeOK
      <4>3. nextBlock'[reg[u].blk] = Null
        BY <1>8, <4>1, <4>2
      <4>4. reg'[u].blk \in heap' /\ reg'[u].at \in Linked'
        <5>1. heap' = heap \cup {b}
          BY <1>1
        <5> QED BY <1>6, <4>1, <5>1
      <4> QED BY <4>1, <4>3, <4>4
    <3> QED BY <3>1, <3>2
  <2>4. \A u, w \in Thread : Linking(u)' /\ Linking(w)' /\ reg'[u].blk = reg'[w].blk => u = w
    BY <1>3, <1>4 DEF Chained, Linkers
  <2> QED BY <2>3, <2>4 DEF Linkers
<1> QED BY <1>9, <1>10, <1>11 DEF Chained, Apart

(* A compare-and-set that succeeds puts the block behind the last block of  *)
(* a chain i.                                                              *)
Longer(n, i) == [n EXCEPT ![i] = @ + 1]
Behind(n, c, i, b) == [c EXCEPT ![i] = [@ EXCEPT ![n[i] + 1] = b]]

(* The chains after it. *)
LEMMA ChainLink ==
  ASSUME TypeOK, NEW n \in Heights, NEW c \in Columns, Chained(n, c), Live,
         NEW t \in Thread, CreateLink(t), nextBlock[reg[t].at] = Null
  PROVE  \E m \in Heights, d \in Columns : Chained(m, d)'
<1>1. PICK a, b : a = reg[t].at /\ b = reg[t].blk
  OBVIOUS
<1>2. /\ pc[t] = "link" /\ pc' = [pc EXCEPT ![t] = "top"] /\ UNCHANGED <<dtor, heap>>
      /\ nextBlock' = [nextBlock EXCEPT ![a] = b]
      /\ \A u \in Thread : u # t => reg'[u] = reg[u]
      /\ pc \in [Thread -> PcLabels] /\ nextBlock \in [Block -> Block \cup {Null}]
  BY <1>1 DEF CreateLink, Goto, TypeOK
<1>3. /\ \A u \in Thread : u # t => (Linking(u)' <=> Linking(u))
      /\ Linking(t) /\ ~Linking(t)'
  BY <1>2 DEF Linking
<1>4. a \in Linked /\ b \in heap /\ nextBlock[b] = Null /\ b \in Unlinked /\ nextBlock[a] = Null
      /\ a \in Block /\ b \in Block /\ a # b /\ b # Null
  BY <1>1, <1>2, <1>3, NullAssumption DEF Chained, Linkers, Unlinked, Linking, Linked, TypeOK
<1>5. Unlinked' = Unlinked \ {b}
  <2>1. \A x : x \in Unlinked' <=> x \in Unlinked /\ x # b
    BY <1>1, <1>2, <1>3 DEF Unlinked, Linking, Chained, Linkers
  <2> QED BY <2>1
<1>6. Linked' = Linked \cup {b}
  BY <1>2, <1>4, <1>5 DEF Linked
<1>7. PICK i \in Barrel : \E k \in 0 .. n[i] : c[i][k] = a
  BY <1>4 DEF Chained, HeapKnown, On
<1>8. n[i] \in Nat /\ c[i][n[i]] = a
  <2>1. PICK k \in 0 .. n[i] : c[i][k] = a
    BY <1>7
  <2>2. n[i] \in Nat
    BY DEF Heights
  <2>3. ASSUME k # n[i] PROVE FALSE
    <3>1. k + 1 \in 1 .. n[i] /\ k + 1 \in Nat /\ k + 1 - 1 = k
      BY <2>2, <2>3
    <3>2. nextBlock[a] = c[i][k + 1]
      BY <2>1, <3>1 DEF Chained, Chains
    <3>3. c[i][k + 1] \in Block
      BY <3>1 DEF Columns
    <3> QED BY <1>4, <3>2, <3>3, NullAssumption
  <2> QED BY <2>1, <2>2, <2>3
<1>9. PICK m, d : m = Longer(n, i) /\ d = Behind(n, c, i, b)
  OBVIOUS
<1>10. m \in Heights /\ m[i] = n[i] + 1 /\ \A j \in Barrel : j # i => m[j] = n[j]
  BY <1>8, <1>9 DEF Longer, Heights
<1>11. /\ d \in Columns /\ d[i][n[i] + 1] = b
       /\ \A j \in Barrel : \A k \in 0 .. n[j] : d[j][k] = c[j][k]
  <2>1. c[i] \in [Nat -> Block]
    BY DEF Columns
  <2>2. PICK e : e = [c[i] EXCEPT ![n[i] + 1] = b]
    OBVIOUS
  <2>3. e \in [Nat -> Block] /\ e[n[i] + 1] = b /\ \A k \in 0 .. n[i] : e[k] = c[i][k]
    BY <1>4, <1>8, <2>1, <2>2
  <2>4. d = [c EXCEPT ![i] = e]
    BY <1>9, <2>2 DEF Behind
  <2>5. d \in Columns /\ d[i] = e /\ \A j \in Barrel : j # i => d[j] = c[j]
    BY <2>3, <2>4 DEF Columns
  <2> QED BY <2>3, <2>5
<1>12. \A j \in Barrel : \A k \in 0 .. m[j] : (j = i /\ k = n[i] + 1) \/ k \in 0 .. n[j]
  BY <1>8, <1>10 DEF Heights
<1>13. \A j \in Barrel : \A k \in 0 .. n[j] : k \in 0 .. m[j]
  BY <1>8, <1>10 DEF Heights
<1>14. \A j \in Barrel : \A k \in 0 .. n[j] : c[j][k] # b /\ c[j][k] \in Block
  <2> SUFFICES ASSUME NEW j \in Barrel, NEW k \in 0 .. n[j] PROVE c[j][k] # b /\ c[j][k] \in Block
    OBVIOUS
  <2>1. c[j][k] \in Block /\ On(n, c, c[j][k])
    BY DEF Columns, Heights, On
  <2> QED BY <1>4, <2>1 DEF Chained, HeapKnown, Linked
<1>15. Chains(m, d)'
  <2> SUFFICES ASSUME NEW j \in Barrel
               PROVE  /\ d[j][0] = first[j] /\ nextBlock'[d[j][m[j]]] = Null
                      /\ \A k \in 1 .. m[j] : nextBlock'[d[j][k - 1]] = d[j][k]
    BY DEF Chains
  <2>1. n[j] \in Nat /\ 0 \in 0 .. n[j] /\ n[j] \in 0 .. n[j]
    BY DEF Heights
  <2>2. d[j][0] = first[j]
    BY <1>11, <2>1 DEF Chained, Chains
  <2>3. \A k \in 0 .. n[j] : (j # i \/ k # n[i]) => c[j][k] # a
    BY <1>8 DEF Chained, Apart
  <2>4. nextBlock'[d[j][m[j]]] = Null
    <3>1. CASE j = i
      BY <1>2, <1>4, <1>10, <1>11, <3>1
    <3>2. CASE j # i
      <4>1. d[j][m[j]] = c[j][n[j]] /\ c[j][n[j]] # a /\ c[j][n[j]] \in Block
        BY <1>10, <1>11, <1>14, <2>1, <2>3, <3>2
      <4> QED BY <1>2, <4>1 DEF Chained, Chains
    <3> QED BY <3>1, <3>2
  <2>5. ASSUME NEW k \in 1 .. m[j] PROVE nextBlock'[d[j][k - 1]] = d[j][k]
    <3>1. CASE j = i /\ k = n[i] + 1
      <4>1. k - 1 = n[i] /\ d[j][k - 1] = a
        BY <1>8, <1>11, <2>1, <3>1
      <4> QED BY <1>2, <1>4, <1>11, <3>1, <4>1
    <3>2. CASE ~(j = i /\ k = n[i] + 1)
      <4>1. k \in 1 .. n[j] /\ k \in 0 .. n[j] /\ k - 1 \in 0 .. n[j]
        BY <1>10, <2>1, <3>2
      <4>2. d[j][k] = c[j][k] /\ d[j][k - 1] = c[j][k - 1] /\ nextBlock[c[j][k - 1]] = c[j][k]
        BY <1>11, <4>1 DEF Chained, Chains
      <4>3. c[j][k - 1] # a /\ c[j][k - 1] \in Block
        BY <1>14, <2>1, <2>3, <4>1
      <4> QED BY <1>2, <4>2, <4>3
    <3> QED BY <3>1, <3>2
  <2> QED BY <2>2, <2>4, <2>5
<1>16. Apart(m, d)
  <2> SUFFICES ASSUME NEW j \in Barrel, NEW l \in Barrel, NEW k \in 0 .. m[j], NEW p \in 0 .. m[l],
                      d[j][k] = d[l][p]
               PROVE  j = l /\ k = p
    BY DEF Apart
  <2>1. CASE j = i /\ k = n[i] + 1
    BY <1>11, <1>12, <1>14, <2>1
  <2>2. CASE l = i /\ p = n[i] + 1
    BY <1>11, <1>12, <1>14, <2>2
  <2>3. CASE k \in 0 .. n[j] /\ p \in 0 .. n[l]
    BY <1>11, <2>3 DEF Chained, Apart
  <2> QED BY <1>12, <2>1, <2>2, <2>3
<1>17. \A x : On(m, d, x) <=> On(n, c, x) \/ x = b
  <2>1. ASSUME NEW x, On(m, d, x) PROVE On(n, c, x) \/ x = b
    BY <1>11, <1>12, <2>1 DEF On
  <2>2. ASSUME NEW x, On(n, c, x) PROVE On(m, d, x)
    BY <1>11, <1>13, <2>2 DEF On
  <2>3. On(m, d, b)
    <3>1. n[i] + 1 \in 0 .. m[i]
      BY <1>8, <1>10
    <3> QED BY <1>11, <3>1 DEF On
  <2> QED BY <2>1, <2>2, <2>3
<1>18. HeapKnown(m, d)'
  <2>1. Live'
    BY <1>2 DEF Live
  <2>2. \A x \in Block : x \in Linked' <=> On(m, d, x)
    BY <1>6, <1>17 DEF Chained, HeapKnown
  <2> QED BY <2>1, <2>2 DEF HeapKnown, Live, On
<1>19. Linkers'
  <2>1. ASSUME NEW u \in Thread, Linking(u)'
        PROVE  reg'[u].blk \in heap' /\ nextBlock'[reg'[u].blk] = Null /\ reg'[u].at \in Linked'
    <3>1. u # t /\ Linking(u) /\ reg'[u] = reg[u]
      BY <1>2, <1>3, <2>1
    <3>2. reg[u].blk \in heap /\ nextBlock[reg[u].blk] = Null /\ reg[u].at \in Linked
      BY <3>1 DEF Chained, Linkers
    <3>3. reg[u].blk # a /\ reg[u].blk \in Block
      <4>1. reg[u].blk \in Unlinked
        BY <3>1, <3>2 DEF Unlinked, Linking
      <4> QED BY <1>4, <3>2, <4>1 DEF Linked, TypeOK
    <3> QED BY <1>2, <1>6, <3>1, <3>2, <3>3
  <2>2. \A u, w \in Thread : Linking(u)' /\ Linking(w)' /\ reg'[u].blk = reg'[w].blk => u = w
    BY <1>2, <1>3 DEF Chained, Linkers
  <2> QED BY <2>1, <2>2 DEF Linkers
<1>20. Chained(m, d)'
  BY <1>15, <1>16, <1>18, <1>19 DEF Chained, Apart
<1> QED BY <1>10, <1>11, <1>20

(* The destructor begins at the first block of barrel 0, with every block   *)
(* linked.                                                                 *)
LEMMA ChainDestroyBegin ==
  ASSUME TypeOK, NEW n \in Heights, NEW c \in Columns, Chained(n, c), DestroyBegin
  PROVE  Chained(n, c)'
<1>1. /\ Live /\ \A t \in Thread : pc[t] = "idle"
      /\ dtor' = [phase |-> "walk", barrel |-> 0, next |-> first[0]]
      /\ UNCHANGED <<nextBlock, heap, pc, reg>>
  BY DEF DestroyBegin
<1>2. Chains(n, c)' /\ Apart(n, c)'
  BY <1>1 DEF Chained, Chains, Apart
<1>3. \A t \in Thread : ~Linking(t) /\ ~Linking(t)'
  BY <1>1 DEF Linking
<1>4. Linked = heap
  BY <1>3 DEF Linked, Unlinked, Linking
<1>5. 0 \in Barrel /\ dtor'.barrel = 0 /\ dtor'.next = first[0] /\ dtor'.phase = "walk"
  BY <1>1, ConstantsAssumption DEF Barrel
<1>6. c[0][0] = first[0] /\ 0 \in 0 .. n[0]
  BY <1>5 DEF Chained, Chains, Heights
<1>7. \A b \in Block : b \in heap <=> Left(n, c, b)'
  <2>1. ASSUME NEW b \in Block, NEW i \in Barrel, NEW k \in 0 .. n[i], c[i][k] = b
        PROVE  \/ 0 < i
               \/ i = 0 /\ \E m \in 0 .. k : c[i][m] = first[0]
    <3>1. i \in Nat /\ k \in Nat
      BY DEF Barrel, Heights
    <3>2. CASE i # 0
      BY <3>1, <3>2
    <3>3. CASE i = 0
      BY <1>6, <3>1, <3>3
    <3> QED BY <3>2, <3>3
  <2>2. \A b \in Block : Left(n, c, b)' <=> On(n, c, b)
    BY <1>5, <2>1 DEF Left, On
  <2> QED BY <1>1, <1>4, <2>2 DEF Chained, HeapKnown
<1>8. HeapKnown(n, c)'
  BY <1>1, <1>5, <1>6, <1>7 DEF HeapKnown, Live
<1> QED BY <1>2, <1>3, <1>8 DEF Chained, Linkers

(* It deletes from the place of its next block on. *)
LEMMA LeftFrom ==
  ASSUME NEW n \in Heights, NEW c \in Columns, Apart(n, c),
         dtor.barrel \in Barrel, NEW m \in 0 .. n[dtor.barrel], c[dtor.barrel][m] = dtor.next,
         NEW b
  PROVE  Left(n, c, b) <=> \E i \in Barrel : \E k \in 0 .. n[i] :
           /\ c[i][k] = b
           /\ dtor.barrel < i \/ (dtor.barrel = i /\ m <= k)
<1>1. ASSUME NEW k \in 0 .. n[dtor.barrel]
      PROVE  (\E l \in 0 .. k : c[dtor.barrel][l] = dtor.next) <=> m <= k
  <2>1. n[dtor.barrel] \in Nat
    BY DEF Heights
  <2>2. \A l \in 0 .. k : l \in 0 .. n[dtor.barrel]
    BY <2>1
  <2>3. \A l \in 0 .. k : c[dtor.barrel][l] = dtor.next => l = m
    BY <2>2 DEF Apart
  <2>4. m <= k => m \in 0 .. k
    BY <2>1
  <2>5. \A l \in 0 .. k : l <= k
    BY <2>1
  <2> QED BY <2>3, <2>4, <2>5
<1> QED BY <1>1 DEF Left

(* The destructor goes up a chain and on to the next barrel's. *)
LEMMA ChainDestroyBlock ==
  ASSUME TypeOK, NEW n \in Heights, NEW c \in Columns, Chained(n, c), DestroyBlock
  PROVE  Chained(n, c)'
<1>1. PICK p, i : p = dtor.next /\ i = dtor.barrel
  OBVIOUS
<1>2. /\ dtor.phase = "walk" /\ heap' = heap \ {p} /\ UNCHANGED <<nextBlock, pc, reg>>
      /\ i \in Barrel /\ p \in Block
      /\ dtor \in [phase : {"live", "walk", "done"}, barrel : Barrel, next : Block \cup {Null}]
  BY <1>1 DEF DestroyBlock, TypeOK
<1>3. PICK m \in 0 .. n[i] : c[i][m] = p
  BY <1>1, <1>2 DEF Chained, HeapKnown
<1>4. Chains(n, c)' /\ Apart(n, c)'
  BY <1>2 DEF Chained, Chains, Apart
<1>5. ~Live /\ \A t \in Thread : pc[t] = "idle" /\ pc'[t] = "idle"
  BY <1>2 DEF Chained, HeapKnown, Live
<1>6. Linkers'
  BY <1>5 DEF Linkers, Linking
<1>7. n[i] \in Nat /\ \A j \in Barrel : n[j] \in Nat /\ j \in Nat
  BY <1>2 DEF Heights, Barrel
<1>8. \A b \in Block : b \in heap' <=>
        \E j \in Barrel : \E k \in 0 .. n[j] : c[j][k] = b /\ (i < j \/ (i = j /\ m < k))
  <2>1. \A b \in Block : b \in heap <=>
          \E j \in Barrel : \E k \in 0 .. n[j] : c[j][k] = b /\ (i < j \/ (i = j /\ m <= k))
    BY <1>1, <1>2, <1>3, LeftFrom DEF Chained, HeapKnown
  <2>2. \A j \in Barrel : \A k \in 0 .. n[j] : c[j][k] = p <=> j = i /\ k = m
    BY <1>2, <1>3 DEF Chained, Apart
  <2>3. \A j \in Barrel : \A k \in 0 .. n[j] :
          (i < j \/ (i = j /\ m < k)) <=> (i < j \/ (i = j /\ m <= k)) /\ ~(j = i /\ k = m)
    <3> SUFFICES ASSUME NEW j \in Barrel, NEW k \in 0 .. n[j]
                 PROVE (i < j \/ (i = j /\ m < k)) <=> (i < j \/ (i = j /\ m <= k)) /\ ~(j = i /\ k = m)
      OBVIOUS
    <3>1. i \in Nat /\ j \in Nat /\ k \in Nat /\ m \in Nat
      BY <1>2, <1>7
    <3> QED BY <3>1
  <2>4. \A b \in Block : b \in heap' <=> b \in heap /\ b # p
    BY <1>2
  <2> QED BY <2>1, <2>2, <2>3, <2>4
<1>9. CASE /\ nextBlock[p] # Null /\ dtor' = [dtor EXCEPT !.next = nextBlock[p]]
  <2>1. m + 1 \in 1 .. n[i] /\ m + 1 \in 0 .. n[i] /\ m + 1 - 1 = m
    <3>1. m # n[i]
      BY <1>2, <1>3, <1>9 DEF Chained, Chains
    <3> QED BY <1>7, <3>1
  <2>2. c[i][m + 1] = dtor'.next /\ dtor'.barrel = i /\ dtor'.phase = "walk"
    BY <1>1, <1>2, <1>3, <1>9, <2>1 DEF Chained, Chains
  <2>3. \A b \in Block : Left(n, c, b)' <=> b \in heap'
    <3>1. ASSUME NEW k \in 0 .. n[i] PROVE (\E l \in 0 .. k : c[i][l] = dtor'.next) <=> m < k
      <4>1. \A l \in 0 .. k : l \in 0 .. n[i] /\ l <= k
        BY <1>7
      <4>2. \A l \in 0 .. k : c[i][l] = dtor'.next => l = m + 1
        BY <1>2, <2>1, <2>2, <4>1 DEF Chained, Apart
      <4>3. m < k => m + 1 \in 0 .. k
        BY <1>7
      <4>4. m + 1 <= k => m < k
        BY <1>7
      <4> QED BY <2>2, <4>1, <4>2, <4>3, <4>4
    <3> QED BY <1>8, <2>2, <3>1 DEF Left
  <2>4. HeapKnown(n, c)'
    BY <1>5, <2>1, <2>2, <2>3 DEF HeapKnown, Live
  <2> QED BY <1>4, <1>6, <2>4 DEF Chained
<1>10. CASE nextBlock[p] = Null
  <2>1. m = n[i]
    <3>1. ASSUME m # n[i] PROVE FALSE
      <4>1. m + 1 \in 1 .. n[i] /\ m + 1 \in Nat /\ m + 1 - 1 = m
        BY <1>7, <3>1
      <4>2. nextBlock[p] = c[i][m + 1]
        BY <1>2, <1>3, <4>1 DEF Chained, Chains
      <4>3. c[i][m + 1] \in Block
        BY <1>2, <4>1 DEF Columns
      <4> QED BY <1>10, <4>2, <4>3, NullAssumption
    <3> QED BY <3>1
  <2>2. \A b \in Block : b \in heap' <=> \E j \in Barrel : \E k \in 0 .. n[j] : c[j][k] = b /\ i < j
    <3>1. \A k \in 0 .. n[i] : ~(m < k)
      BY <1>7, <2>1
    <3> QED BY <1>8, <3>1
  <2>3. CASE i + 1 \in Barrel
    <3>1. /\ dtor'.barrel = i + 1 /\ dtor'.next = first[i + 1] /\ dtor'.phase = "walk"
      BY <1>1, <1>2, <1>10, <2>3 DEF DestroyBlock
    <3>2. c[i + 1][0] = first[i + 1] /\ 0 \in 0 .. n[i + 1]
      BY <1>7, <2>3 DEF Chained, Chains
    <3>3. \A b \in Block : Left(n, c, b)' <=> b \in heap'
      <4>1. ASSUME NEW j \in Barrel, NEW k \in 0 .. n[j]
            PROVE  (i + 1 < j \/ (i + 1 = j /\ \E l \in 0 .. k : c[j][l] = first[i + 1])) <=> i < j
        <5>1. i \in Nat /\ j \in Nat /\ k \in Nat /\ 0 \in 0 .. k
          BY <1>2, <1>7
        <5> QED BY <3>2, <5>1
      <4> QED BY <2>2, <3>1, <4>1 DEF Left
    <3>4. HeapKnown(n, c)'
      BY <1>5, <3>1, <3>2, <3>3 DEF HeapKnown, Live
    <3> QED BY <1>4, <1>6, <3>4 DEF Chained
  <2>4. CASE i + 1 \notin Barrel
    <3>1. dtor'.phase = "done"
      BY <1>1, <1>2, <1>10, <2>4 DEF DestroyBlock
    <3>2. \A j \in Barrel : ~(i < j)
      BY <1>2, <2>4, ConstantsAssumption DEF Barrel
    <3>3. heap' = {}
      BY <1>2, <2>2, <3>2 DEF TypeOK
    <3>4. HeapKnown(n, c)'
      BY <1>5, <3>1, <3>3 DEF HeapKnown, Live
    <3> QED BY <1>4, <1>6, <3>4 DEF Chained
  <2> QED BY <2>3, <2>4
<1>11. \/ nextBlock[p] # Null /\ dtor' = [dtor EXCEPT !.next = nextBlock[p]]
       \/ nextBlock[p] = Null
  BY <1>1 DEF DestroyBlock
<1> QED BY <1>9, <1>10, <1>11

(* Every step keeps the chains. *)
LEMMA ChainStep == TypeOK /\ ChainInv /\ [Next]_vars => ChainInv'
<1> SUFFICES ASSUME TypeOK, [Next]_vars, NEW n \in Heights, NEW c \in Columns, Chained(n, c)
             PROVE  ChainInv'
  BY DEF ChainInv
<1>1. CASE Still
  BY <1>1, StillKeeps DEF ChainInv
<1>2. CASE UNCHANGED vars
  <2>1. Still
    BY <1>2 DEF vars, Still, Linking
  <2> QED BY <1>1, <2>1
<1>3. ASSUME Live, NEW t \in Thread, AllocPick(t) \/ AllocStep(t) \/ FreeStep(t) PROVE ChainInv'
  <2>1. CASE CreateNew(t)
    BY <1>3, <2>1, ChainNew DEF ChainInv
  <2>2. CASE CreateLink(t) /\ nextBlock[reg[t].at] = Null
    BY <1>3, <2>2, ChainLink DEF ChainInv
  <2>3. CASE ~CreateNew(t) /\ ~(CreateLink(t) /\ nextBlock[reg[t].at] = Null)
    <3>1. Still
      BY <1>3, <2>3, StillSteps DEF AllocStep, FreeStep
    <3> QED BY <1>1, <3>1
  <2> QED BY <2>1, <2>2, <2>3
<1>4. ASSUME Live, NEW t \in Thread, NEW x \in Cell, FreePick(t, x) PROVE ChainInv'
  BY <1>1, <1>4, StillSteps
<1>5. ASSUME NEW x \in Cell, NEW v \in UserWord, ClientWrite(x, v) PROVE ChainInv'
  <2>1. Still
    BY <1>5 DEF ClientWrite, Still, Linking
  <2> QED BY <1>1, <2>1
<1>6. CASE DestroyBegin
  BY <1>6, ChainDestroyBegin DEF ChainInv
<1>7. CASE DestroyBlock
  BY <1>7, ChainDestroyBlock DEF ChainInv
<1> QED BY <1>2, <1>3, <1>4, <1>5, <1>6, <1>7 DEF Next, Ended

(* For any number of allocating threads the blocks of the heap are the      *)
(* linked ones, each at one place of one chain, and the ones that their    *)
(* creators still hold (memory_pool.hpp:63-75).                            *)
THEOREM ChainInvariant == Spec => [](TypeOK /\ ChainInv)
<1>1. Init => TypeOK /\ ChainInv
  BY TypeInit, ChainInit
<1>2. TypeOK /\ ChainInv /\ [Next]_vars => (TypeOK /\ ChainInv)'
  BY TypeStep, ChainStep
<1> QED BY <1>1, <1>2, PTL DEF Spec

(* The destructor deletes each block once, and leaves none, whatever the    *)
(* creators did to the chains (memory_pool.hpp:47-59).                     *)
THEOREM DestructorLeavesNothing == Spec => []DestructorFreesHeap
<1>1. TypeOK /\ ChainInv => DestructorFreesHeap
  <2> SUFFICES ASSUME TypeOK, NEW n \in Heights, NEW c \in Columns, Chained(n, c)
               PROVE  DestructorFreesHeap
    BY DEF ChainInv
  <2>1. ASSUME dtor.phase = "walk" PROVE dtor.next \in heap
    <3>1. PICK m \in 0 .. n[dtor.barrel] : c[dtor.barrel][m] = dtor.next
      BY <2>1 DEF Chained, HeapKnown
    <3>2. dtor.barrel \in Barrel /\ dtor.next \in Block /\ m \in 0 .. m
      BY <2>1 DEF TypeOK, Heights
    <3>3. Left(n, c, dtor.next)
      BY <3>1, <3>2 DEF Left
    <3> QED BY <2>1, <3>2, <3>3 DEF Chained, HeapKnown
  <2> QED BY <2>1 DEF Chained, HeapKnown, DestructorFreesHeap
<1> QED BY <1>1, ChainInvariant, PTL

-----------------------------------------------------------------------------
(* Chain and OnList collect what they reach one step further each time.     *)
(* That they collect a whole column is shown for both at once.             *)
UpTo(col, m) == {col[l] : l \in 0 .. m}
(* The successors of the members of S. *)
After(nx, S) == {nx[x] : x \in S}
Lesser(k, n) == IF k < n THEN k ELSE n

(* A set of naturals that is not empty has a least element. *)
LEMMA LeastNatural ==
  ASSUME NEW S \in SUBSET Nat, S # {}
  PROVE  \E k \in S : \A l \in S : k <= l
<1>1. PICK k \in S : \A l \in S : ~ (<<l, k>> \in OpToRel(<, Nat))
  BY NatLessThanWellFounded, WFMin
<1>2. ASSUME NEW l \in S PROVE k <= l
  <2>1. ~(l < k)
    BY <1>1 DEF OpToRel
  <2> QED BY <2>1
<1> QED BY <1>2

(* Different members of a finite set are no more than its cardinality. *)
LEMMA ColumnFits ==
  ASSUME NEW S, IsFiniteSet(S), NEW m \in Nat, NEW col, \A k \in 0 .. m : col[k] \in S,
         \A k, l \in 0 .. m : col[k] = col[l] => k = l
  PROVE  Cardinality(S) \in Nat /\ m \in 0 .. Cardinality(S)
<1>1. Cardinality(S) \in Nat
  BY FS_CardinalityType
<1>2. PICK g : g = [k \in 0 .. m |-> col[k]]
  OBVIOUS
<1>3. g \in [0 .. m -> S] /\ \A k, l \in 0 .. m : g[k] = g[l] => k = l
  BY <1>2
<1>4. g \in Injection(0 .. m, S)
  BY <1>3 DEF Injection, IsInjective
<1>5. Cardinality(0 .. m) <= Cardinality(S)
  BY <1>4, FS_Injection
<1>6. Cardinality(0 .. m) = m + 1
  BY FS_Interval
<1> QED BY <1>1, <1>5, <1>6

(* A set that grows by one place a step has the whole column in the end. *)
LEMMA ReachesAll ==
  ASSUME NEW N \in Nat, NEW n \in 0 .. N, NEW col, NEW r,
         r[0] = UpTo(col, 0),
         \A k \in 1 .. N : \A m \in 0 .. n :
           r[k - 1] = UpTo(col, m) => r[k] = UpTo(col, Lesser(m + 1, n))
  PROVE  r[N] = UpTo(col, n)
<1>1. \A k \in 0 .. N : r[k] = UpTo(col, Lesser(k, n))
  <2> SUFFICES ASSUME NEW j \in 0 .. N, r[j] # UpTo(col, Lesser(j, n)) PROVE FALSE
    OBVIOUS
  <2>1. PICK S : S = {k \in 0 .. N : r[k] # UpTo(col, Lesser(k, n))}
    OBVIOUS
  <2>2. S \in SUBSET Nat /\ S # {}
    BY <2>1
  <2>3. PICK k \in S : \A l \in S : k <= l
    BY <2>2, LeastNatural
  <2>4. k \in 0 .. N /\ r[k] # UpTo(col, Lesser(k, n))
    BY <2>1
  <2>5. k # 0
    <3>1. Lesser(0, n) = 0
      BY DEF Lesser
    <3> QED BY <2>4, <3>1
  <2>6. k - 1 \in 0 .. N /\ k \in 1 .. N /\ ~(k <= k - 1)
    BY <2>4, <2>5
  <2>7. r[k - 1] = UpTo(col, Lesser(k - 1, n))
    BY <2>1, <2>3, <2>6
  <2>8. Lesser(k - 1, n) \in 0 .. n /\ Lesser(Lesser(k - 1, n) + 1, n) = Lesser(k, n)
    BY <2>6 DEF Lesser
  <2>9. r[k] = UpTo(col, Lesser(k, n))
    BY <2>6, <2>7, <2>8
  <2> QED BY <2>4, <2>9
<1>2. Lesser(N, n) = n
  BY DEF Lesser
<1> QED BY <1>1, <1>2

(* nx leads up a column of places 0 to n, inside T, and then out of T. *)
Leads(nx, n, col, T) ==
  /\ \A k \in 1 .. n : nx[col[k - 1]] = col[k] /\ col[k] \in T
  /\ nx[col[n]] \notin T

(* One step from the places up to m reaches the places up to m + 1, and     *)
(* from the last place nothing new.                                        *)
LEMMA StepUp ==
  ASSUME NEW n \in Nat, NEW m \in 0 .. n, NEW col, NEW nx, NEW T, Leads(nx, n, col, T)
  PROVE  UpTo(col, m) \cup (After(nx, UpTo(col, m)) \cap T) = UpTo(col, Lesser(m + 1, n))
<1> USE DEF Leads
<1>1. \A l \in 0 .. m : l \in 0 .. n /\ (l = n \/ l + 1 \in 1 .. n) /\ l + 1 - 1 = l
  OBVIOUS
<1>2. ASSUME NEW x, x \in UpTo(col, m) \cup (After(nx, UpTo(col, m)) \cap T)
      PROVE  x \in UpTo(col, Lesser(m + 1, n))
  <2>1. CASE x \in UpTo(col, m)
    <3>1. PICK l \in 0 .. m : x = col[l]
      BY <2>1 DEF UpTo
    <3>2. l \in 0 .. Lesser(m + 1, n)
      BY DEF Lesser
    <3> QED BY <3>1, <3>2 DEF UpTo
  <2>2. CASE x \in After(nx, UpTo(col, m)) \cap T
    <3>1. PICK l \in 0 .. m : x = nx[col[l]]
      BY <2>2 DEF UpTo, After
    <3>2. l # n
      BY <2>2, <3>1
    <3>3. x = col[l + 1]
      BY <1>1, <3>1, <3>2
    <3>4. l + 1 \in 0 .. Lesser(m + 1, n)
      BY <1>1, <3>2 DEF Lesser
    <3> QED BY <3>3, <3>4 DEF UpTo
  <2> QED BY <1>2, <2>1, <2>2
<1>3. ASSUME NEW x, x \in UpTo(col, Lesser(m + 1, n))
      PROVE  x \in UpTo(col, m) \cup (After(nx, UpTo(col, m)) \cap T)
  <2>1. PICK l \in 0 .. Lesser(m + 1, n) : x = col[l]
    BY <1>3 DEF UpTo
  <2>2. CASE l \in 0 .. m
    BY <2>1, <2>2 DEF UpTo
  <2>3. CASE l = m + 1 /\ m + 1 \in 1 .. n
    <3>1. m + 1 - 1 = m /\ m \in 0 .. m
      OBVIOUS
    <3>2. nx[col[m]] = x /\ x \in T
      BY <2>1, <2>3, <3>1
    <3>3. col[m] \in UpTo(col, m)
      BY <3>1 DEF UpTo
    <3> QED BY <3>2, <3>3 DEF After
  <2>4. l \in 0 .. m \/ (l = m + 1 /\ m + 1 \in 1 .. n)
    BY DEF Lesser
  <2> QED BY <2>2, <2>3, <2>4
<1> QED BY <1>2, <1>3

(* The recursive function of Chain. *)
BlocksFrom(b, nx) ==
  LET reach[n \in 0 .. Cardinality(Block)] ==
        IF n = 0 THEN {b}
        ELSE reach[n - 1] \cup (After(nx, reach[n - 1]) \ {Null})
  IN reach[Cardinality(Block)]

(* It collects the blocks of a chain: their initial segments satisfy its    *)
(* equation, and two solutions cannot differ at a least place.             *)
LEMMA BlocksFromFirst ==
  ASSUME NEW n \in Nat, NEW col, NEW nx, Cardinality(Block) \in Nat, n \in 0 .. Cardinality(Block),
         \A k \in 1 .. n : nx[col[k - 1]] = col[k] /\ col[k] # Null,
         nx[col[n]] = Null
  PROVE  BlocksFrom(col[0], nx) = UpTo(col, n)
<1> DEFINE N == Cardinality(Block)
           Step(g) == [k \in 0 .. N |-> IF k = 0 THEN {col[0]}
                                        ELSE g[k - 1] \cup (After(nx, g[k - 1]) \ {Null})]
           f == [k \in 0 .. N |-> UpTo(col, Lesser(k, n))]
<1>1. UpTo(col, 0) = {col[0]} /\ Lesser(0, n) = 0
  BY DEF UpTo, Lesser
<1>2. ASSUME NEW m \in 0 .. n
      PROVE  UpTo(col, m) \cup (After(nx, UpTo(col, m)) \ {Null}) = UpTo(col, Lesser(m + 1, n))
  <2>1. PICK T : T = After(nx, UpTo(col, m)) \cup {col[k] : k \in 1 .. n}
    OBVIOUS
  <2>2. PICK U : U = T \ {Null}
    OBVIOUS
  <2>3. Leads(nx, n, col, U)
    BY <2>1, <2>2 DEF Leads
  <2>5. UpTo(col, m) \cup (After(nx, UpTo(col, m)) \cap U) = UpTo(col, Lesser(m + 1, n))
    BY <2>3, StepUp
  <2>6. After(nx, UpTo(col, m)) \cap U = After(nx, UpTo(col, m)) \ {Null}
    BY <2>1, <2>2
  <2> QED BY <2>5, <2>6
<1>3. \A j \in 0 .. N : f[j] = Step(f)[j]
  <2> SUFFICES ASSUME NEW j \in 0 .. N PROVE f[j] = Step(f)[j]
    OBVIOUS
  <2>1. CASE j = 0
    BY <1>1, <2>1
  <2>2. CASE j # 0
    <3>1. j - 1 \in 0 .. N /\ Lesser(j - 1, n) \in 0 .. n
          /\ Lesser(Lesser(j - 1, n) + 1, n) = Lesser(j, n)
      BY <2>2 DEF Lesser
    <3>2. f[j - 1] = UpTo(col, Lesser(j - 1, n)) /\ f[j] = UpTo(col, Lesser(j, n))
      BY <3>1
    <3>3. f[j - 1] \cup (After(nx, f[j - 1]) \ {Null}) = f[j]
      BY <1>2, <3>1, <3>2
    <3> QED BY <2>2, <3>3
  <2> QED BY <2>1, <2>2
<1>4. f = Step(f)
  <2>1. PICK F, G : F = f /\ G = Step(f)
    OBVIOUS
  <2>2. F = [k \in 0 .. N |-> F[k]] /\ G = [k \in 0 .. N |-> G[k]]
    BY <2>1
  <2>3. \A k \in 0 .. N : F[k] = G[k]
    BY <1>3, <2>1
  <2> HIDE DEF f, Step
  <2> QED BY <2>1, <2>2, <2>3
<1>5. PICK r : r = CHOOSE g : g = Step(g)
  OBVIOUS
<1>6. r = Step(r) /\ BlocksFrom(col[0], nx) = r[N]
  BY <1>4, <1>5 DEF BlocksFrom
<1> HIDE DEF Step, f
<1>7. r[0] = {col[0]} /\ \A k \in 1 .. N : r[k] = r[k - 1] \cup (After(nx, r[k - 1]) \ {Null})
  <2>1. \A k \in 0 .. N : r[k] = IF k = 0 THEN {col[0]} ELSE r[k - 1] \cup (After(nx, r[k - 1]) \ {Null})
    BY <1>6 DEF Step
  <2>2. 0 \in 0 .. N /\ \A k \in 1 .. N : k \in 0 .. N /\ k # 0
    OBVIOUS
  <2>3. r[0] = {col[0]}
    BY <2>1, <2>2, Zenon
  <2>4. \A k \in 1 .. N : r[k] = r[k - 1] \cup (After(nx, r[k - 1]) \ {Null})
    BY <2>1, <2>2, Zenon
  <2> QED BY <2>3, <2>4
<1>8. \A k \in 1 .. N : \A m \in 0 .. n :
        r[k - 1] = UpTo(col, m) => r[k] = UpTo(col, Lesser(m + 1, n))
  BY <1>2, <1>7
<1>9. r[N] = UpTo(col, n)
  <2>1. r[0] = UpTo(col, 0)
    BY <1>1, <1>7
  <2> QED BY <1>8, <2>1, ReachesAll
<1> QED BY <1>6, <1>9

(* Chain is that function. *)
LEMMA ChainIsWalk == \A i \in Barrel : Chain(i) = BlocksFrom(first[i], nextBlock)
BY DEF Chain, BlocksFrom, After

(* The blocks that Chain collects are those of a column. *)
LEMMA ChainIsColumn ==
  ASSUME NEW n \in Heights, NEW c \in Columns, Chains(n, c), Apart(n, c), NEW i \in Barrel
  PROVE  Chain(i) = UpTo(c[i], n[i])
<1>1. n[i] \in Nat /\ \A k \in 0 .. n[i] : c[i][k] \in Block
  BY DEF Heights, Columns
<1>2. \A k, l \in 0 .. n[i] : c[i][k] = c[i][l] => k = l
  BY DEF Apart
<1>3. Cardinality(Block) \in Nat /\ n[i] \in 0 .. Cardinality(Block)
  BY <1>1, <1>2, ColumnFits, FiniteAssumption
<1>4. /\ c[i][0] = first[i] /\ nextBlock[c[i][n[i]]] = Null
      /\ \A k \in 1 .. n[i] : nextBlock[c[i][k - 1]] = c[i][k] /\ c[i][k] # Null
  BY <1>1, NullAssumption DEF Chains
<1>5. BlocksFrom(c[i][0], nextBlock) = UpTo(c[i], n[i])
  BY <1>1, <1>3, <1>4, BlocksFromFirst
<1> QED BY <1>4, <1>5, ChainIsWalk

(* Whatever the creators of blocks do to each other, and whatever becomes   *)
(* of the free lists, each linked block is on one chain, and every chain   *)
(* ends (memory_pool.hpp:66-75).                                           *)
THEOREM ChainsKeepBlocks == Spec => []ChainsHoldHeap
<1>1. TypeOK /\ ChainInv => ChainsHoldHeap
  <2> SUFFICES ASSUME TypeOK, Live, NEW n \in Heights, NEW c \in Columns, Chained(n, c)
               PROVE  /\ UNION {Chain(i) : i \in Barrel} = Linked
                      /\ \A i, j \in Barrel : i # j => Chain(i) \cap Chain(j) = {}
                      /\ \A i \in Barrel : \E b \in Chain(i) : nextBlock[b] = Null
    BY DEF ChainInv, ChainsHoldHeap, Linked
  <2>1. \A i \in Barrel : \A b : b \in Chain(i) <=> \E k \in 0 .. n[i] : c[i][k] = b
    BY ChainIsColumn DEF Chained, UpTo
  <2>2. \A b : b \in Linked <=> \E i \in Barrel : b \in Chain(i)
    <3>1. \A b : b \in Linked => b \in Block
      BY DEF Linked, TypeOK
    <3>2. \A b : On(n, c, b) => b \in Block
      BY DEF On, Columns, Heights
    <3>3. \A b : On(n, c, b) <=> \E i \in Barrel : b \in Chain(i)
      BY <2>1 DEF On
    <3> QED BY <3>1, <3>2, <3>3 DEF Chained, HeapKnown
  <2>3. UNION {Chain(i) : i \in Barrel} = Linked
    BY <2>2
  <2>4. \A i, j \in Barrel : i # j => Chain(i) \cap Chain(j) = {}
    BY <2>1 DEF Chained, Apart
  <2>5. \A i \in Barrel : \E b \in Chain(i) : nextBlock[b] = Null
    BY <2>1 DEF Chained, Chains, Heights
  <2> QED BY <2>3, <2>4, <2>5
<1> QED BY <1>1, ChainInvariant, PTL

-----------------------------------------------------------------------------
(* The free lists with one allocating thread, seen from below: c[i][0] is   *)
(* the terminator at the bottom of list i, and c[i][n[i]] the cell on top.  *)
CellColumns == [Barrel -> [Nat -> Cell]]

Stacked(n, c) ==
  \A i \in Barrel :
    /\ word[c[i][0]] = Null /\ head[i] = c[i][n[i]]
    /\ \A k \in 1 .. n[i] : word[c[i][k]] = c[i][k - 1]

Listed(n, c) ==
  Stacked(n, c) /\ Apart(n, c) /\ \A x \in Cell : x \in Free <=> On(n, c, x)

ListInv == Live => \E n \in Heights, c \in CellColumns : Listed(n, c)

(* Together with IInv this is inductive: what a compare-and-set puts on top *)
(* or takes from the top is known from IInv.                               *)
LEMMA ListsStay ==
  ASSUME NEW n \in Heights, NEW c \in CellColumns, Listed(n, c),
         head' = head, Free' = Free, \A x \in Free : word'[x] = word[x]
  PROVE  Listed(n, c)'
<1>1. \A i \in Barrel : \A k \in 0 .. n[i] : word'[c[i][k]] = word[c[i][k]]
  <2> SUFFICES ASSUME NEW i \in Barrel, NEW k \in 0 .. n[i] PROVE c[i][k] \in Free
    OBVIOUS
  <2>1. c[i][k] \in Cell /\ On(n, c, c[i][k])
    BY DEF CellColumns, Heights, On
  <2> QED BY <2>1 DEF Listed
<1>2. \A i \in Barrel : 0 \in 0 .. n[i] /\ n[i] \in 0 .. n[i] /\ \A k \in 1 .. n[i] : k \in 0 .. n[i]
  BY DEF Heights
<1>3. Stacked(n, c)'
  BY <1>1, <1>2 DEF Listed, Stacked
<1> QED BY <1>3 DEF Listed, Apart, On

(* g new cells go on top of list i. *)
Grown(n, i, g) == [n EXCEPT ![i] = @ + g]
Atop(n, c, i, g, new) ==
  [c EXCEPT ![i] = [k \in Nat |-> IF k \in n[i] + 1 .. n[i] + g THEN new[k - n[i]] ELSE c[i][k]]]

(* The new cells, from the lowest, are linked down to the old top. *)
Grows(i, g, new) ==
  /\ new \in [1 .. g -> Cell]
  /\ \A k, l \in 1 .. g : new[k] = new[l] => k = l
  /\ \A k \in 1 .. g : new[k] \notin Free
  /\ word[new[1]] = head[i] /\ \A k \in 2 .. g : word[new[k]] = new[k - 1]
  /\ head' = [head EXCEPT ![i] = new[g]] /\ word' = word
  /\ \A x \in Cell : x \in Free' <=> x \in Free \/ \E k \in 1 .. g : x = new[k]

(* The lists after a push. *)
LEMMA ListsGrow ==
  ASSUME NEW n \in Heights, NEW c \in CellColumns, Listed(n, c), head \in [Barrel -> Pointer],
         NEW i \in Barrel, NEW g \in Nat \ {0}, NEW new,
         Grows(i, g, new)
  PROVE  \E m \in Heights, d \in CellColumns : Listed(m, d)'
<1>0. /\ new \in [1 .. g -> Cell]
      /\ \A k, l \in 1 .. g : new[k] = new[l] => k = l
      /\ \A k \in 1 .. g : new[k] \notin Free
      /\ word[new[1]] = head[i] /\ \A k \in 2 .. g : word[new[k]] = new[k - 1]
      /\ head' = [head EXCEPT ![i] = new[g]] /\ word' = word
      /\ \A x \in Cell : x \in Free' <=> x \in Free \/ \E k \in 1 .. g : x = new[k]
  BY DEF Grows
<1> USE <1>0
<1>1. PICK m, d : m = Grown(n, i, g) /\ d = Atop(n, c, i, g, new)
  OBVIOUS
<1>2. \A j \in Barrel : n[j] \in Nat
  BY DEF Heights
<1>3. m \in Heights /\ m[i] = n[i] + g /\ \A j \in Barrel : j # i => m[j] = n[j]
  BY <1>1, <1>2 DEF Grown, Heights
<1>4. /\ d \in CellColumns
      /\ \A j \in Barrel : \A k \in 0 .. n[j] : d[j][k] = c[j][k]
      /\ \A k \in 1 .. g : d[i][n[i] + k] = new[k]
  <2>1. PICK e : e = [k \in Nat |-> IF k \in n[i] + 1 .. n[i] + g THEN new[k - n[i]] ELSE c[i][k]]
    OBVIOUS
  <2>2. \A k \in n[i] + 1 .. n[i] + g : k - n[i] \in 1 .. g
    BY <1>2
  <2>3. c[i] \in [Nat -> Cell]
    BY DEF CellColumns
  <2>4. e \in [Nat -> Cell]
    BY <2>1, <2>2, <2>3
  <2>5. \A k \in 0 .. n[i] : e[k] = c[i][k]
    BY <1>2, <2>1
  <2>6. \A k \in 1 .. g : e[n[i] + k] = new[k]
    <3> SUFFICES ASSUME NEW k \in 1 .. g PROVE e[n[i] + k] = new[k]
      OBVIOUS
    <3>1. PICK p : p = n[i] + k
      OBVIOUS
    <3>2. p \in Nat /\ p \in n[i] + 1 .. n[i] + g /\ p - n[i] = k
      BY <1>2, <3>1
    <3>3. e[p] = new[p - n[i]]
      BY <2>1, <3>2
    <3> QED BY <3>1, <3>2, <3>3
  <2>7. d = [c EXCEPT ![i] = e]
    BY <1>1, <2>1 DEF Atop
  <2>8. d \in CellColumns /\ d[i] = e /\ \A j \in Barrel : j # i => d[j] = c[j]
    BY <2>4, <2>7 DEF CellColumns
  <2> QED BY <2>5, <2>6, <2>8
<1>5. ASSUME NEW j \in Barrel, NEW k \in 0 .. m[j]
      PROVE  \/ k \in 0 .. n[j] /\ d[j][k] = c[j][k]
             \/ /\ j = i /\ k - n[i] \in 1 .. g /\ k = n[i] + (k - n[i])
                /\ d[j][k] = new[k - n[i]]
  <2>1. CASE k \in 0 .. n[j]
    BY <1>4, <2>1
  <2>2. CASE k \notin 0 .. n[j]
    <3>1. j = i
      BY <1>3, <2>2
    <3>2. k - n[i] \in 1 .. g /\ k = n[i] + (k - n[i])
      BY <1>2, <1>3, <2>2, <3>1
    <3> QED BY <1>4, <3>1, <3>2
  <2> QED BY <2>1, <2>2
<1>6. \A j \in Barrel : \A k \in 0 .. n[j] : c[j][k] \in Free
  <2> SUFFICES ASSUME NEW j \in Barrel, NEW k \in 0 .. n[j] PROVE c[j][k] \in Free
    OBVIOUS
  <2>1. c[j][k] \in Cell /\ On(n, c, c[j][k])
    BY DEF CellColumns, Heights, On
  <2> QED BY <2>1 DEF Listed
<1>7. \A j \in Barrel : \A k \in 0 .. m[j] : k \notin 0 .. n[j] =>
        \E a \in 1 .. g : j = i /\ k = n[i] + a /\ d[j][k] = new[a]
  BY <1>5
<1>8. Stacked(m, d)'
  <2> SUFFICES ASSUME NEW j \in Barrel
               PROVE  /\ word[d[j][0]] = Null /\ head'[j] = d[j][m[j]]
                      /\ \A k \in 1 .. m[j] : word[d[j][k]] = d[j][k - 1]
    BY DEF Stacked
  <2>1. 0 \in 0 .. n[j] /\ n[j] \in 0 .. n[j]
    BY <1>2
  <2>2. word[d[j][0]] = Null
    BY <1>4, <2>1 DEF Listed, Stacked
  <2>3. head'[j] = d[j][m[j]]
    <3>1. CASE j = i
      BY <1>3, <1>4, <3>1
    <3>2. CASE j # i
      <4>1. head'[j] = head[j] /\ d[j][m[j]] = c[j][n[j]]
        BY <1>3, <1>4, <2>1, <3>2
      <4> QED BY <4>1 DEF Listed, Stacked
    <3> QED BY <3>1, <3>2
  <2>4. ASSUME NEW k \in 1 .. m[j] PROVE word[d[j][k]] = d[j][k - 1]
    <3>0. k \in 0 .. m[j]
      OBVIOUS
    <3>1. CASE k \in 0 .. n[j] /\ d[j][k] = c[j][k]
      <4>1. k \in 1 .. n[j] /\ k - 1 \in 0 .. n[j]
        BY <1>2, <3>1
      <4> QED BY <1>4, <3>1, <4>1 DEF Listed, Stacked
    <3>2. CASE /\ j = i /\ k - n[i] \in 1 .. g /\ k = n[i] + (k - n[i])
               /\ d[j][k] = new[k - n[i]]
      <4>1. PICK l \in 1 .. g : l = k - n[i] /\ k = n[i] + l /\ d[i][k] = new[l]
        BY <3>2
      <4>2. CASE l = 1
        <5>1. k - 1 = n[i]
          BY <1>2, <4>1, <4>2
        <5>2. d[i][k - 1] = head[i]
          <6>1. d[i][n[i]] = c[i][n[i]]
            BY <1>4, <2>1, <3>2
          <6> QED BY <5>1, <6>1 DEF Listed, Stacked
        <5> QED BY <3>2, <4>1, <4>2, <5>2
      <4>3. CASE l # 1
        <5>1. l - 1 \in 1 .. g /\ l \in 2 .. g /\ k - 1 = n[i] + (l - 1)
          BY <1>2, <4>1, <4>3
        <5>2. d[i][k - 1] = new[l - 1]
          BY <1>4, <5>1
        <5> QED BY <3>2, <4>1, <5>1, <5>2
      <4> QED BY <4>2, <4>3
    <3> QED BY <1>5, <3>0, <3>1, <3>2
  <2> QED BY <2>2, <2>3, <2>4
<1>9. Apart(m, d)
  <2> SUFFICES ASSUME NEW j \in Barrel, NEW l \in Barrel, NEW k \in 0 .. m[j], NEW p \in 0 .. m[l],
                      d[j][k] = d[l][p]
               PROVE  j = l /\ k = p
    BY DEF Apart
  <2>1. CASE k \in 0 .. n[j] /\ p \in 0 .. n[l]
    <3>1. c[j][k] = c[l][p]
      BY <1>4, <2>1
    <3> QED BY <2>1, <3>1 DEF Listed, Apart
  <2>2. CASE k \notin 0 .. n[j]
    <3>1. PICK a \in 1 .. g : j = i /\ k = n[i] + a /\ d[j][k] = new[a]
      BY <1>7, <2>2
    <3>2. p \notin 0 .. n[l]
      <4>1. ASSUME p \in 0 .. n[l] PROVE FALSE
        <5>1. d[l][p] = c[l][p] /\ c[l][p] \in Free
          BY <1>4, <1>6, <4>1
        <5> QED BY <3>1, <5>1
      <4> QED BY <4>1
    <3>3. PICK b \in 1 .. g : l = i /\ p = n[i] + b /\ d[l][p] = new[b]
      BY <1>7, <3>2
    <3> QED BY <3>1, <3>3
  <2>3. CASE p \notin 0 .. n[l]
    <3>1. PICK b \in 1 .. g : l = i /\ p = n[i] + b /\ d[l][p] = new[b]
      BY <1>7, <2>3
    <3>2. k \notin 0 .. n[j]
      <4>1. ASSUME k \in 0 .. n[j] PROVE FALSE
        <5>1. d[j][k] = c[j][k] /\ c[j][k] \in Free
          BY <1>4, <1>6, <4>1
        <5> QED BY <3>1, <5>1
      <4> QED BY <4>1
    <3> QED BY <2>2, <3>2
  <2> QED BY <2>1, <2>2, <2>3
<1>10. ASSUME NEW x \in Cell PROVE x \in Free' <=> On(m, d, x)
  <2>1. ASSUME On(m, d, x) PROVE x \in Free'
    <3>1. PICK j \in Barrel : \E k \in 0 .. m[j] : d[j][k] = x
      BY <2>1 DEF On
    <3>2. PICK k \in 0 .. m[j] : d[j][k] = x
      BY <3>1
    <3> QED BY <1>5, <1>6, <3>2
  <2>2. ASSUME x \in Free PROVE On(m, d, x)
    <3>1. PICK j \in Barrel : \E k \in 0 .. n[j] : c[j][k] = x
      BY <2>2 DEF Listed, On
    <3>2. PICK k \in 0 .. n[j] : c[j][k] = x
      BY <3>1
    <3>3. k \in 0 .. m[j] /\ d[j][k] = x
      <4>1. n[j] <= m[j] /\ m[j] \in Nat
        BY <1>2, <1>3
      <4> QED BY <1>2, <1>4, <3>2, <4>1
    <3> QED BY <3>3 DEF On
  <2>3. ASSUME NEW k \in 1 .. g, x = new[k] PROVE On(m, d, x)
    <3>1. n[i] + k \in 0 .. m[i]
      BY <1>2, <1>3
    <3> QED BY <1>4, <2>3, <3>1 DEF On
  <2> QED BY <2>1, <2>2, <2>3
<1>11. Listed(m, d)'
  BY <1>8, <1>9, <1>10 DEF Listed, Apart, On
<1> QED BY <1>3, <1>4, <1>11

(* One cell fewer on list i. *)
Lower(n, i) == [n EXCEPT ![i] = @ - 1]

(* The lists after a pop. *)
LEMMA ListsShrink ==
  ASSUME NEW n \in Heights, NEW c \in CellColumns, Listed(n, c), head \in [Barrel -> Pointer],
         NEW i \in Barrel, NEW v, word[head[i]] = v, v # Null,
         head' = [head EXCEPT ![i] = v], word' = word, Free' = Free \ {head[i]}
  PROVE  \E m \in Heights, d \in CellColumns : Listed(m, d)'
<1>1. PICK m : m = Lower(n, i)
  OBVIOUS
<1>2. \A j \in Barrel : n[j] \in Nat
  BY DEF Heights
<1>3. n[i] # 0 /\ head[i] = c[i][n[i]] /\ n[i] \in 1 .. n[i] /\ n[i] - 1 \in Nat
  BY <1>2 DEF Listed, Stacked
<1>4. m \in Heights /\ m[i] = n[i] - 1 /\ \A j \in Barrel : j # i => m[j] = n[j]
  BY <1>1, <1>2, <1>3 DEF Lower, Heights
<1>5. \A j \in Barrel : \A k \in 0 .. m[j] : k \in 0 .. n[j] /\ ~(j = i /\ k = n[i])
  BY <1>2, <1>3, <1>4
<1>6. \A j \in Barrel : \A k \in 0 .. n[j] : k \in 0 .. m[j] \/ (j = i /\ k = n[i])
  BY <1>2, <1>3, <1>4
<1>7. Stacked(m, c)'
  <2> SUFFICES ASSUME NEW j \in Barrel
               PROVE  /\ word[c[j][0]] = Null /\ head'[j] = c[j][m[j]]
                      /\ \A k \in 1 .. m[j] : word[c[j][k]] = c[j][k - 1]
    BY DEF Stacked
  <2>1. \A k \in 1 .. m[j] : k \in 1 .. n[j]
    BY <1>2, <1>3, <1>4
  <2>2. head'[j] = c[j][m[j]]
    <3>1. CASE j = i
      BY <1>3, <1>4, <3>1 DEF Listed, Stacked
    <3>2. CASE j # i
      BY <1>4, <3>2 DEF Listed, Stacked
    <3> QED BY <3>1, <3>2
  <2> QED BY <2>1, <2>2 DEF Listed, Stacked
<1>8. Apart(m, c)
  BY <1>5 DEF Listed, Apart
<1>9. \A x \in Cell : x \in Free' <=> On(m, c, x)
  <2> SUFFICES ASSUME NEW x \in Cell PROVE x \in Free' <=> On(m, c, x)
    OBVIOUS
  <2>1. ASSUME On(m, c, x) PROVE x \in Free'
    <3>1. PICK j \in Barrel : \E k \in 0 .. m[j] : c[j][k] = x
      BY <2>1 DEF On
    <3>2. PICK k \in 0 .. m[j] : c[j][k] = x
      BY <3>1
    <3>3. k \in 0 .. n[j] /\ ~(j = i /\ k = n[i]) /\ n[i] \in 0 .. n[i]
      BY <1>3, <1>5
    <3>4. x \in Free
      BY <3>2, <3>3 DEF Listed, On
    <3>5. x # head[i]
      BY <1>3, <3>2, <3>3 DEF Listed, Apart
    <3> QED BY <3>4, <3>5
  <2>2. ASSUME x \in Free' PROVE On(m, c, x)
    <3>1. PICK j \in Barrel : \E k \in 0 .. n[j] : c[j][k] = x
      BY <2>2 DEF Listed, On
    <3>2. PICK k \in 0 .. n[j] : c[j][k] = x
      BY <3>1
    <3>3. ~(j = i /\ k = n[i])
      BY <1>3, <2>2, <3>2
    <3> QED BY <1>6, <3>2, <3>3 DEF On
  <2> QED BY <2>1, <2>2
<1>10. Listed(m, c)'
  BY <1>7, <1>8, <1>9 DEF Listed, Apart, On
<1> QED BY <1>4, <1>10

(* The constructor stacks the cells of a block on each list. *)
LEMMA ListInit == Init => ListInv
<1> SUFFICES ASSUME Init PROVE \E n \in Heights, c \in CellColumns : Listed(n, c)
  BY DEF ListInv
<1> USE ConstantsAssumption, FirstAssumption
<1> DEFINE B == CellsPerBlock
<1>1. PICK n, c : /\ n = [i \in Barrel |-> B - 1]
                  /\ c = [i \in Barrel |-> [k \in Nat |-> <<first[i], IF k \in 1 .. B - 1 THEN B - k ELSE 0>>]]
  OBVIOUS
<1>2. n \in Heights /\ \A i \in Barrel : n[i] = B - 1
  BY <1>1 DEF Heights
<1>3. /\ c \in CellColumns
      /\ \A i \in Barrel : c[i][0] = <<first[i], 0>>
      /\ \A i \in Barrel : \A k \in 1 .. B - 1 : c[i][k] = <<first[i], B - k>>
  <2>1. \A k \in 1 .. B - 1 : B - k \in 0 .. B - 1
    OBVIOUS
  <2>2. \A i \in Barrel : \A k \in Nat : <<first[i], IF k \in 1 .. B - 1 THEN B - k ELSE 0>> \in Cell
    BY <2>1 DEF Cell
  <2>3. c \in CellColumns
    BY <1>1, <2>2 DEF CellColumns
  <2>4. 0 \in Nat /\ 0 \notin 1 .. B - 1 /\ \A k \in 1 .. B - 1 : k \in Nat
    OBVIOUS
  <2> QED BY <1>1, <2>3, <2>4
<1>4. \A i \in Barrel : \A l \in 0 .. B - 1 :
        word[<<first[i], l>>] = IF l = 0 THEN Null ELSE <<first[i], (l + 1) % B>>
  <2> SUFFICES ASSUME NEW i \in Barrel, NEW l \in 0 .. B - 1
               PROVE  word[<<first[i], l>>] = IF l = 0 THEN Null ELSE <<first[i], (l + 1) % B>>
    OBVIOUS
  <2>1. <<first[i], l>> \in Cell /\ first[i] \in heap
    BY DEF Cell, Init
  <2> QED BY <2>1 DEF Init
<1>5. Stacked(n, c)
  <2> SUFFICES ASSUME NEW i \in Barrel
               PROVE  /\ word[c[i][0]] = Null /\ head[i] = c[i][B - 1]
                      /\ \A k \in 1 .. B - 1 : word[c[i][k]] = c[i][k - 1]
    BY <1>2 DEF Stacked
  <2>1. 0 \in 0 .. B - 1 /\ B - 1 \in 1 .. B - 1 /\ B - (B - 1) = 1
    OBVIOUS
  <2>2. word[c[i][0]] = Null
    BY <1>3, <1>4, <2>1
  <2>3. head[i] = c[i][B - 1]
    BY <1>3, <2>1 DEF Init, FirstCell
  <2>4. ASSUME NEW k \in 1 .. B - 1 PROVE word[c[i][k]] = c[i][k - 1]
    <3>1. B - k \in 0 .. B - 1 /\ B - k # 0
      OBVIOUS
    <3>2. word[c[i][k]] = <<first[i], (B - k + 1) % B>>
      BY <1>3, <1>4, <3>1, ZenonT(40)
    <3>3. CASE k = 1
      <4>1. (B - k + 1) % B = 0
        BY <3>3
      <4> QED BY <1>3, <3>2, <3>3, <4>1
    <3>4. CASE k # 1
      <4>1. k - 1 \in 1 .. B - 1 /\ B - k + 1 = B - (k - 1) /\ B - k + 1 \in 0 .. B - 1
        BY <3>4
      <4>2. (B - k + 1) % B = B - (k - 1)
        BY <4>1
      <4> QED BY <1>3, <3>2, <4>1, <4>2
    <3> QED BY <3>3, <3>4
  <2> QED BY <2>2, <2>3, <2>4
<1>6. \A i \in Barrel : \A k \in 0 .. n[i] :
        /\ c[i][k][1] = first[i] /\ c[i][k] = <<first[i], c[i][k][2]>>
        /\ c[i][k][2] = IF k = 0 THEN 0 ELSE B - k
  BY <1>2, <1>3
<1>7. Apart(n, c)
  <2> SUFFICES ASSUME NEW i \in Barrel, NEW j \in Barrel, NEW k \in 0 .. n[i], NEW m \in 0 .. n[j],
                      c[i][k] = c[j][m]
               PROVE  i = j /\ k = m
    BY DEF Apart
  <2>1. i = j
    BY <1>6
  <2>2. k \in 0 .. B - 1 /\ m \in 0 .. B - 1
        /\ (IF k = 0 THEN 0 ELSE B - k) = (IF m = 0 THEN 0 ELSE B - m)
    BY <1>2, <1>6
  <2> QED BY <2>1, <2>2
<1>8. ASSUME NEW x \in Cell PROVE x \in Free <=> On(n, c, x)
  <2>1. x \in Free <=> \E i \in Barrel : x[1] = first[i]
    <3>1. held = {} /\ Returning = {} /\ Building = {}
      BY DEF Init, Returning, Building, InFree, InCreate
    <3> QED BY <3>1 DEF Free, HeapCells, Init
  <2>2. ASSUME NEW i \in Barrel, x[1] = first[i] PROVE \E k \in 0 .. n[i] : c[i][k] = x
    <3>1. x = <<x[1], x[2]>> /\ x[2] \in 0 .. B - 1
      BY DEF Cell
    <3>2. CASE x[2] = 0
      BY <1>2, <1>3, <2>2, <3>1, <3>2
    <3>3. CASE x[2] # 0
      <4>1. PICK k : k = B - x[2]
        OBVIOUS
      <4>2. k \in 1 .. B - 1 /\ B - k = x[2] /\ k \in 0 .. B - 1
        BY <3>1, <3>3, <4>1
      <4>3. c[i][k] = x
        BY <1>3, <2>2, <3>1, <4>2
      <4> QED BY <1>2, <4>2, <4>3
    <3> QED BY <3>2, <3>3
  <2>3. ASSUME NEW i \in Barrel, NEW k \in 0 .. n[i], c[i][k] = x PROVE x[1] = first[i]
    BY <1>6, <2>3
  <2> QED BY <2>1, <2>2, <2>3 DEF On
<1> QED BY <1>2, <1>3, <1>5, <1>7, <1>8 DEF Listed

(* Who writes a word writes it in a cell that is not free. *)
LEMMA WordsStay ==
  ASSUME TypeOK, Good, NEW t \in Thread,
         \/ AllocPick(t) \/ AllocReadHead(t) \/ AllocReadNext(t)
         \/ AllocCas(t) /\ head[reg[t].idx] # reg[t].old
         \/ CreateNew(t) \/ CreateThrows(t) \/ CreateWalk(t) \/ CreateLink(t) \/ CreateReadTop(t)
         \/ CreatePush(t) /\ head[reg[t].idx] # reg[t].top
         \/ FreeReadHead(t) \/ FreeWriteWord(t)
         \/ FreeCas(t) /\ head[reg[t].idx] # reg[t].old
  PROVE  head' = head /\ \A x \in Free : word'[x] = word[x]
<1>0. /\ word \in [Cell -> Pointer] /\ FollowsCells(t)
      /\ \A x \in Free : x \in Cell /\ x[1] \in heap /\ x \notin Returning /\ x \notin Building
  BY DEF TypeOK, Free, HeapCells
<1>1. CASE FreeWriteWord(t)
  <2>1. /\ head' = head /\ word' = [word EXCEPT ![reg[t].ptr] = reg[t].old]
        /\ InFree(t) /\ reg[t].ptr \in Cell
    BY <1>0, <1>1 DEF FreeWriteWord, Goto, InFree, FollowsCells
  <2>2. reg[t].ptr \in Returning
    BY <2>1 DEF Returning
  <2> QED BY <1>0, <2>1, <2>2
<1>2. CASE CreateReadTop(t)
  <2>1. /\ head' = head /\ word' = [word EXCEPT ![Terminator(reg[t].blk)] = head[reg[t].idx]]
        /\ InCreate(t) /\ reg[t].blk \in Block
    BY <1>0, <1>2 DEF CreateReadTop, Goto, InCreate, FollowsCells
  <2>2. Terminator(reg[t].blk) \in Building
    BY <2>1, ConstantsAssumption DEF Building, Terminator, Cell
  <2> QED BY <1>0, <2>1, <2>2
<1>3. CASE CreateNew(t)
  <2>1. PICK b \in Block \ heap : word' = TademBlock(word, b)
    BY <1>3 DEF CreateNew
  <2>2. \A x \in Free : word'[x] = word[x]
    BY <1>0, <2>1 DEF TademBlock
  <2> QED BY <1>3, <2>2 DEF CreateNew
<1> QED
  BY <1>1, <1>2, <1>3 DEF AllocPick, AllocReadHead, AllocReadNext, AllocCas, CreateThrows, CreateWalk,
     CreateLink, CreatePush, FreeReadHead, FreeCas

(* deallocate() puts its cell on top. *)
LEMMA ListsFreeCas ==
  ASSUME OneAllocator, TypeOK, Good, NEW n \in Heights, NEW c \in CellColumns, Listed(n, c),
         NEW t \in Thread, FreeCas(t), head[reg[t].idx] = reg[t].old
  PROVE  \E m \in Heights, d \in CellColumns : Listed(m, d)'
<1>1. PICK i, x : i = reg[t].idx /\ x = reg[t].ptr
  OBVIOUS
<1>2. /\ Free' = Free \cup {x} /\ x \in Cell \ Free /\ word[x] = head[i]
  BY <1>1, FreeCasStep
<1>3. /\ head' = [head EXCEPT ![i] = x] /\ word' = word /\ i \in Barrel
      /\ head \in [Barrel -> Pointer]
  BY <1>1 DEF FreeCas, TypeOK, Registers
<1>4. PICK new : new = [k \in 1 .. 1 |-> x]
  OBVIOUS
<1>5. /\ new \in [1 .. 1 -> Cell] /\ 1 \in Nat \ {0} /\ new[1] = x
      /\ \A k, l \in 1 .. 1 : new[k] = new[l] => k = l
      /\ \A k \in 1 .. 1 : k = 1 /\ new[k] \notin Free
      /\ \A k \in 2 .. 1 : word[new[k]] = new[k - 1]
  BY <1>2, <1>4
<1>6. \A y \in Cell : y \in Free' <=> y \in Free \/ \E k \in 1 .. 1 : y = new[k]
  <2>1. 1 \in 1 .. 1
    OBVIOUS
  <2> QED BY <1>2, <1>5, <2>1
<1>7. head' = [head EXCEPT ![i] = new[1]] /\ word[new[1]] = head[i]
  BY <1>2, <1>3, <1>5
<1>8. Grows(i, 1, new)
  BY <1>3, <1>5, <1>6, <1>7 DEF Grows
<1> QED BY <1>3, <1>5, <1>8, ListsGrow

(* create_new_block() puts a whole block on top, its terminator lowest. *)
LEMMA ListsCreatePush ==
  ASSUME OneAllocator, TypeOK, Good, NEW n \in Heights, NEW c \in CellColumns, Listed(n, c),
         NEW t \in Thread, CreatePush(t), head[reg[t].idx] = reg[t].top
  PROVE  \E m \in Heights, d \in CellColumns : Listed(m, d)'
<1> USE ConstantsAssumption
<1> DEFINE B == CellsPerBlock
<1>1. PICK i, b : i = reg[t].idx /\ b = reg[t].blk
  OBVIOUS
<1>2. /\ \A x \in Cell : x \in Free' <=> x \in Free \/ x[1] = b
      /\ \A x \in Free : x[1] # b
      /\ b \in Block /\ word[<<b, 0>>] = head[i]
      /\ \A k \in 1 .. B - 1 : word[<<b, k>>] = <<b, (k + 1) % B>>
  BY <1>1, CreatePushStep
<1>3. /\ head' = [head EXCEPT ![i] = FirstCell(b)] /\ word' = word /\ i \in Barrel
      /\ head \in [Barrel -> Pointer]
  BY <1>1 DEF CreatePush, TypeOK, Registers
<1>4. PICK new : new = [k \in 1 .. B |-> <<b, IF k = 1 THEN 0 ELSE B + 1 - k>>]
  OBVIOUS
<1>5. /\ \A k \in 1 .. B : (IF k = 1 THEN 0 ELSE B + 1 - k) \in 0 .. B - 1
      /\ 1 \in 1 .. B /\ B \in 1 .. B /\ B \in Nat \ {0}
      /\ (IF B = 1 THEN 0 ELSE B + 1 - B) = 1
  OBVIOUS
<1>6. /\ new \in [1 .. B -> Cell] /\ new[1] = <<b, 0>> /\ new[B] = FirstCell(b)
      /\ \A k \in 1 .. B : /\ new[k][1] = b
                           /\ new[k][2] = IF k = 1 THEN 0 ELSE B + 1 - k
  BY <1>2, <1>4, <1>5 DEF Cell, FirstCell
<1>7. \A k, l \in 1 .. B : new[k] = new[l] => k = l
  <2> SUFFICES ASSUME NEW k \in 1 .. B, NEW l \in 1 .. B, new[k] = new[l] PROVE k = l
    OBVIOUS
  <2>1. (IF k = 1 THEN 0 ELSE B + 1 - k) = (IF l = 1 THEN 0 ELSE B + 1 - l)
    BY <1>6
  <2> QED BY <2>1
<1>8. \A k \in 1 .. B : new[k] \notin Free
  BY <1>2, <1>6
<1>9. ASSUME NEW k \in 2 .. B PROVE word[new[k]] = new[k - 1]
  <2>1. /\ k \in 1 .. B /\ k # 1 /\ k - 1 \in 1 .. B /\ B + 1 - k \in 1 .. B - 1
        /\ B + 1 - k + 1 = B + 1 - (k - 1)
    OBVIOUS
  <2>2. new[k] = <<b, B + 1 - k>>
    BY <1>4, <2>1
  <2>3. word[new[k]] = <<b, (B + 1 - k + 1) % B>>
    BY <1>2, <2>1, <2>2
  <2>4. CASE k = 2
    <3>1. (B + 1 - k + 1) % B = 0 /\ k - 1 = 1
      BY <2>4
    <3> QED BY <1>6, <2>3, <3>1
  <2>5. CASE k # 2
    <3>1. (B + 1 - k + 1) % B = B + 1 - (k - 1) /\ k - 1 # 1
      <4>1. B + 1 - k + 1 \in 0 .. B - 1
        BY <2>1, <2>5
      <4> QED BY <2>1, <2>5, <4>1
    <3>2. new[k - 1] = <<b, B + 1 - (k - 1)>>
      BY <1>4, <2>1, <3>1
    <3> QED BY <2>3, <3>1, <3>2
  <2> QED BY <2>4, <2>5
<1>10. \A x \in Cell : x \in Free' <=> x \in Free \/ \E k \in 1 .. B : x = new[k]
  <2> SUFFICES ASSUME NEW x \in Cell PROVE x[1] = b <=> \E k \in 1 .. B : x = new[k]
    BY <1>2
  <2>1. x = <<x[1], x[2]>> /\ x[2] \in 0 .. B - 1
    BY DEF Cell
  <2>2. ASSUME x[1] = b PROVE \E k \in 1 .. B : x = new[k]
    <3>1. PICK k : k = IF x[2] = 0 THEN 1 ELSE B + 1 - x[2]
      OBVIOUS
    <3>2. k \in 1 .. B /\ (IF k = 1 THEN 0 ELSE B + 1 - k) = x[2]
      BY <2>1, <3>1
    <3>3. new[k] = <<b, x[2]>>
      BY <1>4, <3>2
    <3> QED BY <2>1, <2>2, <3>2, <3>3
  <2> QED BY <1>6, <2>2
<1>11. word[new[1]] = head[i] /\ head' = [head EXCEPT ![i] = new[B]]
  BY <1>2, <1>3, <1>6
<1>12. Grows(i, B, new)
  BY <1>3, <1>6, <1>7, <1>8, <1>9, <1>10, <1>11 DEF Grows
<1> QED BY <1>3, <1>5, <1>12, ListsGrow

(* allocate() takes the cell on top, whose successor it knows. *)
LEMMA ListsAllocCas ==
  ASSUME OneAllocator, TypeOK, Good, NEW n \in Heights, NEW c \in CellColumns, Listed(n, c),
         NEW t \in Thread, AllocCas(t), head[reg[t].idx] = reg[t].old
  PROVE  \E m \in Heights, d \in CellColumns : Listed(m, d)'
<1>1. PICK i, v : i = reg[t].idx /\ v = reg[t].nval
  OBVIOUS
<1>2. Free' = Free \ {head[i]} /\ v # Null /\ word[head[i]] = v
  BY <1>1, AllocCasStep
<1>3. /\ head' = [head EXCEPT ![i] = v] /\ word' = word /\ i \in Barrel
      /\ head \in [Barrel -> Pointer]
  BY <1>1 DEF AllocCas, TypeOK, Registers
<1> QED BY <1>2, <1>3, ListsShrink

(* Every step keeps the lists. *)
LEMMA ListStep == OneAllocator /\ TypeOK /\ IInv /\ ListInv /\ [Next]_vars => ListInv'
<1> SUFFICES ASSUME OneAllocator, TypeOK, IInv, ListInv, [Next]_vars, Live'
             PROVE  \E m \in Heights, d \in CellColumns : Listed(m, d)'
  BY DEF ListInv
<1>1. ASSUME Live, head' = head, Free' = Free, \A x \in Free : word'[x] = word[x]
      PROVE  \E m \in Heights, d \in CellColumns : Listed(m, d)'
  BY <1>1, ListsStay DEF ListInv
<1>2. CASE UNCHANGED vars
  <2>1. Free' = Free /\ Live
    BY <1>2 DEF vars, Free, HeapCells, Returning, Building, InFree, InCreate, Live
  <2> QED BY <1>1, <1>2, <2>1 DEF vars
<1>3. CASE DestroyBegin \/ DestroyBlock
  <2>1. CASE DestroyBegin
    BY <2>1 DEF DestroyBegin, Live
  <2>2. CASE DestroyBlock
    <3>1. dtor.phase = "walk" /\ dtor'.phase \in {"walk", "done"}
      BY <2>2 DEF DestroyBlock, TypeOK
    <3> QED BY <3>1 DEF Live
  <2> QED BY <1>3, <2>1, <2>2
<1>4. ASSUME Live, NEW t \in Thread, AllocPick(t) \/ AllocStep(t) \/ FreeStep(t)
      PROVE  \E m \in Heights, d \in CellColumns : Listed(m, d)'
  <2>1. Good /\ \E n \in Heights, c \in CellColumns : Listed(n, c)
    BY <1>4 DEF IInv, ListInv
  <2>2. CASE AllocCas(t) /\ head[reg[t].idx] = reg[t].old
    BY <2>1, <2>2, ListsAllocCas
  <2>3. CASE FreeCas(t) /\ head[reg[t].idx] = reg[t].old
    BY <2>1, <2>3, ListsFreeCas
  <2>4. CASE CreatePush(t) /\ head[reg[t].idx] = reg[t].top
    BY <2>1, <2>4, ListsCreatePush
  <2>5. CASE CreateNew(t)
    BY <1>1, <1>4, <2>1, <2>5, CreateNewStep, WordsStay
  <2>6. CASE \/ AllocPick(t) \/ AllocReadHead(t) \/ AllocReadNext(t)
             \/ AllocCas(t) /\ head[reg[t].idx] # reg[t].old
             \/ CreateThrows(t) \/ CreateWalk(t) \/ CreateLink(t) \/ CreateReadTop(t)
             \/ CreatePush(t) /\ head[reg[t].idx] # reg[t].top
             \/ FreeReadHead(t) \/ FreeWriteWord(t)
             \/ FreeCas(t) /\ head[reg[t].idx] # reg[t].old
    <3>1. Free' = Free
      BY <1>4, <2>1, <2>6, QuietSteps
    <3>2. head' = head /\ \A x \in Free : word'[x] = word[x]
      BY <2>1, <2>6, WordsStay
    <3> QED BY <1>1, <1>4, <3>1, <3>2
  <2> QED BY <1>4, <2>2, <2>3, <2>4, <2>5, <2>6 DEF AllocStep, FreeStep
<1>5. ASSUME Live, NEW t \in Thread, NEW x \in Cell, FreePick(t, x)
      PROVE  \E m \in Heights, d \in CellColumns : Listed(m, d)'
  BY <1>1, <1>5, FreePickStep DEF IInv, FreePick
<1>6. ASSUME Live, NEW x \in Cell, NEW v \in UserWord, ClientWrite(x, v)
      PROVE  \E m \in Heights, d \in CellColumns : Listed(m, d)'
  <2>1. Free' = Free /\ head' = head
    BY <1>6, ClientWriteStep DEF IInv, ClientWrite
  <2>2. \A y \in Free : word'[y] = word[y]
    <3>1. \A y \in Free : y \in Cell /\ y # x
      BY <1>6 DEF ClientWrite, Free, HeapCells
    <3> QED BY <1>6, <3>1 DEF ClientWrite, TypeOK
  <2> QED BY <1>1, <1>6, <2>1, <2>2
<1> QED BY <1>2, <1>3, <1>4, <1>5, <1>6 DEF Next, Ended

(* With one allocating thread the free cells are stacked under the heads,   *)
(* each in one place of one list, down to a terminator.                    *)
THEOREM ListInvariant == OneAllocator /\ Spec => [](TypeOK /\ IInv /\ ListInv)
<1> SUFFICES ASSUME OneAllocator PROVE Spec => [](TypeOK /\ IInv /\ ListInv)
  OBVIOUS
<1>1. Init => ListInv
  BY ListInit
<1>2. TypeOK /\ IInv /\ ListInv /\ [Next]_vars => ListInv'
  BY ListStep
<1>3. TypeOK /\ IInv /\ [Next]_vars => (TypeOK /\ IInv)'
  BY TypeStep, InvStep
<1>4. Init => TypeOK /\ IInv
  BY TypeInit, InvInit
<1> QED BY <1>1, <1>2, <1>3, <1>4, PTL DEF Spec

(* The recursive function of OnList.  It starts at the top of a column.    *)
CellsFrom(h, nx) ==
  LET reach[n \in 0 .. Cardinality(Cell)] ==
        IF n = 0 THEN {h} \cap Cell
        ELSE reach[n - 1] \cup (After(nx, reach[n - 1]) \cap Cell)
  IN reach[Cardinality(Cell)]

(* OnList is that function. *)
LEMMA OnListIsWalk == \A i \in Barrel : OnList(i) = CellsFrom(head[i], word)
BY DEF OnList, CellsFrom, After

(* As for the chains, it collects the cells of a column. *)
LEMMA CellsFromTop ==
  ASSUME NEW n \in Nat, NEW col, NEW nx, Cardinality(Cell) \in Nat, n \in 0 .. Cardinality(Cell),
         col[0] \in Cell, Leads(nx, n, col, Cell)
  PROVE  CellsFrom(col[0], nx) = UpTo(col, n)
<1> DEFINE N == Cardinality(Cell)
           Step(g) == [k \in 0 .. N |-> IF k = 0 THEN {col[0]} \cap Cell
                                        ELSE g[k - 1] \cup (After(nx, g[k - 1]) \cap Cell)]
           f == [k \in 0 .. N |-> UpTo(col, Lesser(k, n))]
<1>1. UpTo(col, 0) = {col[0]} \cap Cell /\ Lesser(0, n) = 0
  BY DEF UpTo, Lesser
<1>2. \A m \in 0 .. n :
        UpTo(col, m) \cup (After(nx, UpTo(col, m)) \cap Cell) = UpTo(col, Lesser(m + 1, n))
  BY StepUp
<1>3. \A j \in 0 .. N : f[j] = Step(f)[j]
  <2> SUFFICES ASSUME NEW j \in 0 .. N PROVE f[j] = Step(f)[j]
    OBVIOUS
  <2>1. CASE j = 0
    BY <1>1, <2>1
  <2>2. CASE j # 0
    <3>1. j - 1 \in 0 .. N /\ Lesser(j - 1, n) \in 0 .. n
          /\ Lesser(Lesser(j - 1, n) + 1, n) = Lesser(j, n)
      BY <2>2 DEF Lesser
    <3>2. f[j - 1] = UpTo(col, Lesser(j - 1, n)) /\ f[j] = UpTo(col, Lesser(j, n))
      BY <3>1
    <3>3. f[j - 1] \cup (After(nx, f[j - 1]) \cap Cell) = f[j]
      BY <1>2, <3>1, <3>2
    <3> QED BY <2>2, <3>3
  <2> QED BY <2>1, <2>2
<1>4. f = Step(f)
  <2>1. PICK F, G : F = f /\ G = Step(f)
    OBVIOUS
  <2>2. F = [k \in 0 .. N |-> F[k]] /\ G = [k \in 0 .. N |-> G[k]]
    BY <2>1
  <2>3. \A k \in 0 .. N : F[k] = G[k]
    BY <1>3, <2>1
  <2> HIDE DEF f, Step
  <2> QED BY <2>1, <2>2, <2>3
<1>5. PICK r : r = CHOOSE g : g = Step(g)
  OBVIOUS
<1>6. r = Step(r) /\ CellsFrom(col[0], nx) = r[N]
  BY <1>4, <1>5 DEF CellsFrom
<1> HIDE DEF Step, f
<1>7. /\ r[0] = {col[0]} \cap Cell
      /\ \A k \in 1 .. N : r[k] = r[k - 1] \cup (After(nx, r[k - 1]) \cap Cell)
  <2>1. \A k \in 0 .. N : r[k] = IF k = 0 THEN {col[0]} \cap Cell
                                 ELSE r[k - 1] \cup (After(nx, r[k - 1]) \cap Cell)
    BY <1>6 DEF Step
  <2>2. 0 \in 0 .. N /\ \A k \in 1 .. N : k \in 0 .. N /\ k # 0
    OBVIOUS
  <2>3. r[0] = {col[0]} \cap Cell
    BY <2>1, <2>2, Zenon
  <2>4. \A k \in 1 .. N : r[k] = r[k - 1] \cup (After(nx, r[k - 1]) \cap Cell)
    BY <2>1, <2>2, Zenon
  <2> QED BY <2>3, <2>4
<1>8. \A k \in 1 .. N : \A m \in 0 .. n :
        r[k - 1] = UpTo(col, m) => r[k] = UpTo(col, Lesser(m + 1, n))
  BY <1>2, <1>7
<1>9. r[N] = UpTo(col, n)
  <2>1. r[0] = UpTo(col, 0)
    BY <1>1, <1>7
  <2> QED BY <1>8, <2>1, ReachesAll
<1> QED BY <1>6, <1>9

(* OnList(i) are the cells of column i. *)
LEMMA OnListIsColumn ==
  ASSUME NEW n \in Heights, NEW c \in CellColumns, Stacked(n, c), Apart(n, c), NEW i \in Barrel
  PROVE  \A x : x \in OnList(i) <=> \E k \in 0 .. n[i] : c[i][k] = x
<1>1. n[i] \in Nat /\ \A k \in 0 .. n[i] : c[i][k] \in Cell
  BY DEF Heights, CellColumns
<1>2. \A k, l \in 0 .. n[i] : c[i][k] = c[i][l] => k = l
  BY DEF Apart
<1>3. IsFiniteSet(Cell)
  <2>1. IsFiniteSet(0 .. CellsPerBlock - 1)
    BY ConstantsAssumption, FS_Interval
  <2> QED BY <2>1, FiniteAssumption, FS_Product DEF Cell
<1>4. Cardinality(Cell) \in Nat /\ n[i] \in 0 .. Cardinality(Cell)
  BY <1>1, <1>2, <1>3, ColumnFits
<1>5. PICK col : col = [k \in 0 .. n[i] |-> c[i][n[i] - k]]
  OBVIOUS
<1>6. /\ \A k \in 0 .. n[i] : col[k] = c[i][n[i] - k] /\ n[i] - k \in 0 .. n[i]
      /\ col[0] = head[i] /\ col[0] \in Cell /\ col[n[i]] = c[i][0]
  <2>1. \A k \in 0 .. n[i] : col[k] = c[i][n[i] - k] /\ n[i] - k \in 0 .. n[i]
    BY <1>1, <1>5
  <2>2. 0 \in 0 .. n[i] /\ n[i] \in 0 .. n[i] /\ n[i] - 0 = n[i] /\ n[i] - n[i] = 0
    BY <1>1
  <2>3. col[0] = c[i][n[i]] /\ col[n[i]] = c[i][0]
    BY <2>1, <2>2
  <2> QED BY <1>1, <2>1, <2>2, <2>3 DEF Stacked
<1>7. Leads(word, n[i], col, Cell)
  <2>1. ASSUME NEW k \in 1 .. n[i] PROVE word[col[k - 1]] = col[k] /\ col[k] \in Cell
    <3>1. /\ k - 1 \in 0 .. n[i] /\ k \in 0 .. n[i] /\ n[i] - (k - 1) \in 1 .. n[i]
          /\ n[i] - (k - 1) - 1 = n[i] - k
      BY <1>1
    <3>2. col[k - 1] = c[i][n[i] - (k - 1)] /\ col[k] = c[i][n[i] - k]
      BY <1>6, <3>1
    <3>3. word[c[i][n[i] - (k - 1)]] = c[i][n[i] - k]
      BY <3>1 DEF Stacked
    <3> QED BY <1>1, <1>6, <3>1, <3>2, <3>3
  <2>2. word[col[n[i]]] \notin Cell
    BY <1>6, ConstantsAssumption, NullAssumption DEF Stacked
  <2> QED BY <2>1, <2>2 DEF Leads
<1>8. OnList(i) = UpTo(col, n[i])
  <2>1. CellsFrom(col[0], word) = UpTo(col, n[i])
    BY <1>1, <1>4, <1>6, <1>7, CellsFromTop
  <2> QED BY <1>6, <2>1, OnListIsWalk
<1>9. \A x : x \in UpTo(col, n[i]) <=> \E k \in 0 .. n[i] : col[k] = x
  BY DEF UpTo
<1>10. \A k \in 0 .. n[i] : col[n[i] - k] = c[i][k]
  <2> SUFFICES ASSUME NEW k \in 0 .. n[i] PROVE col[n[i] - k] = c[i][k]
    OBVIOUS
  <2>1. n[i] - k \in 0 .. n[i] /\ n[i] - (n[i] - k) = k
    BY <1>1
  <2>2. col[n[i] - k] = c[i][n[i] - (n[i] - k)]
    BY <1>6, <2>1
  <2> QED BY <2>1, <2>2
<1> QED BY <1>6, <1>8, <1>9, <1>10

(* With one allocating thread no cell is lost, whatever barrels it comes    *)
(* from and is given back to, and no list runs into a cycle                *)
(* (memory_pool.hpp:83-88, 119-133, 145-153).                              *)
THEOREM ListsKeepCells == OneAllocator /\ Spec => []FreeListsComplete
<1>1. ListInv => FreeListsComplete
  <2> SUFFICES ASSUME NEW n \in Heights, NEW c \in CellColumns, Listed(n, c)
               PROVE  /\ \A i \in Barrel : \E x \in OnList(i) : word[x] = Null
                      /\ UNION {OnList(i) : i \in Barrel} = Free
    BY DEF ListInv, FreeListsComplete
  <2>1. \A i \in Barrel : \A x : x \in OnList(i) <=> \E k \in 0 .. n[i] : c[i][k] = x
    BY OnListIsColumn DEF Listed
  <2>2. \A i \in Barrel : \E x \in OnList(i) : word[x] = Null
    BY <2>1 DEF Listed, Stacked, Heights
  <2>3. \A x : x \in Free <=> \E i \in Barrel : x \in OnList(i)
    <3>1. \A x : x \in Free => x \in Cell
      BY DEF Free, HeapCells
    <3>2. \A x : On(n, c, x) => x \in Cell
      BY DEF On, CellColumns, Heights
    <3>3. \A x : On(n, c, x) <=> \E i \in Barrel : x \in OnList(i)
      BY <2>1 DEF On
    <3> QED BY <3>1, <3>2, <3>3 DEF Listed
  <2>4. UNION {OnList(i) : i \in Barrel} = Free
    BY <2>3
  <2> QED BY <2>2, <2>4
<1> QED BY <1>1, ListInvariant, PTL
=============================================================================
