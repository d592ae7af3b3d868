---------------------------- MODULE BufferProofs ----------------------------
(***************************************************************************)
(* What buffers keep of their users' bytes, for every number of buffers,   *)
(* every size of a block and every number of calls.                        *)
(*                                                                         *)
(* BuffersHold says nothing of a buffer that somebody else has written     *)
(* into, but such a buffer goes on acting, and the others must survive it. *)
(* The invariant therefore also bounds what every live buffer is, whoever  *)
(* has written to it.  Its parts take the state as arguments, so that a    *)
(* call that reserves and then writes can be followed in two steps.        *)
(***************************************************************************)
EXTENDS Buffer, TLAPS, FiniteSetTheorems, SequenceTheorems

BufferSpec == BufferInit /\ [][BufferNext]_bufferVars

-----------------------------------------------------------------------------
(* The bytes that the calls of BufferNext write, and what malloc leaves.   *)
Byte == {"0", "f", "p", "q", "r", "x", "y", "z", Junk}
Members == [data : Nat, size : Nat, block : Nat]
Blocks == [freed : BOOLEAN, count : Int, bytes : Seq(Byte)]

(* The buffers in their life, those of them that have a block, and those   *)
(* on the block d.                                                         *)
Lives(bf) == {b \in Buffers : bf[b] # <<>>}
Pointing(bf) == {b \in Lives(bf) : bf[b].data # Null}
On(bf, d) == {b \in Buffers : bf[b] # <<>> /\ bf[b].data = d}

Typed(bf, hp, tx) ==
  /\ bf \in [Buffers -> Members \cup {<<>>}]
  /\ hp \in Seq(Blocks)
  /\ tx \in [Buffers -> Seq(Byte)]

(* _block is the size of the block, freed or not, and _size is within it.  *)
Placed(bf, hp) ==
  \A b \in Pointing(bf) :
    /\ bf[b].data \in DOMAIN hp
    /\ Len(hp[bf[b].data].bytes) + Header = bf[b].block * BlockSize
    /\ bf[b].size <= Len(hp[bf[b].data].bytes)

Counted(bf, hp, snd) ==
  \A d \in snd : ~hp[d].freed =>
    hp[d].count = Cardinality(On(bf, d)) /\ On(bf, d) # {}

Kept(bf, hp, snd) == \A b \in Lives(bf) : bf[b].data \in snd => ~hp[bf[b].data].freed

(* A buffer that has no block has no text, whatever its _size: the next    *)
(* reserve sets the size to 0.                                             *)
Blank(bf, tx) == \A b \in Lives(bf) : bf[b].data = Null => tx[b] = <<>>

(* No call makes a buffer longer than its user's text: what erase and      *)
(* replace cut out of the text is there, also where others have written.   *)
Covered(bf, tx) == \A b \in Pointing(bf) : bf[b].size <= Len(tx[b])

(* The members v hold the text t. *)
Same(v, hp, t) == Len(t) = v.size /\ \A i \in 1..v.size : t[i] = hp[v.data].bytes[i]

Held(bf, hp, snd, tx, sr) ==
  \A b \in sr : bf[b].data \in snd => Same(bf[b], hp, tx[b])

Holds(bf, hp, snd, tx, sr) ==
  /\ Typed(bf, hp, tx)
  /\ IsFiniteSet(Lives(bf))
  /\ snd \subseteq DOMAIN hp
  /\ sr \subseteq Lives(bf)
  /\ Placed(bf, hp) /\ Counted(bf, hp, snd) /\ Kept(bf, hp, snd) /\ Blank(bf, tx) /\ Covered(bf, tx)
  /\ Held(bf, hp, snd, tx, sr)

IInv == Holds(buf, heap, sound, text, sure)

-----------------------------------------------------------------------------

(* size/block_size, rounded up: so many blocks have room for size bytes. *)
LEMMA RoundUp ==
  ASSUME NEW n \in Nat, NEW k \in Nat \ {0}
  PROVE  LET nb == (n \div k) + (IF n % k = 0 THEN 0 ELSE 1)
         IN  nb \in Nat /\ nb * k >= n /\ nb * k \in Nat
<1>1. PICK q \in Nat, r \in 0..(k - 1) : q = n \div k /\ r = n % k
  <2>1. n \div k \in Int
    OBVIOUS
  <2>2. n \div k >= 0
    OBVIOUS
  <2>3. n % k \in 0..(k - 1)
    OBVIOUS
  <2> QED BY <2>1, <2>2, <2>3
<1>2. n = k * q + r
  BY <1>1
<1>3. q * k = k * q /\ (q + 1) * k = k * q + k /\ k * q \in Nat /\ (q + 1) * k \in Nat
  OBVIOUS
<1> QED BY <1>1, <1>2, <1>3

(* A buffer with members is in its life. *)
LEMMA AMemberLives == \A v \in Members : v # <<>>
<1>1. \A v \in Members : "data" \in DOMAIN v
  BY DEF Members
<1>2. DOMAIN <<>> = {}
  OBVIOUS
<1> QED BY <1>1, <1>2

(* After only b's members have changed. *)
LEMMA OnOthers ==
  ASSUME NEW bf \in [Buffers -> Members \cup {<<>>}], NEW b \in Buffers, NEW v \in Members \cup {<<>>},
         NEW d \in Nat
  PROVE  LET bg == [bf EXCEPT ![b] = v] IN
         /\ v # <<>> /\ v.data = d => On(bg, d) = On(bf, d) \cup {b}
         /\ v = <<>> \/ v.data # d => On(bg, d) = On(bf, d) \ {b}
         /\ v # <<>> => Lives(bg) = Lives(bf) \cup {b}
         /\ v = <<>> => Lives(bg) = Lives(bf) \ {b}
  BY DEF On, Lives

(* Only live buffers are on a block. *)
LEMMA OnFinite ==
  ASSUME NEW bf, NEW d, IsFiniteSet(Lives(bf))
  PROVE  IsFiniteSet(On(bf, d)) /\ On(bf, d) \subseteq Lives(bf)
  BY FS_Subset DEF On, Lives

(* The buffers of sr other than b that share b's block have their bytes in nb. *)
Spared(bf, hp, b, sr, nb) ==
  \A c \in sr \ {b} : bf[c].data = bf[b].data =>
    \A i \in 1..bf[c].size : nb[i] = hp[bf[b].data].bytes[i]

(* A call that writes the bytes nb into b's block, and gives b the size k  *)
(* and its user the text t.                                                *)
LEMMA WriteKeeps ==
  ASSUME NEW bf, NEW hp, NEW snd, NEW tx, NEW sr, Holds(bf, hp, snd, tx, sr),
         NEW b \in Pointing(bf), NEW k \in Nat, NEW t \in Seq(Byte), NEW nb \in Seq(Byte),
         NEW sr2 \in SUBSET sr,
         Len(nb) = Len(hp[bf[b].data].bytes), k <= Len(nb), k <= Len(t),
         Spared(bf, hp, b, sr2, nb),
         b \in sr2 /\ bf[b].data \in snd => Len(t) = k /\ \A i \in 1..k : t[i] = nb[i]
  PROVE  Holds([bf EXCEPT ![b].size = k], [hp EXCEPT ![bf[b].data].bytes = nb], snd, [tx EXCEPT ![b] = t], sr2)
<1> DEFINE d == bf[b].data
           bg == [bf EXCEPT ![b].size = k]
           hq == [hp EXCEPT ![d].bytes = nb]
           ty == [tx EXCEPT ![b] = t]
<1>1. /\ Typed(bf, hp, tx) /\ b \in Buffers /\ bf[b] \in Members /\ bf[b] # <<>> /\ d # Null
      /\ d \in DOMAIN hp /\ hp[d] \in Blocks
  <2>1. b \in Buffers /\ bf[b] \in Members /\ bf[b] # <<>> /\ d # Null
    BY DEF Holds, Typed, Pointing, Lives
  <2>2. d \in DOMAIN hp
    BY DEF Holds, Placed
  <2> QED BY <2>1, <2>2 DEF Holds, Typed
<1>2. /\ bg[b] = [data |-> d, size |-> k, block |-> bf[b].block] /\ bg[b] \in Members /\ bg[b] # <<>>
      /\ \A c \in Buffers \ {b} : bg[c] = bf[c]
      /\ \A c \in Buffers : bf[c] # <<>> => bg[c].data = bf[c].data /\ bg[c].block = bf[c].block
      /\ \A c \in Buffers : bg[c] = <<>> <=> bf[c] = <<>>
  BY <1>1, AMemberLives DEF Typed, Members
<1>3. /\ DOMAIN hq = DOMAIN hp
      /\ \A e \in DOMAIN hp : hq[e].freed = hp[e].freed /\ hq[e].count = hp[e].count
      /\ \A e \in DOMAIN hp \ {d} : hq[e] = hp[e]
      /\ hq[d].bytes = nb /\ hq[d] \in Blocks
      /\ \A e \in DOMAIN hp : Len(hq[e].bytes) = Len(hp[e].bytes)
  BY <1>1 DEF Typed, Blocks
<1>4. Typed(bg, hq, ty)
  <2>1. bg \in [Buffers -> Members \cup {<<>>}]
    BY <1>1, <1>2 DEF Typed
  <2>2. hq \in Seq(Blocks)
    BY <1>1, <1>3 DEF Typed
  <2>3. ty \in [Buffers -> Seq(Byte)]
    BY <1>1 DEF Typed
  <2> QED BY <2>1, <2>2, <2>3 DEF Typed
<1>5. Lives(bg) = Lives(bf) /\ Pointing(bg) = Pointing(bf) /\ \A e : On(bg, e) = On(bf, e)
  BY <1>2 DEF Lives, On, Pointing
<1>6. Placed(bg, hq)
  <2> SUFFICES ASSUME NEW c \in Pointing(bf)
               PROVE  /\ bg[c].data \in DOMAIN hq
                      /\ Len(hq[bg[c].data].bytes) + Header = bg[c].block * BlockSize
                      /\ bg[c].size <= Len(hq[bg[c].data].bytes)
    BY <1>5 DEF Placed
  <2>1. /\ bf[c].data \in DOMAIN hp
        /\ Len(hp[bf[c].data].bytes) + Header = bf[c].block * BlockSize
        /\ bf[c].size <= Len(hp[bf[c].data].bytes)
    BY DEF Holds, Placed
  <2>2. c \in Buffers /\ bf[c] # <<>>
    BY DEF Pointing, Lives
  <2>3. CASE c = b
    <3>1. bg[c].data = d /\ bg[c].block = bf[b].block /\ bg[c].size = k
      BY <1>2, <2>3
    <3>2. Len(hq[d].bytes) = Len(hp[d].bytes) /\ Len(hp[d].bytes) + Header = bf[b].block * BlockSize
      BY <1>1, <1>3, <2>1, <2>3
    <3> QED BY <1>1, <1>3, <3>1, <3>2
  <2>4. CASE c # b
    BY <1>2, <1>3, <2>1, <2>2, <2>4
  <2> QED BY <2>3, <2>4
<1>7. Counted(bg, hq, snd)
  BY <1>3, <1>5 DEF Holds, Counted
<1>8. Kept(bg, hq, snd)
  BY <1>2, <1>3, <1>5 DEF Holds, Kept, Lives
<1>9. Blank(bg, ty)
  <2> SUFFICES ASSUME NEW c \in Lives(bf), bg[c].data = Null
               PROVE  ty[c] = <<>>
    BY <1>5 DEF Blank
  <2>1. c # b /\ c \in Buffers /\ bf[c].data = Null
    BY <1>1, <1>2 DEF Lives
  <2> QED BY <2>1, <1>1 DEF Holds, Blank, Typed
<1>10. Held(bg, hq, snd, ty, sr2)
  <2> SUFFICES ASSUME NEW c \in sr2, bg[c].data \in snd
               PROVE  Same(bg[c], hq, ty[c])
    BY DEF Held
  <2>1. c \in Buffers /\ c \in sr /\ bf[c] # <<>> /\ bf[c].data \in snd /\ snd \subseteq DOMAIN hp
    BY <1>2 DEF Holds, Lives
  <2>2. CASE c = b
    BY <1>1, <1>2, <1>3, <2>1, <2>2 DEF Same, Typed
  <2>3. CASE c # b
    <3>1. Same(bf[c], hp, tx[c]) /\ bg[c] = bf[c] /\ ty[c] = tx[c]
      BY <1>1, <1>2, <2>1, <2>3 DEF Holds, Held, Typed
    <3>2. CASE bf[c].data = d
      BY <1>3, <2>1, <2>3, <3>1, <3>2 DEF Same, Spared
    <3>3. CASE bf[c].data # d
      BY <1>3, <2>1, <3>1, <3>3 DEF Same
    <3> QED BY <3>2, <3>3
  <2> QED BY <2>2, <2>3
<1>11. IsFiniteSet(Lives(bg)) /\ snd \subseteq DOMAIN hq /\ sr2 \subseteq Lives(bg)
  BY <1>3, <1>5 DEF Holds
<1>12. Covered(bg, ty)
  <2> SUFFICES ASSUME NEW c \in Pointing(bf)
               PROVE  bg[c].size <= Len(ty[c])
    BY <1>5 DEF Covered
  <2>1. c \in Buffers /\ bf[c].size <= Len(tx[c])
    BY DEF Holds, Covered, Pointing, Lives
  <2>2. CASE c = b
    BY <1>1, <1>2, <2>2 DEF Typed
  <2>3. CASE c # b
    BY <1>1, <1>2, <2>1, <2>3 DEF Typed
  <2> QED BY <2>2, <2>3
<1> QED BY <1>4, <1>6, <1>7, <1>8, <1>9, <1>10, <1>11, <1>12 DEF Holds

(* A call that writes nothing. *)
LEMMA SizeKeeps ==
  ASSUME NEW bf, NEW hp, NEW snd, NEW tx, NEW sr, Holds(bf, hp, snd, tx, sr),
         NEW b \in Lives(bf), NEW k \in Nat, NEW t \in Seq(Byte),
         bf[b].data # Null => k <= Len(hp[bf[b].data].bytes) /\ k <= Len(t),
         bf[b].data = Null => t = <<>>,
         b \in sr /\ bf[b].data \in snd => Len(t) = k /\ \A i \in 1..k : t[i] = hp[bf[b].data].bytes[i]
  PROVE  Holds([bf EXCEPT ![b].size = k], hp, snd, [tx EXCEPT ![b] = t], sr)
<1>1. Typed(bf, hp, tx) /\ b \in Buffers /\ bf[b] \in Members /\ bf[b] # <<>>
  BY DEF Holds, Typed, Lives
<1>2. CASE bf[b].data # Null
  <2> DEFINE d == bf[b].data
             nb == hp[d].bytes
  <2>1. b \in Pointing(bf) /\ d \in DOMAIN hp
    BY <1>2 DEF Pointing, Holds, Placed
  <2>2. hp[d] \in Blocks /\ nb \in Seq(Byte)
    <3>1. hp[d] \in Blocks
      BY <1>1, <2>1 DEF Typed
    <3> QED BY <3>1 DEF Blocks
  <2>3. [hp EXCEPT ![d].bytes = nb] = hp
    <3>1. [hp[d] EXCEPT !.bytes = nb] = hp[d]
      BY <2>2 DEF Blocks
    <3>2. [hp EXCEPT ![d].bytes = nb] = [hp EXCEPT ![d] = [hp[d] EXCEPT !.bytes = nb]]
      OBVIOUS
    <3>3. hp = [e \in DOMAIN hp |-> hp[e]]
      BY <1>1 DEF Typed
    <3> QED BY <2>1, <3>1, <3>2, <3>3
  <2>4. Spared(bf, hp, b, sr, nb)
    BY DEF Spared
  <2>5. Holds([bf EXCEPT ![b].size = k], [hp EXCEPT ![d].bytes = nb], snd, [tx EXCEPT ![b] = t], sr)
    <3> HIDE DEF nb
    <3>1. Len(nb) = Len(hp[d].bytes) /\ k <= Len(nb)
      BY <1>2 DEF nb
    <3>3. k <= Len(t)
      BY <1>2
    <3>2. b \in sr /\ d \in snd => Len(t) = k /\ \A i \in 1..k : t[i] = nb[i]
      BY DEF nb
    <3> QED BY <2>1, <2>2, <2>4, <3>1, <3>2, <3>3, WriteKeeps
  <2> QED BY <2>3, <2>5
<1>3. CASE bf[b].data = Null
  <2> DEFINE bg == [bf EXCEPT ![b].size = k]
             ty == [tx EXCEPT ![b] = t]
  <2>1. /\ bg[b].data = Null /\ bg[b] \in Members /\ bg[b] # <<>>
        /\ \A c \in Buffers \ {b} : bg[c] = bf[c] /\ ty[c] = tx[c]
        /\ \A c \in Buffers : bf[c] # <<>> => bg[c].data = bf[c].data
        /\ \A c \in Buffers : bg[c] = <<>> <=> bf[c] = <<>>
        /\ ty[b] = <<>>
    BY <1>1, <1>3, AMemberLives DEF Typed, Members
  <2>2. Lives(bg) = Lives(bf) /\ Pointing(bg) = Pointing(bf) /\ b \notin Pointing(bg) /\ \A e : On(bg, e) = On(bf, e)
    BY <2>1 DEF Lives, On, Pointing
  <2>3. Typed(bg, hp, ty)
    BY <1>1, <2>1 DEF Typed
  <2>4. Placed(bg, hp)
    BY <2>1, <2>2 DEF Holds, Placed, Pointing, Lives
  <2>5. Counted(bg, hp, snd)
    BY <2>2 DEF Holds, Counted
  <2>6. Kept(bg, hp, snd)
    BY <2>1, <2>2 DEF Holds, Kept, Lives
  <2>7. Blank(bg, ty)
    BY <2>1, <2>2 DEF Holds, Blank, Lives
  <2>8. Null \notin snd
    BY <1>1 DEF Holds, Typed, Null
  <2>9. Held(bg, hp, snd, ty, sr)
    <3> SUFFICES ASSUME NEW c \in sr, bg[c].data \in snd
                 PROVE  Same(bg[c], hp, ty[c])
      BY DEF Held
    <3>1. c \in Buffers /\ c # b
      BY <2>1, <2>8 DEF Holds, Lives
    <3> QED BY <2>1, <3>1 DEF Holds, Held
  <2>10. Covered(bg, ty)
    BY <2>1, <2>2 DEF Holds, Covered, Pointing, Lives
  <2> QED BY <2>2, <2>3, <2>4, <2>5, <2>6, <2>7, <2>9, <2>10 DEF Holds
<1> QED BY <1>2, <1>3

(* What Fill gives. *)
LEMMA FillType ==
  ASSUME NEW n \in Nat, NEW c \in Byte
  PROVE  Fill(n, c) \in Seq(Byte) /\ Len(Fill(n, c)) = n /\ \A i \in 1..n : Fill(n, c)[i] = c
  BY DEF Fill

LEMMA EmptyIsSeq == <<>> \in Seq(Byte) /\ Len(<<>>) = 0
  OBVIOUS

(* What reserve leaves for the call that it is part of. *)
Ready(b, n, s) ==
  /\ Holds([buf EXCEPT ![b] = s.v], s.heap, s.sound, text, sure)
  /\ s = State(s.v, s.heap, s.sound)
  /\ s.v \in Members /\ s.v.data # Null
  /\ n + Header <= s.v.block * BlockSize
  /\ s.v.size = IF buf[b].data = Null THEN 0 ELSE buf[b].size
  /\ \A c \in Lives(buf) \ {b} : buf[c].data = s.v.data => c \in Others(b)

(* What a call may rely on. *)
LEMMA UsableFacts ==
  ASSUME IInv, NEW b \in Buffers, Usable(b)
  PROVE  /\ Typed(buf, heap, text) /\ b \in Lives(buf) /\ buf[b] \in Members
         /\ buf[b].data # Null =>
              b \in Pointing(buf) /\ buf[b].data \in DOMAIN heap /\ heap[buf[b].data] \in Blocks /\ ~heap[buf[b].data].freed
<1>1. Typed(buf, heap, text) /\ b \in Lives(buf) /\ buf[b] \in Members
  BY DEF IInv, Holds, Typed, Usable, Alive, Lives
<1>2. buf[b].data # Null => b \in Pointing(buf) /\ buf[b].data \in DOMAIN heap
  BY <1>1 DEF IInv, Holds, Placed, Pointing
<1>3. buf[b].data # Null => ~heap[buf[b].data].freed
  BY DEF Usable
<1> QED BY <1>1, <1>2, <1>3 DEF Typed

(* The first block of a buffer (lines 137-140). *)
LEMMA ReserveFirst ==
  ASSUME IInv, NEW b \in Buffers, Usable(b), NEW n \in Nat, buf[b].data = Null
  PROVE  Ready(b, n, Reserve(b, n))
<1> DEFINE size == n + Header
           nb == (size \div BlockSize) + (IF size % BlockSize = 0 THEN 0 ELSE 1)
           new == Len(heap) + 1
           room == nb * BlockSize - Header
           v == [data |-> new, size |-> 0, block |-> nb]
           cell == [freed |-> FALSE, count |-> 1, bytes |-> Fill(room, Junk)]
           s == Reserve(b, n)
           bg == [buf EXCEPT ![b] = v]
           hq == Append(heap, cell)
           snd == sound \cup {new}
<1>1. s = State(v, hq, snd)
  BY DEF Reserve, Needed
<1>2. Typed(buf, heap, text) /\ b \in Lives(buf) /\ buf[b] \in Members /\ new \in Nat /\ new # Null
  BY UsableFacts DEF Typed, Null
<1>3. size \in Nat /\ BlockSize \in Nat \ {0} /\ Header \in Nat
  BY BufferAssumption
<1>4. nb \in Nat /\ nb * BlockSize >= size /\ nb * BlockSize \in Nat
  BY <1>3, RoundUp
<1> HIDE DEF nb
<1>5. room \in Nat /\ room + Header = nb * BlockSize
  BY <1>3, <1>4
<1> HIDE DEF room
<1>6. Fill(room, Junk) \in Seq(Byte) /\ Len(Fill(room, Junk)) = room
  <2>1. Junk \in Byte
    BY DEF Byte
  <2> QED BY <1>5, <2>1, FillType
<1>7. cell \in Blocks /\ v \in Members /\ v # <<>>
  BY <1>2, <1>4, <1>6, AMemberLives DEF Blocks, Members
<1>8. /\ DOMAIN hq = 1..new /\ hq[new] = cell /\ \A e \in DOMAIN heap : hq[e] = heap[e]
      /\ DOMAIN heap = 1..Len(heap) /\ new \notin DOMAIN heap
  BY <1>2, <1>7 DEF Typed
<1>9. /\ bg[b] = v /\ \A c \in Buffers \ {b} : bg[c] = buf[c]
  BY <1>2 DEF Typed, Lives
<1>10. \A c \in Pointing(buf) : buf[c].data \in DOMAIN heap
  BY DEF IInv, Holds, Placed
<1>11. \A c \in Lives(buf) : buf[c].data # new
  BY <1>2, <1>8, <1>10 DEF Pointing
<1>12. Lives(bg) = Lives(buf) /\ Pointing(bg) = Pointing(buf) \cup {b} /\ b \notin Pointing(buf)
  BY <1>2, <1>7, <1>9 DEF Lives, Pointing
<1>13. On(bg, new) = {b} /\ \A e \in DOMAIN heap : On(bg, e) = On(buf, e)
  <2>1. On(bg, new) = {b}
    BY <1>2, <1>7, <1>9, <1>11, <1>12 DEF On, Lives
  <2>2. \A e \in DOMAIN heap : e # Null /\ e # new
    BY <1>8 DEF Null
  <2> QED BY <1>2, <1>7, <1>9, <2>1, <2>2 DEF On, Lives
<1>14. Typed(bg, hq, text)
  BY <1>2, <1>7 DEF Typed
<1>15. Placed(bg, hq)
  <2> SUFFICES ASSUME NEW c \in Pointing(bg)
               PROVE  /\ bg[c].data \in DOMAIN hq
                      /\ Len(hq[bg[c].data].bytes) + Header = bg[c].block * BlockSize
                      /\ bg[c].size <= Len(hq[bg[c].data].bytes)
    BY DEF Placed
  <2>1. CASE c = b
    BY <1>2, <1>5, <1>6, <1>8, <1>9, <2>1
  <2>2. CASE c # b
    BY <1>8, <1>9, <1>10, <1>12, <2>2 DEF IInv, Holds, Placed, Pointing, Lives
  <2> QED BY <2>1, <2>2
<1>16. sound \subseteq DOMAIN heap
  BY DEF IInv, Holds
<1>17. Counted(bg, hq, snd)
  <2> SUFFICES ASSUME NEW e \in snd, ~hq[e].freed
               PROVE  hq[e].count = Cardinality(On(bg, e)) /\ On(bg, e) # {}
    BY DEF Counted
  <2>1. CASE e = new
    <3>1. hq[new].count = 1 /\ On(bg, new) = {b}
      <4>1. hq[new] = cell /\ On(bg, new) = {b}
        BY <1>8, <1>13
      <4>2. cell.count = 1
        OBVIOUS
      <4> HIDE DEF cell, hq, bg, new
      <4> QED BY <4>1, <4>2
    <3>2. Cardinality({b}) = 1
      BY FS_Singleton
    <3> QED BY <2>1, <3>1, <3>2
  <2>2. CASE e \in sound
    BY <1>8, <1>13, <1>16, <2>2 DEF IInv, Holds, Counted
  <2> QED BY <2>1, <2>2
<1>18. Kept(bg, hq, snd)
  <2> SUFFICES ASSUME NEW c \in Lives(buf), bg[c].data \in snd
               PROVE  ~hq[bg[c].data].freed
    BY <1>12 DEF Kept
  <2>1. CASE c = b
    BY <1>8, <1>9, <2>1
  <2>2. CASE c # b
    BY <1>8, <1>9, <1>11, <1>16, <2>2 DEF IInv, Holds, Kept, Lives
  <2> QED BY <2>1, <2>2
<1>19. Blank(bg, text)
  BY <1>2, <1>9, <1>12 DEF IInv, Holds, Blank, Lives
<1>20. Held(bg, hq, snd, text, sure)
  <2> SUFFICES ASSUME NEW c \in sure, bg[c].data \in snd
               PROVE  Same(bg[c], hq, text[c])
    BY DEF Held
  <2>1. c \in Lives(buf)
    BY DEF IInv, Holds
  <2>2. CASE c = b
    <3>1. text[b] = <<>>
      BY <1>2 DEF IInv, Holds, Blank
    <3> QED BY <1>9, <2>2, <3>1 DEF Same
  <2>3. CASE c # b
    <3>1. bg[c] = buf[c] /\ buf[c].data \in sound
      BY <1>9, <1>11, <2>1, <2>3 DEF Lives
    <3>2. Same(buf[c], heap, text[c])
      BY <3>1 DEF IInv, Holds, Held
    <3> QED BY <1>8, <1>16, <3>1, <3>2 DEF Same
  <2> QED BY <2>2, <2>3
<1>21. Holds(bg, hq, snd, text, sure)
  <2>1. IsFiniteSet(Lives(buf)) /\ sure \subseteq Lives(buf)
    BY DEF IInv, Holds
  <2>2. snd \subseteq DOMAIN hq
    BY <1>2, <1>8, <1>16
  <2>3. Covered(bg, text)
    <3> SUFFICES ASSUME NEW c \in Pointing(bg)
                 PROVE  bg[c].size <= Len(text[c])
      BY DEF Covered
    <3>1. CASE c = b
      BY <1>2, <1>9, <3>1 DEF Typed
    <3>2. CASE c # b
      BY <1>9, <1>12, <3>2 DEF IInv, Holds, Covered, Pointing, Lives
    <3> QED BY <3>1, <3>2
  <2> HIDE DEF bg, hq, snd
  <2> QED BY <1>14, <1>15, <1>17, <1>18, <1>12, <1>19, <1>20, <2>1, <2>2, <2>3 DEF Holds
<1>22. s.v = v /\ s.heap = hq /\ s.sound = snd
  BY <1>1 DEF State
<1>23. n + Header <= nb * BlockSize /\ v.block = nb /\ v.data = new /\ v.size = 0
  BY <1>4
<1>24. s = State(s.v, s.heap, s.sound)
  BY <1>1, <1>22
<1>25. s.v.size = IF buf[b].data = Null THEN 0 ELSE buf[b].size
  BY <1>22, <1>23
<1>26. Ready(b, n, s)
  <2> HIDE DEF s, v, hq, snd
  <2> QED BY <1>2, <1>7, <1>11, <1>21, <1>22, <1>23, <1>24, <1>25 DEF Ready
<1> QED BY <1>26

(* A block of x bytes that n bytes need is larger than one of y that they  *)
(* do not fit into; h is the size of the count.                            *)
LEMMA RoomGrows ==
  ASSUME NEW r \in Nat, NEW x \in Nat, NEW y \in Nat, NEW l \in Nat, NEW h \in Nat, NEW n \in Nat,
         r + h = x, x >= n + h, l + h = y, ~(n + h <= y)
  PROVE  r - l \in Nat
  OBVIOUS

(* Growth by realloc (lines 131-135): the buffers that stay behind on the *)
(* old block are on an unsound one from now on.                            *)
LEMMA ReserveMore ==
  ASSUME IInv, NEW b \in Buffers, Usable(b), NEW n \in Nat, buf[b].data # Null,
         ~(n + Header <= buf[b].block * BlockSize)
  PROVE  Ready(b, n, Reserve(b, n))
<1> DEFINE size == n + Header
           nb == (size \div BlockSize) + (IF size % BlockSize = 0 THEN 0 ELSE 1)
           new == Len(heap) + 1
           d == buf[b].data
           old == heap[d].bytes
           room == nb * BlockSize - Header
           v == [buf[b] EXCEPT !.data = new, !.block = nb]
           bytes == old \o Fill(room - Len(old), Junk)
           cell == [heap[d] EXCEPT !.bytes = @ \o Fill(room - Len(@), Junk)]
           s == Reserve(b, n)
           bg == [buf EXCEPT ![b] = v]
           hf == [heap EXCEPT ![d].freed = TRUE]
           hq == Append(hf, cell)
           snd == IF Others(b) = {} /\ d \in sound THEN sound \cup {new} ELSE sound \ {d}
<1>1. s = State(v, hq, snd)
  BY DEF Reserve, Needed
<1>2. /\ Typed(buf, heap, text) /\ b \in Lives(buf) /\ b \in Buffers /\ buf[b] \in Members /\ new \in Nat /\ new # Null
      /\ b \in Pointing(buf) /\ d \in DOMAIN heap /\ heap[d] \in Blocks /\ ~heap[d].freed
  BY UsableFacts DEF Typed, Null
<1>3. size \in Nat /\ BlockSize \in Nat \ {0} /\ Header \in Nat
  BY BufferAssumption
<1>4. nb \in Nat /\ nb * BlockSize >= size /\ nb * BlockSize \in Nat
  BY <1>3, RoundUp
<1> HIDE DEF nb
<1>5. room \in Nat /\ room + Header = nb * BlockSize
  BY <1>3, <1>4
<1> HIDE DEF room
<1>6. /\ Len(old) + Header = buf[b].block * BlockSize /\ buf[b].size <= Len(old)
      /\ buf[b].block * BlockSize \in Nat
  BY <1>2, <1>3 DEF IInv, Holds, Placed, Members
<1>7. old \in Seq(Byte) /\ Len(old) \in Nat
  BY <1>2 DEF Blocks
<1>8. room - Len(old) \in Nat
  <2>1. PICK x \in Nat : x = nb * BlockSize
    BY <1>4
  <2>2. PICK y \in Nat : y = buf[b].block * BlockSize
    BY <1>6
  <2>3. PICK l \in Nat : l = Len(old)
    BY <1>7
  <2>4. room + Header = x /\ x >= n + Header /\ l + Header = y /\ ~(n + Header <= y)
    BY <1>4, <1>5, <1>6, <2>1, <2>2, <2>3
  <2>5. room - l \in Nat
    <3> HIDE DEF old, size, s, bg, hf, hq, snd, v, bytes, cell, d, new
    <3>1. room \in Nat /\ Header \in Nat
      BY <1>3, <1>5, SMTT(30)
    <3> QED BY <2>4, <3>1, RoomGrows, SMTT(30)
  <2> QED BY <2>3, <2>5
<1>9. bytes \in Seq(Byte) /\ Len(bytes) = room /\ \A i \in 1..Len(old) : bytes[i] = old[i]
  <2>1. Junk \in Byte
    BY DEF Byte
  <2>2. Fill(room - Len(old), Junk) \in Seq(Byte) /\ Len(Fill(room - Len(old), Junk)) = room - Len(old)
    BY <1>8, <2>1, FillType
  <2> DEFINE f == Fill(room - Len(old), Junk)
  <2>3. f \in Seq(Byte) /\ Len(f) = room - Len(old)
    BY <2>2
  <2> HIDE DEF f
  <2>4. /\ old \o f \in Seq(Byte) /\ Len(old \o f) = Len(old) + Len(f)
        /\ \A i \in 1..Len(old) : (old \o f)[i] = old[i]
    <3> HIDE DEF old
    <3> QED BY <1>7, <2>3
  <2>5. Len(old) + (room - Len(old)) = room
    BY <1>5, <1>7
  <2> QED BY <2>3, <2>4, <2>5 DEF f
<1>10. cell = [heap[d] EXCEPT !.bytes = bytes]
  OBVIOUS
<1> HIDE DEF bytes
<1>11. /\ cell \in Blocks /\ ~cell.freed /\ cell.count = heap[d].count /\ cell.bytes = bytes
  BY <1>2, <1>9, <1>10, Zenon DEF Blocks
<1> HIDE DEF cell
<1>12. /\ v \in Members /\ v # <<>> /\ v.data = new /\ v.size = buf[b].size /\ v.block = nb
  BY <1>2, <1>4, AMemberLives, Zenon DEF Members
<1> HIDE DEF v
<1>13. /\ hf \in Seq(Blocks) /\ DOMAIN hf = DOMAIN heap /\ Len(hf) = Len(heap)
       /\ \A e \in DOMAIN heap \ {d} : hf[e] = heap[e]
       /\ hf[d].freed /\ hf[d].bytes = old
  <2>1. [heap[d] EXCEPT !.freed = TRUE] \in Blocks
    BY <1>2 DEF Blocks
  <2>2. hf \in Seq(Blocks) /\ DOMAIN hf = DOMAIN heap /\ Len(hf) = Len(heap)
    BY <1>2, <2>1 DEF Typed
  <2>3. \A e \in DOMAIN heap \ {d} : hf[e] = heap[e]
    BY <1>2 DEF Typed
  <2>4. hf[d].freed /\ hf[d].bytes = old
    BY <1>2 DEF Typed, Blocks
  <2> QED BY <2>2, <2>3, <2>4
<1> HIDE DEF hf
<1>14. /\ DOMAIN hq = 1..new /\ hq[new] = cell /\ \A e \in DOMAIN heap : hq[e] = hf[e]
       /\ DOMAIN heap = 1..Len(heap) /\ new \notin DOMAIN heap /\ hq \in Seq(Blocks)
  <2>1. DOMAIN heap = 1..Len(heap) /\ Len(heap) \in Nat /\ new \notin DOMAIN heap
    BY <1>2 DEF Typed
  <2> QED BY <1>11, <1>13, <2>1
<1> HIDE DEF hq
<1>15. /\ bg[b] = v /\ \A c \in Buffers \ {b} : bg[c] = buf[c]
  BY <1>2 DEF Typed
<1>16. bg \in [Buffers -> Members \cup {<<>>}]
  BY <1>2, <1>12 DEF Typed
<1> HIDE DEF bg
<1>17. \A c \in Pointing(buf) : buf[c].data \in DOMAIN heap
  BY DEF IInv, Holds, Placed
<1>18. \A c \in Lives(buf) : buf[c].data # new
  BY <1>2, <1>14, <1>17 DEF Pointing
<1>19. Lives(bg) = Lives(buf) /\ Pointing(bg) = Pointing(buf)
  BY <1>2, <1>12, <1>15 DEF Lives, Pointing
<1>20. On(bg, new) = {b} /\ \A e \in DOMAIN heap \ {d} : On(bg, e) = On(buf, e)
  <2>1. On(bg, new) = {b}
    BY <1>2, <1>12, <1>15, <1>18 DEF On, Lives
  <2>2. ASSUME NEW e \in DOMAIN heap \ {d} PROVE On(bg, e) = On(buf, e)
    <3>1. e # new
      BY <1>14
    <3> QED BY <1>2, <1>12, <1>15, <3>1 DEF On, Lives
  <2> QED BY <2>1, <2>2
<1>21. sound \subseteq DOMAIN heap /\ snd \subseteq sound \cup {new}
  BY DEF IInv, Holds
<1>22. /\ new \in snd => Others(b) = {} /\ d \in sound
       /\ d \in snd => Others(b) = {}
  BY <1>14, <1>21
<1> HIDE DEF snd
<1>23. Others(b) = On(buf, d) \ {b}
  BY DEF Others, Sharing, On, Alive
<1>24. Placed(bg, hq)
  <2> SUFFICES ASSUME NEW c \in Pointing(buf)
               PROVE  /\ bg[c].data \in DOMAIN hq
                      /\ Len(hq[bg[c].data].bytes) + Header = bg[c].block * BlockSize
                      /\ bg[c].size <= Len(hq[bg[c].data].bytes)
    BY <1>19 DEF Placed
  <2>1. CASE c = b
    <3>1. bg[c].data = new /\ bg[c].size = buf[b].size /\ bg[c].block = nb
      BY <1>12, <1>15, <2>1
    <3>2. hq[new].bytes = bytes /\ new \in DOMAIN hq
      BY <1>2, <1>11, <1>14
    <3>3. Len(bytes) + Header = nb * BlockSize
      BY <1>5, <1>9
    <3>4. buf[b].size \in Nat
      BY <1>2 DEF Members
    <3>5. buf[b].size <= Len(bytes)
      <4> HIDE DEF old
      <4> QED BY <1>5, <1>6, <1>7, <1>8, <1>9, <3>4
    <3> QED BY <3>1, <3>2, <3>3, <3>5
  <2>2. CASE c # b
    <3>1. bg[c] = buf[c] /\ buf[c].data \in DOMAIN heap
      BY <1>15, <1>17, <2>2 DEF Pointing, Lives
    <3>2. hq[buf[c].data].bytes = heap[buf[c].data].bytes
      BY <1>13, <1>14, <3>1
    <3>3. buf[c].data \in DOMAIN hq
      BY <1>2, <1>14, <3>1
    <3> QED BY <3>1, <3>2, <3>3 DEF IInv, Holds, Placed
  <2> QED BY <2>1, <2>2
<1>25. Counted(bg, hq, snd)
  <2> SUFFICES ASSUME NEW e \in snd, ~hq[e].freed
               PROVE  hq[e].count = Cardinality(On(bg, e)) /\ On(bg, e) # {}
    BY DEF Counted
  <2>1. CASE e = new
    <3>1. d \in sound /\ On(buf, d) = {b}
      BY <1>2, <1>22, <1>23, <2>1 DEF On, Lives
    <3>2. heap[d].count = Cardinality(On(buf, d))
      BY <1>2, <3>1 DEF IInv, Holds, Counted
    <3> QED BY <1>11, <1>14, <1>20, <2>1, <3>1, <3>2
  <2>2. CASE e # new
    <3>1. e \in sound /\ e # d /\ e \in DOMAIN heap
      BY <1>13, <1>14, <1>21, <2>2
    <3> QED BY <1>13, <1>14, <1>20, <3>1 DEF IInv, Holds, Counted
  <2> QED BY <2>1, <2>2
<1>26. ASSUME NEW c \in Lives(buf), c # b, bg[c].data \in snd
       PROVE  /\ bg[c] = buf[c] /\ buf[c].data \in sound /\ buf[c].data \in DOMAIN heap
              /\ hq[buf[c].data] = heap[buf[c].data]
  <2>1. bg[c] = buf[c] /\ c \in Buffers /\ buf[c] # <<>>
    BY <1>15, <1>26 DEF Lives
  <2>2. buf[c].data \in sound /\ buf[c].data \in DOMAIN heap
    BY <1>18, <1>21, <1>26, <2>1
  <2>3. buf[c].data # d
    BY <1>22, <1>23, <1>26, <2>1 DEF On
  <2> QED BY <1>13, <1>14, <2>1, <2>2, <2>3
<1>27. Kept(bg, hq, snd)
  <2> SUFFICES ASSUME NEW c \in Lives(buf), bg[c].data \in snd
               PROVE  ~hq[bg[c].data].freed
    BY <1>19 DEF Kept
  <2>1. CASE c = b
    BY <1>11, <1>12, <1>14, <1>15, <2>1
  <2>2. CASE c # b
    BY <1>26, <2>2 DEF IInv, Holds, Kept
  <2> QED BY <2>1, <2>2
<1>28. Blank(bg, text)
  <2> SUFFICES ASSUME NEW c \in Lives(buf), bg[c].data = Null
               PROVE  text[c] = <<>>
    BY <1>19 DEF Blank
  <2>1. c # b
    BY <1>2, <1>12, <1>15
  <2>2. bg[c] = buf[c]
    BY <1>15, <2>1 DEF Lives
  <2> QED BY <2>2 DEF IInv, Holds, Blank
<1>29. Held(bg, hq, snd, text, sure)
  <2> SUFFICES ASSUME NEW c \in sure, bg[c].data \in snd
               PROVE  Same(bg[c], hq, text[c])
    BY DEF Held
  <2>1. c \in Lives(buf)
    BY DEF IInv, Holds
  <2>2. CASE c = b
    <3>1. d \in sound
      BY <1>12, <1>15, <1>22, <2>2
    <3>2. Same(buf[b], heap, text[b])
      BY <2>2, <3>1 DEF IInv, Holds, Held
    <3>3. hq[bg[c].data].bytes = bytes /\ bg[c].size = buf[b].size
      BY <1>11, <1>12, <1>14, <1>15, <2>2
    <3>4. \A i \in 1..buf[b].size : i \in 1..Len(old)
      BY <1>2, <1>6, <1>7 DEF Members
    <3> QED BY <1>9, <2>2, <3>2, <3>3, <3>4 DEF Same
  <2>3. CASE c # b
    <3>1. Same(buf[c], heap, text[c])
      BY <1>26, <2>1, <2>3 DEF IInv, Holds, Held
    <3> QED BY <1>26, <2>1, <2>3, <3>1 DEF Same
  <2> QED BY <2>2, <2>3
<1>30. Holds(bg, hq, snd, text, sure)
  <2>1. IsFiniteSet(Lives(bg)) /\ sure \subseteq Lives(bg)
    BY <1>19 DEF IInv, Holds
  <2>2. snd \subseteq DOMAIN hq
    BY <1>2, <1>14, <1>21
  <2>3. Typed(bg, hq, text)
    BY <1>2, <1>14, <1>16 DEF Typed
  <2>4. Covered(bg, text)
    <3> SUFFICES ASSUME NEW c \in Pointing(buf)
                 PROVE  bg[c].size <= Len(text[c])
      BY <1>19 DEF Covered
    <3>1. bg[c].size = buf[c].size
      BY <1>12, <1>15 DEF Pointing, Lives
    <3> QED BY <3>1 DEF IInv, Holds, Covered
  <2> QED BY <1>24, <1>25, <1>27, <1>28, <1>29, <2>1, <2>2, <2>3, <2>4 DEF Holds
<1>31. s.v = v /\ s.heap = hq /\ s.sound = snd
  BY <1>1 DEF State
<1>32. n + Header <= nb * BlockSize
  BY <1>4
<1>33. s = State(s.v, s.heap, s.sound)
  BY <1>1, <1>31
<1>34. s.v.size = IF buf[b].data = Null THEN 0 ELSE buf[b].size
  BY <1>12, <1>31
<1>35. Holds([buf EXCEPT ![b] = s.v], s.heap, s.sound, text, sure)
  BY <1>30, <1>31 DEF bg
<1>36. Ready(b, n, s)
  <2> HIDE DEF s
  <2> QED BY <1>2, <1>12, <1>18, <1>31, <1>32, <1>33, <1>34, <1>35 DEF Ready
<1> QED BY <1>36

(* reserve, whichever of its three ways it takes. *)
LEMMA ReserveKeeps ==
  ASSUME IInv, NEW b \in Buffers, Usable(b), NEW n \in Nat
  PROVE  Ready(b, n, Reserve(b, n))
<1>1. Typed(buf, heap, text) /\ b \in Lives(buf) /\ buf[b] \in Members
  BY UsableFacts
<1>2. CASE buf[b].data # Null /\ n + Header <= buf[b].block * BlockSize
  <2>1. Reserve(b, n) = State(buf[b], heap, sound)
    BY <1>2 DEF Reserve, Needed, Here
  <2>2. [buf EXCEPT ![b] = buf[b]] = buf
    BY <1>1 DEF Typed
  <2>3. \A c \in Lives(buf) \ {b} : buf[c].data = buf[b].data => c \in Others(b)
    BY DEF Others, Sharing, Lives, Alive
  <2> DEFINE s == State(buf[b], heap, sound)
  <2>4. s.v = buf[b] /\ s.heap = heap /\ s.sound = sound /\ s = State(s.v, s.heap, s.sound)
    BY DEF State
  <2> HIDE DEF s
  <2>5. Ready(b, n, s)
    BY <1>1, <1>2, <2>2, <2>3, <2>4 DEF Ready, IInv
  <2> QED BY <2>1, <2>5 DEF s
<1> QED BY <1>2, ReserveFirst, ReserveMore

(* The text t is right for b after bytes were written from at on and the   *)
(* size is k.                                                              *)
Fits(b, s, at, bytes, k, t) ==
  b \in sure /\ s.v.data \in s.sound =>
    /\ Len(t) = k
    /\ \A i \in 1..k : t[i] = IF i >= at /\ i < at + Len(bytes) THEN bytes[i - at + 1]
                              ELSE s.heap[s.v.data].bytes[i]

(* Members, block and bytes after the reserve. *)
ReadyHas(b, n, s) ==
  /\ Typed([buf EXCEPT ![b] = s.v], s.heap, text)
  /\ [buf EXCEPT ![b] = s.v][b] = s.v
  /\ \A c \in Buffers \ {b} : [buf EXCEPT ![b] = s.v][c] = buf[c]
  /\ b \in Pointing([buf EXCEPT ![b] = s.v])
  /\ s.v \in Members /\ s.v.data \in DOMAIN s.heap /\ s.heap[s.v.data] \in Blocks
  /\ s.heap[s.v.data].bytes \in Seq(Byte)
  /\ n <= Len(s.heap[s.v.data].bytes) /\ s.v.size <= Len(s.heap[s.v.data].bytes) /\ s.v.size <= Len(text[b])
  /\ b \in sure /\ s.v.data \in s.sound => Same(s.v, s.heap, text[b])

(* What follows for the call that wrote Ready. *)
LEMMA ReadyFacts ==
  ASSUME IInv, NEW b \in Buffers, Usable(b), NEW n \in Nat, NEW s, Ready(b, n, s)
  PROVE  ReadyHas(b, n, s)
<1> DEFINE bg == [buf EXCEPT ![b] = s.v]
<1>1. Holds(bg, s.heap, s.sound, text, sure) /\ s.v \in Members /\ s.v.data # Null /\ n + Header <= s.v.block * BlockSize
  BY DEF Ready
<1>2. bg[b] = s.v /\ \A c \in Buffers \ {b} : bg[c] = buf[c]
  BY UsableFacts DEF Typed
<1> HIDE DEF bg
<1>3. Typed(bg, s.heap, text) /\ s.v # <<>>
  BY <1>1, AMemberLives DEF Holds
<1>4. b \in Pointing(bg)
  BY <1>1, <1>2, <1>3 DEF Pointing, Lives
<1>5. /\ s.v.data \in DOMAIN s.heap /\ Len(s.heap[s.v.data].bytes) + Header = s.v.block * BlockSize
      /\ s.v.size <= Len(s.heap[s.v.data].bytes)
  BY <1>1, <1>2, <1>4 DEF Holds, Placed
<1>6. s.heap[s.v.data] \in Blocks
  BY <1>3, <1>5 DEF Typed
<1>7. s.heap[s.v.data].bytes \in Seq(Byte)
  BY <1>6 DEF Blocks
<1>8. n <= Len(s.heap[s.v.data].bytes)
  BY <1>1, <1>5, <1>7, BufferAssumption
<1>9. b \in sure /\ s.v.data \in s.sound => Same(s.v, s.heap, text[b])
  BY <1>1, <1>2 DEF Holds, Held
<1>10. s.v.size <= Len(text[b])
  BY <1>1, <1>2, <1>4 DEF Holds, Covered
<1> QED BY <1>1, <1>2, <1>3, <1>4, <1>5, <1>6, <1>7, <1>8, <1>9, <1>10 DEF bg, ReadyHas

(* Sequences of bytes. *)
LEMMA BytesAreSeq == \A q \in Seq(Byte) : DOMAIN q = 1..Len(q) /\ Len(q) \in Nat
  OBVIOUS

(* Writing changes no length. *)
LEMMA WrittenIsSeq ==
  ASSUME NEW old \in Seq(Byte), NEW bytes \in Seq(Byte), NEW at \in Nat \ {0}
  PROVE  LET nb == [i \in DOMAIN old |-> IF i >= at /\ i < at + Len(bytes) THEN bytes[i - at + 1] ELSE old[i]]
         IN  nb \in Seq(Byte) /\ Len(nb) = Len(old)
<1> DEFINE nb == [i \in DOMAIN old |-> IF i >= at /\ i < at + Len(bytes) THEN bytes[i - at + 1] ELSE old[i]]
<1>1. DOMAIN old = 1..Len(old) /\ Len(old) \in Nat
  BY BytesAreSeq
<1>2. ASSUME NEW i \in 1..Len(old) PROVE nb[i] \in Byte
  <2>1. CASE i >= at /\ i < at + Len(bytes)
    <3>1. i - at + 1 \in 1..Len(bytes)
      BY <2>1
    <3> QED BY <1>1, <2>1, <3>1
  <2>2. CASE ~(i >= at /\ i < at + Len(bytes))
    BY <1>1, <2>2
  <2> QED BY <2>1, <2>2
<1>3. DOMAIN nb = 1..Len(old)
  BY <1>1
<1>4. nb = [i \in 1..Len(old) |-> nb[i]]
  BY <1>3
<1> HIDE DEF nb
<1>5. nb \in Seq(Byte) /\ Len(nb) = Len(old)
  BY <1>1, <1>2, <1>3, <1>4
<1> QED BY <1>5 DEF nb

(* A call that reserves, writes and sets the size. *)
LEMMA WriteLeaves ==
  ASSUME IInv, NEW b \in Buffers, Usable(b), NEW n \in Nat, NEW s, Ready(b, n, s),
         NEW at \in Nat \ {0}, NEW to \in Int, NEW bytes \in Seq(Byte), NEW k \in Nat, NEW t \in Seq(Byte),
         k <= n \/ k <= s.v.size, k <= Len(t),
         at > to => Len(bytes) = 0,
         Fits(b, s, at, bytes, k, t),
         Leaves(b, Sized(Write(s, at, bytes), k), at, to, t)
  PROVE  IInv'
<1> DEFINE d == s.v.data
           old == s.heap[d].bytes
           nb == [i \in DOMAIN old |-> IF i >= at /\ i < at + Len(bytes) THEN bytes[i - at + 1] ELSE old[i]]
           bg == [buf EXCEPT ![b] = s.v]
           r == Sized(Write(s, at, bytes), k)
<1>1. /\ Typed(bg, s.heap, text) /\ bg[b] = s.v /\ \A c \in Buffers \ {b} : bg[c] = buf[c]
      /\ b \in Pointing(bg) /\ d \in DOMAIN s.heap /\ s.heap[d] \in Blocks
      /\ n <= Len(old) /\ s.v.size <= Len(old) /\ s.v \in Members /\ old \in Seq(Byte)
  <2>1. ReadyHas(b, n, s)
    BY ReadyFacts
  <2> QED BY <2>1 DEF ReadyHas
<1>2. Holds(bg, s.heap, s.sound, text, sure) /\ s = State(s.v, s.heap, s.sound) /\ s.v.data # Null
  BY DEF Ready
<1>3. r.v = [s.v EXCEPT !.size = k] /\ r.heap = [s.heap EXCEPT ![d].bytes = nb] /\ r.sound = s.sound
  <2>1. s = [v |-> s.v, heap |-> s.heap, sound |-> s.sound]
    BY <1>2 DEF State
  <2>2. Write(s, at, bytes) = [s EXCEPT !.heap = [s.heap EXCEPT ![d].bytes = nb]]
    BY DEF Write
  <2> HIDE DEF nb
  <2> QED BY <2>1, <2>2 DEF Sized
<1>4. Len(nb) = Len(old) /\ nb \in Seq(Byte)
  <2> HIDE DEF old, bg, r
  <2>1. old \in Seq(Byte)
    BY <1>1
  <2> QED BY <2>1, WrittenIsSeq
<1>5. k <= Len(nb)
  BY <1>1, <1>4, SMTT(30) DEF Members
<1>6. \A i \in DOMAIN old : nb[i] = IF i >= at /\ i < at + Len(bytes) THEN bytes[i - at + 1] ELSE old[i]
  OBVIOUS
<1>7. DOMAIN old = 1..Len(old) /\ Len(old) \in Nat
  BY <1>1, BytesAreSeq
<1> HIDE DEF nb, r
<1>8. /\ buf' = [buf EXCEPT ![b] = r.v] /\ heap' = r.heap /\ sound' = r.sound /\ text' = [text EXCEPT ![b] = t]
      /\ sure' = sure \ {c \in Others(b) : d = buf[c].data /\ at <= to /\ at <= buf[c].size}
  <2>1. r.v.data = d
    BY <1>1, <1>3 DEF Members
  <2> QED BY <2>1 DEF Leaves, r
<1>9. buf' = [bg EXCEPT ![b].size = k]
  BY <1>1, <1>3, <1>8
<1>10. sure' \in SUBSET sure
  BY <1>8
<1>11. Spared(bg, s.heap, b, sure', nb)
  <2> SUFFICES ASSUME NEW c \in sure' \ {b}, bg[c].data = d, NEW i \in 1..bg[c].size
               PROVE  nb[i] = old[i]
    BY <1>1 DEF Spared
  <2>1. c \in Lives(buf) /\ c \in Buffers /\ c # b
    BY <1>10 DEF IInv, Holds, Lives
  <2>2. bg[c] = buf[c]
    BY <1>1, <2>1
  <2>3. c \in Others(b)
    BY <2>1, <2>2 DEF Ready
  <2>4. ~(at <= to /\ at <= buf[c].size)
    BY <1>8, <2>2, <2>3
  <2>5. bg[c].size <= Len(old) /\ bg[c].size \in Nat
    <3>1. c \in Pointing(bg) /\ bg[c] \in Members
      BY <1>1, <1>2, <2>1, <2>2 DEF Pointing, Lives, Typed
    <3> QED BY <1>2, <3>1 DEF Holds, Placed, Members
  <2>6. i \in DOMAIN old
    <3> HIDE DEF old, bg
    <3> QED BY <1>7, <2>5
  <2>7. ~(i >= at /\ i < at + Len(bytes))
    <3>1. Len(bytes) \in Nat
      BY BytesAreSeq
    <3>2. i <= buf[c].size /\ buf[c].size \in Nat /\ i \in Nat
      BY <2>2, <2>5
    <3>3. CASE at > to
      BY <3>1, <3>2, <3>3
    <3>4. CASE at <= to
      BY <2>4, <3>2, <3>4
    <3> QED BY <3>3, <3>4
  <2> QED BY <1>6, <2>6, <2>7
<1>12. b \in sure' /\ bg[b].data \in s.sound => Len(t) = k /\ \A i \in 1..k : t[i] = nb[i]
  <2>1. \A i \in 1..k : i \in DOMAIN old
    BY <1>4, <1>5, <1>7
  <2> QED BY <1>1, <1>6, <1>10, <2>1 DEF Fits
<1>13. Holds([bg EXCEPT ![b].size = k], [s.heap EXCEPT ![d].bytes = nb], s.sound, [text EXCEPT ![b] = t], sure')
  <2> HIDE DEF bg
  <2>1. Len(nb) = Len(s.heap[bg[b].data].bytes)
    BY <1>1, <1>4
  <2>2. Holds([bg EXCEPT ![b].size = k], [s.heap EXCEPT ![bg[b].data].bytes = nb], s.sound, [text EXCEPT ![b] = t], sure')
    BY <1>1, <1>2, <1>4, <1>5, <1>10, <1>11, <1>12, <2>1, WriteKeeps
  <2> QED BY <1>1, <2>2
<1> QED BY <1>3, <1>8, <1>9, <1>13 DEF IInv

(* A call that only sets the size, with or without a reserve. *)
LEMMA SizeLeaves ==
  ASSUME IInv, NEW b \in Buffers, Usable(b), NEW s, s = State(s.v, s.heap, s.sound),
         Holds([buf EXCEPT ![b] = s.v], s.heap, s.sound, text, sure),
         s.v \in Members, NEW k \in Nat, NEW t \in Seq(Byte),
         s.v.data # Null => k <= Len(s.heap[s.v.data].bytes) /\ k <= Len(t),
         s.v.data = Null => t = <<>>,
         b \in sure /\ s.v.data \in s.sound => Len(t) = k /\ \A i \in 1..k : t[i] = s.heap[s.v.data].bytes[i],
         Leaves(b, Sized(s, k), 1, 0, t)
  PROVE  IInv'
<1> DEFINE bg == [buf EXCEPT ![b] = s.v]
           r == Sized(s, k)
<1>1. r.v = [s.v EXCEPT !.size = k] /\ r.heap = s.heap /\ r.sound = s.sound
  BY DEF Sized, State
<1>2. /\ buf' = [buf EXCEPT ![b] = r.v] /\ heap' = r.heap /\ sound' = r.sound /\ text' = [text EXCEPT ![b] = t]
      /\ sure' = sure
  BY DEF Leaves
<1>3. bg[b] = s.v /\ s.v # <<>> /\ [bg EXCEPT ![b].size = k] = [buf EXCEPT ![b] = [s.v EXCEPT !.size = k]]
  BY AMemberLives, UsableFacts DEF Typed
<1> HIDE DEF bg
<1>4. b \in Lives(bg)
  BY <1>3 DEF Lives
<1>5. Holds(bg, s.heap, s.sound, text, sure)
  BY DEF bg
<1>6. Holds([bg EXCEPT ![b].size = k], s.heap, s.sound, [text EXCEPT ![b] = t], sure)
  <2>1. bg[b].data # Null => k <= Len(s.heap[bg[b].data].bytes) /\ k <= Len(t)
    BY <1>3
  <2>2. bg[b].data = Null => t = <<>>
    BY <1>3
  <2>3. b \in sure /\ bg[b].data \in s.sound => Len(t) = k /\ \A i \in 1..k : t[i] = s.heap[bg[b].data].bytes[i]
    BY <1>3
  <2> QED BY <1>4, <1>5, <2>1, <2>2, <2>3, SizeKeeps
<1> QED BY <1>1, <1>2, <1>3, <1>6 DEF IInv

(* Here is the state as it is. *)
LEMMA HereFacts ==
  ASSUME IInv, NEW b \in Buffers, Usable(b)
  PROVE  /\ Here(b) = State(Here(b).v, Here(b).heap, Here(b).sound)
         /\ Here(b).v = buf[b] /\ Here(b).heap = heap /\ Here(b).sound = sound
         /\ Holds([buf EXCEPT ![b] = Here(b).v], Here(b).heap, Here(b).sound, text, sure)
<1>1. Here(b).v = buf[b] /\ Here(b).heap = heap /\ Here(b).sound = sound
  BY DEF Here, State
<1>2. [buf EXCEPT ![b] = buf[b]] = buf
  BY UsableFacts DEF Typed
<1>3. Here(b) = State(Here(b).v, Here(b).heap, Here(b).sound)
  BY <1>1 DEF Here
<1> QED BY <1>1, <1>2, <1>3 DEF IInv

(* A size of 0 needs nothing. *)
LEMMA ClearedKeeps ==
  ASSUME IInv, NEW b \in Buffers, Usable(b), Leaves(b, Sized(Here(b), 0), 1, 0, <<>>)
  PROVE  IInv'
<1> DEFINE s == Here(b)
<1>1. /\ s = State(s.v, s.heap, s.sound) /\ s.v = buf[b] /\ s.heap = heap /\ s.sound = sound
      /\ Holds([buf EXCEPT ![b] = s.v], s.heap, s.sound, text, sure)
  BY HereFacts
<1>2. s.v.data # Null => 0 <= Len(s.heap[s.v.data].bytes) /\ 0 <= Len(<<>>)
  BY <1>1, UsableFacts, BytesAreSeq DEF Blocks
<1>3. s.v \in Members
  BY <1>1, UsableFacts
<1>4. \A i \in 1..0 : FALSE
  OBVIOUS
<1>5. Leaves(b, Sized(s, 0), 1, 0, <<>>)
  OBVIOUS
<1> HIDE DEF s
<1> QED BY <1>1, <1>2, <1>3, <1>4, <1>5, EmptyIsSeq, SizeLeaves

(* clear. *)
LEMMA ClearKeeps == ASSUME IInv, NEW b \in Buffers, Clear(b) PROVE IInv'
  BY ClearedKeeps DEF Clear

Written(hp, d, at, bytes) ==
  [hp EXCEPT ![d].bytes = [i \in DOMAIN @ |-> IF i >= at /\ i < at + Len(bytes) THEN bytes[i - at + 1] ELSE @[i]]]

(* Write and Sized, part by part. *)
LEMMA WriteIs ==
  ASSUME NEW s, s = State(s.v, s.heap, s.sound), NEW at, NEW bytes
  PROVE  Write(s, at, bytes) = State(s.v, Written(s.heap, s.v.data, at, bytes), s.sound)
<1>1. s = [v |-> s.v, heap |-> s.heap, sound |-> s.sound]
  BY DEF State
<1> QED BY <1>1 DEF Write, State, Written

LEMMA SizedIs ==
  ASSUME NEW s, s = State(s.v, s.heap, s.sound), NEW k
  PROVE  Sized(s, k) = State([s.v EXCEPT !.size = k], s.heap, s.sound)
<1>1. s = [v |-> s.v, heap |-> s.heap, sound |-> s.sound]
  BY DEF State
<1> QED BY <1>1 DEF Sized, State

LEMMA StateParts ==
  ASSUME NEW v, NEW hp, NEW snd
  PROVE  State(v, hp, snd).v = v /\ State(v, hp, snd).heap = hp /\ State(v, hp, snd).sound = snd
  BY DEF State

(* The size may be set before or after the bytes are written. *)
LEMMA WriteAndSize ==
  ASSUME NEW s, s = State(s.v, s.heap, s.sound), s.v \in Members, NEW at, NEW bytes, NEW k
  PROVE  /\ Write(Sized(s, k), at, bytes) = Sized(Write(s, at, bytes), k)
         /\ Write(s, at, bytes) = Sized(Write(s, at, bytes), s.v.size)
<1> DEFINE hq == Written(s.heap, s.v.data, at, bytes)
           w == Write(s, at, bytes)
           v2 == [s.v EXCEPT !.size = k]
           r == Sized(s, k)
<1>1. w = State(s.v, hq, s.sound)
  BY WriteIs
<1>2. w.v = s.v /\ w.heap = hq /\ w.sound = s.sound
  BY <1>1, StateParts
<1>3. r = State(v2, s.heap, s.sound)
  BY SizedIs
<1>4. r.v = v2 /\ r.heap = s.heap /\ r.sound = s.sound
  BY <1>3, StateParts
<1>5. v2.data = s.v.data /\ [s.v EXCEPT !.size = s.v.size] = s.v
  BY DEF Members
<1>6. \A j : Sized(w, j) = State([w.v EXCEPT !.size = j], w.heap, w.sound)
  <2> HIDE DEF w, hq
  <2> QED BY <1>1, <1>2, SizedIs
<1>7. Write(r, at, bytes) = State(r.v, Written(r.heap, r.v.data, at, bytes), r.sound)
  <2> HIDE DEF r, v2
  <2> QED BY <1>3, <1>4, WriteIs
<1>8. Write(r, at, bytes) = State(v2, hq, s.sound)
  BY <1>4, <1>5, <1>7
<1>9. Sized(w, k) = State(v2, hq, s.sound) /\ Sized(w, s.v.size) = w
  BY <1>1, <1>2, <1>5, <1>6
<1> QED BY <1>8, <1>9

(* assign. *)
LEMMA AssignKeeps ==
  ASSUME IInv, NEW b \in Buffers, NEW bytes \in Seq(Byte), Assign(b, bytes)
  PROVE  IInv'
<1> DEFINE n == Len(bytes)
           s == Reserve(b, n)
<1>1. Usable(b) /\ n \in Nat
  BY DEF Assign
<1>2. CASE bytes = <<>>
  BY <1>1, <1>2, ClearedKeeps DEF Assign
<1>3. CASE bytes # <<>>
  <2>1. Ready(b, n, s)
    BY <1>1, ReserveKeeps
  <2>2. Leaves(b, Write(Sized(s, n), 1, bytes), 1, n, bytes)
    BY <1>3 DEF Assign
  <2> HIDE DEF s
  <2>3. Leaves(b, Sized(Write(s, 1, bytes), n), 1, n, bytes)
    BY <2>1, <2>2, WriteAndSize DEF Ready
  <2>4. Fits(b, s, 1, bytes, n, bytes)
    BY DEF Fits
  <2>5. (1 > n => n = 0) /\ n <= n
    BY <1>1
  <2> QED BY <1>1, <2>1, <2>3, <2>4, <2>5, WriteLeaves
<1> QED BY <1>2, <1>3

(* c_str: the 0 is behind the end, where a longer copy may lose a byte and *)
(* with it the certainty of its user.                                      *)
LEMMA CStrKeeps == ASSUME IInv, NEW b \in Buffers, CStr(b) PROVE IInv'
<1> DEFINE n == buf[b].size + 1
           s == Reserve(b, n)
           at == s.v.size + 1
           bytes == <<"0">>
<1>1. Usable(b) /\ n \in Nat
  BY UsableFacts DEF CStr, Members
<1>2. Ready(b, n, s)
  BY <1>1, ReserveKeeps
<1>3. Leaves(b, Write(s, at, bytes), at, at, text[b])
  BY DEF CStr
<1> HIDE DEF s
<1>4. s.v \in Members /\ s.v.size \in Nat
  BY <1>2 DEF Ready, Members
<1>5. ReadyHas(b, n, s)
  BY <1>1, <1>2, ReadyFacts
<1>6. Leaves(b, Sized(Write(s, at, bytes), s.v.size), at, at, text[b])
  BY <1>2, <1>3, WriteAndSize DEF Ready
<1>7. Fits(b, s, at, bytes, s.v.size, text[b])
  BY <1>4, <1>5 DEF Fits, ReadyHas, Same
<1>8. bytes \in Seq(Byte) /\ text[b] \in Seq(Byte)
  <2>1. "0" \in Byte
    BY DEF Byte
  <2>2. bytes \in Seq(Byte)
    BY <2>1
  <2> QED BY <2>2, <1>1, UsableFacts DEF Typed
<1>9. at \in Nat \ {0} /\ at \in Int /\ ~(at > at) /\ s.v.size <= Len(text[b])
  BY <1>4, <1>5 DEF ReadyHas
<1> HIDE DEF at, bytes, n
<1> QED BY <1>1, <1>2, <1>4, <1>6, <1>7, <1>8, <1>9, WriteLeaves

(* There is nothing to fill. *)
LEMMA FillNone == ASSUME NEW n \in Int, n <= 0, NEW c PROVE Fill(n, c) = <<>>
  BY DEF Fill

(* SubSeq, for sequences of bytes. *)
LEMMA SubSeqFacts ==
  ASSUME NEW q \in Seq(Byte), NEW from \in Nat \ {0}, NEW to \in Nat, to <= Len(q)
  PROVE  /\ SubSeq(q, from, to) \in Seq(Byte)
         /\ Len(SubSeq(q, from, to)) = IF from <= to THEN to - from + 1 ELSE 0
         /\ \A i \in 1..(to - from + 1) : SubSeq(q, from, to)[i] = q[from + i - 1]
  OBVIOUS

(* \o, for sequences of bytes. *)
LEMMA ConcatFacts ==
  ASSUME NEW q \in Seq(Byte), NEW r \in Seq(Byte)
  PROVE  /\ q \o r \in Seq(Byte) /\ Len(q \o r) = Len(q) + Len(r)
         /\ \A i \in 1..Len(q) : (q \o r)[i] = q[i]
         /\ \A i \in 1..(Len(q) + Len(r)) : i > Len(q) => (q \o r)[i] = r[i - Len(q)]
  OBVIOUS

(* reserve as a call of its own. *)
LEMMA ReserveCallKeeps ==
  ASSUME IInv, NEW b \in Buffers, NEW n \in Nat, ReserveCall(b, n)
  PROVE  IInv'
<1> DEFINE s == Reserve(b, n)
<1>1. Usable(b) /\ Leaves(b, s, 1, 0, text[b])
  BY DEF ReserveCall
<1>2. Ready(b, n, s)
  BY <1>1, ReserveKeeps
<1> HIDE DEF s
<1>3. buf' = [buf EXCEPT ![b] = s.v] /\ heap' = s.heap /\ sound' = s.sound /\ sure' = sure
  BY <1>1 DEF Leaves
<1>4. text' = text
  BY <1>1, UsableFacts DEF Leaves, Typed
<1> QED BY <1>2, <1>3, <1>4 DEF Ready, IInv

(* resize without a filling, to a smaller size. *)
LEMMA ResizeKeeps ==
  ASSUME IInv, NEW b \in Buffers, NEW n \in Nat, Resize(b, n)
  PROVE  IInv'
<1> DEFINE s == Reserve(b, n)
           t == SubSeq(text[b], 1, n)
<1>1. Usable(b) /\ n <= Len(text[b]) /\ Leaves(b, Sized(s, n), 1, 0, t)
  BY DEF Resize
<1>2. Ready(b, n, s)
  BY <1>1, ReserveKeeps
<1> HIDE DEF s
<1>3. ReadyHas(b, n, s)
  BY <1>1, <1>2, ReadyFacts
<1>4. text[b] \in Seq(Byte)
  BY <1>1, UsableFacts DEF Typed
<1>5. t \in Seq(Byte) /\ Len(t) = n /\ \A i \in 1..n : t[i] = text[b][i]
  <2>1. t \in Seq(Byte) /\ Len(t) = IF 1 <= n THEN n - 1 + 1 ELSE 0
    BY <1>1, <1>4, SubSeqFacts
  <2>2. \A i \in 1..(n - 1 + 1) : t[i] = text[b][1 + i - 1]
    BY <1>1, <1>4, SubSeqFacts
  <2> QED BY <2>1, <2>2
<1> HIDE DEF t
<1>6. n <= Len(s.heap[s.v.data].bytes) /\ n <= n /\ s.v.data # Null /\ s.v \in Members
  BY <1>2, <1>3 DEF Ready, ReadyHas
<1>7. b \in sure /\ s.v.data \in s.sound => Len(t) = n /\ \A i \in 1..n : t[i] = s.heap[s.v.data].bytes[i]
  BY <1>1, <1>3, <1>5 DEF ReadyHas, Same
<1>8. s = State(s.v, s.heap, s.sound) /\ Holds([buf EXCEPT ![b] = s.v], s.heap, s.sound, text, sure)
  BY <1>2 DEF Ready
<1> QED BY <1>1, <1>5, <1>6, <1>7, <1>8, SizeLeaves

(* push_back, append and add. *)
LEMMA AppendKeeps ==
  ASSUME IInv, NEW b \in Buffers, NEW bytes \in Seq(Byte), AppendBytes(b, bytes)
  PROVE  IInv'
<1> DEFINE m == buf[b].size + Len(bytes)
           s == Reserve(b, m)
           n == s.v.size
           t == text[b] \o bytes
<1>1. Usable(b) /\ Leaves(b, Sized(Write(s, n + 1, bytes), n + Len(bytes)), n + 1, n + Len(bytes), t)
  BY DEF AppendBytes
<1>2. buf[b].size \in Nat /\ Len(bytes) \in Nat /\ m \in Nat
  BY <1>1, UsableFacts DEF Members
<1>3. Ready(b, m, s)
  BY <1>1, <1>2, ReserveKeeps
<1> HIDE DEF s
<1>4. ReadyHas(b, m, s)
  BY <1>1, <1>2, <1>3, ReadyFacts
<1>5. n \in Nat /\ n <= buf[b].size
  BY <1>2, <1>3 DEF Ready, Members
<1>6. text[b] \in Seq(Byte)
  BY <1>1, UsableFacts DEF Typed
<1>7. /\ t \in Seq(Byte) /\ Len(t) = Len(text[b]) + Len(bytes)
      /\ \A i \in 1..Len(text[b]) : t[i] = text[b][i]
      /\ \A i \in 1..(Len(text[b]) + Len(bytes)) : i > Len(text[b]) => t[i] = bytes[i - Len(text[b])]
  BY <1>6, ConcatFacts
<1> HIDE DEF t
<1>8. Fits(b, s, n + 1, bytes, n + Len(bytes), t)
  <2> SUFFICES ASSUME b \in sure, s.v.data \in s.sound
               PROVE  /\ Len(t) = n + Len(bytes)
                      /\ \A i \in 1..(n + Len(bytes)) :
                           t[i] = IF i >= n + 1 /\ i < n + 1 + Len(bytes) THEN bytes[i - (n + 1) + 1]
                                  ELSE s.heap[s.v.data].bytes[i]
    BY DEF Fits
  <2>1. Len(text[b]) = n /\ \A i \in 1..n : text[b][i] = s.heap[s.v.data].bytes[i]
    BY <1>4 DEF ReadyHas, Same
  <2> HIDE DEF n
  <2>2. ASSUME NEW i \in 1..(n + Len(bytes)), i <= n
        PROVE  t[i] = s.heap[s.v.data].bytes[i] /\ ~(i >= n + 1)
    <3>1. i \in 1..n
      BY <1>2, <1>5, <2>2
    <3>2. i \in 1..Len(text[b]) /\ ~(i >= n + 1)
      BY <1>5, <2>1, <3>1
    <3>3. t[i] = text[b][i]
      BY <1>7, <3>2
    <3>4. text[b][i] = s.heap[s.v.data].bytes[i]
      BY <2>1, <3>1
    <3> QED BY <3>2, <3>3, <3>4
  <2>3. ASSUME NEW i \in 1..(n + Len(bytes)), ~(i <= n)
        PROVE  t[i] = bytes[i - (n + 1) + 1] /\ i >= n + 1 /\ i < n + 1 + Len(bytes)
    <3>1. i - (n + 1) + 1 = i - n /\ i > n
      BY <1>2, <1>5, <2>3
    <3>2. t[i] = bytes[i - n]
      BY <1>7, <2>1, <3>1
    <3> QED BY <1>2, <1>5, <3>1, <3>2
  <2>4. Len(t) = n + Len(bytes)
    BY <1>7, <2>1
  <2> QED BY <2>2, <2>3, <2>4
<1>9. n + 1 \in Nat \ {0} /\ n + Len(bytes) \in Nat /\ n + Len(bytes) <= m /\ (n + 1 > n + Len(bytes) => Len(bytes) = 0) /\ n + Len(bytes) <= Len(t)
  <2>1. n <= Len(text[b]) /\ Len(text[b]) \in Nat
    BY <1>4, <1>6, BytesAreSeq DEF ReadyHas
  <2>2. n <= m - Len(bytes)
    BY <1>2, <1>5
  <2> HIDE DEF n, m
  <2>3. m \in Nat
    BY <1>2
  <2> QED BY <1>2, <1>5, <1>7, <2>1, <2>2, <2>3
<1> HIDE DEF n, m
<1> QED BY <1>1, <1>2, <1>3, <1>7, <1>8, <1>9, WriteLeaves

(* resize with a filling. *)
LEMMA ResizeFillKeeps ==
  ASSUME IInv, NEW b \in Buffers, NEW n \in Nat, NEW c \in Byte, ResizeFill(b, n, c)
  PROVE  IInv'
<1> DEFINE s == Reserve(b, n)
           old == s.v.size
           bytes == Fill(n - old, c)
           t == Resized(text[b], n, c)
<1>1. Usable(b) /\ Leaves(b, Sized(Write(s, old + 1, bytes), n), old + 1, n, t)
  BY DEF ResizeFill
<1>2. Ready(b, n, s)
  BY <1>1, ReserveKeeps
<1> HIDE DEF s
<1>3. ReadyHas(b, n, s)
  BY <1>1, <1>2, ReadyFacts
<1>4. old \in Nat
  BY <1>2 DEF Ready, Members
<1>5. text[b] \in Seq(Byte) /\ Len(text[b]) \in Nat
  BY <1>1, UsableFacts, BytesAreSeq DEF Typed
<1>6. /\ bytes \in Seq(Byte) /\ Len(bytes) = IF n >= old THEN n - old ELSE 0
      /\ \A i \in 1..Len(bytes) : bytes[i] = c
  <2>1. CASE n >= old
    <3>1. n - old \in Nat
      BY <1>4, <2>1
    <3> QED BY <2>1, <3>1, FillType
  <2>2. CASE ~(n >= old)
    <3>1. bytes = <<>>
      BY <1>4, <2>2, FillNone
    <3>2. Len(bytes) = 0 /\ bytes \in Seq(Byte)
      BY <3>1, EmptyIsSeq
    <3>3. \A i \in 1..0 : FALSE
      OBVIOUS
    <3> QED BY <2>2, <3>2, <3>3
  <2> QED BY <2>1, <2>2
<1> HIDE DEF bytes
<1>7. /\ t \in Seq(Byte) /\ Len(t) = n
      /\ \A i \in 1..n : t[i] = IF i <= Len(text[b]) THEN text[b][i] ELSE c
  <2>1. CASE n <= Len(text[b])
    <3>1. t = SubSeq(text[b], 1, n)
      BY <2>1 DEF Resized
    <3>2. t \in Seq(Byte) /\ Len(t) = IF 1 <= n THEN n - 1 + 1 ELSE 0
      BY <1>5, <2>1, <3>1, SubSeqFacts
    <3>3. \A i \in 1..(n - 1 + 1) : t[i] = text[b][1 + i - 1]
      BY <1>5, <2>1, <3>1, SubSeqFacts
    <3> HIDE DEF t
    <3> QED BY <1>5, <2>1, <3>2, <3>3
  <2>2. CASE ~(n <= Len(text[b]))
    <3> DEFINE f == Fill(n - Len(text[b]), c)
    <3>1. t = text[b] \o f
      BY <2>2 DEF Resized
    <3>2. n - Len(text[b]) \in Nat
      BY <1>5, <2>2
    <3>3. f \in Seq(Byte) /\ Len(f) = n - Len(text[b]) /\ \A i \in 1..(n - Len(text[b])) : f[i] = c
      BY <3>2, FillType
    <3> HIDE DEF f, t
    <3>4. /\ t \in Seq(Byte) /\ Len(t) = Len(text[b]) + Len(f)
          /\ \A i \in 1..Len(text[b]) : t[i] = text[b][i]
          /\ \A i \in 1..(Len(text[b]) + Len(f)) : i > Len(text[b]) => t[i] = f[i - Len(text[b])]
      BY <1>5, <3>1, <3>3, ConcatFacts
    <3>5. Len(t) = n
      BY <1>5, <3>3, <3>4
    <3>6. ASSUME NEW i \in 1..n, ~(i <= Len(text[b])) PROVE t[i] = c
      <4>1. i \in 1..(Len(text[b]) + Len(f)) /\ i - Len(text[b]) \in 1..(n - Len(text[b]))
        BY <1>5, <3>3, <3>6
      <4>2. i > Len(text[b])
        BY <1>5, <3>6
      <4>3. t[i] = f[i - Len(text[b])]
        BY <3>4, <4>1, <4>2
      <4> QED BY <3>3, <4>1, <4>3
    <3>7. ASSUME NEW i \in 1..n, i <= Len(text[b]) PROVE t[i] = text[b][i]
      BY <1>5, <3>4, <3>7
    <3> QED BY <3>4, <3>5, <3>6, <3>7
  <2> QED BY <2>1, <2>2
<1> HIDE DEF t
<1>8. Fits(b, s, old + 1, bytes, n, t)
  <2> SUFFICES ASSUME b \in sure, s.v.data \in s.sound
               PROVE  /\ Len(t) = n
                      /\ \A i \in 1..n :
                           t[i] = IF i >= old + 1 /\ i < old + 1 + Len(bytes) THEN bytes[i - (old + 1) + 1]
                                  ELSE s.heap[s.v.data].bytes[i]
    BY DEF Fits
  <2>1. Len(text[b]) = old /\ \A i \in 1..old : text[b][i] = s.heap[s.v.data].bytes[i]
    BY <1>3 DEF ReadyHas, Same
  <2> HIDE DEF old
  <2>2. ASSUME NEW i \in 1..n, i <= old
        PROVE  t[i] = s.heap[s.v.data].bytes[i] /\ ~(i >= old + 1)
    <3>1. i \in 1..old /\ ~(i >= old + 1)
      BY <1>4, <2>2
    <3>2. i <= Len(text[b])
      BY <1>4, <2>1, <2>2
    <3>3. t[i] = text[b][i]
      BY <1>7, <3>2
    <3>4. text[b][i] = s.heap[s.v.data].bytes[i]
      BY <2>1, <3>1
    <3> QED BY <3>1, <3>3, <3>4
  <2>3. ASSUME NEW i \in 1..n, ~(i <= old)
        PROVE  t[i] = bytes[i - (old + 1) + 1] /\ i >= old + 1 /\ i < old + 1 + Len(bytes)
    <3>1. i > old /\ n >= old /\ Len(bytes) = n - old
      BY <1>4, <1>6, <2>3
    <3>2. i - (old + 1) + 1 \in 1..Len(bytes)
      BY <1>4, <2>3, <3>1
    <3>3. t[i] = c
      BY <1>4, <1>7, <2>1, <3>1
    <3> QED BY <1>4, <1>6, <3>1, <3>2, <3>3
  <2> QED BY <1>7, <2>2, <2>3
<1>9. old + 1 \in Nat \ {0} /\ n <= n /\ n \in Int /\ (old + 1 > n => Len(bytes) = 0)
  <2> HIDE DEF old
  <2> QED BY <1>4, <1>6
<1> HIDE DEF old
<1> QED BY <1>1, <1>2, <1>6, <1>7, <1>8, <1>9, WriteLeaves

(* The larger of two. *)
LEMMA MaxOfTwo ==
  ASSUME NEW i \in Nat, NEW j \in Nat
  PROVE  Max({i, j}) = IF i >= j THEN i ELSE j
<1> DEFINE m == IF i >= j THEN i ELSE j
<1>1. m \in {i, j} /\ \A y \in {i, j} : m >= y
  OBVIOUS
<1>2. \A x \in {i, j} : (\A y \in {i, j} : x >= y) => x = m
  OBVIOUS
<1> HIDE DEF m
<1>3. Max({i, j}) = m
  BY <1>1, <1>2 DEF Max
<1> QED BY <1>3 DEF m

(* What replace makes of a text: the bytes take their places, and what is  *)
(* behind them stays.                                                      *)
LEMMA ReplacedText ==
  ASSUME NEW q \in Seq(Byte), NEW bytes \in Seq(Byte), NEW pos \in Nat, pos <= Len(q)
  PROVE  LET to == pos + Len(bytes)
             t  == SubSeq(q, 1, pos) \o bytes \o SubSeq(q, to + 1, Len(q))
         IN  /\ t \in Seq(Byte) /\ Len(t) = IF to >= Len(q) THEN to ELSE Len(q)
             /\ \A i \in 1..Len(t) : t[i] = IF i >= pos + 1 /\ i < pos + 1 + Len(bytes) THEN bytes[i - (pos + 1) + 1] ELSE q[i]
<1> DEFINE L == Len(q)
           B == Len(bytes)
           to == pos + B
           p == SubSeq(q, 1, pos)
           r == SubSeq(q, to + 1, L)
           h == p \o bytes
           t == h \o r
<1>1. L \in Nat /\ B \in Nat /\ to \in Nat /\ to + 1 \in Nat \ {0}
  BY BytesAreSeq
<1>2. p \in Seq(Byte) /\ Len(p) = pos /\ \A i \in 1..pos : p[i] = q[i]
  <2>1. p \in Seq(Byte) /\ Len(p) = IF 1 <= pos THEN pos - 1 + 1 ELSE 0
    BY <1>1, SubSeqFacts
  <2>2. \A i \in 1..(pos - 1 + 1) : p[i] = q[1 + i - 1]
    BY <1>1, SubSeqFacts
  <2> HIDE DEF p
  <2> QED BY <2>1, <2>2
<1>3. r \in Seq(Byte) /\ Len(r) = (IF to + 1 <= L THEN L - (to + 1) + 1 ELSE 0)
  <2> HIDE DEF to, L
  <2>1. L <= Len(q)
    BY <1>1 DEF L
  <2> QED BY <1>1, <2>1, SubSeqFacts
<1>4. \A i \in 1..(L - (to + 1) + 1) : r[i] = q[to + 1 + i - 1]
  <2> HIDE DEF to, L
  <2>1. L <= Len(q)
    BY <1>1 DEF L
  <2> QED BY <1>1, <2>1, SubSeqFacts
<1> HIDE DEF p, r
<1>5. /\ h \in Seq(Byte) /\ Len(h) = pos + B
      /\ \A i \in 1..pos : h[i] = p[i]
      /\ \A i \in 1..(pos + B) : i > pos => h[i] = bytes[i - pos]
  BY <1>2, ConcatFacts
<1> HIDE DEF h
<1>6. /\ t \in Seq(Byte) /\ Len(t) = to + Len(r)
      /\ \A i \in 1..to : t[i] = h[i]
      /\ \A i \in 1..(to + Len(r)) : i > to => t[i] = r[i - to]
  <2>1. h \in Seq(Byte) /\ Len(h) = to
    BY <1>5
  <2> HIDE DEF to
  <2> QED BY <1>3, <2>1, ConcatFacts
<1> HIDE DEF t
<1>7. Len(t) = IF to >= L THEN to ELSE L
  <2> HIDE DEF to, L
  <2> QED BY <1>1, <1>3, <1>6
<1>8. ASSUME NEW i \in 1..Len(t)
      PROVE  t[i] = IF i >= pos + 1 /\ i < pos + 1 + B THEN bytes[i - (pos + 1) + 1] ELSE q[i]
  <2>1. CASE i <= pos
    <3>1. i \in 1..pos /\ i \in 1..to /\ ~(i >= pos + 1)
      BY <1>1, <2>1
    <3> QED BY <1>2, <1>5, <1>6, <3>1
  <2>2. CASE i > pos /\ i <= to
    <3>1. i \in 1..to /\ i >= pos + 1 /\ i < pos + 1 + B /\ i - (pos + 1) + 1 = i - pos
      BY <1>1, <2>2
    <3>2. t[i] = bytes[i - pos]
      BY <1>5, <1>6, <2>2, <3>1
    <3> QED BY <3>1, <3>2
  <2>3. CASE i > to
    <3> HIDE DEF L
    <3>1. to < L /\ Len(t) = L /\ ~(i < pos + 1 + B)
      BY <1>1, <1>7, <2>3
    <3>2. i - to \in 1..(L - (to + 1) + 1) /\ to + 1 + (i - to) - 1 = i /\ i \in 1..(to + Len(r))
      BY <1>1, <1>6, <2>3, <3>1
    <3>3. t[i] = r[i - to]
      BY <1>6, <2>3, <3>2
    <3>4. r[i - to] = q[to + 1 + (i - to) - 1]
      BY <1>4, <3>2
    <3> QED BY <3>1, <3>2, <3>3, <3>4
  <2> QED BY <1>1, <2>1, <2>2, <2>3
<1> QED BY <1>6, <1>7, <1>8 DEF t, h, p, r

(* replace. *)
LEMMA ReplaceKeeps ==
  ASSUME IInv, NEW b \in Buffers, NEW pos \in Nat, NEW bytes \in Seq(Byte), Replace(b, pos, bytes)
  PROVE  IInv'
<1> DEFINE to == pos + Len(bytes)
           s == Reserve(b, to)
           q == text[b]
           k == Max({to, s.v.size})
           t == SubSeq(q, 1, pos) \o bytes \o SubSeq(q, to + 1, Len(q))
<1>1. Usable(b) /\ pos <= Len(q) /\ Leaves(b, Sized(Write(s, pos + 1, bytes), k), pos + 1, to, t)
  BY DEF Replace
<1>2. Len(bytes) \in Nat /\ to \in Nat /\ to \in Int /\ pos + 1 \in Nat \ {0} /\ (pos + 1 > to => Len(bytes) = 0)
  BY BytesAreSeq
<1>3. Ready(b, to, s)
  BY <1>1, <1>2, ReserveKeeps
<1> HIDE DEF s
<1>4. ReadyHas(b, to, s)
  BY <1>1, <1>2, <1>3, ReadyFacts
<1>5. s.v.size \in Nat
  BY <1>3 DEF Ready, Members
<1>6. k = IF to >= s.v.size THEN to ELSE s.v.size
  BY <1>2, <1>5, MaxOfTwo
<1> HIDE DEF k
<1>7. q \in Seq(Byte)
  BY <1>1, UsableFacts DEF Typed
<1>8. /\ t \in Seq(Byte) /\ Len(t) = IF to >= Len(q) THEN to ELSE Len(q)
      /\ \A i \in 1..Len(t) : t[i] = IF i >= pos + 1 /\ i < pos + 1 + Len(bytes) THEN bytes[i - (pos + 1) + 1] ELSE q[i]
  BY <1>1, <1>7, ReplacedText
<1> HIDE DEF t
<1>9. k \in Nat /\ (k <= to \/ k <= s.v.size) /\ k <= Len(t)
  <2>1. Len(q) \in Nat /\ s.v.size <= Len(q)
    BY <1>4, <1>7, BytesAreSeq DEF ReadyHas
  <2> QED BY <1>2, <1>5, <1>6, <1>8, <2>1
<1>10. Fits(b, s, pos + 1, bytes, k, t)
  <2> SUFFICES ASSUME b \in sure, s.v.data \in s.sound
               PROVE  /\ Len(t) = k
                      /\ \A i \in 1..k :
                           t[i] = IF i >= pos + 1 /\ i < pos + 1 + Len(bytes) THEN bytes[i - (pos + 1) + 1]
                                  ELSE s.heap[s.v.data].bytes[i]
    BY DEF Fits
  <2>1. Len(q) = s.v.size /\ \A i \in 1..s.v.size : q[i] = s.heap[s.v.data].bytes[i]
    BY <1>4 DEF ReadyHas, Same
  <2>2. Len(t) = k
    BY <1>6, <1>8, <2>1
  <2>3. ASSUME NEW i \in 1..k, ~(i >= pos + 1 /\ i < pos + 1 + Len(bytes))
        PROVE  q[i] = s.heap[s.v.data].bytes[i]
    <3>1. i <= Len(q)
      BY <1>1, <1>2, <1>5, <1>6, <2>1, <2>3
    <3>2. i \in 1..s.v.size
      BY <1>5, <1>9, <2>1, <3>1
    <3> QED BY <2>1, <3>2
  <2> QED BY <1>8, <2>2, <2>3
<1> HIDE DEF to
<1> QED BY <1>1, <1>2, <1>3, <1>8, <1>9, <1>10, WriteLeaves

(* erase; in the middle it moves the wrong bytes, but within the block, and *)
(* nobody on the block is sure of its bytes any more.                      *)
LEMMA EraseKeeps ==
  ASSUME IInv, NEW b \in Buffers, NEW pos \in Nat, NEW n \in Nat, Erase(b, pos, n)
  PROVE  IInv'
<1> DEFINE d == buf[b].data
           old == heap[d].bytes
<1>1. /\ Usable(b) /\ d # Null /\ pos < buf[b].size
      /\ Typed(buf, heap, text) /\ b \in Pointing(buf) /\ buf[b] \in Members
      /\ d \in DOMAIN heap /\ heap[d] \in Blocks
  BY UsableFacts DEF Erase
<1>2. buf[b].size \in Nat /\ old \in Seq(Byte) /\ Len(old) \in Nat /\ buf[b].size <= Len(old) /\ text[b] \in Seq(Byte)
      /\ Len(text[b]) \in Nat /\ buf[b].size <= Len(text[b])
  <2>1. buf[b].size \in Nat
    BY <1>1 DEF Members
  <2>2. old \in Seq(Byte)
    BY <1>1 DEF Blocks
  <2>3. buf[b].size <= Len(old)
    BY <1>1 DEF IInv, Holds, Placed
  <2>4. text[b] \in Seq(Byte)
    BY <1>1 DEF Typed
  <2>5. buf[b].size <= Len(text[b])
    BY <1>1 DEF IInv, Holds, Covered
  <2> QED BY <2>1, <2>2, <2>3, <2>4, <2>5, BytesAreSeq
<1>3. CASE pos + n >= buf[b].size
  <2> DEFINE s == Here(b)
             t == SubSeq(text[b], 1, pos)
  <2>1. Leaves(b, Sized(s, pos), 1, 0, t)
    BY <1>3 DEF Erase
  <2>2. /\ s = State(s.v, s.heap, s.sound) /\ s.v = buf[b] /\ s.heap = heap /\ s.sound = sound
        /\ Holds([buf EXCEPT ![b] = s.v], s.heap, s.sound, text, sure)
    BY <1>1, HereFacts
  <2>3. t \in Seq(Byte) /\ Len(t) = pos /\ \A i \in 1..pos : t[i] = text[b][i]
    <3>1. pos <= Len(text[b])
      BY <1>1, <1>2
    <3>2. t \in Seq(Byte) /\ Len(t) = IF 1 <= pos THEN pos - 1 + 1 ELSE 0
      BY <1>2, <3>1, SubSeqFacts
    <3>3. \A i \in 1..(pos - 1 + 1) : t[i] = text[b][1 + i - 1]
      BY <1>2, <3>1, SubSeqFacts
    <3> HIDE DEF t
    <3> QED BY <3>2, <3>3
  <2> HIDE DEF t
  <2>4. b \in sure /\ d \in sound => Len(t) = pos /\ \A i \in 1..pos : t[i] = old[i]
    <3> SUFFICES ASSUME b \in sure, d \in sound
                 PROVE  \A i \in 1..pos : t[i] = old[i]
      BY <2>3
    <3>1. \A i \in 1..buf[b].size : text[b][i] = old[i]
      BY DEF IInv, Holds, Held, Same
    <3>2. \A i \in 1..pos : i \in 1..buf[b].size
      BY <1>1, <1>2
    <3> QED BY <2>3, <3>1, <3>2
  <2>5. pos <= Len(old) /\ pos <= Len(t)
    BY <1>1, <1>2, <2>3
  <2> HIDE DEF s
  <2> QED BY <1>1, <2>1, <2>2, <2>3, <2>4, <2>5, SizeLeaves
<1>4. CASE ~(pos + n >= buf[b].size)
  <2> DEFINE size == buf[b].size - (pos + n)
             from == pos + n - Header
             moved == [i \in 1..size |-> IF from + i < 1 THEN Junk ELSE old[from + i]]
             nb == [i \in DOMAIN old |-> IF i >= pos + 1 /\ i < pos + 1 + Len(moved) THEN moved[i - (pos + 1) + 1] ELSE old[i]]
  <2>1. /\ buf' = [buf EXCEPT ![b].size = size] /\ heap' = Write(Here(b), pos + 1, moved).heap
        /\ sure' = sure \ Sharing(d) /\ sound' = sound /\ text' = text
    BY <1>4 DEF Erase
  <2>2. size \in Nat /\ size <= Len(old) /\ Header \in Nat /\ Header > 0
    <3> HIDE DEF old
    <3>1. Header \in Nat /\ Header > 0
      BY BufferAssumption
    <3>2. size \in Nat
      BY <1>2, <1>4
    <3>3. size <= buf[b].size
      BY <1>2
    <3> HIDE DEF size
    <3> QED BY <1>2, <3>1, <3>2, <3>3
  <2>3. moved \in Seq(Byte)
    <3>1. ASSUME NEW i \in 1..size PROVE moved[i] \in Byte
      <4>1. CASE from + i < 1
        BY <4>1 DEF Byte
      <4>2. CASE ~(from + i < 1)
        <5>1. from + i \in 1..Len(old)
          <6> HIDE DEF old
          <6>1. from + i \in Int /\ from + i >= 1
            BY <2>2, <4>2
          <6>2. from + i <= buf[b].size - Header
            BY <1>2, <1>4, <2>2
          <6> HIDE DEF from
          <6> QED BY <1>2, <2>2, <6>1, <6>2
        <5>2. old[from + i] \in Byte
          <6> HIDE DEF old, from
          <6> QED BY <1>2, <5>1
        <5> QED BY <4>2, <5>2
      <4> QED BY <4>1, <4>2
    <3> HIDE DEF size
    <3>2. moved = [i \in 1..size |-> moved[i]]
      OBVIOUS
    <3> HIDE DEF moved
    <3> QED BY <2>2, <3>1, <3>2
  <2> HIDE DEF moved
  <2>4. nb \in Seq(Byte) /\ Len(nb) = Len(old)
    <3>1. pos + 1 \in Nat \ {0}
      OBVIOUS
    <3> HIDE DEF old
    <3> QED BY <1>2, <2>3, <3>1, WrittenIsSeq
  <2>5. heap' = [heap EXCEPT ![d].bytes = nb]
    <3> DEFINE s == Here(b)
    <3>1. s = State(s.v, s.heap, s.sound) /\ s.v = buf[b] /\ s.heap = heap
      BY <1>1, HereFacts
    <3> HIDE DEF s
    <3>2. Write(s, pos + 1, moved).heap = Written(heap, d, pos + 1, moved)
      BY <3>1, WriteIs, StateParts
    <3> QED BY <2>1, <3>2 DEF s, Written
  <2> HIDE DEF nb
  <2>6. sure' \in SUBSET sure /\ b \notin sure'
    BY <1>1, <2>1 DEF Sharing, Alive, Pointing, Lives
  <2>11. size <= Len(text[b])
    BY <1>2, <2>2
  <2>7. Spared(buf, heap, b, sure', nb)
    BY <2>1 DEF Spared, Sharing, Alive, IInv, Holds, Lives
  <2>8. text' = [text EXCEPT ![b] = text[b]]
    BY <1>1, <2>1 DEF Typed
  <2>9. Holds(buf, heap, sound, text, sure)
    BY DEF IInv
  <2> HIDE DEF size
  <2>10. Holds([buf EXCEPT ![b].size = size], [heap EXCEPT ![d].bytes = nb], sound, [text EXCEPT ![b] = text[b]], sure')
    BY <1>1, <1>2, <2>2, <2>4, <2>6, <2>7, <2>9, <2>11, WriteKeeps
  <2> QED BY <2>1, <2>5, <2>8, <2>10 DEF IInv
<1> QED BY <1>3, <1>4

-----------------------------------------------------------------------------
(* The calls that begin, end, copy and exchange buffers. *)

(* The parts of the invariant that most calls need. *)
LEMMA InvFacts ==
  ASSUME IInv
  PROVE  /\ buf \in [Buffers -> Members \cup {<<>>}] /\ heap \in Seq(Blocks) /\ text \in [Buffers -> Seq(Byte)]
         /\ IsFiniteSet(Lives(buf)) /\ sound \subseteq DOMAIN heap /\ sure \subseteq Lives(buf)
         /\ Null \notin DOMAIN heap /\ Null \notin sound
         /\ \A b \in Lives(buf) : b \in Buffers /\ buf[b] \in Members /\ buf[b] # <<>>
         /\ \A b \in Buffers : text[b] \in Seq(Byte)
<1>1. heap \in Seq(Blocks) /\ sound \subseteq DOMAIN heap
  BY DEF IInv, Holds, Typed
<1>2. Null \notin DOMAIN heap
  BY <1>1 DEF Null
<1> QED BY <1>1, <1>2 DEF IInv, Holds, Typed, Lives

(* Every buffer has what a buffer had before, or nothing; sure of what only *)
(* if that one was, and no bytes have changed.                             *)
Lifted(bg, hq, snq, ty, sr2) ==
  /\ DOMAIN hq = DOMAIN heap /\ \A e \in DOMAIN heap : hq[e].bytes = heap[e].bytes
  /\ snq \subseteq sound /\ sr2 \subseteq Lives(bg)
  /\ \A a \in Lives(bg) :
       \/ bg[a].data = Null /\ ty[a] = <<>>
       \/ \E a2 \in Lives(buf) :
            bg[a] = buf[a2] /\ ty[a] = text[a2] /\ (a \in sr2 /\ bg[a].data \in snq => a2 \in sure)

(* Such a step keeps all but the counts. *)
LEMMA LiftedKeeps ==
  ASSUME IInv, NEW bg, NEW hq, NEW snq, NEW ty, NEW sr2, Lifted(bg, hq, snq, ty, sr2)
  PROVE  /\ Placed(bg, hq) /\ Blank(bg, ty) /\ Covered(bg, ty) /\ Held(bg, hq, snq, ty, sr2)
         /\ (\A e \in snq : hq[e].freed => heap[e].freed) => Kept(bg, hq, snq)
<1>1. /\ DOMAIN hq = DOMAIN heap /\ \A e \in DOMAIN heap : hq[e].bytes = heap[e].bytes
      /\ snq \subseteq sound /\ sr2 \subseteq Lives(bg) /\ Null \notin snq
  BY InvFacts DEF Lifted
<1>2. \A a \in Lives(bg) : bg[a].data # Null => \E a2 \in Lives(buf) :
         bg[a] = buf[a2] /\ ty[a] = text[a2] /\ (a \in sr2 /\ bg[a].data \in snq => a2 \in sure)
  BY DEF Lifted
<1>3. ASSUME NEW a \in Pointing(bg)
      PROVE  /\ bg[a].data \in DOMAIN hq
             /\ Len(hq[bg[a].data].bytes) + Header = bg[a].block * BlockSize
             /\ bg[a].size <= Len(hq[bg[a].data].bytes) /\ bg[a].size <= Len(ty[a])
  <2>1. PICK a2 \in Lives(buf) : bg[a] = buf[a2] /\ ty[a] = text[a2] /\ buf[a2].data # Null
    BY <1>2 DEF Pointing
  <2>2. a2 \in Pointing(buf)
    BY <2>1 DEF Pointing
  <2>3. /\ buf[a2].data \in DOMAIN heap
        /\ Len(heap[buf[a2].data].bytes) + Header = buf[a2].block * BlockSize
        /\ buf[a2].size <= Len(heap[buf[a2].data].bytes) /\ buf[a2].size <= Len(text[a2])
    BY <2>2 DEF IInv, Holds, Placed, Covered
  <2> QED BY <1>1, <2>1, <2>3
<1>4. ASSUME NEW a \in Lives(bg), bg[a].data = Null PROVE ty[a] = <<>>
  BY <1>4 DEF Lifted, IInv, Holds, Blank
<1>5. ASSUME NEW a \in sr2, bg[a].data \in snq PROVE Same(bg[a], hq, ty[a])
  <2>1. PICK a2 \in sure : bg[a] = buf[a2] /\ ty[a] = text[a2]
    BY <1>1, <1>2, <1>5
  <2>2. Same(buf[a2], heap, text[a2]) /\ buf[a2].data \in DOMAIN heap
    BY <1>1, <1>5, <2>1, InvFacts DEF IInv, Holds, Held
  <2> QED BY <1>1, <2>1, <2>2 DEF Same
<1>6. ASSUME \A e \in snq : hq[e].freed => heap[e].freed, NEW a \in Lives(bg), bg[a].data \in snq
      PROVE  ~hq[bg[a].data].freed
  <2>1. PICK a2 \in Lives(buf) : bg[a] = buf[a2]
    BY <1>1, <1>2, <1>6
  <2> QED BY <1>1, <1>6, <2>1 DEF IInv, Holds, Kept
<1> QED BY <1>3, <1>4, <1>5, <1>6 DEF Placed, Blank, Covered, Held, Kept

(* Counting the buffers on a block. *)
LEMMA CountAdded ==
  ASSUME NEW S, IsFiniteSet(S), NEW x, x \notin S
  PROVE  Cardinality(S \cup {x}) = Cardinality(S) + 1 /\ IsFiniteSet(S \cup {x})
  BY FS_AddElement

LEMMA CountMoved ==
  ASSUME NEW S, IsFiniteSet(S), NEW x \in S, NEW y, y \notin S
  PROVE  Cardinality((S \ {x}) \cup {y}) = Cardinality(S)
<1>1. Cardinality(S \ {x}) = Cardinality(S) - 1 /\ IsFiniteSet(S \ {x}) /\ Cardinality(S) \in Nat
  BY FS_RemoveElement, FS_CardinalityType
<1>2. Cardinality((S \ {x}) \cup {y}) = Cardinality(S \ {x}) + 1
  BY <1>1, FS_AddElement
<1> QED BY <1>1, <1>2

(* The constructor. *)
LEMMA ConstructKeeps == ASSUME IInv, NEW b \in Buffers, Construct(b) PROVE IInv'
<1>1. /\ buf[b] = <<>> /\ buf' = [buf EXCEPT ![b] = Empty] /\ text' = [text EXCEPT ![b] = <<>>]
      /\ sure' = sure \cup {b} /\ heap' = heap /\ sound' = sound
  BY DEF Construct, Alive
<1>2. Empty \in Members /\ Empty # <<>> /\ Empty.data = Null
  BY AMemberLives DEF Empty, Members, Null
<1>3. buf'[b] = Empty /\ text'[b] = <<>> /\ \A c \in Buffers \ {b} : buf'[c] = buf[c] /\ text'[c] = text[c]
  BY <1>1, InvFacts
<1>4. Typed(buf', heap', text')
  BY <1>1, <1>2, InvFacts DEF Typed
<1>5. b \notin Lives(buf) /\ Lives(buf') = Lives(buf) \cup {b}
  BY <1>1, <1>2, <1>3 DEF Lives
<1>6. \A d : d # Null => On(buf', d) = On(buf, d)
  BY <1>1, <1>2, <1>3 DEF On
<1>7. IsFiniteSet(Lives(buf'))
  BY <1>5, InvFacts, CountAdded
<1>8. \A c \in Lives(buf) : c # b /\ buf'[c] = buf[c] /\ text'[c] = text[c]
  BY <1>3, <1>5 DEF Lives
<1>9. Lifted(buf', heap', sound', text', sure')
  BY <1>1, <1>2, <1>3, <1>5, <1>8, InvFacts DEF Lifted
<1>10. Counted(buf', heap', sound')
  BY <1>1, <1>6, InvFacts DEF IInv, Holds, Counted
<1>11. sound' \subseteq DOMAIN heap' /\ sure' \subseteq Lives(buf')
  BY <1>1, <1>5, InvFacts
<1> QED BY <1>1, <1>4, <1>7, <1>9, <1>10, <1>11, LiftedKeeps DEF IInv, Holds

(* The copy constructor counts one more on the block. *)
LEMMA CopyConstructKeeps ==
  ASSUME IInv, NEW b \in Buffers, NEW c \in Buffers, CopyConstruct(b, c)
  PROVE  IInv'
<1> DEFINE d == buf[c].data
<1>1. /\ buf[b] = <<>> /\ Usable(c) /\ buf' = [buf EXCEPT ![b] = buf[c]] /\ text' = [text EXCEPT ![b] = text[c]]
      /\ sure' \subseteq sure \cup {b} /\ (b \in sure' => c \in sure) /\ sound' = sound
      /\ heap' = IF d = Null THEN heap ELSE [heap EXCEPT ![d].count = @ + 1]
  <2>1. sure' = IF c \in sure THEN sure \cup {b} ELSE sure
    BY DEF CopyConstruct
  <2>2. b \notin sure
    BY InvFacts DEF CopyConstruct, Alive, Lives
  <2> QED BY <2>1, <2>2 DEF CopyConstruct, Alive
<1>2. c \in Lives(buf) /\ buf[c] \in Members /\ buf[c] # <<>> /\ b # c /\ (d # Null => ~heap[d].freed)
  BY <1>1, UsableFacts, InvFacts
<1>3. buf'[b] = buf[c] /\ text'[b] = text[c] /\ \A a \in Buffers \ {b} : buf'[a] = buf[a] /\ text'[a] = text[a]
  BY <1>1, InvFacts
<1>4. d # Null => d \in DOMAIN heap /\ heap[d] \in Blocks
  BY <1>1, UsableFacts
<1>5. /\ heap' \in Seq(Blocks) /\ DOMAIN heap' = DOMAIN heap
      /\ \A e \in DOMAIN heap : e # d => heap'[e] = heap[e]
      /\ \A e \in DOMAIN heap : heap'[e].bytes = heap[e].bytes /\ (heap'[e].freed <=> heap[e].freed)
      /\ d # Null => heap'[d].count = heap[d].count + 1
  <2>1. CASE d = Null
    BY <1>1, <2>1, InvFacts
  <2>2. CASE d # Null
    <3>1. heap' = [heap EXCEPT ![d] = [heap[d] EXCEPT !.count = heap[d].count + 1]]
      BY <1>1, <2>2
    <3> DEFINE k == [heap[d] EXCEPT !.count = heap[d].count + 1]
    <3>2. k \in Blocks /\ k.bytes = heap[d].bytes /\ k.freed = heap[d].freed /\ k.count = heap[d].count + 1
      BY <1>4, <2>2 DEF Blocks
    <3> HIDE DEF k
    <3>3. heap' = [heap EXCEPT ![d] = k]
      BY <3>1 DEF k
    <3>4. d \in DOMAIN heap /\ heap \in Seq(Blocks)
      BY <1>4, <2>2, InvFacts
    <3> QED BY <3>2, <3>3, <3>4
  <2> QED BY <2>1, <2>2
<1>6. Typed(buf', heap', text')
  BY <1>1, <1>2, <1>5, InvFacts DEF Typed
<1>7. b \notin Lives(buf) /\ Lives(buf') = Lives(buf) \cup {b}
  BY <1>1, <1>2, <1>3 DEF Lives
<1>8. b \notin On(buf, d) /\ On(buf', d) = On(buf, d) \cup {b} /\ \A e : e # d => On(buf', e) = On(buf, e)
  BY <1>1, <1>2, <1>3 DEF On
<1>9. \A a \in Lives(buf) : a # b /\ buf'[a] = buf[a] /\ text'[a] = text[a]
  BY <1>3, <1>7 DEF Lives
<1>10. \A a \in Lives(buf') : \E a2 \in Lives(buf) :
         buf'[a] = buf[a2] /\ text'[a] = text[a2] /\ (a \in sure' => a2 \in sure)
  <2> TAKE a \in Lives(buf')
  <2>1. CASE a = b
    BY <1>1, <1>2, <1>3, <2>1
  <2>2. CASE a # b
    BY <1>1, <1>7, <1>9, <2>2
  <2> QED BY <2>1, <2>2
<1>11. Counted(buf', heap', sound')
  <2> SUFFICES ASSUME NEW e \in sound, ~heap'[e].freed
               PROVE  heap'[e].count = Cardinality(On(buf', e)) /\ On(buf', e) # {}
    BY <1>1 DEF Counted
  <2>1. e \in DOMAIN heap /\ e # Null /\ ~heap[e].freed
    BY <1>5, InvFacts
  <2>2. heap[e].count = Cardinality(On(buf, e)) /\ On(buf, e) # {}
    BY <2>1 DEF IInv, Holds, Counted
  <2>3. CASE e # d
    BY <1>5, <1>8, <2>1, <2>2, <2>3
  <2>4. CASE e = d
    <3>1. Cardinality(On(buf, d) \cup {b}) = Cardinality(On(buf, d)) + 1
      BY <1>8, OnFinite, InvFacts, CountAdded
    <3> QED BY <1>5, <1>8, <2>1, <2>2, <2>4, <3>1
  <2> QED BY <2>3, <2>4
<1>12. Lifted(buf', heap', sound', text', sure')
  <2>1. sure' \subseteq Lives(buf')
    BY <1>1, <1>7, InvFacts
  <2> QED BY <1>1, <1>5, <1>10, <2>1 DEF Lifted
<1>13. IsFiniteSet(Lives(buf'))
  BY <1>7, InvFacts, CountAdded
<1>14. sound' \subseteq DOMAIN heap' /\ sure' \subseteq Lives(buf')
  BY <1>1, <1>5, <1>7, InvFacts
<1>15. \A e \in sound' : heap'[e].freed => heap[e].freed
  BY <1>1, <1>5, InvFacts
<1> QED BY <1>6, <1>11, <1>12, <1>13, <1>14, <1>15, LiftedKeeps DEF IInv, Holds

(* The move constructor puts one buffer in the place of another. *)
LEMMA MoveConstructKeeps ==
  ASSUME IInv, NEW b \in Buffers, NEW c \in Buffers, MoveConstruct(b, c)
  PROVE  IInv'
<1> DEFINE d == buf[c].data
           left == [buf[c] EXCEPT !.data = Null]
<1>1. /\ buf[b] = <<>> /\ Usable(c) /\ buf' = [buf EXCEPT ![b] = buf[c], ![c].data = Null]
      /\ text' = [text EXCEPT ![b] = text[c], ![c] = <<>>]
      /\ sure' \subseteq sure \cup {b} /\ (b \in sure' => c \in sure) /\ sound' = sound /\ heap' = heap
  <2>1. sure' = IF c \in sure THEN sure \cup {b} ELSE sure
    BY DEF MoveConstruct
  <2>2. b \notin sure
    BY InvFacts DEF MoveConstruct, Alive, Lives
  <2> QED BY <2>1, <2>2 DEF MoveConstruct, Alive
<1>2. c \in Lives(buf) /\ buf[c] \in Members /\ buf[c] # <<>> /\ b # c
  BY <1>1, UsableFacts, InvFacts
<1>3. left \in Members /\ left # <<>> /\ left.data = Null
  BY <1>2, AMemberLives DEF Members, Null
<1>4. /\ buf'[b] = buf[c] /\ text'[b] = text[c] /\ buf'[c] = left /\ text'[c] = <<>>
      /\ \A a \in Buffers \ {b, c} : buf'[a] = buf[a] /\ text'[a] = text[a]
  BY <1>1, <1>2, InvFacts
<1>5. Typed(buf', heap', text')
  <2>1. buf' = [[buf EXCEPT ![b] = buf[c]] EXCEPT ![c] = left]
    BY <1>1, <1>2, InvFacts
  <2>2. text' = [[text EXCEPT ![b] = text[c]] EXCEPT ![c] = <<>>]
    BY <1>1
  <2> HIDE DEF left
  <2>3. [buf EXCEPT ![b] = buf[c]] \in [Buffers -> Members \cup {<<>>}]
    BY <1>2, InvFacts
  <2>4. [text EXCEPT ![b] = text[c]] \in [Buffers -> Seq(Byte)]
    BY InvFacts
  <2>5. buf' \in [Buffers -> Members \cup {<<>>}]
    BY <1>3, <2>1, <2>3
  <2>6. text' \in [Buffers -> Seq(Byte)]
    BY <2>2, <2>4, EmptyIsSeq
  <2> QED BY <1>1, <2>5, <2>6, InvFacts DEF Typed
<1> HIDE DEF left
<1>6. b \notin Lives(buf) /\ Lives(buf') = Lives(buf) \cup {b}
  BY <1>1, <1>2, <1>3, <1>4 DEF Lives
<1>7. ASSUME NEW e, e # Null
      PROVE  /\ e # d => On(buf', e) = On(buf, e)
             /\ e = d => c \in On(buf, e) /\ b \notin On(buf, e) /\ On(buf', e) = (On(buf, e) \ {c}) \cup {b}
  <2>1. \A a \in Buffers \ {b, c} : a \in On(buf', e) <=> a \in On(buf, e)
    BY <1>4 DEF On
  <2>2. c \notin On(buf', e) /\ (b \in On(buf', e) <=> e = d)
    BY <1>2, <1>3, <1>4, <1>7 DEF On
  <2>3. b \notin On(buf, e) /\ (c \in On(buf, e) <=> e = d)
    BY <1>1, <1>2 DEF On
  <2>4. On(buf, e) \subseteq Buffers /\ On(buf', e) \subseteq Buffers
    BY DEF On
  <2>5. e # d => On(buf', e) = On(buf, e)
    BY <2>1, <2>2, <2>3, <2>4
  <2>6. e = d => On(buf', e) = (On(buf, e) \ {c}) \cup {b}
    BY <2>1, <2>2, <2>3, <2>4
  <2> QED BY <2>3, <2>5, <2>6
<1>8. Lifted(buf', heap', sound', text', sure')
  <2>1. ASSUME NEW a \in Lives(buf')
        PROVE  \/ buf'[a].data = Null /\ text'[a] = <<>>
               \/ \E a2 \in Lives(buf) :
                    buf'[a] = buf[a2] /\ text'[a] = text[a2] /\ (a \in sure' /\ buf'[a].data \in sound' => a2 \in sure)
    <3>1. CASE a = b
      BY <1>1, <1>2, <1>4, <3>1
    <3>2. CASE a = c
      BY <1>3, <1>4, <3>2
    <3>3. CASE a # b /\ a # c
      <4>1. a \in Lives(buf) /\ buf'[a] = buf[a] /\ text'[a] = text[a]
        BY <1>4, <1>6, <3>3, InvFacts
      <4> QED BY <1>1, <3>3, <4>1
    <3> QED BY <3>1, <3>2, <3>3
  <2>2. sure' \subseteq Lives(buf')
    BY <1>1, <1>6, InvFacts
  <2> QED BY <1>1, <2>1, <2>2 DEF Lifted
<1>9. Counted(buf', heap', sound')
  <2> SUFFICES ASSUME NEW e \in sound, ~heap[e].freed
               PROVE  heap[e].count = Cardinality(On(buf', e)) /\ On(buf', e) # {}
    BY <1>1 DEF Counted
  <2>1. heap[e].count = Cardinality(On(buf, e)) /\ On(buf, e) # {} /\ e # Null
    BY InvFacts DEF IInv, Holds, Counted
  <2>2. CASE e # d
    BY <1>7, <2>1, <2>2
  <2>3. CASE e = d
    <3>1. IsFiniteSet(On(buf, e)) /\ c \in On(buf, e) /\ b \notin On(buf, e) /\ On(buf', e) = (On(buf, e) \ {c}) \cup {b}
      BY <1>7, <2>1, <2>3, OnFinite, InvFacts
    <3>2. Cardinality(On(buf', e)) = Cardinality(On(buf, e))
      BY <3>1, CountMoved
    <3> QED BY <2>1, <3>1, <3>2
  <2> QED BY <2>2, <2>3
<1>10. IsFiniteSet(Lives(buf'))
  BY <1>6, InvFacts, CountAdded
<1>11. sound' \subseteq DOMAIN heap' /\ sure' \subseteq Lives(buf')
  BY <1>1, <1>6, InvFacts
<1>12. \A e \in sound' : heap'[e].freed => heap[e].freed
  BY <1>1
<1> QED BY <1>5, <1>8, <1>9, <1>10, <1>11, <1>12, LiftedKeeps DEF IInv, Holds

(* The operator= that the compiler writes: both blocks are unsound from now *)
(* on, so that nothing is claimed of their counts.                         *)
LEMMA AssignBufferKeeps ==
  ASSUME IInv, NEW b \in Buffers, NEW c \in Buffers, AssignBuffer(b, c)
  PROVE  IInv'
<1>1. /\ b # c /\ Usable(b) /\ Usable(c) /\ buf' = [buf EXCEPT ![b] = buf[c]] /\ text' = [text EXCEPT ![b] = text[c]]
      /\ sound' = sound \ {buf[b].data, buf[c].data} /\ heap' = heap /\ sure' = sure
  BY DEF AssignBuffer
<1>2. /\ b \in Lives(buf) /\ buf[b] \in Members /\ buf[b] # <<>>
      /\ c \in Lives(buf) /\ buf[c] \in Members /\ buf[c] # <<>>
  BY <1>1, UsableFacts, InvFacts
<1>3. buf'[b] = buf[c] /\ text'[b] = text[c] /\ \A a \in Buffers \ {b} : buf'[a] = buf[a] /\ text'[a] = text[a]
  BY <1>1, InvFacts
<1>4. Typed(buf', heap', text')
  BY <1>1, <1>2, InvFacts DEF Typed
<1>5. Lives(buf') = Lives(buf)
  BY <1>2, <1>3 DEF Lives
<1>6. \A e \in sound' : On(buf', e) = On(buf, e)
  BY <1>1, <1>2, <1>3 DEF On
<1>7. Lifted(buf', heap', sound', text', sure')
  <2>1. ASSUME NEW a \in Lives(buf')
        PROVE  \E a2 \in Lives(buf) :
                 buf'[a] = buf[a2] /\ text'[a] = text[a2] /\ (a \in sure' /\ buf'[a].data \in sound' => a2 \in sure)
    <3>1. CASE a = b
      BY <1>1, <1>2, <1>3, <3>1
    <3>2. CASE a # b
      BY <1>1, <1>3, <1>5, <3>2, InvFacts
    <3> QED BY <3>1, <3>2
  <2> QED BY <1>1, <1>5, <2>1, InvFacts DEF Lifted
<1>8. Counted(buf', heap', sound')
  BY <1>1, <1>6 DEF IInv, Holds, Counted
<1>9. IsFiniteSet(Lives(buf')) /\ sound' \subseteq DOMAIN heap' /\ sure' \subseteq Lives(buf')
  BY <1>1, <1>5, InvFacts
<1> QED BY <1>1, <1>4, <1>7, <1>8, <1>9, LiftedKeeps DEF IInv, Holds

(* The destructor counts one less, and frees the block of the last buffer. *)
LEMMA DestroyKeeps == ASSUME IInv, NEW b \in Buffers, Destroy(b) PROVE IInv'
<1> DEFINE d == buf[b].data
           k == Dropped(heap[d])
<1>1. /\ Usable(b) /\ buf' = [buf EXCEPT ![b] = <<>>] /\ text' = [text EXCEPT ![b] = <<>>]
      /\ sound' = sound /\ sure' = sure \ {b}
      /\ heap' = IF d = Null THEN heap ELSE [heap EXCEPT ![d] = k]
  BY DEF Destroy
<1>2. /\ b \in Lives(buf) /\ buf[b] \in Members /\ buf[b] # <<>>
      /\ d # Null => d \in DOMAIN heap /\ heap[d] \in Blocks /\ ~heap[d].freed
  BY <1>1, UsableFacts, InvFacts
<1>3. d # Null => k \in Blocks /\ k.bytes = heap[d].bytes /\ k.count = heap[d].count - 1 /\ (k.freed <=> heap[d].count = 1)
  <2> SUFFICES ASSUME d # Null
               PROVE  k \in Blocks /\ k.bytes = heap[d].bytes /\ k.count = heap[d].count - 1 /\ (k.freed <=> heap[d].count = 1)
    OBVIOUS
  <2>1. PICK f \in BOOLEAN : f = (heap[d].count = 1)
    OBVIOUS
  <2>2. k = [heap[d] EXCEPT !.count = heap[d].count - 1, !.freed = f]
    BY <2>1 DEF Dropped
  <2> HIDE DEF k
  <2>3. k \in Blocks /\ k.bytes = heap[d].bytes /\ k.count = heap[d].count - 1 /\ k.freed = f
    <3>1. PICK h \in Blocks : h = heap[d]
      BY <1>2
    <3>2. PICK j \in Int : j = heap[d].count - 1
      BY <3>1 DEF Blocks
    <3>3. k = [h EXCEPT !.count = j, !.freed = f]
      BY <2>2, <3>1, <3>2
    <3>4. k = [freed |-> f, count |-> j, bytes |-> h.bytes] /\ h.bytes \in Seq(Byte)
      BY <3>3 DEF Blocks
    <3>5. k \in Blocks
      BY <2>1, <3>2, <3>4 DEF Blocks
    <3> QED BY <3>1, <3>2, <3>4, <3>5
  <2> QED BY <2>1, <2>3
<1>4. buf'[b] = <<>> /\ text'[b] = <<>> /\ \A a \in Buffers \ {b} : buf'[a] = buf[a] /\ text'[a] = text[a]
  BY <1>1, InvFacts
<1> HIDE DEF k
<1>5. /\ heap' \in Seq(Blocks) /\ DOMAIN heap' = DOMAIN heap
      /\ \A e \in DOMAIN heap : e # d => heap'[e] = heap[e]
      /\ \A e \in DOMAIN heap : heap'[e].bytes = heap[e].bytes
      /\ d # Null => heap'[d] = k
  <2>1. CASE d = Null
    BY <1>1, <2>1, InvFacts
  <2>2. CASE d # Null
    BY <1>1, <1>2, <1>3, <2>2, InvFacts
  <2> QED BY <2>1, <2>2
<1>6. Typed(buf', heap', text')
  BY <1>1, <1>5, EmptyIsSeq, InvFacts DEF Typed
<1>7. Lives(buf') = Lives(buf) \ {b}
  BY <1>2, <1>4 DEF Lives
<1>8. b \in On(buf, d) /\ On(buf', d) = On(buf, d) \ {b} /\ \A e : e # d => On(buf', e) = On(buf, e)
  BY <1>2, <1>4 DEF On, Lives
<1>9. d \in sound => /\ heap[d].count = Cardinality(On(buf, d)) /\ Cardinality(On(buf, d)) \in Nat
                     /\ IsFiniteSet(On(buf, d)) /\ Cardinality(On(buf', d)) = Cardinality(On(buf, d)) - 1
                     /\ IsFiniteSet(On(buf', d))
  <2> SUFFICES ASSUME d \in sound
               PROVE  /\ heap[d].count = Cardinality(On(buf, d)) /\ Cardinality(On(buf, d)) \in Nat
                      /\ IsFiniteSet(On(buf, d)) /\ Cardinality(On(buf', d)) = Cardinality(On(buf, d)) - 1
                      /\ IsFiniteSet(On(buf', d))
    OBVIOUS
  <2>1. heap[d].count = Cardinality(On(buf, d))
    BY <1>2, InvFacts DEF IInv, Holds, Counted
  <2>2. IsFiniteSet(On(buf, d))
    BY OnFinite, InvFacts
  <2>3. Cardinality(On(buf, d) \ {b}) = Cardinality(On(buf, d)) - 1 /\ IsFiniteSet(On(buf, d) \ {b})
    BY <1>8, <2>2, FS_RemoveElement
  <2> QED BY <1>8, <2>1, <2>2, <2>3, FS_CardinalityType
<1>10. Lifted(buf', heap', sound', text', sure')
  <2>1. ASSUME NEW a \in Lives(buf')
        PROVE  \E a2 \in Lives(buf) :
                 buf'[a] = buf[a2] /\ text'[a] = text[a2] /\ (a \in sure' /\ buf'[a].data \in sound' => a2 \in sure)
    BY <1>1, <1>4, <1>7, InvFacts
  <2>2. sure' \subseteq Lives(buf')
    BY <1>1, <1>7, InvFacts
  <2> QED BY <1>1, <1>5, <2>1, <2>2 DEF Lifted
<1>11. Counted(buf', heap', sound')
  <2> SUFFICES ASSUME NEW e \in sound, ~heap'[e].freed
               PROVE  heap'[e].count = Cardinality(On(buf', e)) /\ On(buf', e) # {}
    BY <1>1 DEF Counted
  <2>1. e \in DOMAIN heap /\ e # Null
    BY InvFacts
  <2>2. CASE e # d
    BY <1>5, <1>8, <2>1, <2>2 DEF IInv, Holds, Counted
  <2>3. CASE e = d
    <3>1. heap'[d].count = Cardinality(On(buf', d)) /\ heap[d].count # 1
      BY <1>3, <1>5, <1>9, <2>1, <2>3
    <3>2. Cardinality(On(buf', d)) # 0
      BY <1>9, <2>3, <3>1
    <3>3. On(buf', d) # {}
      BY <3>2, FS_EmptySet
    <3> QED BY <2>3, <3>1, <3>3
  <2> QED BY <2>2, <2>3
<1>12. Kept(buf', heap', sound')
  <2> SUFFICES ASSUME NEW a \in Lives(buf'), buf'[a].data \in sound
               PROVE  ~heap'[buf'[a].data].freed
    BY <1>1 DEF Kept
  <2>1. a \in Lives(buf) /\ a # b /\ buf'[a] = buf[a] /\ buf[a].data \in DOMAIN heap /\ buf[a].data # Null
    BY <1>4, <1>7, InvFacts
  <2>2. CASE buf[a].data # d
    BY <1>5, <2>1, <2>2 DEF IInv, Holds, Kept
  <2>3. CASE buf[a].data = d
    <3>1. a \in On(buf', d)
      BY <1>8, <2>1, <2>3, InvFacts DEF On
    <3>2. Cardinality(On(buf', d)) # 0
      BY <1>9, <2>1, <2>3, <3>1, FS_EmptySet
    <3>3. heap[d].count # 1
      BY <1>9, <2>1, <2>3, <3>2
    <3> QED BY <1>3, <1>5, <2>1, <2>3, <3>3
  <2> QED BY <2>2, <2>3
<1>13. IsFiniteSet(Lives(buf')) /\ sound' \subseteq DOMAIN heap' /\ sure' \subseteq Lives(buf')
  BY <1>1, <1>5, <1>7, InvFacts, FS_Subset
<1> QED BY <1>6, <1>10, <1>11, <1>12, <1>13, LiftedKeeps DEF IInv, Holds

(* swap exchanges two buffers on their blocks. *)
LEMMA SwapKeeps ==
  ASSUME IInv, NEW b \in Buffers, NEW c \in Buffers, Swap(b, c)
  PROVE  IInv'
<1> DEFINE Other(a) == IF a = b THEN c ELSE IF a = c THEN b ELSE a
<1>1. /\ b # c /\ buf[b] # <<>> /\ buf[c] # <<>> /\ buf' = [buf EXCEPT ![b] = buf[c], ![c] = buf[b]]
      /\ text' = [text EXCEPT ![b] = text[c], ![c] = text[b]]
      /\ sure' = {a \in Buffers : Other(a) \in sure} /\ sound' = sound /\ heap' = heap
  BY DEF Swap, Alive
<1>2. b \in Lives(buf) /\ buf[b] \in Members /\ c \in Lives(buf) /\ buf[c] \in Members
  BY <1>1, InvFacts DEF Lives
<1>3. /\ buf'[b] = buf[c] /\ text'[b] = text[c] /\ buf'[c] = buf[b] /\ text'[c] = text[b]
      /\ \A a \in Buffers \ {b, c} : buf'[a] = buf[a] /\ text'[a] = text[a]
  BY <1>1, InvFacts
<1>4. Typed(buf', heap', text')
  BY <1>1, <1>2, InvFacts DEF Typed
<1>5. Lives(buf') = Lives(buf)
  BY <1>1, <1>2, <1>3 DEF Lives
<1>6. \A a \in Lives(buf) : Other(a) \in Lives(buf) /\ buf'[a] = buf[Other(a)] /\ text'[a] = text[Other(a)]
  BY <1>2, <1>3, InvFacts
<1>7. Lifted(buf', heap', sound', text', sure')
  <2>1. \A a \in sure' : Other(a) \in sure
    BY <1>1
  <2>2. sure' \subseteq Lives(buf')
    BY <1>1, <1>2, <1>5, InvFacts
  <2> HIDE DEF Other
  <2> QED BY <1>1, <1>5, <1>6, <2>1, <2>2 DEF Lifted
<1>8. Counted(buf', heap', sound')
  <2> SUFFICES ASSUME NEW e \in sound, ~heap[e].freed
               PROVE  heap[e].count = Cardinality(On(buf', e)) /\ On(buf', e) # {}
    BY <1>1 DEF Counted
  <2>1. heap[e].count = Cardinality(On(buf, e)) /\ On(buf, e) # {}
    BY DEF IInv, Holds, Counted
  <2>2. IsFiniteSet(On(buf, e))
    BY OnFinite, InvFacts
  <2>3. CASE buf[b].data = e /\ buf[c].data # e
    <3>1. b \in On(buf, e) /\ c \notin On(buf, e) /\ On(buf', e) = (On(buf, e) \ {b}) \cup {c}
      BY <1>1, <1>3, <2>3 DEF On
    <3> QED BY <2>1, <2>2, <3>1, CountMoved
  <2>4. CASE buf[b].data # e /\ buf[c].data = e
    <3>1. c \in On(buf, e) /\ b \notin On(buf, e) /\ On(buf', e) = (On(buf, e) \ {c}) \cup {b}
      BY <1>1, <1>3, <2>4 DEF On
    <3> QED BY <2>1, <2>2, <3>1, CountMoved
  <2>5. CASE buf[b].data = e <=> buf[c].data = e
    <3>1. On(buf', e) = On(buf, e)
      BY <1>1, <1>3, <2>5 DEF On
    <3> QED BY <2>1, <3>1
  <2> QED BY <2>3, <2>4, <2>5
<1>9. IsFiniteSet(Lives(buf')) /\ sound' \subseteq DOMAIN heap' /\ sure' \subseteq Lives(buf')
  BY <1>1, <1>2, <1>5, InvFacts
<1> QED BY <1>1, <1>4, <1>7, <1>8, <1>9, LiftedKeeps DEF IInv, Holds

-----------------------------------------------------------------------------
(* The invariant holds at first, *)
LEMMA InitHolds == BufferInit => IInv
<1> SUFFICES ASSUME BufferInit PROVE IInv
  OBVIOUS
<1>1. Lives(buf) = {} /\ IsFiniteSet({}) /\ heap \in Seq(Blocks) /\ sound = {} /\ sure = {}
  BY FS_EmptySet DEF BufferInit, Lives
<1>2. Typed(buf, heap, text)
  BY <1>1, EmptyIsSeq DEF Typed, BufferInit
<1>3. Pointing(buf) = {}
  BY <1>1 DEF Pointing
<1> QED BY <1>1, <1>2, <1>3 DEF IInv, Holds, Placed, Counted, Kept, Blank, Covered, Held

(* and every call keeps it. *)
LEMMA StepKeeps == IInv /\ [BufferNext]_bufferVars => IInv'
<1> SUFFICES ASSUME IInv, [BufferNext]_bufferVars PROVE IInv'
  OBVIOUS
<1>1. CASE UNCHANGED bufferVars
  BY <1>1, ZenonT(40) DEF bufferVars, IInv, Holds, Typed, Lives, Pointing, On, Placed, Counted, Kept, Blank, Covered, Held, Same
<1>2. CASE BufferNext
  <2> PICK b \in Buffers :
        \/ Construct(b) \/ Destroy(b) \/ Clear(b) \/ CStr(b)
        \/ \E c \in Buffers : CopyConstruct(b, c) \/ MoveConstruct(b, c) \/ AssignBuffer(b, c) \/ Swap(b, c)
        \/ \E bytes \in {<<>>, <<"x", "y", "z">>} : Assign(b, bytes)
        \/ \E n \in 0..4 : ReserveCall(b, n) \/ Resize(b, n) \/ ResizeFill(b, n, "f")
        \/ \E bytes \in {<<"p">>, <<"q", "q">>} : AppendBytes(b, bytes)
        \/ \E pos \in 0..2 : Replace(b, pos, <<"r">>) \/ \E n \in 1..2 : Erase(b, pos, n)
    BY <1>2 DEF BufferNext
  <2>1. <<>> \in Seq(Byte) /\ <<"x", "y", "z">> \in Seq(Byte) /\ <<"p">> \in Seq(Byte) /\ <<"q", "q">> \in Seq(Byte)
        /\ <<"r">> \in Seq(Byte) /\ "f" \in Byte
    <3>1. "x" \in Byte /\ "y" \in Byte /\ "z" \in Byte /\ "p" \in Byte /\ "q" \in Byte /\ "r" \in Byte /\ "f" \in Byte
      BY DEF Byte
    <3> QED BY <3>1
  <2>2. CASE Construct(b) \/ Destroy(b) \/ Clear(b) \/ CStr(b)
    BY <2>2, ConstructKeeps, DestroyKeeps, ClearKeeps, CStrKeeps
  <2>3. ASSUME NEW c \in Buffers, CopyConstruct(b, c) \/ MoveConstruct(b, c) \/ AssignBuffer(b, c) \/ Swap(b, c)
        PROVE  IInv'
    BY <2>3, CopyConstructKeeps, MoveConstructKeeps, AssignBufferKeeps, SwapKeeps
  <2>4. ASSUME NEW bytes \in {<<>>, <<"x", "y", "z">>}, Assign(b, bytes) PROVE IInv'
    BY <2>1, <2>4, AssignKeeps
  <2>5. ASSUME NEW n \in 0..4, ReserveCall(b, n) \/ Resize(b, n) \/ ResizeFill(b, n, "f") PROVE IInv'
    <3>1. n \in Nat
      OBVIOUS
    <3> QED BY <2>1, <2>5, <3>1, ReserveCallKeeps, ResizeKeeps, ResizeFillKeeps
  <2>6. ASSUME NEW bytes \in {<<"p">>, <<"q", "q">>}, AppendBytes(b, bytes) PROVE IInv'
    BY <2>1, <2>6, AppendKeeps
  <2>7. ASSUME NEW pos \in 0..2, Replace(b, pos, <<"r">>) \/ \E n \in 1..2 : Erase(b, pos, n) PROVE IInv'
    <3>1. pos \in Nat /\ \A n \in 1..2 : n \in Nat
      OBVIOUS
    <3> QED BY <2>1, <2>7, <3>1, ReplaceKeeps, EraseKeeps
  <2> QED BY <2>2, <2>3, <2>4, <2>5, <2>6, <2>7
<1> QED BY <1>1, <1>2

(* What every buffer, sure or not, keeps. *)
THEOREM BufferInvariant == BufferSpec => []IInv
  BY InitHolds, StepKeeps, PTL DEF BufferSpec

(* In bytes taken one by one, as Same has them, or as a piece of the block. *)
LEMMA SameAsPiece ==
  ASSUME NEW q \in Seq(Byte), NEW r \in Seq(Byte), NEW n \in Nat, n <= Len(r), Len(q) = n, \A i \in 1..n : q[i] = r[i]
  PROVE  q = SubSeq(r, 1, n)
<1> DEFINE p == SubSeq(r, 1, n)
<1>1. p \in Seq(Byte) /\ Len(p) = IF 1 <= n THEN n - 1 + 1 ELSE 0
  BY SubSeqFacts
<1>2. \A i \in 1..(n - 1 + 1) : p[i] = r[1 + i - 1]
  BY SubSeqFacts
<1> HIDE DEF p
<1>3. Len(p) = n /\ \A i \in 1..n : p[i] = q[i]
  BY <1>1, <1>2
<1>4. p = q
  BY <1>1, <1>3, SeqEqual
<1> QED BY <1>4 DEF p

(* A block lives while buffers point to it and its count is their number,  *)
(* unless an operator= or growth under others has touched it; a buffer on it *)
(* has room for and holds what its user has put in (buffer.hpp:41-191).    *)
THEOREM BuffersKeepTexts == BufferSpec => []BuffersHold
<1>1. IInv => BuffersHold
  <2> SUFFICES ASSUME IInv PROVE BuffersHold
    OBVIOUS
  <2>1. \A d : Sharing(d) = On(buf, d)
    BY DEF Sharing, On, Alive
  <2>2. ASSUME NEW d \in sound, d \in DOMAIN heap, ~heap[d].freed
        PROVE  heap[d].count = Cardinality(Sharing(d)) /\ Sharing(d) # {}
    BY <2>1, <2>2 DEF IInv, Holds, Counted
  <2>3. ASSUME NEW b \in sure, buf[b].data \in sound
        PROVE  /\ ~heap[buf[b].data].freed
               /\ buf[b].size = Len(text[b]) /\ buf[b].size + Header <= buf[b].block * BlockSize
               /\ text[b] = SubSeq(heap[buf[b].data].bytes, 1, buf[b].size)
    <3> DEFINE d == buf[b].data
               r == heap[d].bytes
    <3>1. b \in Lives(buf) /\ b \in Pointing(buf) /\ buf[b] \in Members /\ text[b] \in Seq(Byte) /\ heap[d] \in Blocks
      BY <2>3, InvFacts DEF Pointing
    <3>2. ~heap[d].freed
      BY <2>3, <3>1 DEF IInv, Holds, Kept
    <3>3. Len(r) + Header = buf[b].block * BlockSize /\ buf[b].size <= Len(r)
      BY <3>1 DEF IInv, Holds, Placed
    <3>4. buf[b].size = Len(text[b]) /\ \A i \in 1..buf[b].size : text[b][i] = r[i]
      BY <2>3 DEF IInv, Holds, Held, Same
    <3>5. r \in Seq(Byte) /\ buf[b].size \in Nat
      BY <3>1 DEF Members, Blocks
    <3> HIDE DEF r
    <3>6. buf[b].size + Header <= buf[b].block * BlockSize
      BY <3>3, <3>5, BytesAreSeq, BufferAssumption
    <3>7. text[b] = SubSeq(r, 1, buf[b].size)
      BY <3>1, <3>3, <3>4, <3>5, SameAsPiece
    <3> QED BY <3>2, <3>4, <3>6, <3>7 DEF r
  <2> QED BY <2>2, <2>3 DEF BuffersHold
<1> QED BY <1>1, BufferInvariant, PTL
=============================================================================
