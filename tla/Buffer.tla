------------------------------- MODULE Buffer -------------------------------
(***************************************************************************)
(* lugce/buffer.hpp: buffers that share blocks of memory.  A block starts  *)
(* with its reference count; Header is the size of the count, the bytes    *)
(* after it are numbered from 1.  Addresses are not used again, so that a  *)
(* buffer that points to a freed block can be told from the others.        *)
(***************************************************************************)
EXTENDS Integers, Sequences, FiniteSets, FiniteSetsExt, SequencesExt

CONSTANTS
  Buffers,    \* the variables of class buffer
  BlockSize,  \* block_size
  Header,     \* sizeof(size_t)
  BufferCalls \* bound: calls on buffers

ASSUME BufferAssumption ==
  Header \in Nat \ {0} /\ BlockSize \in Nat /\ BlockSize > Header

VARIABLES
  buf,     \* the members _data, _size and _block of each buffer; <<>> before and after its life
  heap,    \* the blocks that were allocated: whether freed, the count, the bytes
  sound,   \* the blocks that no operator= and no growth while shared has touched
  text,    \* what a buffer's user has put into it
  sure,    \* the buffers whose bytes no other buffer and no erase has written
  bufCalls
bufferVars == <<buf, heap, sound, text, sure, bufCalls>>

Null == 0
Junk == "junk"
Empty == [data |-> Null, size |-> 0, block |-> 0]

BufferInit ==
  /\ buf = [b \in Buffers |-> <<>>]
  /\ heap = <<>> /\ sound = {}
  /\ text = [b \in Buffers |-> <<>>] /\ sure = {}
  /\ bufCalls = 0

Alive(b) == buf[b] # <<>>
Sharing(d) == {b \in Buffers : Alive(b) /\ buf[b].data = d}
Others(b) == Sharing(buf[b].data) \ {b}
Fill(n, c) == [i \in 1..n |-> c]

-----------------------------------------------------------------------------
(* A buffer and the heap as a call leaves them.                            *)
State(v, hp, snd) == [v |-> v, heap |-> hp, sound |-> snd]
Here(b) == State(buf[b], heap, sound)

Needed(n) == n + Header

(* reserve: the first block has the count 1 and forgets the size; realloc  *)
(* takes count and bytes along and frees the block under whoever shares it.*)
Reserve(b, n) ==
  LET v == buf[b]  size == Needed(n)
      nb == (size \div BlockSize) + (IF size % BlockSize = 0 THEN 0 ELSE 1)
      new == Len(heap) + 1
      room == nb * BlockSize - Header
  IN  IF v.data = Null
      THEN State([data |-> new, size |-> 0, block |-> nb],
                 Append(heap, [freed |-> FALSE, count |-> 1, bytes |-> Fill(room, Junk)]), sound \cup {new})
      ELSE IF size <= v.block * BlockSize THEN Here(b)
      ELSE State([v EXCEPT !.data = new, !.block = nb],
                 Append([heap EXCEPT ![v.data].freed = TRUE],
                        [heap[v.data] EXCEPT !.bytes = @ \o Fill(room - Len(@), Junk)]),
                 IF Others(b) = {} /\ v.data \in sound THEN sound \cup {new} ELSE sound \ {v.data})

(* s, with bytes written from the place at. *)
Write(s, at, bytes) ==
  [s EXCEPT !.heap[s.v.data].bytes =
     [i \in DOMAIN @ |-> IF i >= at /\ i < at + Len(bytes) THEN bytes[i - at + 1] ELSE @[i]]]
Sized(s, n) == [s EXCEPT !.v.size = n]

(* The call leaves s, after bytes were written from at to to; b's user has *)
(* t in it now.                                                            *)
Leaves(b, s, at, to, t) ==
  /\ bufCalls < BufferCalls /\ bufCalls' = bufCalls + 1
  /\ buf' = [buf EXCEPT ![b] = s.v] /\ heap' = s.heap /\ sound' = s.sound
  /\ text' = [text EXCEPT ![b] = t]
  /\ sure' = sure \ {c \in Others(b) : s.v.data = buf[c].data /\ at <= to /\ at <= buf[c].size}
Usable(b) == Alive(b) /\ IF buf[b].data = Null THEN TRUE ELSE ~heap[buf[b].data].freed

(* The bytes 1..n of text, filled up with c. *)
Resized(t, n, c) == IF n <= Len(t) THEN SubSeq(t, 1, n) ELSE t \o Fill(n - Len(t), c)

-----------------------------------------------------------------------------
Construct(b) ==
  /\ ~Alive(b) /\ bufCalls < BufferCalls /\ bufCalls' = bufCalls + 1
  /\ buf' = [buf EXCEPT ![b] = Empty]
  /\ text' = [text EXCEPT ![b] = <<>>] /\ sure' = sure \cup {b}
  /\ UNCHANGED <<heap, sound>>

CopyConstruct(b, c) ==
  /\ ~Alive(b) /\ Usable(c) /\ bufCalls < BufferCalls /\ bufCalls' = bufCalls + 1
  /\ buf' = [buf EXCEPT ![b] = buf[c]]
  /\ heap' = IF buf[c].data = Null THEN heap ELSE [heap EXCEPT ![buf[c].data].count = @ + 1]
  /\ text' = [text EXCEPT ![b] = text[c]]
  /\ sure' = IF c \in sure THEN sure \cup {b} ELSE sure
  /\ UNCHANGED sound

(* The moved-from buffer keeps its size, and no data: empty() is FALSE.    *)
MoveConstruct(b, c) ==
  /\ ~Alive(b) /\ Usable(c) /\ bufCalls < BufferCalls /\ bufCalls' = bufCalls + 1
  /\ buf' = [buf EXCEPT ![b] = buf[c], ![c].data = Null]
  /\ text' = [text EXCEPT ![b] = text[c], ![c] = <<>>]
  /\ sure' = IF c \in sure THEN sure \cup {b} ELSE sure
  /\ UNCHANGED <<heap, sound>>

(* Wrong: the destructor frees the block in any case. *)
Dropped_Always(k) == [k EXCEPT !.count = @ - 1, !.freed = TRUE]
Dropped(k) == [k EXCEPT !.count = @ - 1, !.freed = (k.count = 1)]
Destroy(b) ==
  /\ Usable(b) /\ bufCalls < BufferCalls /\ bufCalls' = bufCalls + 1
  /\ heap' = IF buf[b].data = Null THEN heap ELSE [heap EXCEPT ![buf[b].data] = Dropped(@)]
  /\ buf' = [buf EXCEPT ![b] = <<>>]
  /\ sure' = sure \ {b} /\ text' = [text EXCEPT ![b] = <<>>]
  /\ UNCHANGED sound

(* The class has no operator=, so members are copied and nothing is counted. *)
AssignBuffer(b, c) ==
  /\ b # c /\ Usable(b) /\ Usable(c) /\ bufCalls < BufferCalls /\ bufCalls' = bufCalls + 1
  /\ buf' = [buf EXCEPT ![b] = buf[c]]
  /\ sound' = sound \ {buf[b].data, buf[c].data}
  /\ text' = [text EXCEPT ![b] = text[c]]
  /\ UNCHANGED <<heap, sure>>

Swap(b, c) ==
  /\ b # c /\ Alive(b) /\ Alive(c) /\ bufCalls < BufferCalls /\ bufCalls' = bufCalls + 1
  /\ buf' = [buf EXCEPT ![b] = buf[c], ![c] = buf[b]]
  /\ text' = [text EXCEPT ![b] = text[c], ![c] = text[b]]
  /\ sure' = {a \in Buffers : (IF a = b THEN c ELSE IF a = c THEN b ELSE a) \in sure}
  /\ UNCHANGED <<heap, sound>>

Clear(b) == Usable(b) /\ Leaves(b, Sized(Here(b), 0), 1, 0, <<>>)

(* assign, from memory or a string. *)
Assign(b, bytes) ==
  /\ Usable(b)
  /\ IF bytes = <<>> THEN Leaves(b, Sized(Here(b), 0), 1, 0, <<>>)
     ELSE Leaves(b, Write(Sized(Reserve(b, Len(bytes)), Len(bytes)), 1, bytes), 1, Len(bytes), bytes)

(* c_str writes its 0 behind the end, where another buffer may have bytes. *)
CStr(b) ==
  /\ Usable(b)
  /\ LET s == Reserve(b, buf[b].size + 1)
     IN  Leaves(b, Write(s, s.v.size + 1, <<"0">>), s.v.size + 1, s.v.size + 1, text[b])

(* resize, with and without a filling; without one what is beyond the old  *)
(* end stays as it was, so that the user can be sure of a smaller size only. *)
ResizeFill(b, n, c) ==
  /\ Usable(b)
  /\ LET s == Reserve(b, n)  old == s.v.size
     IN  Leaves(b, Sized(Write(s, old + 1, Fill(n - old, c)), n), old + 1, n, Resized(text[b], n, c))
Resize(b, n) ==
  /\ Usable(b) /\ n <= Len(text[b])
  /\ Leaves(b, Sized(Reserve(b, n), n), 1, 0, SubSeq(text[b], 1, n))
ReserveCall(b, n) == Usable(b) /\ LET s == Reserve(b, n) IN Leaves(b, s, 1, 0, text[b])

(* push_back, append and add. *)
AppendBytes(b, bytes) ==
  /\ Usable(b)
  /\ LET s == Reserve(b, buf[b].size + Len(bytes))  n == s.v.size
     IN  Leaves(b, Sized(Write(s, n + 1, bytes), n + Len(bytes)), n + 1, n + Len(bytes), text[b] \o bytes)

(* replace, at a place up to the end. *)
Replace(b, pos, bytes) ==
  /\ Usable(b) /\ pos <= Len(text[b])
  /\ LET s == Reserve(b, pos + Len(bytes))
         to == pos + Len(bytes)
     IN  Leaves(b, Sized(Write(s, pos + 1, bytes), Max({to, s.v.size})), pos + 1, to,
                SubSeq(text[b], 1, pos) \o bytes \o SubSeq(text[b], to + 1, Len(text[b])))

(* erase: to the end, or, in the middle, with a size that is pos too small *)
(* and from a source that is Header too low (lines 181, 182), where it is  *)
(* right for pos = 0 and a size 0 only.                                    *)
Erase(b, pos, n) ==
  /\ Usable(b) /\ buf[b].data # Null /\ pos < buf[b].size
  /\ IF pos + n >= buf[b].size THEN Leaves(b, Sized(Here(b), pos), 1, 0, SubSeq(text[b], 1, pos))
     ELSE LET size == buf[b].size - (pos + n)
              from == pos + n - Header
              moved == [i \in 1..size |-> IF from + i < 1 THEN Junk ELSE heap[buf[b].data].bytes[from + i]]
          IN  /\ bufCalls < BufferCalls /\ bufCalls' = bufCalls + 1
              /\ buf' = [buf EXCEPT ![b].size = size]
              /\ heap' = Write(Here(b), pos + 1, moved).heap
              /\ sure' = sure \ Sharing(buf[b].data)
              /\ UNCHANGED <<sound, text>>

BufferNext ==
  \E b \in Buffers :
    \/ Construct(b) \/ Destroy(b) \/ Clear(b) \/ CStr(b)
    \/ \E c \in Buffers : CopyConstruct(b, c) \/ MoveConstruct(b, c) \/ AssignBuffer(b, c) \/ Swap(b, c)
    \/ \E bytes \in {<<>>, <<"x", "y", "z">>} : Assign(b, bytes)
    \/ \E n \in 0..4 : ReserveCall(b, n) \/ Resize(b, n) \/ ResizeFill(b, n, "f")
    \/ \E bytes \in {<<"p">>, <<"q", "q">>} : AppendBytes(b, bytes)
    \/ \E pos \in 0..2 : Replace(b, pos, <<"r">>) \/ \E n \in 1..2 : Erase(b, pos, n)

-----------------------------------------------------------------------------
(* A block lives as long as a buffer points to it, and its count says how  *)
(* many do, unless an operator= copied the pointer uncounted or the block  *)
(* grew under others (buffer.hpp:132).  A buffer on such a block holds     *)
(* what its user has put into it and has room for it, though copies of it  *)
(* write to the same block, as long as they write behind its end and no    *)
(* erase has cut out its middle (lines 181-182).                           *)
BuffersHold ==
  /\ \A d \in sound : d \in DOMAIN heap /\ ~heap[d].freed =>
       heap[d].count = Cardinality(Sharing(d)) /\ Sharing(d) # {}
  /\ \A b \in sure : buf[b].data \in sound =>
       /\ ~heap[buf[b].data].freed
       /\ buf[b].size = Len(text[b]) /\ buf[b].size + Header <= buf[b].block * BlockSize
       /\ text[b] = SubSeq(heap[buf[b].data].bytes, 1, buf[b].size)
=============================================================================
