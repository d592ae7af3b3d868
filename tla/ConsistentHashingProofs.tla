----------------------- MODULE ConsistentHashingProofs -----------------------
(***************************************************************************)
(* For any number of threads, handles, keys and points of the ring: the    *)
(* entries of the map and the keys of the handles agree, and the container *)
(* is a hash ring whose members join and leave at one instant.             *)
(***************************************************************************)
EXTENDS ConsistentHashing, FiniteSetTheorems, WellFoundedInduction, TLAPS

-----------------------------------------------------------------------------
(* What the threads inside set(), remove() and get() have in hand, and who *)
(* holds the lock.                                                         *)
Setting  == {"setlock", "first", "more"}
Removing == {"removelock", "erase"}
Asking   == {"empty", "getlock", "find"}

Locking ==
  /\ writer # None => readers = {}
  /\ \A t \in Thread :
       /\ pc[t] \in {"first", "more", "erase"} => writer = t
       /\ writer = t => pc[t] \in {"first", "more", "removelock", "erase"}
       /\ pc[t] = "find" => t \in readers

InHand ==
  \A t \in Thread :
    /\ pc[t] \in Setting => /\ reg[t].key \in Key
                            /\ reg[t].value \in Value
                            /\ reg[t].cnt \in 1 .. Len(points[reg[t].key])
    /\ pc[t] = "more" => reg[t].i >= 2
    /\ pc[t] = "erase" => reg[t].i >= 1
    /\ pc[t] \in Setting \cup Removing => reg[t].h \in Handle
    /\ pc[t] \in Asking => reg[t].point \in Point
    /\ pc[t] \in {"idle"} \cup Setting \cup Removing => reg[t].point = None

(* A set() that has come to its undo waits for itself.                     *)
Undo(t) == pc[t] = "removelock" /\ writer = t

(* A set() has its handle for itself until it returns it; only then can it *)
(* be removed.                                                             *)
OwnHandle ==
  \A t \in Thread : (pc[t] \in Setting \/ Undo(t)) =>
    /\ reg[t].h \notin granted
    /\ \A u \in Thread : u # t => reg[u].h # reg[t].h

(* A handle without keys is one whose set() has not inserted a point yet,  *)
(* or whose remove() is over.                                              *)
KeysInUse ==
  /\ \A t \in Thread :
       /\ pc[t] \in Removing => reg[t].h \in granted \/ Undo(t)
       /\ pc[t] \in {"setlock", "first"} => keys[reg[t].h] = <<>>
       /\ pc[t] = "more" => keys[reg[t].h] # <<>>
  /\ \A h \in Handle : keys[h] # <<>> =>
       h \in granted \/ \E t \in Thread : (pc[t] = "more" \/ Undo(t)) /\ reg[t].h = h

(* The points of h that a remove() has already erased.                     *)
Erased(h, i) == \E t \in Thread : pc[t] = "erase" /\ reg[t].h = h /\ i < reg[t].i

Indices(h) == 1 .. Len(keys[h])

(* Keys and entries are the same: every key of a handle that has not been  *)
(* erased is an entry, every entry is such a key, no point is a key twice. *)
KeysAreEntries ==
  \A h \in Handle : \A i \in Indices(h) : ~Erased(h, i) => value_map[keys[h][i]] # None

EntriesAreKeys ==
  \A p \in Point : value_map[p] # None =>
    \E h \in Handle : \E i \in Indices(h) : keys[h][i] = p /\ ~Erased(h, i)

KeysAreDistinct ==
  \A h, g \in Handle : \A i \in Indices(h), j \in Indices(g) :
    keys[h][i] = keys[g][j] => h = g /\ i = j

(* All points of a member have its value.                                  *)
OneValue ==
  /\ \A h \in Handle : \A i, j \in Indices(h) :
       ~Leaving(h) => value_map[keys[h][i]] = value_map[keys[h][j]]
  /\ \A t \in Thread : pc[t] = "more" =>
       \A i \in Indices(reg[t].h) : value_map[keys[reg[t].h][i]] = reg[t].value

Threads == Locking /\ InHand /\ OwnHandle /\ KeysInUse
Agree   == KeysAreEntries /\ EntriesAreKeys /\ KeysAreDistinct /\ OneValue
IInv    == TypeOK /\ Threads /\ Agree

-----------------------------------------------------------------------------
(* A key has at least one point, and its points are on the ring. *)
LEMMA PointsOfKeys ==
  ASSUME NEW k \in Key
  PROVE  /\ points[k] \in Seq(Point)
         /\ Len(points[k]) \in Nat
         /\ Len(points[k]) >= 1
         /\ \A i \in 1 .. Len(points[k]) : points[k][i] \in Point
<1>1. points[k] \in Seq(Point) /\ points[k] # <<>>
  BY RingAssumption
<1>2. QED
  BY <1>1

(* None is none of the things it stands in for. *)
LEMMA NoneIsApart ==
  /\ None \notin Point /\ None \notin Value /\ None \notin Handle /\ None \notin Thread
  /\ None # NoValue
BY RingAssumption

(* A set of points that is not empty has a least one, which lower_bound    *)
(* finds.                                                                  *)
LEMMA LeastPoint ==
  ASSUME NEW S \in SUBSET Point, S # {}
  PROVE  \E q \in S : \A r \in S : q <= r
<1>1. PICK q \in S : \A r \in S : ~ (<<r, q>> \in OpToRel(<, Nat))
  <2>1. S \subseteq Nat
    BY RingAssumption DEF Point
  <2>2. QED
    BY <2>1, NatLessThanWellFounded, WFMin
<1>2. ASSUME NEW r \in S
      PROVE  q <= r
  <2>1. q \in Nat /\ r \in Nat
    BY RingAssumption DEF Point
  <2>2. ~(r < q)
    BY <1>1, <2>1 DEF OpToRel
  <2>3. QED
    BY <2>1, <2>2
<1>3. QED
  BY <1>2

(* In a map with entries, get() finds one of them. *)
LEMMA LowerBoundIsEntry ==
  ASSUME Entries # {}, NEW p \in Point
  PROVE  LowerBound(p) \in Entries
<1> DEFINE after == {q \in Entries : q >= p}
           from  == IF after = {} THEN Entries ELSE after
<1>1. from \in SUBSET Point /\ from # {} /\ from \subseteq Entries
  BY DEF Entries
<1>2. \E q \in from : \A r \in from : q <= r
  BY <1>1, LeastPoint
<1>3. (CHOOSE q \in from : \A r \in from : q <= r) \in from
  BY <1>2
<1>4. QED
  BY <1>1, <1>3 DEF LowerBound

(* The invariant holds of the empty container. *)
LEMMA Initially == Init => IInv
<1> SUFFICES ASSUME Init PROVE IInv
  OBVIOUS
<1> USE DEF Init
<1>1. TypeOK
  BY NoneIsApart DEF TypeOK, Labels, Fresh
<1>2. Threads
  BY NoneIsApart DEF Threads, Locking, InHand, OwnHandle, KeysInUse, Undo, Setting, Removing, Asking, Fresh
<1>3. Agree
  <2>1. \A h \in Handle : keys[h] = <<>> /\ Len(keys[h]) = 0 /\ Indices(h) = {}
    BY DEF Indices
  <2>2. \A p \in Point : value_map[p] = None
    OBVIOUS
  <2>3. \A t \in Thread : pc[t] = "idle"
    OBVIOUS
  <2>4. KeysAreEntries /\ KeysAreDistinct
    BY <2>1 DEF KeysAreEntries, KeysAreDistinct
  <2>5. EntriesAreKeys
    BY <2>2 DEF EntriesAreKeys
  <2>6. OneValue
    BY <2>1, <2>3 DEF OneValue
  <2>7. QED
    BY <2>4, <2>5, <2>6 DEF Agree
<1>4. QED
  BY <1>1, <1>2, <1>3 DEF IInv

-----------------------------------------------------------------------------
(* The local variables of a thread, and the assignments to them.           *)
Registers == [key : Key \cup {None}, value : Value \cup {None}, cnt : Nat,
              h : Handle \cup {None}, i : Nat, point : Point \cup {None}]

(* An assignment to a local variable keeps the others. *)
LEMMA RegisterTypes ==
  /\ Fresh \in Registers
  /\ \A r \in Registers :
       /\ r.i \in Nat /\ r.cnt \in Nat
       /\ r.h \in Handle \cup {None} /\ r.point \in Point \cup {None}
       /\ \A n \in Nat : [r EXCEPT !.i = n] \in Registers
       /\ \A h \in Handle : [r EXCEPT !.h = h] \in Registers
       /\ \A p \in Point : [r EXCEPT !.point = p] \in Registers
BY DEF Registers, Fresh

Action(t) ==
  \/ \E k \in Key, v \in Value, h \in Handle : \E n \in 1 .. Len(points[k]) : SetBegin(t, k, v, n, h)
  \/ \E h \in Handle : RemoveBegin(t, h)
  \/ \E p \in Point : GetBegin(t, p)
  \/ Step(t)

(* Every step keeps the variables of their kinds. *)
LEMMA TypeStep ==
  ASSUME TypeOK, InHand, NEW t \in Thread, Action(t)
  PROVE  TypeOK'
<1>0. /\ value_map \in [Point -> Value \cup {None}]
      /\ keys \in [Handle -> Seq(Point)]
      /\ granted \subseteq Handle
      /\ writer \in Thread \cup {None}
      /\ readers \subseteq Thread
      /\ pc \in [Thread -> Labels]
      /\ reg \in [Thread -> Registers]
      /\ out \in [Thread -> Value \cup {NoValue, None}]
  BY DEF TypeOK, Registers
<1>i. reg[t] \in Registers /\ reg[t].i \in Nat /\ reg[t].i + 1 \in Nat
  BY <1>0, RegisterTypes
<1> SUFFICES /\ value_map' \in [Point -> Value \cup {None}]
             /\ keys' \in [Handle -> Seq(Point)]
             /\ granted' \subseteq Handle
             /\ writer' \in Thread \cup {None}
             /\ readers' \subseteq Thread
             /\ pc' \in [Thread -> Labels]
             /\ reg' \in [Thread -> Registers]
             /\ out' \in [Thread -> Value \cup {NoValue, None}]
  BY DEF TypeOK, Registers
<1>1. ASSUME NEW k \in Key, NEW v \in Value, NEW h \in Handle, NEW n \in 1 .. Len(points[k]), SetBegin(t, k, v, n, h)
      PROVE  reg' \in [Thread -> Registers]
  <2>1. n \in Nat
    BY <1>1, PointsOfKeys
  <2>2. QED
    BY <1>0, <1>1, <2>1, ZenonT(40) DEF SetBegin, Registers
<1>2. ASSUME NEW h \in Handle, RemoveBegin(t, h)
      PROVE  reg' \in [Thread -> Registers]
  <2>1. [reg[t] EXCEPT !.h = h] \in Registers
    BY <1>i, RegisterTypes
  <2>2. QED
    BY <1>0, <1>2, <2>1 DEF RemoveBegin
<1>3. ASSUME NEW p \in Point, GetBegin(t, p)
      PROVE  reg' \in [Thread -> Registers]
  <2>1. [reg[t] EXCEPT !.point = p] \in Registers
    BY <1>i, RegisterTypes
  <2>2. QED
    BY <1>0, <1>3, <2>1 DEF GetBegin
<1>4. CASE SetLock(t)
  BY <1>0, <1>4 DEF SetLock, Goto, Labels
<1>5. CASE SetFirst(t)
  <2> DEFINE r == reg[t]  p == points[r.key][1]
  <2>1. r.key \in Key /\ r.value \in Value /\ r.h \in Handle
    BY <1>5 DEF SetFirst, InHand, Setting
  <2>2. p \in Point
    BY <2>1, PointsOfKeys
  <2>3. value_map' \in [Point -> Value \cup {None}]
    BY <1>0, <1>5, <2>1 DEF SetFirst, SetOne
  <2>4. pc' \in [Thread -> Labels]
    BY <1>0, <1>5 DEF SetFirst, Goto, Labels
  <2>5. CASE value_map[p] = None
    <3>1. [reg[t] EXCEPT !.i = 2] \in Registers
      BY <1>i, RegisterTypes
    <3>2. reg' \in [Thread -> Registers]
      BY <1>0, <1>5, <2>5, <3>1 DEF SetFirst
    <3>3. keys' \in [Handle -> Seq(Point)]
      <4>1. Append(keys[r.h], p) \in Seq(Point)
        BY <1>0, <2>1, <2>2
      <4>2. keys' = [keys EXCEPT ![r.h] = Append(@, p)]
        BY <1>5, <2>5 DEF SetFirst
      <4>3. QED
        BY <1>0, <4>1, <4>2
    <3>4. QED
      BY <1>0, <1>5, <2>3, <2>4, <2>5, <3>2, <3>3 DEF SetFirst
  <2>6. CASE value_map[p] # None
    <3>1. reg' = [reg EXCEPT ![t] = Fresh] /\ granted' = granted \cup {r.h} /\ writer' = None
          /\ UNCHANGED <<keys, readers, out>>
      BY <1>5, <2>6 DEF SetFirst, SetReturn
    <3>2. QED
      BY <1>0, <2>1, <2>3, <2>4, <3>1, RegisterTypes
  <2>7. QED
    BY <2>5, <2>6
<1>6. CASE SetNext(t)
  <2> DEFINE r == reg[t]  p == points[r.key][r.i]
  <2>1. /\ r.key \in Key /\ r.value \in Value /\ r.h \in Handle
        /\ r.cnt \in 1 .. Len(points[r.key]) /\ r.i >= 2
    BY <1>6 DEF SetNext, InHand, Setting
  <2>2. CASE r.i > r.cnt
    <3>1. reg' = [reg EXCEPT ![t] = Fresh] /\ granted' = granted \cup {r.h} /\ writer' = None
          /\ UNCHANGED <<keys, readers, out, value_map>>
      BY <1>6, <1>i, <2>1, <2>2, PointsOfKeys DEF SetNext, SetReturn
    <3>2. pc' \in [Thread -> Labels]
      BY <1>0, <1>6 DEF SetNext, Goto, Labels
    <3>3. QED
      BY <1>0, <2>1, <3>1, <3>2, RegisterTypes
  <2>3. CASE r.i <= r.cnt /\ value_map[p] = None
    <3>1. p \in Point
      BY <1>i, <2>1, <2>3, PointsOfKeys, SMTT(30)
    <3>2. /\ value_map' = [value_map EXCEPT ![p] = IF @ = None THEN r.value ELSE @]
          /\ keys' = [keys EXCEPT ![r.h] = Append(@, p)]
          /\ reg' = [reg EXCEPT ![t] = [reg[t] EXCEPT !.i = @ + 1]]
          /\ UNCHANGED <<granted, writer, pc, readers, out>>
      BY <1>6, <1>i, <2>1, <2>3, PointsOfKeys DEF SetNext, SetOne
    <3>3. Append(keys[r.h], p) \in Seq(Point)
      BY <1>0, <2>1, <3>1
    <3>4. [reg[t] EXCEPT !.i = @ + 1] \in Registers
      BY <1>i, RegisterTypes
    <3>5. QED
      BY <1>0, <2>1, <3>2, <3>3, <3>4
  <2>4. CASE r.i <= r.cnt /\ value_map[p] # None
    <3>1. UNCHANGED <<value_map, keys, granted, writer, reg, readers, out>>
      BY <1>6, <1>i, <2>1, <2>4, PointsOfKeys DEF SetNext
    <3>2. pc' \in [Thread -> Labels]
      BY <1>0, <1>6 DEF SetNext, Goto, Labels
    <3>3. QED
      BY <1>0, <3>1, <3>2
  <2>5. QED
    BY <1>i, <2>1, <2>2, <2>3, <2>4, PointsOfKeys
<1>7. CASE RemoveLock(t)
  <2>1. [reg[t] EXCEPT !.i = 1] \in Registers
    BY <1>i, RegisterTypes
  <2>2. QED
    BY <1>0, <1>7, <2>1 DEF RemoveLock, Goto, Labels
<1>8. CASE RemoveErase(t)
  <2>0. reg[t].h \in Handle /\ Len(keys[reg[t].h]) \in Nat
    BY <1>0, <1>8 DEF RemoveErase, InHand, Removing
  <2>1. [reg[t] EXCEPT !.i = @ + 1] \in Registers
    BY <1>i, RegisterTypes
  <2>2. reg' \in [Thread -> Registers]
    BY <1>0, <1>8, <2>1, RegisterTypes DEF RemoveErase
  <2>3. pc' \in [Thread -> Labels]
    BY <1>0, <1>8 DEF RemoveErase, Goto, Labels
  <2>4. keys' \in [Handle -> Seq(Point)] /\ value_map' \in [Point -> Value \cup {None}]
    <3>1. CASE reg[t].i <= Len(keys[reg[t].h])
      <4>1. keys' = keys /\ value_map' = [value_map EXCEPT ![keys[reg[t].h][reg[t].i]] = None]
        BY <1>8, <1>i, <3>1, <2>0 DEF RemoveErase
      <4>2. QED
        BY <1>0, <4>1
    <3>2. CASE reg[t].i > Len(keys[reg[t].h])
      <4>1. keys' = [keys EXCEPT ![reg[t].h] = <<>>] /\ value_map' = value_map
        BY <1>8, <1>i, <3>2, <2>0 DEF RemoveErase
      <4>2. <<>> \in Seq(Point)
        OBVIOUS
      <4>3. QED
        BY <1>0, <4>1, <4>2
    <3>3. QED
      BY <1>8, <3>1, <3>2 DEF RemoveErase
  <2>5. QED
    BY <1>0, <1>8, <2>2, <2>3, <2>4 DEF RemoveErase
<1>9. CASE GetEmpty(t)
  <2>1. reg' \in [Thread -> Registers] /\ pc' \in [Thread -> Labels]
    BY <1>0, <1>9, RegisterTypes DEF GetEmpty, Goto, Labels
  <2>2. out' \in [Thread -> Value \cup {NoValue, None}]
    BY <1>0, <1>9 DEF GetEmpty
  <2>3. QED
    BY <1>0, <1>9, <2>1, <2>2 DEF GetEmpty
<1>10. CASE GetLock(t)
  BY <1>0, <1>10 DEF GetLock, Goto, Labels
<1>11. CASE GetFind(t)
  <2>1. reg' \in [Thread -> Registers] /\ pc' \in [Thread -> Labels]
    BY <1>0, <1>11, RegisterTypes, ZenonT(40) DEF GetFind, Goto, Labels
  <2>2. out' \in [Thread -> Value \cup {NoValue, None}]
    <3>1. reg[t].point \in Point
      BY <1>11 DEF GetFind, Goto, InHand, Asking
    <3>2. CASE Entries # {}
      <4>1. LowerBound(reg[t].point) \in Point
        BY <3>1, <3>2, LowerBoundIsEntry DEF Entries
      <4>2. QED
        BY <1>0, <1>11, <3>2, <4>1 DEF GetFind
    <3>3. CASE Entries = {}
      BY <1>0, <1>11, <3>3 DEF GetFind
    <3>4. QED
      BY <3>2, <3>3
  <2>3. QED
    BY <1>0, <1>11, <2>1, <2>2 DEF GetFind
<1>12. ASSUME \/ \E k \in Key, v \in Value, h \in Handle : \E n \in 1 .. Len(points[k]) : SetBegin(t, k, v, n, h)
              \/ \E h \in Handle : RemoveBegin(t, h)
              \/ \E p \in Point : GetBegin(t, p)
       PROVE  /\ UNCHANGED <<value_map, keys, granted, writer, readers>>
              /\ pc' \in [Thread -> Labels] /\ out' \in [Thread -> Value \cup {NoValue, None}]
  BY <1>0, <1>12 DEF SetBegin, RemoveBegin, GetBegin, Goto, Labels
<1>13. CASE Step(t)
  BY <1>4, <1>5, <1>6, <1>7, <1>8, <1>9, <1>10, <1>11, <1>13 DEF Step
<1>14. QED
  BY <1>0, <1>1, <1>2, <1>3, <1>12, <1>13 DEF Action

-----------------------------------------------------------------------------
(* The ways a set() goes on under the lock, and those of a remove().       *)
Returns(t) ==
  /\ pc' = [pc EXCEPT ![t] = "idle"]
  /\ granted' = granted \cup {reg[t].h}
  /\ writer' = None
  /\ reg' = [reg EXCEPT ![t] = Fresh]
  /\ UNCHANGED <<value_map, keys, readers, out>>

Inserts(t, p) ==
  /\ value_map[p] = None
  /\ value_map' = [value_map EXCEPT ![p] = reg[t].value]
  /\ keys' = [keys EXCEPT ![reg[t].h] = Append(@, p)]
  /\ pc' = [pc EXCEPT ![t] = "more"]
  /\ \E n \in Nat : n >= 2 /\ reg' = [reg EXCEPT ![t] = [reg[t] EXCEPT !.i = n]]
  /\ UNCHANGED <<granted, writer, readers, out>>

Undoes(t) ==
  /\ pc[t] = "more"
  /\ pc' = [pc EXCEPT ![t] = "removelock"]
  /\ UNCHANGED <<value_map, keys, granted, writer, reg, readers, out>>

ErasesOne(t) ==
  /\ reg[t].i \in Indices(reg[t].h)
  /\ value_map' = [value_map EXCEPT ![keys[reg[t].h][reg[t].i]] = None]
  /\ reg' = [reg EXCEPT ![t] = [reg[t] EXCEPT !.i = reg[t].i + 1]]
  /\ UNCHANGED <<keys, granted, writer, pc, readers, out>>

ErasesNoMore(t) ==
  /\ reg[t].i > Len(keys[reg[t].h])
  /\ pc' = [pc EXCEPT ![t] = "idle"]
  /\ keys' = [keys EXCEPT ![reg[t].h] = <<>>]
  /\ writer' = None
  /\ reg' = [reg EXCEPT ![t] = Fresh]
  /\ UNCHANGED <<value_map, granted, readers, out>>

(* set_one inserts, or leaves the entry that is there. *)
LEMMA SetOneInserts ==
  ASSUME TypeOK, NEW p \in Point, NEW v, SetOne(p, v)
  PROVE  /\ value_map[p] = None => value_map' = [value_map EXCEPT ![p] = v]
         /\ value_map[p] # None => value_map' = value_map
<1>1. value_map' = [value_map EXCEPT ![p] = IF value_map[p] = None THEN v ELSE value_map[p]]
  BY DEF SetOne
<1>2. CASE value_map[p] = None
  BY <1>1, <1>2
<1>3. CASE value_map[p] # None
  <2>1. value_map' = [value_map EXCEPT ![p] = value_map[p]]
    BY <1>1, <1>3
  <2>2. QED
    BY <1>3, <2>1 DEF TypeOK
<1>4. QED
  BY <1>2, <1>3

(* Under the lock a set() returns, inserts a free point, or undoes. *)
LEMMA SetSteps ==
  ASSUME TypeOK, Threads, NEW t \in Thread, SetFirst(t) \/ SetNext(t)
  PROVE  /\ writer = t /\ pc[t] \in {"first", "more"}
         /\ reg[t].value \in Value /\ reg[t].h \in Handle
         /\ Returns(t) \/ (\E p \in Point : Inserts(t, p)) \/ Undoes(t)
<1> DEFINE r == reg[t]
<1>0. /\ value_map \in [Point -> Value \cup {None}]
      /\ pc \in [Thread -> Labels] /\ reg \in [Thread -> Registers]
  BY DEF TypeOK, Registers
<1>1. pc[t] \in {"first", "more"}
  BY DEF SetFirst, SetNext, Goto
<1>2. /\ writer = t /\ r.key \in Key /\ r.value \in Value /\ r.h \in Handle
      /\ r.cnt \in 1 .. Len(points[r.key]) /\ r.i \in Nat
  BY <1>0, <1>1, RegisterTypes DEF Threads, Locking, InHand, Setting
<1>3. Len(points[r.key]) \in Nat /\ Len(points[r.key]) >= 1 /\ r.cnt \in Nat
      /\ \A i \in 1 .. Len(points[r.key]) : points[r.key][i] \in Point
  BY <1>2, PointsOfKeys
<1>4. CASE SetFirst(t)
  <2> DEFINE p == points[r.key][1]
  <2>1. p \in Point
    BY <1>3
  <2>2. CASE value_map[p] = None
    <3>0. value_map' = [value_map EXCEPT ![p] = r.value]
      BY <1>4, <2>1, <2>2, SetOneInserts DEF SetFirst
    <3>1. /\ keys' = [keys EXCEPT ![r.h] = Append(@, p)]
          /\ pc' = [pc EXCEPT ![t] = "more"]
          /\ reg' = [reg EXCEPT ![t] = [reg[t] EXCEPT !.i = 2]]
          /\ UNCHANGED <<granted, writer, readers, out>>
      BY <1>4, <2>2 DEF SetFirst, Goto
    <3>3. 2 \in Nat /\ 2 >= 2
      OBVIOUS
    <3>4. Inserts(t, p)
      BY <2>2, <3>0, <3>1, <3>3 DEF Inserts
    <3>2. QED
      BY <1>1, <1>2, <2>1, <3>4
  <2>3. CASE value_map[p] # None
    <3>1. value_map' = value_map
      BY <1>4, <2>1, <2>3, SetOneInserts DEF SetFirst
    <3>2. Returns(t)
      BY <1>4, <2>3, <3>1 DEF SetFirst, SetReturn, Goto, Returns
    <3>3. QED
      BY <1>1, <1>2, <3>2
  <2>4. QED
    BY <2>2, <2>3
<1>5. CASE SetNext(t)
  <2> DEFINE p == points[r.key][r.i]
  <2>0. pc[t] = "more" /\ r.i >= 2
    BY <1>5, SMTT(30) DEF SetNext, Threads, InHand
  <2>1. CASE r.i > r.cnt
    <3>1. Returns(t)
      BY <1>2, <1>3, <1>5, <2>1 DEF SetNext, SetReturn, Goto, Returns
    <3>2. QED
      BY <1>1, <1>2, <3>1
  <2>2. CASE r.i <= r.cnt /\ value_map[p] = None
    <3>1. p \in Point
      BY <1>2, <1>3, <2>0, <2>2
    <3>2. value_map' = [value_map EXCEPT ![p] = r.value]
      <4>1. SetOne(p, r.value)
        BY <1>2, <1>3, <1>5, <2>2 DEF SetNext
      <4>2. QED
        BY <2>2, <3>1, <4>1, SetOneInserts
    <3>3. pc' = [pc EXCEPT ![t] = "more"]
      BY <1>0, <1>2, <1>3, <1>5, <2>0, <2>2 DEF SetNext
    <3>4. reg' = [reg EXCEPT ![t] = [reg[t] EXCEPT !.i = r.i + 1]]
      BY <1>2, <1>3, <1>5, <2>2, SMTT(30) DEF SetNext
    <3>5. keys' = [keys EXCEPT ![reg[t].h] = Append(@, p)] /\ UNCHANGED <<granted, writer, readers, out>>
      BY <1>2, <1>3, <1>5, <2>2 DEF SetNext
    <3>6. r.i + 1 \in Nat /\ r.i + 1 >= 2
      BY <1>2, <2>0
    <3>7. Inserts(t, p)
      BY <2>2, <3>2, <3>3, <3>4, <3>5, <3>6 DEF Inserts
    <3>8. QED
      BY <1>1, <1>2, <3>1, <3>7
  <2>3. CASE r.i <= r.cnt /\ value_map[p] # None
    <3>1. Undoes(t)
      BY <1>2, <1>3, <1>5, <2>3 DEF SetNext, Goto, Undoes
    <3>2. QED
      BY <1>1, <1>2, <3>1
  <2>4. QED
    BY <1>2, <1>3, <2>1, <2>2, <2>3, SMTT(30)
<1>6. QED
  BY <1>4, <1>5

(* Under the lock a remove() erases a point, or clears the keys. *)
LEMMA EraseSteps ==
  ASSUME TypeOK, Threads, NEW t \in Thread, RemoveErase(t)
  PROVE  /\ writer = t /\ pc[t] = "erase" /\ reg[t].h \in Handle
         /\ reg[t].i \in Nat /\ reg[t].i >= 1 /\ Len(keys[reg[t].h]) \in Nat
         /\ ErasesOne(t) \/ ErasesNoMore(t)
<1>0. keys \in [Handle -> Seq(Point)] /\ reg \in [Thread -> Registers]
  BY DEF TypeOK, Registers
<1>1. pc[t] = "erase"
  BY DEF RemoveErase
<1>2. writer = t /\ reg[t].h \in Handle /\ reg[t].i >= 1 /\ reg[t].i \in Nat
  BY <1>0, <1>1, RegisterTypes DEF Threads, Locking, InHand, Removing
<1>3. Len(keys[reg[t].h]) \in Nat
  BY <1>0, <1>2
<1>4. CASE reg[t].i <= Len(keys[reg[t].h])
  <2>1. ErasesOne(t)
    BY <1>2, <1>3, <1>4 DEF RemoveErase, ErasesOne, Indices
  <2>2. QED
    BY <1>1, <1>2, <1>3, <2>1
<1>5. CASE reg[t].i > Len(keys[reg[t].h])
  <2>1. ErasesNoMore(t)
    BY <1>2, <1>3, <1>5 DEF RemoveErase, Goto, ErasesNoMore
  <2>2. QED
    BY <1>1, <1>2, <1>3, <2>1
<1>6. QED
  BY <1>2, <1>3, <1>4, <1>5

-----------------------------------------------------------------------------
(* Every step keeps what the threads have in hand.                         *)
LEMMA ThreadsStep ==
  ASSUME TypeOK, Threads, NEW t \in Thread, Action(t)
  PROVE  Threads'
<1>0. /\ pc \in [Thread -> Labels] /\ reg \in [Thread -> Registers]
      /\ keys \in [Handle -> Seq(Point)] /\ granted \subseteq Handle
      /\ writer \in Thread \cup {None} /\ readers \subseteq Thread
      /\ None \notin Thread /\ None \notin Handle /\ None \notin Point
  BY NoneIsApart DEF TypeOK, Registers
<1> USE DEF Setting, Removing, Asking
<1>1. ASSUME NEW k \in Key, NEW v \in Value, NEW h \in Handle, NEW n \in 1 .. Len(points[k]), SetBegin(t, k, v, n, h)
      PROVE  Threads'
  <2>1. /\ pc[t] = "idle" /\ pc' = [pc EXCEPT ![t] = "setlock"]
        /\ h \notin granted /\ \A u \in Thread : reg[u].h # h
        /\ reg' = [reg EXCEPT ![t] = [reg[t] EXCEPT !.key = k, !.value = v, !.cnt = n, !.h = h]]
        /\ UNCHANGED <<value_map, keys, granted, writer, readers>>
    BY <1>1 DEF SetBegin, Goto
  <2>2. /\ \A u \in Thread : u # t => pc'[u] = pc[u] /\ reg'[u] = reg[u]
        /\ pc'[t] = "setlock"
        /\ reg'[t].h = h
    BY <1>0, <2>1
  <2>5. Locking'
    BY <1>0, <2>1 DEF Threads, Locking
  <2>6. InHand'
    BY <1>0, <2>1 DEF Threads, Locking, InHand
  <2>7. OwnHandle'
    BY <1>0, <2>1, <2>2 DEF Threads, Locking, InHand, OwnHandle, KeysInUse, Undo
  <2>3. keys[h] = <<>>
    BY <2>1 DEF Threads, KeysInUse
  <2>8. KeysInUse'
    <3>1. \A u \in Thread : Undo(u)' = Undo(u)
      BY <2>1, <2>2 DEF Undo
    <3>2. \A g \in Handle : keys[g] # <<>> =>
            g \in granted \/ \E u \in Thread : u # t /\ (pc[u] = "more" \/ Undo(u)) /\ reg[u].h = g
      BY <2>1 DEF Threads, KeysInUse, Undo
    <3>3. keys' = keys /\ granted' = granted
      BY <2>1
    <3>4. \A g \in Handle : keys'[g] # <<>> =>
            g \in granted' \/ \E u \in Thread : (pc'[u] = "more" \/ Undo(u)') /\ reg'[u].h = g
      BY <2>2, <3>1, <3>2, <3>3
    <3>5. \A u \in Thread :
            /\ pc'[u] \in Removing => reg'[u].h \in granted' \/ Undo(u)'
            /\ pc'[u] \in {"setlock", "first"} => keys'[reg'[u].h] = <<>>
            /\ pc'[u] = "more" => keys'[reg'[u].h] # <<>>
      BY <2>2, <2>3, <3>1, <3>3 DEF Threads, KeysInUse
    <3>6. QED
      BY <3>4, <3>5 DEF KeysInUse
  <2>9. QED
    BY <2>5, <2>6, <2>7, <2>8 DEF Threads
<1>2. ASSUME NEW h \in Handle, RemoveBegin(t, h)
      PROVE  Threads'
  <2>1. /\ pc[t] = "idle" /\ pc' = [pc EXCEPT ![t] = "removelock"]
        /\ h \in granted
        /\ reg' = [reg EXCEPT ![t] = [reg[t] EXCEPT !.h = h]]
        /\ UNCHANGED <<value_map, keys, granted, writer, readers>>
    BY <1>2 DEF RemoveBegin, Goto
  <2>2. /\ \A u \in Thread : u # t => pc'[u] = pc[u] /\ reg'[u] = reg[u]
        /\ pc'[t] = "removelock"
        /\ reg'[t].h = h
    BY <1>0, <2>1
  <2>5. Locking'
    BY <1>0, <2>1 DEF Threads, Locking
  <2>6. InHand'
    BY <1>0, <2>1 DEF Threads, Locking, InHand
  <2>7. OwnHandle'
    <3>1. \A u \in Thread : (pc'[u] \in Setting \/ Undo(u)') => u # t /\ (pc[u] \in Setting \/ Undo(u))
      BY <1>0, <2>1, <2>2 DEF Threads, Locking, Undo
    <3>2. \A u \in Thread : u # t => reg'[u].h = reg[u].h
      BY <2>2
    <3>3. \A u \in Thread : (pc[u] \in Setting \/ Undo(u)) => reg[u].h # h
      BY <2>1 DEF Threads, OwnHandle
    <3>4. granted' = granted /\ reg'[t].h = h
      BY <2>1, <2>2
    <3>5. QED
      BY <3>1, <3>2, <3>3, <3>4 DEF Threads, OwnHandle
  <2>8. KeysInUse'
    BY <1>0, <2>1, <2>2 DEF Threads, Locking, InHand, OwnHandle, KeysInUse, Undo
  <2>9. QED
    BY <2>5, <2>6, <2>7, <2>8 DEF Threads
<1>3. ASSUME NEW p \in Point, GetBegin(t, p)
      PROVE  Threads'
  <2>1. /\ pc[t] = "idle" /\ pc' = [pc EXCEPT ![t] = "empty"]
        /\ reg' = [reg EXCEPT ![t] = [reg[t] EXCEPT !.point = p]]
        /\ UNCHANGED <<value_map, keys, granted, writer, readers>>
    BY <1>3 DEF GetBegin, Goto
  <2>2. /\ \A u \in Thread : u # t => pc'[u] = pc[u] /\ reg'[u] = reg[u]
        /\ pc'[t] = "empty"
        /\ reg'[t].h = reg[t].h
    BY <1>0, <2>1
  <2>5. Locking'
    BY <1>0, <2>1 DEF Threads, Locking
  <2>6. InHand'
    BY <1>0, <2>1 DEF Threads, Locking, InHand
  <2>7. OwnHandle'
    BY <1>0, <2>1, <2>2 DEF Threads, Locking, InHand, OwnHandle, KeysInUse, Undo
  <2>8. KeysInUse'
    BY <1>0, <2>1, <2>2 DEF Threads, Locking, InHand, OwnHandle, KeysInUse, Undo
  <2>9. QED
    BY <2>5, <2>6, <2>7, <2>8 DEF Threads
<1>4. CASE SetLock(t)
  <2>1. /\ pc[t] = "setlock" /\ pc' = [pc EXCEPT ![t] = "first"]
        /\ writer = None /\ readers = {} /\ writer' = t
        /\ UNCHANGED <<value_map, keys, granted, readers, reg>>
    BY <1>4 DEF SetLock, Goto, Unlocked
  <2>2. /\ \A u \in Thread : u # t => pc'[u] = pc[u] /\ reg'[u] = reg[u]
        /\ pc'[t] = "first"
        /\ reg'[t].h = reg[t].h
    BY <1>0, <2>1
  <2>5. Locking'
    BY <1>0, <2>1 DEF Threads, Locking
  <2>6. InHand'
    BY <1>0, <2>1 DEF Threads, Locking, InHand
  <2>7. OwnHandle'
    BY <1>0, <2>1, <2>2 DEF Threads, Locking, InHand, OwnHandle, KeysInUse, Undo
  <2>8. KeysInUse'
    BY <1>0, <2>1, <2>2 DEF Threads, Locking, InHand, OwnHandle, KeysInUse, Undo
  <2>9. QED
    BY <2>5, <2>6, <2>7, <2>8 DEF Threads
<1>5. CASE SetFirst(t) \/ SetNext(t)
  <2>0. /\ writer = t /\ pc[t] \in {"first", "more"} /\ reg[t].value \in Value /\ reg[t].h \in Handle
        /\ Returns(t) \/ (\E p \in Point : Inserts(t, p)) \/ Undoes(t)
    BY <1>5, SetSteps
  <2>1. CASE Returns(t)
    <3>1. /\ pc' = [pc EXCEPT ![t] = "idle"] /\ granted' = granted \cup {reg[t].h} /\ writer' = None
          /\ reg' = [reg EXCEPT ![t] = Fresh] /\ Fresh.h = None /\ Fresh.point = None
          /\ UNCHANGED <<value_map, keys, readers>>
      BY <2>1 DEF Returns, Fresh
    <3>2. /\ \A u \in Thread : u # t => pc'[u] = pc[u] /\ reg'[u] = reg[u]
          /\ pc'[t] = "idle"
          /\ reg'[t].h = None
      BY <1>0, <2>0, <3>1
    <3>5. Locking'
      BY <1>0, <2>0, <3>1 DEF Threads, Locking
    <3>6. InHand'
      BY <1>0, <2>0, <3>1 DEF Threads, Locking, InHand
    <3>7. OwnHandle'
      BY <1>0, <2>0, <3>1, <3>2 DEF Threads, Locking, InHand, OwnHandle, KeysInUse, Undo
    <3>8. KeysInUse'
      <4>1. keys' = keys /\ granted' = granted \cup {reg[t].h} /\ writer' = None
        BY <3>1
      <4>2. \A u \in Thread : ~Undo(u)' /\ (u # t => ~Undo(u))
        BY <1>0, <2>0, <4>1 DEF Undo
      <4>3. \A h \in Handle : keys[h] # <<>> => h \in granted' \/ \E u \in Thread : pc'[u] = "more" /\ reg'[u].h = h
        BY <2>0, <3>2, <4>1, <4>2 DEF Threads, KeysInUse
      <4>4. \A u \in Thread :
              /\ pc'[u] \in Removing => reg'[u].h \in granted'
              /\ pc'[u] \in {"setlock", "first"} => keys[reg'[u].h] = <<>>
              /\ pc'[u] = "more" => keys[reg'[u].h] # <<>>
        BY <3>2, <4>1, <4>2 DEF Threads, KeysInUse
      <4>5. QED
        BY <4>1, <4>3, <4>4 DEF KeysInUse, Undo
    <3>9. QED
      BY <3>5, <3>6, <3>7, <3>8 DEF Threads
  <2>2. ASSUME NEW p \in Point, Inserts(t, p)
        PROVE  Threads'
    <3>1. PICK n \in Nat : n >= 2 /\ reg' = [reg EXCEPT ![t] = [reg[t] EXCEPT !.i = n]]
      BY <2>2 DEF Inserts
    <3>2. /\ pc' = [pc EXCEPT ![t] = "more"]
          /\ keys' = [keys EXCEPT ![reg[t].h] = Append(@, p)]
          /\ UNCHANGED <<granted, writer, readers>>
      BY <2>2 DEF Inserts
    <3>3. /\ keys'[reg[t].h] = Append(keys[reg[t].h], p)
          /\ \A h \in Handle : h # reg[t].h => keys'[h] = keys[h]
          /\ pc'[t] = "more" /\ reg'[t].h = reg[t].h
          /\ \A u \in Thread : u # t => pc'[u] = pc[u] /\ reg'[u] = reg[u]
      BY <1>0, <2>0, <3>1, <3>2
    <3>4. Append(keys[reg[t].h], p) # <<>>
      BY <1>0, <2>0, SMTT(30)
    <3>5. Locking'
      BY <1>0, <2>0, <3>1, <3>2 DEF Threads, Locking
    <3>6. InHand'
      BY <1>0, <2>0, <3>1, <3>2 DEF Threads, InHand, Locking
    <3>7. OwnHandle'
      <4>1. \A u \in Thread : (pc'[u] \in Setting \/ Undo(u)') => (pc[u] \in Setting \/ Undo(u))
        BY <2>0, <3>2, <3>3 DEF Undo
      <4>4. \A u \in Thread : reg'[u].h = reg[u].h
        BY <3>3
      <4>2. granted' = granted
        BY <3>2
      <4>3. QED
        BY <4>1, <4>2, <4>4 DEF Threads, OwnHandle, Undo
    <3>8. KeysInUse'
      <4>1. \A u \in Thread \ {t} : pc[u] \in {"setlock", "first", "more"} => reg[u].h \in Handle /\ reg[u].h # reg[t].h
        BY <2>0 DEF Threads, InHand, OwnHandle
      <4>2. /\ keys'[reg[t].h] # <<>> /\ writer' = writer /\ granted' = granted
            /\ \A h \in Handle : h # reg[t].h => keys'[h] = keys[h]
        BY <3>2, <3>3, <3>4
      <4>3. \A h \in Handle : keys'[h] # <<>> =>
              h \in granted' \/ \E u \in Thread : (pc[u] = "more" \/ Undo(u))' /\ reg'[u].h = h
        BY <2>0, <3>3, <4>2 DEF Threads, KeysInUse, Undo
      <4>4. \A u \in Thread :
              /\ pc'[u] \in Removing => reg'[u].h \in granted' \/ Undo(u)'
              /\ pc'[u] \in {"setlock", "first"} => keys'[reg'[u].h] = <<>>
              /\ pc'[u] = "more" => keys'[reg'[u].h] # <<>>
        BY <2>0, <3>3, <4>1, <4>2 DEF Threads, KeysInUse, Undo
      <4>5. QED
        BY <4>3, <4>4 DEF KeysInUse
    <3>9. QED
      BY <3>5, <3>6, <3>7, <3>8 DEF Threads
  <2>3. CASE Undoes(t)
    <3>1. /\ pc[t] = "more" /\ pc' = [pc EXCEPT ![t] = "removelock"]
          /\ UNCHANGED <<value_map, keys, granted, writer, reg, readers>>
      BY <2>3 DEF Undoes
    <3>2. /\ \A u \in Thread : u # t => pc'[u] = pc[u] /\ reg'[u] = reg[u]
          /\ pc'[t] = "removelock"
          /\ reg'[t].h = reg[t].h
      BY <1>0, <2>0, <3>1
    <3>5. Locking'
      BY <1>0, <2>0, <3>1 DEF Threads, Locking
    <3>6. InHand'
      BY <1>0, <2>0, <3>1 DEF Threads, Locking, InHand
    <3>7. OwnHandle'
      BY <1>0, <2>0, <3>1, <3>2 DEF Threads, Locking, InHand, OwnHandle, KeysInUse, Undo
    <3>8. KeysInUse'
      BY <1>0, <2>0, <3>1, <3>2 DEF Threads, Locking, InHand, OwnHandle, KeysInUse, Undo
    <3>9. QED
      BY <3>5, <3>6, <3>7, <3>8 DEF Threads
  <2>4. QED
    BY <2>0, <2>1, <2>2, <2>3
<1>6. CASE RemoveLock(t)
  <2>1. /\ pc[t] = "removelock" /\ pc' = [pc EXCEPT ![t] = "erase"]
        /\ writer = None /\ readers = {} /\ writer' = t
        /\ reg' = [reg EXCEPT ![t] = [reg[t] EXCEPT !.i = 1]]
        /\ UNCHANGED <<value_map, keys, granted, readers>>
    BY <1>6 DEF RemoveLock, Goto, Unlocked
  <2>2. /\ \A u \in Thread : u # t => pc'[u] = pc[u] /\ reg'[u] = reg[u]
        /\ pc'[t] = "erase"
        /\ reg'[t].h = reg[t].h
    BY <1>0, <2>1
  <2>5. Locking'
    BY <1>0, <2>1 DEF Threads, Locking
  <2>6. InHand'
    BY <1>0, <2>1 DEF Threads, Locking, InHand
  <2>7. OwnHandle'
    BY <1>0, <2>1, <2>2 DEF Threads, Locking, InHand, OwnHandle, KeysInUse, Undo
  <2>8. KeysInUse'
    BY <1>0, <2>1, <2>2 DEF Threads, Locking, InHand, OwnHandle, KeysInUse, Undo
  <2>9. QED
    BY <2>5, <2>6, <2>7, <2>8 DEF Threads
<1>7. CASE RemoveErase(t)
  <2>0. /\ writer = t /\ pc[t] = "erase" /\ reg[t].h \in Handle /\ reg[t].i \in Nat /\ reg[t].i >= 1
        /\ ErasesOne(t) \/ ErasesNoMore(t)
    BY <1>7, EraseSteps
  <2>1. CASE ErasesOne(t)
    <3>1. /\ reg' = [reg EXCEPT ![t] = [reg[t] EXCEPT !.i = reg[t].i + 1]]
          /\ UNCHANGED <<keys, granted, writer, pc, readers>>
      BY <2>1 DEF ErasesOne
    <3>2. /\ \A u \in Thread : u # t => pc'[u] = pc[u] /\ reg'[u] = reg[u]
          /\ pc'[t] = pc[t]
          /\ reg'[t].h = reg[t].h
      BY <1>0, <2>0, <3>1
    <3>5. Locking'
      BY <1>0, <2>0, <3>1 DEF Threads, Locking
    <3>6. InHand'
      BY <1>0, <2>0, <3>1 DEF Threads, Locking, InHand
    <3>7. OwnHandle'
      BY <1>0, <2>0, <3>1, <3>2 DEF Threads, Locking, InHand, OwnHandle, KeysInUse, Undo
    <3>8. KeysInUse'
      BY <1>0, <2>0, <3>1, <3>2 DEF Threads, Locking, InHand, OwnHandle, KeysInUse, Undo
    <3>9. QED
      BY <3>5, <3>6, <3>7, <3>8 DEF Threads
  <2>2. CASE ErasesNoMore(t)
    <3>1. /\ pc' = [pc EXCEPT ![t] = "idle"] /\ keys' = [keys EXCEPT ![reg[t].h] = <<>>] /\ writer' = None
          /\ reg' = [reg EXCEPT ![t] = Fresh] /\ Fresh.h = None /\ Fresh.point = None
          /\ UNCHANGED <<value_map, granted, readers>>
      BY <2>2 DEF ErasesNoMore, Fresh
    <3>2. /\ \A u \in Thread : u # t => pc'[u] = pc[u] /\ reg'[u] = reg[u]
          /\ pc'[t] = "idle"
          /\ reg'[t].h = None
      BY <1>0, <2>0, <3>1
    <3>5. Locking'
      BY <1>0, <2>0, <3>1 DEF Threads, Locking
    <3>6. InHand'
      BY <1>0, <2>0, <3>1 DEF Threads, Locking, InHand
    <3>7. OwnHandle'
      BY <1>0, <2>0, <3>1, <3>2 DEF Threads, Locking, InHand, OwnHandle, KeysInUse, Undo
    <3>8. KeysInUse'
      BY <1>0, <2>0, <3>1, <3>2 DEF Threads, Locking, InHand, OwnHandle, KeysInUse, Undo
    <3>9. QED
      BY <3>5, <3>6, <3>7, <3>8 DEF Threads
  <2>4. QED
    BY <2>0, <2>1, <2>2
<1>8. CASE GetEmpty(t)
  <2>1. /\ pc[t] = "empty"
        /\ \/ pc' = [pc EXCEPT ![t] = "idle"] /\ reg' = [reg EXCEPT ![t] = Fresh]
           \/ pc' = [pc EXCEPT ![t] = "getlock"] /\ reg' = reg
        /\ Fresh.h = None /\ Fresh.point = None
        /\ UNCHANGED <<value_map, keys, granted, writer, readers>>
    BY <1>8 DEF GetEmpty, Goto, Fresh
  <2>2. /\ \A u \in Thread : u # t => pc'[u] = pc[u] /\ reg'[u] = reg[u]
        /\ pc'[t] \in {"idle", "getlock"}
        /\ reg'[t].h \in {None, reg[t].h}
    BY <1>0, <2>1
  <2>5. Locking'
    BY <1>0, <2>1 DEF Threads, Locking
  <2>6. InHand'
    BY <1>0, <2>1 DEF Threads, Locking, InHand
  <2>7. OwnHandle'
    <3>1. \A u \in Thread : (pc'[u] \in Setting \/ Undo(u)') => u # t /\ (pc[u] \in Setting \/ Undo(u))
      BY <2>1, <2>2 DEF Undo
    <3>2. \A u \in Thread : u # t => reg'[u].h = reg[u].h
      BY <2>2
    <3>3. \A u \in Thread : (pc[u] \in Setting \/ Undo(u)) => reg[u].h \in Handle
      BY DEF Threads, InHand, Undo
    <3>4. granted' = granted
      BY <2>1
    <3>5. \A u \in Thread : (pc[u] \in Setting \/ Undo(u)) /\ u # t => reg'[t].h # reg[u].h
      BY <1>0, <2>2, <3>3 DEF Threads, OwnHandle
    <3>6. QED
      BY <3>1, <3>2, <3>4, <3>5 DEF Threads, OwnHandle
  <2>8. KeysInUse'
    BY <1>0, <2>1, <2>2, SMTT(30) DEF Threads, Locking, InHand, OwnHandle, KeysInUse, Undo
  <2>9. QED
    BY <2>5, <2>6, <2>7, <2>8 DEF Threads
<1>9. CASE GetLock(t)
  <2>1. /\ pc[t] = "getlock" /\ pc' = [pc EXCEPT ![t] = "find"]
        /\ writer = None /\ readers' = readers \cup {t}
        /\ UNCHANGED <<value_map, keys, granted, writer, reg>>
    BY <1>9 DEF GetLock, Goto
  <2>2. /\ \A u \in Thread : u # t => pc'[u] = pc[u] /\ reg'[u] = reg[u]
        /\ pc'[t] = "find"
        /\ reg'[t].h = reg[t].h
    BY <1>0, <2>1
  <2>5. Locking'
    BY <1>0, <2>1 DEF Threads, Locking
  <2>6. InHand'
    BY <1>0, <2>1 DEF Threads, Locking, InHand
  <2>7. OwnHandle'
    BY <1>0, <2>1, <2>2 DEF Threads, Locking, InHand, OwnHandle, KeysInUse, Undo
  <2>8. KeysInUse'
    BY <1>0, <2>1, <2>2 DEF Threads, Locking, InHand, OwnHandle, KeysInUse, Undo
  <2>9. QED
    BY <2>5, <2>6, <2>7, <2>8 DEF Threads
<1>10. CASE GetFind(t)
  <2>1. /\ pc[t] = "find"
        /\ \/ pc' = [pc EXCEPT ![t] = "idle"] /\ reg' = [reg EXCEPT ![t] = Fresh] /\ readers' = readers \ {t}
           \/ pc' = [pc EXCEPT ![t] = "crashed"] /\ reg' = reg /\ readers' = readers
        /\ Fresh.h = None /\ Fresh.point = None
        /\ UNCHANGED <<value_map, keys, granted, writer>>
    BY <1>10 DEF GetFind, Goto, Fresh
  <2>2. /\ \A u \in Thread : u # t => pc'[u] = pc[u] /\ reg'[u] = reg[u]
        /\ pc'[t] \in {"idle", "crashed"}
        /\ reg'[t].h \in {None, reg[t].h}
    BY <1>0, <2>1
  <2>5. Locking'
    BY <1>0, <2>1 DEF Threads, Locking
  <2>6. InHand'
    BY <1>0, <2>1 DEF Threads, Locking, InHand
  <2>7. OwnHandle'
    BY <1>0, <2>1, <2>2 DEF Threads, Locking, InHand, OwnHandle, KeysInUse, Undo
  <2>8. KeysInUse'
    BY <1>0, <2>1, <2>2 DEF Threads, Locking, InHand, OwnHandle, KeysInUse, Undo
  <2>9. QED
    BY <2>5, <2>6, <2>7, <2>8 DEF Threads
<1>11. QED
  BY <1>1, <1>2, <1>3, <1>4, <1>5, <1>6, <1>7, <1>8, <1>9, <1>10 DEF Action, Step

-----------------------------------------------------------------------------
(* Every step keeps keys and entries the same.  Most touch neither.        *)
LEMMA AgreeFrame ==
  ASSUME Agree, UNCHANGED <<value_map, keys>>,
         \A u \in Thread : (pc[u] = "erase" \/ pc'[u] = "erase") => pc'[u] = pc[u] /\ reg'[u] = reg[u],
         \A u \in Thread : pc'[u] = "more" => pc[u] = "more" /\ reg'[u] = reg[u]
  PROVE  Agree'
<1>1. \A h, i : Erased(h, i)' <=> Erased(h, i)
  BY DEF Erased
<1>2. \A h : Leaving(h)' <=> Leaving(h)
  BY DEF Leaving
<1>3. \A h : Indices(h)' = Indices(h)
  BY DEF Indices
<1>4. KeysAreEntries'
  BY <1>1, <1>3 DEF Agree, KeysAreEntries
<1>5. EntriesAreKeys'
  BY <1>1, <1>3 DEF Agree, EntriesAreKeys
<1>6. KeysAreDistinct'
  BY <1>3 DEF Agree, KeysAreDistinct
<1>7. OneValue'
  <2>1. \A h \in Handle : \A i, j \in Indices(h) : ~Leaving(h)' => value_map'[keys'[h][i]] = value_map'[keys'[h][j]]
    BY <1>2 DEF Agree, OneValue
  <2>2. \A u \in Thread : pc'[u] = "more" =>
          \A i \in Indices(reg'[u].h) : value_map'[keys'[reg'[u].h][i]] = reg'[u].value
    BY DEF Agree, OneValue
  <2>3. QED
    BY <1>3, <2>1, <2>2 DEF OneValue
<1>8. QED
  BY <1>4, <1>5, <1>6, <1>7 DEF Agree

(* What a key is. *)
LEMMA KeyTypes ==
  ASSUME TypeOK, NEW h \in Handle
  PROVE  /\ Len(keys[h]) \in Nat
         /\ \A i \in Indices(h) : i \in Nat /\ i >= 1 /\ i <= Len(keys[h]) /\ keys[h][i] \in Point
<1>1. keys[h] \in Seq(Point)
  BY DEF TypeOK
<1>2. QED
  BY <1>1 DEF Indices

(* While a set() holds the lock nothing is being erased. *)
LEMMA OnlyOneErases ==
  ASSUME TypeOK, Threads, NEW t \in Thread, writer = t
  PROVE  \A u \in Thread : u # t => pc[u] \notin {"first", "more", "erase"}
BY NoneIsApart DEF TypeOK, Threads, Locking

(* A point that set() inserts is a new entry and a new key. *)
LEMMA InsertAgrees ==
  ASSUME TypeOK, Threads, Agree, NEW t \in Thread, writer = t, pc[t] \in {"first", "more"},
         reg[t].value \in Value, reg[t].h \in Handle,
         NEW p \in Point, Inserts(t, p)
  PROVE  Agree'
<1>a. PICK g \in Handle, v \in Value : g = reg[t].h /\ v = reg[t].value
  OBVIOUS
<1>b. PICK n \in Nat : n = Len(keys[g])
  BY KeyTypes
<1>1. PICK m \in Nat : reg' = [reg EXCEPT ![t] = [reg[t] EXCEPT !.i = m]]
  BY DEF Inserts
<1>2. \A u \in Thread : u # t => pc[u] \notin {"first", "more", "erase"}
  BY OnlyOneErases
<1>3. /\ \A u \in Thread : u # t => pc'[u] = pc[u]
      /\ pc'[t] = "more" /\ reg'[t].h = g /\ reg'[t].value = v
  <2>1. pc \in [Thread -> Labels] /\ reg \in [Thread -> Registers]
    BY DEF TypeOK, Registers
  <2>2. pc' = [pc EXCEPT ![t] = "more"]
    BY DEF Inserts
  <2>3. reg[t] \in Registers
    BY <2>1
  <2>4. QED
    BY <1>1, <1>a, <2>1, <2>2, <2>3 DEF Registers
<1>4. \A h, i : ~Erased(h, i) /\ ~Erased(h, i)'
  BY <1>2, <1>3 DEF Erased
<1>5. \A h : ~Leaving(h) /\ ~Leaving(h)'
  BY <1>2, <1>3 DEF Leaving
<1>6. /\ value_map[p] = None /\ value_map'[p] = v
      /\ \A q \in Point : q # p => value_map'[q] = value_map[q]
  BY <1>a DEF Inserts, TypeOK
<1>7. v # None
  BY NoneIsApart
<1>8. /\ keys'[g] = Append(keys[g], p)
      /\ \A h \in Handle : h # g => keys'[h] = keys[h]
  BY <1>a DEF Inserts, TypeOK
<1>9. /\ Len(keys'[g]) = n + 1
      /\ keys'[g][n + 1] = p /\ \A i \in 1 .. n : keys'[g][i] = keys[g][i]
  <2>1. keys[g] \in Seq(Point)
    BY DEF TypeOK
  <2>2. QED
    BY <1>8, <1>b, <2>1
<1>10. /\ Indices(g) = 1 .. n /\ Indices(g)' = 1 .. (n + 1)
       /\ \A h \in Handle : h # g => Indices(h)' = Indices(h)
  BY <1>8, <1>9, <1>b DEF Indices
<1>11. \A h \in Handle : \A i \in Indices(h) : keys[h][i] \in Point /\ keys[h][i] # p
  BY <1>4, <1>6, KeyTypes DEF Agree, KeysAreEntries
<1>12. /\ n + 1 \in Nat /\ 1 .. n \subseteq 1 .. (n + 1) /\ n + 1 \in 1 .. (n + 1)
       /\ \A i \in 1 .. (n + 1) : i \in 1 .. n \/ i = n + 1
  OBVIOUS
<1>13. ASSUME NEW h \in Handle, NEW i \in Indices(h)'
       PROVE  \/ i \in Indices(h) /\ keys'[h][i] = keys[h][i]
              \/ h = g /\ i = n + 1 /\ keys'[h][i] = p
  <2>1. CASE h # g
    BY <1>8, <1>10, <2>1
  <2>2. CASE h = g
    BY <1>9, <1>10, <1>12, <2>2
  <2>3. QED
    BY <2>1, <2>2
<1>14. KeysAreEntries'
  <2>1. \A h \in Handle : \A i \in Indices(h)' : value_map'[keys'[h][i]] # None
    BY <1>4, <1>6, <1>7, <1>11, <1>13 DEF Agree, KeysAreEntries
  <2>2. QED
    BY <2>1 DEF KeysAreEntries
<1>15. EntriesAreKeys'
  <2>1. ASSUME NEW h \in Handle, NEW i \in Indices(h)
        PROVE  i \in Indices(h)' /\ keys'[h][i] = keys[h][i]
    <3>1. CASE h # g
      BY <1>8, <1>10, <3>1
    <3>2. CASE h = g
      BY <1>9, <1>10, <1>12, <3>2
    <3>3. QED
      BY <3>1, <3>2
  <2>2. n + 1 \in Indices(g)'
    BY <1>10, <1>12
  <2>3. ASSUME NEW q \in Point, value_map'[q] # None
        PROVE  \E h \in Handle : \E i \in Indices(h)' : keys'[h][i] = q
    <3>1. CASE q = p
      BY <1>9, <2>2, <3>1
    <3>2. CASE q # p
      <4>1. PICK h \in Handle : \E i \in Indices(h) : keys[h][i] = q
        BY <1>6, <2>3, <3>2 DEF Agree, EntriesAreKeys
      <4>2. QED
        BY <2>1, <4>1
    <3>3. QED
      BY <3>1, <3>2
  <2>4. QED
    BY <1>4, <2>3 DEF EntriesAreKeys
<1>16. KeysAreDistinct'
  <2>1. ASSUME NEW h \in Handle, NEW f \in Handle, NEW i \in Indices(h)', NEW j \in Indices(f)',
               keys'[h][i] = keys'[f][j]
        PROVE  h = f /\ i = j
    <3>1. CASE h = g /\ i = n + 1 /\ keys'[h][i] = p
      <4>1. ~(j \in Indices(f) /\ keys'[f][j] = keys[f][j])
        BY <1>11, <2>1, <3>1
      <4>2. QED
        BY <1>13, <3>1, <4>1
    <3>2. CASE f = g /\ j = n + 1 /\ keys'[f][j] = p
      <4>1. ~(i \in Indices(h) /\ keys'[h][i] = keys[h][i])
        BY <1>11, <2>1, <3>2
      <4>2. QED
        BY <1>13, <3>2, <4>1
    <3>3. CASE i \in Indices(h) /\ j \in Indices(f) /\ keys'[h][i] = keys[h][i] /\ keys'[f][j] = keys[f][j]
      <4>1. keys[h][i] = keys[f][j]
        BY <2>1, <3>3
      <4>2. QED
        BY <3>3, <4>1 DEF Agree, KeysAreDistinct
    <3>4. QED
      BY <1>13, <3>1, <3>2, <3>3
  <2>2. QED
    BY <2>1 DEF KeysAreDistinct
<1>17. OneValue'
  <2>1. \A i \in Indices(g) : value_map[keys[g][i]] = v
    <3>1. CASE pc[t] = "more"
      BY <1>a, <3>1 DEF Agree, OneValue
    <3>2. CASE pc[t] = "first"
      <4>1. keys[g] = <<>>
        BY <1>a, <3>2 DEF Threads, KeysInUse
      <4>2. Indices(g) = {}
        BY <4>1 DEF Indices
      <4>3. QED
        BY <4>2
    <3>3. QED
      BY <3>1, <3>2
  <2>2. \A i \in Indices(g)' : value_map'[keys'[g][i]] = v
    BY <1>6, <1>11, <1>13, <2>1
  <2>3. \A h \in Handle : h # g => \A i, j \in Indices(h)' : value_map'[keys'[h][i]] = value_map'[keys'[h][j]]
    BY <1>5, <1>6, <1>10, <1>11, <1>13 DEF Agree, OneValue
  <2>4. \A u \in Thread : pc'[u] = "more" => u = t
    BY <1>2, <1>3
  <2>5. reg'[t].h = g /\ reg'[t].value = v
    BY <1>3
  <2>6. QED
    BY <2>2, <2>3, <2>4, <2>5 DEF OneValue
<1>18. QED
  BY <1>14, <1>15, <1>16, <1>17 DEF Agree

(* The entry that remove() erases is no other handle's key. *)
LEMMA EraseOneAgrees ==
  ASSUME TypeOK, Threads, Agree, NEW t \in Thread, writer = t, pc[t] = "erase",
         reg[t].h \in Handle, reg[t].i \in Nat, ErasesOne(t)
  PROVE  Agree'
<1>a. PICK g \in Handle, n \in Nat : g = reg[t].h /\ n = reg[t].i
  OBVIOUS
<1>1. n \in Indices(g) /\ keys' = keys /\ \A h : Indices(h)' = Indices(h)
  BY <1>a DEF ErasesOne, Indices
<1>b. PICK q \in Point : q = keys[g][n]
  BY <1>1, KeyTypes
<1>2. \A u \in Thread : u # t => pc[u] \notin {"first", "more", "erase"}
  BY OnlyOneErases
<1>3. /\ pc' = pc /\ \A u \in Thread : u # t => reg'[u] = reg[u]
      /\ reg'[t].h = g /\ reg'[t].i = n + 1
  <2>1. reg \in [Thread -> Registers]
    BY DEF TypeOK, Registers
  <2>2. pc' = pc /\ reg' = [reg EXCEPT ![t] = [reg[t] EXCEPT !.i = n + 1]]
    BY <1>a DEF ErasesOne
  <2>3. reg[t] \in Registers
    BY <2>1
  <2>4. QED
    BY <1>a, <2>1, <2>2, <2>3 DEF Registers
<1>4. \A h, i : (Erased(h, i) <=> h = g /\ i < n) /\ (Erased(h, i)' <=> h = g /\ i < n + 1)
  BY <1>a, <1>2, <1>3 DEF Erased
<1>5. \A h : (Leaving(h) <=> h = g) /\ (Leaving(h)' <=> h = g)
  BY <1>a, <1>2, <1>3 DEF Leaving
<1>6. value_map'[q] = None /\ \A p \in Point : p # q => value_map'[p] = value_map[p]
  BY <1>a, <1>b DEF ErasesOne, TypeOK
<1>7. \A h \in Handle : \A i \in Indices(h) : keys[h][i] = q => h = g /\ i = n
  BY <1>1, <1>b DEF Agree, KeysAreDistinct
<1>8. KeysAreEntries'
  <2>1. ASSUME NEW h \in Handle, NEW i \in Indices(h), ~(h = g /\ i < n + 1)
        PROVE  value_map'[keys[h][i]] # None
    <3>1. i \in Nat /\ keys[h][i] \in Point
      BY KeyTypes
    <3>2. ~(h = g /\ i < n) /\ ~(h = g /\ i = n)
      BY <2>1, <3>1
    <3>3. value_map[keys[h][i]] # None
      BY <1>4, <3>2 DEF Agree, KeysAreEntries
    <3>4. keys[h][i] # q
      BY <1>7, <3>2
    <3>5. QED
      BY <1>6, <3>1, <3>3, <3>4
  <2>2. QED
    BY <1>1, <1>4, <2>1 DEF KeysAreEntries
<1>9. EntriesAreKeys'
  <2>1. ASSUME NEW p \in Point, value_map'[p] # None
        PROVE  \E h \in Handle : \E i \in Indices(h) : keys[h][i] = p /\ ~(h = g /\ i < n + 1)
    <3>1. p # q /\ value_map[p] # None
      BY <1>6, <2>1
    <3>2. PICK h \in Handle : \E i \in Indices(h) : keys[h][i] = p /\ ~(h = g /\ i < n)
      BY <1>4, <3>1 DEF Agree, EntriesAreKeys
    <3>3. PICK i \in Indices(h) : keys[h][i] = p /\ ~(h = g /\ i < n)
      BY <3>2
    <3>4. i \in Nat
      BY KeyTypes
    <3>5. ~(h = g /\ i = n)
      BY <1>b, <3>1, <3>3
    <3>6. ~(h = g /\ i < n + 1)
      BY <3>3, <3>4, <3>5
    <3>7. QED
      BY <3>3, <3>6
  <2>2. QED
    BY <1>1, <1>4, <2>1 DEF EntriesAreKeys
<1>10. KeysAreDistinct'
  <2>1. keys' = keys
    BY <1>1
  <2>2. QED
    BY <2>1 DEF Agree, KeysAreDistinct, Indices
<1>11. OneValue'
  <2>1. ASSUME NEW h \in Handle, NEW i \in Indices(h), NEW j \in Indices(h), h # g
        PROVE  value_map'[keys[h][i]] = value_map'[keys[h][j]]
    <3>1. keys[h][i] \in Point /\ keys[h][j] \in Point /\ keys[h][i] # q /\ keys[h][j] # q
      BY <1>7, <2>1, KeyTypes
    <3>2. value_map[keys[h][i]] = value_map[keys[h][j]]
      BY <1>5, <2>1 DEF Agree, OneValue
    <3>3. QED
      BY <1>6, <3>1, <3>2
  <2>2. \A u \in Thread : pc'[u] # "more"
    BY <1>2, <1>3
  <2>3. QED
    BY <1>1, <1>5, <2>1, <2>2 DEF OneValue
<1>12. QED
  BY <1>8, <1>9, <1>10, <1>11 DEF Agree

(* The keys are cleared when all their entries are erased. *)
LEMMA EraseLastAgrees ==
  ASSUME TypeOK, Threads, Agree, NEW t \in Thread, writer = t, pc[t] = "erase",
         reg[t].h \in Handle, reg[t].i \in Nat, ErasesNoMore(t)
  PROVE  Agree'
<1>a. PICK g \in Handle, n \in Nat : g = reg[t].h /\ n = reg[t].i
  OBVIOUS
<1>1. /\ keys'[g] = <<>> /\ \A h \in Handle : h # g => keys'[h] = keys[h]
      /\ value_map' = value_map
  BY <1>a DEF ErasesNoMore, TypeOK
<1>2. Indices(g)' = {} /\ \A h \in Handle : h # g => Indices(h)' = Indices(h)
  BY <1>1 DEF Indices
<1>3. \A u \in Thread : u # t => pc[u] \notin {"first", "more", "erase"}
  BY OnlyOneErases
<1>4. \A u \in Thread : pc'[u] \notin {"more", "erase"}
  <2>1. pc' = [pc EXCEPT ![t] = "idle"] /\ pc \in [Thread -> Labels]
    BY DEF ErasesNoMore, TypeOK
  <2>2. QED
    BY <1>3, <2>1
<1>5. \A h, i : (Erased(h, i) <=> h = g /\ i < n) /\ ~Erased(h, i)'
  BY <1>a, <1>3, <1>4 DEF Erased
<1>6. \A h : h # g => ~Leaving(h)
  BY <1>a, <1>3 DEF Leaving
<1>7. \A i \in Indices(g) : Erased(g, i)
  <2>1. Len(keys[g]) \in Nat /\ n > Len(keys[g])
    BY <1>a, KeyTypes DEF ErasesNoMore
  <2>2. \A i \in Indices(g) : i < n
    BY <2>1 DEF Indices
  <2>3. QED
    BY <1>5, <2>2
<1>8. KeysAreEntries'
  BY <1>1, <1>2, <1>5 DEF Agree, KeysAreEntries
<1>9. EntriesAreKeys'
  <2>1. ASSUME NEW p \in Point, value_map'[p] # None
        PROVE  \E h \in Handle : \E i \in Indices(h)' : keys'[h][i] = p
    <3>1. PICK h \in Handle : \E i \in Indices(h) : keys[h][i] = p /\ ~Erased(h, i)
      BY <1>1, <2>1 DEF Agree, EntriesAreKeys
    <3>2. h # g
      BY <1>7, <3>1
    <3>3. QED
      BY <1>1, <1>2, <3>1, <3>2
  <2>2. QED
    BY <1>5, <2>1 DEF EntriesAreKeys
<1>10. KeysAreDistinct'
  <2>1. ASSUME NEW h \in Handle, NEW f \in Handle, NEW i \in Indices(h)', NEW j \in Indices(f)',
               keys'[h][i] = keys'[f][j]
        PROVE  h = f /\ i = j
    <3>1. h # g /\ f # g
      BY <1>2
    <3>2. i \in Indices(h) /\ j \in Indices(f) /\ keys[h][i] = keys[f][j]
      BY <1>1, <1>2, <2>1, <3>1
    <3>3. QED
      BY <3>2 DEF Agree, KeysAreDistinct
  <2>2. QED
    BY <2>1 DEF KeysAreDistinct
<1>11. OneValue'
  <2>1. ASSUME NEW h \in Handle, NEW i \in Indices(h)', NEW j \in Indices(h)'
        PROVE  value_map'[keys'[h][i]] = value_map'[keys'[h][j]]
    <3>1. h # g
      BY <1>2
    <3>2. i \in Indices(h) /\ j \in Indices(h)
      BY <1>2, <3>1
    <3>3. value_map[keys[h][i]] = value_map[keys[h][j]]
      BY <1>6, <3>1, <3>2 DEF Agree, OneValue
    <3>4. QED
      BY <1>1, <3>1, <3>3
  <2>2. QED
    BY <1>4, <2>1 DEF OneValue
<1>12. QED
  BY <1>8, <1>9, <1>10, <1>11 DEF Agree

(* A remove() that has just taken the lock has erased nothing. *)
LEMMA RemoveLockAgrees ==
  ASSUME TypeOK, Threads, Agree, NEW t \in Thread, RemoveLock(t)
  PROVE  Agree'
<1>1. writer = None /\ value_map' = value_map /\ keys' = keys /\ \A h : Indices(h)' = Indices(h)
  BY DEF RemoveLock, Unlocked, Indices
<1>2. \A u \in Thread : pc[u] \notin {"first", "more", "erase"}
  BY <1>1, NoneIsApart DEF Threads, Locking
<1>3. (\A u \in Thread : u # t => pc'[u] = pc[u]) /\ pc'[t] = "erase" /\ reg'[t].i = 1
  <2>1. pc \in [Thread -> Labels] /\ reg \in [Thread -> Registers]
    BY DEF TypeOK, Registers
  <2>2. pc' = [pc EXCEPT ![t] = "erase"] /\ reg' = [reg EXCEPT ![t] = [reg[t] EXCEPT !.i = 1]]
    BY DEF RemoveLock, Goto
  <2>3. reg[t] \in Registers
    BY <2>1
  <2>4. QED
    BY <2>1, <2>2, <2>3 DEF Registers
<1>4. \A h \in Handle : \A i \in Indices(h) : ~Erased(h, i) /\ ~Erased(h, i)'
  <2>1. ASSUME NEW h \in Handle, NEW i \in Indices(h)
        PROVE  ~Erased(h, i) /\ ~Erased(h, i)'
    <3>1. i \in Nat /\ i >= 1
      BY KeyTypes
    <3>2. ~(i < 1)
      BY <3>1
    <3>3. QED
      BY <1>2, <1>3, <3>2 DEF Erased
  <2>2. QED
    BY <2>1
<1>5. \A h : ~Leaving(h)
  BY <1>2 DEF Leaving
<1>6. KeysAreEntries'
  BY <1>1, <1>4 DEF Agree, KeysAreEntries
<1>7. EntriesAreKeys'
  BY <1>1, <1>4 DEF Agree, EntriesAreKeys
<1>8. KeysAreDistinct'
  BY <1>1 DEF Agree, KeysAreDistinct
<1>9. OneValue'
  <2>1. \A u \in Thread : pc'[u] # "more"
    BY <1>2, <1>3
  <2>2. QED
    BY <1>1, <1>5, <2>1 DEF Agree, OneValue
<1>10. QED
  BY <1>6, <1>7, <1>8, <1>9 DEF Agree

(* Every step keeps the agreement of keys and entries. *)
LEMMA AgreeStep ==
  ASSUME TypeOK, Threads, Agree, NEW t \in Thread, Action(t)
  PROVE  Agree'
<1>0. pc \in [Thread -> Labels] /\ reg \in [Thread -> Registers]
  BY DEF TypeOK, Registers
<1>f. ASSUME UNCHANGED <<value_map, keys>>,
             NEW a \in Labels \ {"more", "erase"}, NEW r,
             pc' = [pc EXCEPT ![t] = a], reg' = [reg EXCEPT ![t] = r], pc[t] # "erase"
      PROVE  Agree'
  <2>1. \A u \in Thread : u # t => pc'[u] = pc[u] /\ reg'[u] = reg[u]
    BY <1>0, <1>f
  <2>2. pc'[t] # "erase" /\ pc'[t] # "more"
    BY <1>0, <1>f
  <2>3. QED
    BY <1>f, <2>1, <2>2, AgreeFrame
<1>r. reg = [reg EXCEPT ![t] = reg[t]]
  BY <1>0
<1>1. ASSUME NEW k \in Key, NEW v \in Value, NEW h \in Handle, NEW n \in 1 .. Len(points[k]), SetBegin(t, k, v, n, h)
      PROVE  Agree'
  <2>1. /\ pc[t] = "idle" /\ pc' = [pc EXCEPT ![t] = "setlock"] /\ UNCHANGED <<value_map, keys>>
        /\ reg' = [reg EXCEPT ![t] = [reg[t] EXCEPT !.key = k, !.value = v, !.cnt = n, !.h = h]]
    BY <1>1 DEF SetBegin, Goto
  <2>2. QED
    BY <1>f, <2>1 DEF Labels
<1>2. ASSUME NEW h \in Handle, RemoveBegin(t, h)
      PROVE  Agree'
  <2>1. /\ pc[t] = "idle" /\ pc' = [pc EXCEPT ![t] = "removelock"] /\ UNCHANGED <<value_map, keys>>
        /\ reg' = [reg EXCEPT ![t] = [reg[t] EXCEPT !.h = h]]
    BY <1>2 DEF RemoveBegin, Goto
  <2>2. QED
    BY <1>f, <2>1 DEF Labels
<1>3. ASSUME NEW p \in Point, GetBegin(t, p)
      PROVE  Agree'
  <2>1. /\ pc[t] = "idle" /\ pc' = [pc EXCEPT ![t] = "empty"] /\ UNCHANGED <<value_map, keys>>
        /\ reg' = [reg EXCEPT ![t] = [reg[t] EXCEPT !.point = p]]
    BY <1>3 DEF GetBegin, Goto
  <2>2. QED
    BY <1>f, <2>1 DEF Labels
<1>4. CASE SetLock(t)
  <2>1. /\ pc[t] = "setlock" /\ pc' = [pc EXCEPT ![t] = "first"] /\ UNCHANGED <<value_map, keys>>
        /\ reg' = [reg EXCEPT ![t] = reg[t]]
    BY <1>4, <1>r DEF SetLock, Goto
  <2>2. QED
    BY <1>f, <2>1 DEF Labels
<1>5. CASE SetFirst(t) \/ SetNext(t)
  <2>1. /\ writer = t /\ pc[t] \in {"first", "more"}
        /\ reg[t].value \in Value /\ reg[t].h \in Handle
        /\ Returns(t) \/ (\E p \in Point : Inserts(t, p)) \/ Undoes(t)
    BY <1>5, SetSteps
  <2>2. CASE Returns(t)
    <3>1. /\ pc' = [pc EXCEPT ![t] = "idle"] /\ UNCHANGED <<value_map, keys>>
          /\ reg' = [reg EXCEPT ![t] = Fresh]
      BY <2>2 DEF Returns
    <3>2. QED
      BY <1>f, <2>1, <3>1 DEF Labels
  <2>3. CASE \E p \in Point : Inserts(t, p)
    BY <2>1, <2>3, InsertAgrees
  <2>4. CASE Undoes(t)
    <3>1. /\ pc' = [pc EXCEPT ![t] = "removelock"] /\ UNCHANGED <<value_map, keys>>
          /\ reg' = [reg EXCEPT ![t] = reg[t]]
      BY <1>r, <2>4 DEF Undoes
    <3>2. QED
      BY <1>f, <2>1, <3>1 DEF Labels
  <2>5. QED
    BY <2>1, <2>2, <2>3, <2>4
<1>6. CASE RemoveLock(t)
  BY <1>6, RemoveLockAgrees
<1>7. CASE RemoveErase(t)
  BY <1>7, EraseSteps, EraseOneAgrees, EraseLastAgrees
<1>8. CASE GetEmpty(t)
  <2>1. pc[t] = "empty" /\ UNCHANGED <<value_map, keys>>
    BY <1>8 DEF GetEmpty, Goto
  <2>2. CASE pc' = [pc EXCEPT ![t] = "idle"] /\ reg' = [reg EXCEPT ![t] = Fresh]
    BY <1>f, <2>1, <2>2 DEF Labels
  <2>3. CASE pc' = [pc EXCEPT ![t] = "getlock"] /\ reg' = [reg EXCEPT ![t] = reg[t]]
    BY <1>f, <2>1, <2>3 DEF Labels
  <2>4. QED
    BY <1>8, <1>r, <2>2, <2>3 DEF GetEmpty, Goto
<1>9. CASE GetLock(t)
  <2>1. /\ pc[t] = "getlock" /\ pc' = [pc EXCEPT ![t] = "find"] /\ UNCHANGED <<value_map, keys>>
        /\ reg' = [reg EXCEPT ![t] = reg[t]]
    BY <1>9, <1>r DEF GetLock, Goto
  <2>2. QED
    BY <1>f, <2>1 DEF Labels
<1>10. CASE GetFind(t)
  <2>1. pc[t] = "find" /\ UNCHANGED <<value_map, keys>>
    BY <1>10 DEF GetFind, Goto
  <2>2. CASE pc' = [pc EXCEPT ![t] = "idle"] /\ reg' = [reg EXCEPT ![t] = Fresh]
    BY <1>f, <2>1, <2>2 DEF Labels
  <2>3. CASE pc' = [pc EXCEPT ![t] = "crashed"] /\ reg' = [reg EXCEPT ![t] = reg[t]]
    BY <1>f, <2>1, <2>3 DEF Labels
  <2>4. QED
    BY <1>10, <1>r, <2>2, <2>3 DEF GetFind, Goto
<1>11. CASE Step(t)
  BY <1>4, <1>5, <1>6, <1>7, <1>8, <1>9, <1>10, <1>11 DEF Step
<1>12. QED
  BY <1>1, <1>2, <1>3, <1>11 DEF Action

-----------------------------------------------------------------------------
(* In every state of the container: who holds the lock and what each call   *)
(* has in hand fit together, and keys and entries agree up to the points   *)
(* that a remove() under way has erased.                                   *)
THEOREM ContainerInvariant == Spec => []IInv
<1>1. IInv /\ [Next]_vars => IInv'
  <2> SUFFICES ASSUME IInv, [Next]_vars PROVE IInv'
    OBVIOUS
  <2>1. CASE Next
    <3>1. PICK t \in Thread : Action(t)
      BY <2>1 DEF Next, Action
    <3>2. TypeOK'
      BY <3>1, TypeStep DEF IInv, Threads
    <3>3. Threads'
      BY <3>1, ThreadsStep DEF IInv
    <3>4. Agree'
      BY <3>1, AgreeStep DEF IInv
    <3>5. QED
      BY <3>2, <3>3, <3>4 DEF IInv
  <2>2. CASE UNCHANGED vars
    <3>1. UNCHANGED <<value_map, keys, granted, writer, readers, pc, reg, out>>
      BY <2>2 DEF vars
    <3>2. TypeOK'
      BY <3>1 DEF IInv, TypeOK
    <3>3. Threads'
      BY <3>1 DEF IInv, Threads, Locking, InHand, OwnHandle, KeysInUse, Undo
    <3>4. Agree'
      BY <3>1, AgreeFrame DEF IInv
    <3>5. QED
      BY <3>2, <3>3, <3>4 DEF IInv
  <2>3. QED
    BY <2>1, <2>2
<1>2. QED
  BY <1>1, Initially, PTL DEF Spec

(* Every variable is of its kind: what get() returns is a value of the map  *)
(* or T(), and the map holds points of the ring only.                      *)
THEOREM TypeCorrect == Spec => []TypeOK
<1>1. IInv => TypeOK
  BY DEF IInv
<1>2. QED
  BY <1>1, ContainerInvariant, PTL

(* While nobody holds the lock alone, each entry of the map belongs to one  *)
(* handle, so that remove() can erase it, and each key of a handle is an   *)
(* entry: no point is lost or erased for another member.                   *)
THEOREM EntriesAreOwned == Spec => []EntriesHaveHandles
<1>1. IInv => EntriesHaveHandles
  <2> SUFFICES ASSUME IInv, writer = None, NEW p \in Point
               PROVE  Cardinality({h \in Handle : p \in KeysOf(h)}) = (IF value_map[p] = None THEN 0 ELSE 1)
    BY DEF EntriesHaveHandles
  <2> DEFINE owners == {h \in Handle : p \in KeysOf(h)}
  <2>1. \A h, i : ~Erased(h, i)
    BY NoneIsApart DEF IInv, Threads, Locking, Erased
  <2>2. \A h \in Handle : p \in KeysOf(h) <=> \E i \in Indices(h) : keys[h][i] = p
    BY DEF KeysOf, Indices
  <2>3. CASE value_map[p] = None
    <3>1. owners = {}
      BY <2>1, <2>2, <2>3 DEF IInv, Agree, KeysAreEntries
    <3>2. QED
      BY <2>3, <3>1, FS_EmptySet
  <2>4. CASE value_map[p] # None
    <3>1. PICK g \in Handle : \E i \in Indices(g) : keys[g][i] = p
      BY <2>4 DEF IInv, Agree, EntriesAreKeys
    <3>2. \A h \in owners : h = g
      BY <2>2, <3>1 DEF IInv, Agree, KeysAreDistinct
    <3>3. owners = {g}
      BY <2>2, <3>1, <3>2
    <3>4. QED
      BY <2>4, <3>3, FS_Singleton
  <2>5. QED
    BY <2>3, <2>4
<1>2. QED
  BY <1>1, ContainerInvariant, PTL

-----------------------------------------------------------------------------
(* What the ring sees of a handle. *)
MemberPoints(h) == IF h \in Members THEN KeysOf(h) ELSE {}
MemberValue(h)  == IF h \in Members /\ keys[h] # <<>> THEN value_map[keys[h][1]] ELSE None

Stutters == \A h \in Handle : MemberPoints(h)' = MemberPoints(h) /\ MemberValue(h)' = MemberValue(h)

(* What keeps members, questions and answers is no step of the ring. *)
LEMMA RingStutters ==
  ASSUME Stutters, \A t \in Thread : reg'[t].point = reg[t].point, out' = out
  PROVE  UNCHANGED Ring!vars
BY DEF Stutters, MemberPoints, MemberValue, Ring!vars

(* Without a change of entries, keys or handles the members are the same. *)
LEMMA SameMembers ==
  ASSUME UNCHANGED <<value_map, keys, granted>>, \A h : Leaving(h)' <=> Leaving(h)
  PROVE  Stutters
<1>1. \A h \in Handle : (h \in Members)' <=> h \in Members
  BY DEF Members
<1>2. \A h : KeysOf(h)' = KeysOf(h)
  BY DEF KeysOf
<1>3. QED
  BY <1>1, <1>2 DEF Stutters, MemberPoints, MemberValue

(* A step outside the erasing that keeps entries, keys and granted handles. *)
LEMMA QuietStep ==
  ASSUME TypeOK, NEW t \in Thread, UNCHANGED <<value_map, keys, granted>>,
         NEW a \in Labels \ {"erase"}, NEW r,
         pc' = [pc EXCEPT ![t] = a], reg' = [reg EXCEPT ![t] = r], pc[t] # "erase"
  PROVE  /\ Stutters
         /\ r.point = reg[t].point => \A u \in Thread : reg'[u].point = reg[u].point
<1>0. pc \in [Thread -> Labels] /\ reg \in [Thread -> Registers]
  BY DEF TypeOK, Registers
<1>1. \A u \in Thread : u # t => pc'[u] = pc[u] /\ reg'[u] = reg[u]
  BY <1>0
<1>2. pc'[t] # "erase" /\ reg'[t] = r
  BY <1>0
<1>3. \A h : Leaving(h)' <=> Leaving(h)
  BY <1>1, <1>2 DEF Leaving
<1>4. QED
  BY <1>1, <1>2, <1>3, SameMembers

(* A member is a handle that is granted and not being erased. *)
LEMMA MembersAreGranted ==
  \A h \in Handle : h \in Members <=> h \in granted /\ ~Leaving(h)
BY DEF Members

(* The first key of a handle that has one. *)
LEMMA FirstKey ==
  ASSUME TypeOK, NEW h \in Handle, keys[h] # <<>>
  PROVE  1 \in Indices(h) /\ keys[h][1] \in Point /\ keys[h][1] \in KeysOf(h)
<1>1. keys[h] \in Seq(Point)
  BY DEF TypeOK
<1>2. Len(keys[h]) \in Nat /\ Len(keys[h]) >= 1
  BY <1>1
<1>3. 1 \in 1 .. Len(keys[h])
  BY <1>2
<1>4. QED
  BY <1>1, <1>3 DEF Indices, KeysOf

(* A set() that returns is a Join, or nothing when it inserted no point. *)
LEMMA ReturnsJoins ==
  ASSUME IInv, NEW t \in Thread, writer = t, pc[t] \in {"first", "more"},
         reg[t].value \in Value, reg[t].h \in Handle, Returns(t)
  PROVE  [Ring!Next]_Ring!vars
<1>a. PICK g \in Handle, v \in Value : g = reg[t].h /\ v = reg[t].value
  OBVIOUS
<1>0. TypeOK /\ Threads /\ Agree /\ pc \in [Thread -> Labels] /\ reg \in [Thread -> Registers]
  BY DEF IInv, TypeOK, Registers
<1>1. /\ value_map' = value_map /\ keys' = keys /\ granted' = granted \cup {g} /\ out' = out
      /\ pc'[t] = "idle" /\ \A u \in Thread : u # t => pc'[u] = pc[u]
      /\ reg'[t] = Fresh /\ \A u \in Thread : u # t => reg'[u] = reg[u]
  BY <1>0, <1>a DEF Returns
<1>2. \A u \in Thread : u # t => pc[u] \notin {"first", "more", "erase"}
  BY <1>0, OnlyOneErases
<1>3. \A h : ~Leaving(h) /\ ~Leaving(h)'
  BY <1>1, <1>2 DEF Leaving
<1>4. \A u \in Thread : reg'[u].point = reg[u].point
  BY <1>0, <1>1 DEF Threads, InHand, Setting, Fresh
<1>5. g \notin granted
  BY <1>0, <1>a DEF Threads, OwnHandle, Setting
<1>6. \A h \in Handle : (h \in Members <=> h \in granted) /\ ((h \in Members)' <=> h \in granted \/ h = g)
  BY <1>1, <1>3, MembersAreGranted DEF Members
<1>7. \A h : KeysOf(h)' = KeysOf(h)
  BY <1>1 DEF KeysOf
<1>8. \A h \in Handle : h # g => MemberPoints(h)' = MemberPoints(h) /\ MemberValue(h)' = MemberValue(h)
  BY <1>1, <1>6, <1>7 DEF MemberPoints, MemberValue
<1>9. MemberPoints(g) = {} /\ MemberValue(g) = None
  BY <1>5, <1>6 DEF MemberPoints, MemberValue
<1>10. CASE pc[t] = "first"
  <2>1. keys[g] = <<>>
    BY <1>0, <1>10, <1>a DEF Threads, KeysInUse
  <2>2. KeysOf(g) = {}
    BY <2>1 DEF KeysOf
  <2>3. MemberPoints(g)' = {} /\ MemberValue(g)' = None
    BY <1>1, <1>7, <2>1, <2>2 DEF MemberPoints, MemberValue
  <2>4. Stutters
    BY <1>8, <1>9, <2>3 DEF Stutters
  <2>5. QED
    BY <1>1, <1>4, <2>4, RingStutters
<1>11. CASE pc[t] = "more"
  <2>1. keys[g] # <<>>
    BY <1>0, <1>11, <1>a DEF Threads, KeysInUse
  <2>2. 1 \in Indices(g) /\ keys[g][1] \in KeysOf(g)
    BY <1>0, <2>1, FirstKey
  <2>3. value_map[keys[g][1]] = v
    BY <1>0, <1>11, <1>a, <2>2 DEF Agree, OneValue
  <2>4. MemberPoints(g)' = KeysOf(g) /\ MemberValue(g)' = v
    BY <1>1, <1>6, <1>7, <2>1, <2>3 DEF MemberPoints, MemberValue
  <2>5. KeysOf(g) \in SUBSET Point /\ KeysOf(g) # {}
    BY <1>0, <2>2, KeyTypes DEF KeysOf, Indices
  <2>6. ASSUME NEW h \in Handle, NEW q \in KeysOf(g), q \in MemberPoints(h)
        PROVE  FALSE
    <3>1. h # g /\ q \in KeysOf(h)
      BY <1>9, <2>6 DEF MemberPoints
    <3>2. PICK i \in Indices(h) : keys[h][i] = q
      BY <3>1 DEF KeysOf, Indices
    <3>3. PICK j \in Indices(g) : keys[g][j] = q
      BY <2>6 DEF KeysOf, Indices
    <3>4. QED
      BY <1>0, <3>1, <3>2, <3>3 DEF Agree, KeysAreDistinct
  <2>7. KeysOf(g) \cap UNION {MemberPoints(h) : h \in Handle} = {}
    BY <2>6
  <2>8. PICK S \in SUBSET Point : S = KeysOf(g)
    BY <2>5
  <2>9. Ring!Join(g, v, S)
    <3>1. [h \in Handle |-> MemberPoints(h)]' = [[h \in Handle |-> MemberPoints(h)] EXCEPT ![g] = S]
      BY <1>8, <2>4, <2>8
    <3>2. [h \in Handle |-> MemberValue(h)]' = [[h \in Handle |-> MemberValue(h)] EXCEPT ![g] = v]
      BY <1>8, <2>4
    <3>3. [h \in Handle |-> MemberPoints(h)][g] = {}
      BY <1>9
    <3>4. S \cap UNION {[f \in Handle |-> MemberPoints(f)][h] : h \in Handle} = {}
      BY <2>7, <2>8
    <3>5. [u \in Thread |-> reg[u].point]' = [u \in Thread |-> reg[u].point] /\ out' = out
      BY <1>1, <1>4
    <3>6. QED
      BY <2>5, <2>8, <3>1, <3>2, <3>3, <3>4, <3>5 DEF Ring!Join, Ring!Taken, MemberPoints, MemberValue
  <2>10. S \in SUBSET Ring!Point
    BY <2>8 DEF Ring!Point, Point
  <2>11. QED
    BY <2>9, <2>10 DEF Ring!Next
<1>12. QED
  BY <1>10, <1>11

(* The points of a set() under way are not seen. *)
LEMMA InsertIsHidden ==
  ASSUME IInv, NEW t \in Thread, writer = t, pc[t] \in {"first", "more"},
         reg[t].h \in Handle, NEW p \in Point, Inserts(t, p)
  PROVE  UNCHANGED Ring!vars
<1>a. PICK g \in Handle : g = reg[t].h
  OBVIOUS
<1>0. TypeOK /\ Threads /\ Agree /\ pc \in [Thread -> Labels] /\ reg \in [Thread -> Registers]
  BY DEF IInv, TypeOK, Registers
<1>b. PICK n \in Nat : reg' = [reg EXCEPT ![t] = [reg[t] EXCEPT !.i = n]]
  BY DEF Inserts
<1>1. /\ granted' = granted /\ out' = out
      /\ pc'[t] = "more" /\ \A u \in Thread : u # t => pc'[u] = pc[u]
      /\ \A h \in Handle : h # g => keys'[h] = keys[h]
      /\ value_map[p] = None /\ \A q \in Point : q # p => value_map'[q] = value_map[q]
  BY <1>0, <1>a DEF Inserts, TypeOK
<1>2. \A u \in Thread : u # t => pc[u] \notin {"first", "more", "erase"}
  BY <1>0, OnlyOneErases
<1>3. \A h : ~Leaving(h) /\ ~Leaving(h)'
  BY <1>1, <1>2 DEF Leaving
<1>4. \A u \in Thread : reg'[u].point = reg[u].point
  BY <1>0, <1>b DEF Registers
<1>5. g \notin granted
  BY <1>0, <1>a DEF Threads, OwnHandle, Setting
<1>6. \A h \in Handle : (h \in Members <=> h \in granted) /\ ((h \in Members)' <=> h \in granted)
  BY <1>1, <1>3, MembersAreGranted DEF Members
<1>7. ASSUME NEW h \in Handle, h # g
      PROVE  MemberPoints(h)' = MemberPoints(h) /\ MemberValue(h)' = MemberValue(h)
  <2>1. keys'[h] = keys[h] /\ KeysOf(h)' = KeysOf(h)
    BY <1>1, <1>7 DEF KeysOf
  <2>2. CASE keys[h] = <<>>
    BY <1>6, <2>1, <2>2 DEF MemberPoints, MemberValue
  <2>3. CASE keys[h] # <<>>
    <3>1. 1 \in Indices(h) /\ keys[h][1] \in Point
      BY <1>0, <2>3, FirstKey
    <3>2. ~Erased(h, 1)
      BY <1>3 DEF Erased, Leaving
    <3>3. value_map[keys[h][1]] # None
      BY <1>0, <3>1, <3>2 DEF Agree, KeysAreEntries
    <3>4. value_map'[keys'[h][1]] = value_map[keys[h][1]]
      BY <1>1, <2>1, <3>1, <3>3
    <3>5. QED
      BY <1>6, <2>1, <3>4 DEF MemberPoints, MemberValue
  <2>4. QED
    BY <2>2, <2>3
<1>8. MemberPoints(g)' = MemberPoints(g) /\ MemberValue(g)' = MemberValue(g)
  BY <1>5, <1>6 DEF MemberPoints, MemberValue
<1>9. QED
  BY <1>1, <1>4, <1>7, <1>8, RingStutters DEF Stutters

(* A remove() leaves when it takes the lock. *)
LEMMA RemoveLeaves ==
  ASSUME IInv, NEW t \in Thread, RemoveLock(t)
  PROVE  [Ring!Next]_Ring!vars
<1>0. TypeOK /\ Threads /\ Agree /\ pc \in [Thread -> Labels] /\ reg \in [Thread -> Registers]
  BY DEF IInv, TypeOK, Registers
<1>1. /\ writer = None /\ pc[t] = "removelock" /\ UNCHANGED <<value_map, keys, granted, out>>
      /\ pc' = [pc EXCEPT ![t] = "erase"] /\ reg' = [reg EXCEPT ![t] = [reg[t] EXCEPT !.i = 1]]
  BY DEF RemoveLock, Unlocked, Goto
<1>2. reg[t].h \in granted
  BY <1>0, <1>1, NoneIsApart DEF Threads, KeysInUse, Removing, Undo
<1>a. PICK g \in Handle : g = reg[t].h
  BY <1>0, <1>2 DEF TypeOK
<1>3. /\ pc'[t] = "erase" /\ reg'[t].h = g /\ reg'[t].point = reg[t].point
      /\ \A u \in Thread : u # t => pc'[u] = pc[u] /\ reg'[u] = reg[u]
  <2>1. reg[t] \in Registers
    BY <1>0
  <2>2. QED
    BY <1>0, <1>1, <1>a, <2>1 DEF Registers
<1>4. \A u \in Thread : pc[u] \notin {"first", "more", "erase"}
  BY <1>0, <1>1, NoneIsApart DEF Threads, Locking
<1>5. \A h : ~Leaving(h) /\ (Leaving(h)' <=> h = g)
  BY <1>3, <1>4 DEF Leaving
<1>6. \A h \in Handle : (h \in Members <=> h \in granted) /\ ((h \in Members)' <=> h \in granted /\ h # g)
  BY <1>1, <1>5, MembersAreGranted DEF Members
<1>7. \A h : KeysOf(h)' = KeysOf(h)
  BY <1>1 DEF KeysOf
<1>8. \A h \in Handle : h # g => MemberPoints(h)' = MemberPoints(h) /\ MemberValue(h)' = MemberValue(h)
  BY <1>1, <1>6, <1>7 DEF MemberPoints, MemberValue
<1>9. MemberPoints(g)' = {} /\ MemberValue(g)' = None
  BY <1>6 DEF MemberPoints, MemberValue
<1>10. CASE keys[g] = <<>>
  <2>1. KeysOf(g) = {}
    BY <1>10 DEF KeysOf
  <2>2. MemberPoints(g) = {} /\ MemberValue(g) = None
    BY <1>10, <2>1 DEF MemberPoints, MemberValue
  <2>3. QED
    BY <1>1, <1>3, <1>8, <1>9, <2>2, RingStutters DEF Stutters
<1>11. CASE keys[g] # <<>>
  <2>1. MemberPoints(g) # {}
    BY <1>0, <1>11, <1>2, <1>6, <1>a, FirstKey DEF MemberPoints
  <2>2. Ring!Leave(g)
    <3>1. [h \in Handle |-> MemberPoints(h)]' = [[h \in Handle |-> MemberPoints(h)] EXCEPT ![g] = {}]
      BY <1>8, <1>9
    <3>2. [h \in Handle |-> MemberValue(h)]' = [[h \in Handle |-> MemberValue(h)] EXCEPT ![g] = None]
      BY <1>8, <1>9
    <3>3. [h \in Handle |-> MemberPoints(h)][g] # {}
      BY <2>1
    <3>4. [u \in Thread |-> reg[u].point]' = [u \in Thread |-> reg[u].point] /\ out' = out
      BY <1>1, <1>3
    <3>5. QED
      BY <3>1, <3>2, <3>3, <3>4 DEF Ring!Leave, MemberPoints, MemberValue
  <2>3. QED
    BY <2>2 DEF Ring!Next
<1>12. QED
  BY <1>10, <1>11

(* What a remove() erases was gone from the ring before. *)
LEMMA EraseIsHidden ==
  ASSUME IInv, NEW t \in Thread, RemoveErase(t)
  PROVE  UNCHANGED Ring!vars
<1>0. TypeOK /\ Threads /\ Agree /\ pc \in [Thread -> Labels] /\ reg \in [Thread -> Registers]
  BY DEF IInv, TypeOK, Registers
<1>1. /\ writer = t /\ pc[t] = "erase" /\ reg[t].h \in Handle
      /\ reg[t].i \in Nat /\ Len(keys[reg[t].h]) \in Nat
      /\ ErasesOne(t) \/ ErasesNoMore(t)
  BY <1>0, EraseSteps
<1>a. PICK g \in Handle, n \in Nat : g = reg[t].h /\ n = reg[t].i
  BY <1>1
<1>2. \A u \in Thread : u # t => pc[u] \notin {"first", "more", "erase"}
  BY <1>0, <1>1, OnlyOneErases
<1>3. \A h : Leaving(h) <=> h = g
  BY <1>1, <1>2, <1>a DEF Leaving
<1>4. MemberPoints(g) = {} /\ MemberValue(g) = None
  BY <1>3 DEF MemberPoints, MemberValue, Members
<1>5. CASE ErasesOne(t)
  <2>1. /\ keys' = keys /\ granted' = granted /\ pc' = pc /\ out' = out /\ n \in Indices(g)
        /\ value_map' = [value_map EXCEPT ![keys[g][n]] = None]
        /\ reg' = [reg EXCEPT ![t] = [reg[t] EXCEPT !.i = n + 1]]
    BY <1>5, <1>a DEF ErasesOne
  <2>2. /\ reg'[t].h = g /\ \A u \in Thread : u # t => reg'[u] = reg[u]
        /\ \A u \in Thread : reg'[u].point = reg[u].point
    <3>1. reg[t] \in Registers
      BY <1>0
    <3>2. QED
      BY <1>0, <1>a, <2>1, <3>1 DEF Registers
  <2>3. \A h : Leaving(h)' <=> h = g
    BY <1>1, <1>2, <2>1, <2>2 DEF Leaving
  <2>4. \A h \in Handle : (h \in Members)' <=> h \in Members
    BY <1>3, <2>1, <2>3 DEF Members
  <2>5. \A h : KeysOf(h)' = KeysOf(h)
    BY <2>1 DEF KeysOf
  <2>6. ASSUME NEW h \in Handle, h # g, keys[h] # <<>>
        PROVE  value_map'[keys[h][1]] = value_map[keys[h][1]]
    <3>1. 1 \in Indices(h) /\ keys[h][1] \in Point
      BY <1>0, <2>6, FirstKey
    <3>2. keys[h][1] # keys[g][n]
      BY <1>0, <2>1, <2>6, <3>1 DEF Agree, KeysAreDistinct
    <3>3. QED
      BY <1>0, <2>1, <3>1, <3>2 DEF TypeOK
  <2>7. g \notin Members
    BY <1>3 DEF Members
  <2>8. Stutters
    BY <2>1, <2>4, <2>5, <2>6, <2>7 DEF Stutters, MemberPoints, MemberValue
  <2>9. QED
    BY <2>1, <2>2, <2>8, RingStutters
<1>6. CASE ErasesNoMore(t)
  <2>1. /\ value_map' = value_map /\ granted' = granted /\ out' = out
        /\ keys'[g] = <<>> /\ \A h \in Handle : h # g => keys'[h] = keys[h]
        /\ pc'[t] = "idle" /\ reg'[t] = Fresh
        /\ \A u \in Thread : u # t => pc'[u] = pc[u] /\ reg'[u] = reg[u]
    BY <1>0, <1>6, <1>a DEF ErasesNoMore, TypeOK
  <2>2. \A h : ~Leaving(h)'
    BY <1>2, <2>1 DEF Leaving
  <2>3. \A h \in Handle : h # g => ((h \in Members)' <=> h \in Members)
    BY <1>3, <2>1, <2>2 DEF Members
  <2>4. \A h \in Handle : h # g => KeysOf(h)' = KeysOf(h)
    BY <2>1 DEF KeysOf
  <2>5. KeysOf(g)' = {}
    BY <2>1 DEF KeysOf
  <2>6. MemberPoints(g)' = {} /\ MemberValue(g)' = None
    BY <2>1, <2>5 DEF MemberPoints, MemberValue
  <2>7. Stutters
    BY <1>4, <2>1, <2>3, <2>4, <2>6 DEF Stutters, MemberPoints, MemberValue
  <2>8. \A u \in Thread : reg'[u].point = reg[u].point
    BY <1>0, <1>1, <2>1 DEF Threads, InHand, Removing, Fresh
  <2>9. QED
    BY <2>1, <2>7, <2>8, RingStutters
<1>7. QED
  BY <1>1, <1>5, <1>6

(* With the lock shared, the points of the members are the entries. *)
LEMMA TakenAreEntries ==
  ASSUME IInv, writer = None
  PROVE  /\ UNION {MemberPoints(h) : h \in Handle} = Entries
         /\ \A h \in Handle : \A q \in MemberPoints(h) : value_map[q] = MemberValue(h)
<1>0. TypeOK /\ Threads /\ Agree
  BY DEF IInv
<1>1. \A u \in Thread : pc[u] \notin {"first", "more", "erase"} /\ ~Undo(u)
  BY <1>0, NoneIsApart DEF Threads, Locking, Undo
<1>2. \A h, i : ~Erased(h, i) /\ ~Leaving(h)
  BY <1>1 DEF Erased, Leaving
<1>3. ASSUME NEW h \in Handle, NEW q \in MemberPoints(h)
      PROVE  q \in Entries /\ value_map[q] = MemberValue(h)
  <2>1. h \in Members /\ q \in KeysOf(h)
    BY <1>3 DEF MemberPoints
  <2>2. PICK i \in Indices(h) : keys[h][i] = q
    BY <2>1 DEF KeysOf, Indices
  <2>3. q \in Point /\ value_map[q] # None
    BY <1>0, <1>2, <2>2, KeyTypes DEF Agree, KeysAreEntries
  <2>4. keys[h] # <<>>
    BY <2>2 DEF Indices
  <2>5. value_map[q] = value_map[keys[h][1]]
    BY <1>0, <1>2, <2>2, <2>4, FirstKey DEF Agree, OneValue
  <2>6. QED
    BY <2>1, <2>3, <2>4, <2>5 DEF MemberValue, Entries
<1>4. ASSUME NEW q \in Entries
      PROVE  \E h \in Handle : q \in MemberPoints(h)
  <2>1. PICK h \in Handle : \E i \in Indices(h) : keys[h][i] = q
    BY <1>0 DEF Agree, EntriesAreKeys, Entries
  <2>2. q \in KeysOf(h) /\ keys[h] # <<>>
    BY <2>1 DEF KeysOf, Indices
  <2>3. h \in granted
    BY <1>0, <1>1, <2>2 DEF Threads, KeysInUse
  <2>4. h \in Members
    BY <1>2, <2>3, MembersAreGranted
  <2>5. QED
    BY <2>2, <2>4 DEF MemberPoints
<1>5. QED
  BY <1>3, <1>4

(* An empty map is an empty ring, whoever holds the lock. *)
LEMMA NoEntryNoMember ==
  ASSUME IInv, Entries = {}
  PROVE  \A h \in Handle : MemberPoints(h) = {}
<1>1. ASSUME NEW h \in Handle, NEW q \in MemberPoints(h)
      PROVE  FALSE
  <2>1. ~Leaving(h) /\ q \in KeysOf(h)
    BY <1>1, MembersAreGranted DEF MemberPoints
  <2>2. PICK i \in Indices(h) : keys[h][i] = q
    BY <2>1 DEF KeysOf, Indices
  <2>3. ~Erased(h, i)
    BY <2>1 DEF Erased, Leaving
  <2>4. keys[h][i] \in Point /\ value_map[keys[h][i]] # None
    BY <2>2, <2>3, KeyTypes DEF IInv, Agree, KeysAreEntries
  <2>5. QED
    BY <2>4 DEF Entries
<1>2. QED
  BY <1>1

(* The test without the lock answers for an empty ring, or goes on. *)
LEMMA AnswerOfEmpty ==
  ASSUME IInv, NEW t \in Thread, GetEmpty(t)
  PROVE  [Ring!Next]_Ring!vars
<1>0. TypeOK /\ Threads /\ pc \in [Thread -> Labels] /\ reg \in [Thread -> Registers]
      /\ out \in [Thread -> Value \cup {NoValue, None}]
  BY DEF IInv, TypeOK, Registers
<1>1. pc[t] = "empty" /\ UNCHANGED <<value_map, keys, granted>>
  BY DEF GetEmpty, Goto
<1>2. CASE Entries = {} /\ pc' = [pc EXCEPT ![t] = "idle"] /\ reg' = [reg EXCEPT ![t] = Fresh]
           /\ out' = [out EXCEPT ![t] = NoValue]
  <2>1. Stutters
    BY <1>0, <1>1, <1>2, QuietStep DEF Labels
  <2>2. reg[t].point \in Point /\ reg[t].point # None
    BY <1>0, <1>1, NoneIsApart DEF Threads, InHand, Asking
  <2>3. [u \in Thread |-> reg[u].point]' = [[u \in Thread |-> reg[u].point] EXCEPT ![t] = None]
    BY <1>0, <1>2 DEF Fresh
  <2>4. UNION {[f \in Handle |-> MemberPoints(f)][h] : h \in Handle} = {}
    BY <1>2, NoEntryNoMember
  <2>5. UNCHANGED <<[h \in Handle |-> MemberPoints(h)], [h \in Handle |-> MemberValue(h)]>>
    BY <2>1 DEF Stutters
  <2>6. Ring!Answer(t)
    BY <1>2, <2>2, <2>3, <2>4, <2>5 DEF Ring!Answer, Ring!Lookup, Ring!Taken, MemberPoints, MemberValue
  <2>7. QED
    BY <2>6 DEF Ring!Next
<1>3. CASE pc' = [pc EXCEPT ![t] = "getlock"] /\ reg' = [reg EXCEPT ![t] = reg[t]] /\ out' = out
  BY <1>0, <1>1, <1>3, QuietStep, RingStutters DEF Labels
<1>4. QED
  BY <1>0, <1>2, <1>3 DEF GetEmpty, Goto

(* The entry found under the lock is the next point of the ring. *)
LEMMA AnswerOfMember ==
  ASSUME IInv, NEW t \in Thread, GetFind(t)
  PROVE  [Ring!Next]_Ring!vars
<1>0. TypeOK /\ Threads /\ pc \in [Thread -> Labels] /\ reg \in [Thread -> Registers]
      /\ out \in [Thread -> Value \cup {NoValue, None}]
  BY DEF IInv, TypeOK, Registers
<1>1. pc[t] = "find" /\ UNCHANGED <<value_map, keys, granted>>
  BY DEF GetFind, Goto
<1>2. writer = None
  BY <1>0, <1>1 DEF Threads, Locking
<1>a. PICK p \in Point : p = reg[t].point
  BY <1>0, <1>1 DEF Threads, InHand, Asking
<1>3. CASE Entries # {} /\ pc' = [pc EXCEPT ![t] = "idle"] /\ reg' = [reg EXCEPT ![t] = Fresh]
           /\ out' = [out EXCEPT ![t] = value_map[LowerBound(p)]]
  <2>1. Stutters
    BY <1>0, <1>1, <1>3, QuietStep DEF Labels
  <2>2. [u \in Thread |-> reg[u].point][t] = p /\ p # None
    BY <1>a, NoneIsApart
  <2>3. [u \in Thread |-> reg[u].point]' = [[u \in Thread |-> reg[u].point] EXCEPT ![t] = None]
    BY <1>0, <1>3 DEF Fresh
  <2>4. UNION {[f \in Handle |-> MemberPoints(f)][h] : h \in Handle} = Entries
    BY <1>2, TakenAreEntries
  <2>b. PICK q : q = LowerBound(p)
    OBVIOUS
  <2>5. Ring!Successor(Entries, p) = q /\ q \in Entries
    BY <1>3, <2>b, LowerBoundIsEntry DEF LowerBound, Ring!Successor
  <2>6. PICK f : f = CHOOSE h \in Handle : q \in [e \in Handle |-> MemberPoints(e)][h]
    OBVIOUS
  <2>7. f \in Handle /\ q \in MemberPoints(f)
    <3>1. \E h \in Handle : q \in [e \in Handle |-> MemberPoints(e)][h]
      BY <2>4, <2>5
    <3>2. f \in Handle /\ q \in [e \in Handle |-> MemberPoints(e)][f]
      BY <2>6, <3>1
    <3>3. QED
      BY <3>2
  <2>8. [h \in Handle |-> MemberValue(h)][f] = value_map[q]
    BY <1>2, <2>7, TakenAreEntries
  <2>9. UNCHANGED <<[h \in Handle |-> MemberPoints(h)], [h \in Handle |-> MemberValue(h)]>>
    BY <2>1 DEF Stutters
  <2>10. Ring!Taken = Entries
    BY <2>4 DEF Ring!Taken, MemberPoints
  <2>11. Ring!Lookup(p) = value_map[q]
    BY <1>3, <2>10, <2>5, <2>6, <2>8 DEF Ring!Lookup, MemberPoints, MemberValue
  <2>12. Ring!Answer(t)
    BY <1>3, <2>2, <2>3, <2>9, <2>11, <2>b DEF Ring!Answer, MemberPoints, MemberValue
  <2>13. QED
    BY <2>12 DEF Ring!Next
<1>4. CASE pc' = [pc EXCEPT ![t] = "crashed"] /\ reg' = [reg EXCEPT ![t] = reg[t]] /\ out' = out
  BY <1>0, <1>1, <1>4, QuietStep, RingStutters DEF Labels
<1>5. QED
  BY <1>0, <1>3, <1>4, <1>a DEF GetFind, Goto

(* A get() asks when it begins. *)
LEMMA AskOfMember ==
  ASSUME IInv, NEW t \in Thread, NEW p \in Point, GetBegin(t, p)
  PROVE  Ring!Next
<1>0. TypeOK /\ Threads /\ pc \in [Thread -> Labels] /\ reg \in [Thread -> Registers]
  BY DEF IInv, TypeOK, Registers
<1>1. /\ pc[t] = "idle" /\ UNCHANGED <<value_map, keys, granted>>
      /\ pc' = [pc EXCEPT ![t] = "empty"] /\ reg' = [reg EXCEPT ![t] = [reg[t] EXCEPT !.point = p]]
      /\ out' = [out EXCEPT ![t] = None]
  BY DEF GetBegin, Goto
<1>2. Stutters
  BY <1>0, <1>1, QuietStep DEF Labels
<1>3. UNCHANGED <<[h \in Handle |-> MemberPoints(h)], [h \in Handle |-> MemberValue(h)]>>
  BY <1>2 DEF Stutters
<1>4. [u \in Thread |-> reg[u].point][t] = None
  BY <1>0, <1>1 DEF Threads, InHand
<1>5. [u \in Thread |-> reg[u].point]' = [[u \in Thread |-> reg[u].point] EXCEPT ![t] = p]
  <2>1. reg[t] \in Registers
    BY <1>0
  <2>2. QED
    BY <1>0, <1>1, <2>1 DEF Registers
<1>6. Ring!Ask(t, p)
  BY <1>1, <1>3, <1>4, <1>5 DEF Ring!Ask, MemberPoints, MemberValue
<1>7. p \in Ring!Point
  BY DEF Ring!Point, Point
<1>8. QED
  BY <1>6, <1>7 DEF Ring!Next

(* Every step of the container is a step of the ring or a stutter. *)
LEMMA RingStep ==
  ASSUME IInv, NEW t \in Thread, Action(t)
  PROVE  [Ring!Next]_Ring!vars
<1>0. TypeOK /\ Threads /\ pc \in [Thread -> Labels] /\ reg \in [Thread -> Registers]
  BY DEF IInv, TypeOK, Registers
<1>r. reg = [reg EXCEPT ![t] = reg[t]] /\ reg[t] \in Registers
  BY <1>0
<1>q. ASSUME UNCHANGED <<value_map, keys, granted, out>>,
             NEW a \in Labels \ {"erase"}, NEW r,
             pc' = [pc EXCEPT ![t] = a], reg' = [reg EXCEPT ![t] = r],
             pc[t] # "erase", r.point = reg[t].point
      PROVE  [Ring!Next]_Ring!vars
  BY <1>0, <1>q, QuietStep, RingStutters
<1>1. ASSUME NEW k \in Key, NEW v \in Value, NEW h \in Handle, NEW n \in 1 .. Len(points[k]), SetBegin(t, k, v, n, h)
      PROVE  [Ring!Next]_Ring!vars
  <2> DEFINE r == [reg[t] EXCEPT !.key = k, !.value = v, !.cnt = n, !.h = h]
  <2>1. /\ pc[t] = "idle" /\ pc' = [pc EXCEPT ![t] = "setlock"]
        /\ UNCHANGED <<value_map, keys, granted, out>>
        /\ reg' = [reg EXCEPT ![t] = r]
    BY <1>1 DEF SetBegin, Goto
  <2>2. r.point = reg[t].point
    BY <1>r DEF Registers
  <2>3. QED
    BY <1>q, <2>1, <2>2 DEF Labels
<1>2. ASSUME NEW h \in Handle, RemoveBegin(t, h)
      PROVE  [Ring!Next]_Ring!vars
  <2> DEFINE r == [reg[t] EXCEPT !.h = h]
  <2>1. /\ pc[t] = "idle" /\ pc' = [pc EXCEPT ![t] = "removelock"]
        /\ UNCHANGED <<value_map, keys, granted, out>>
        /\ reg' = [reg EXCEPT ![t] = r]
    BY <1>2 DEF RemoveBegin, Goto
  <2>2. r.point = reg[t].point
    BY <1>r DEF Registers
  <2>3. QED
    BY <1>q, <2>1, <2>2 DEF Labels
<1>3. ASSUME NEW p \in Point, GetBegin(t, p)
      PROVE  [Ring!Next]_Ring!vars
  BY <1>3, AskOfMember
<1>4. CASE SetLock(t) \/ GetLock(t)
  <2>1. PICK a \in {"first", "find"} : pc' = [pc EXCEPT ![t] = a]
    BY <1>4 DEF SetLock, GetLock, Goto
  <2>2. /\ pc[t] # "erase" /\ UNCHANGED <<value_map, keys, granted, out>>
        /\ reg' = [reg EXCEPT ![t] = reg[t]]
    BY <1>4, <1>r DEF SetLock, GetLock, Goto
  <2>3. QED
    BY <1>q, <2>1, <2>2 DEF Labels
<1>5. CASE SetFirst(t) \/ SetNext(t)
  <2>1. /\ writer = t /\ pc[t] \in {"first", "more"}
        /\ reg[t].value \in Value /\ reg[t].h \in Handle
        /\ Returns(t) \/ (\E p \in Point : Inserts(t, p)) \/ Undoes(t)
    BY <1>0, <1>5, SetSteps
  <2>2. CASE Returns(t)
    BY <2>1, <2>2, ReturnsJoins
  <2>3. CASE \E p \in Point : Inserts(t, p)
    BY <2>1, <2>3, InsertIsHidden
  <2>4. CASE Undoes(t)
    <3>1. /\ pc' = [pc EXCEPT ![t] = "removelock"] /\ UNCHANGED <<value_map, keys, granted, out>>
          /\ reg' = [reg EXCEPT ![t] = reg[t]]
      BY <1>r, <2>4 DEF Undoes
    <3>2. QED
      BY <1>q, <2>1, <3>1 DEF Labels
  <2>5. QED
    BY <2>1, <2>2, <2>3, <2>4
<1>6. CASE RemoveLock(t)
  BY <1>6, RemoveLeaves
<1>7. CASE RemoveErase(t)
  BY <1>7, EraseIsHidden
<1>8. CASE GetEmpty(t)
  BY <1>8, AnswerOfEmpty
<1>9. CASE GetFind(t)
  BY <1>9, AnswerOfMember
<1>10. CASE Step(t)
  BY <1>4, <1>5, <1>6, <1>7, <1>8, <1>9, <1>10 DEF Step
<1>11. QED
  BY <1>1, <1>2, <1>3, <1>10 DEF Action

(* The empty container is the empty ring. *)
LEMMA RingInitially == Init => Ring!Init
<1> SUFFICES ASSUME Init PROVE Ring!Init
  OBVIOUS
<1>1. /\ \A h \in Handle : keys[h] = <<>> /\ h \notin Members
      /\ \A t \in Thread : reg[t].point = None
      /\ out = [t \in Thread |-> None]
  BY DEF Init, Members, Fresh
<1>2. QED
  BY <1>1 DEF Ring!Init

(* The container is a hash ring for any number of threads, handles, keys    *)
(* and points: a set() joins with all its points when it returns, a        *)
(* remove() leaves with all of them when it takes the lock, and get()      *)
(* answers for the ring of one instant, its unlocked test included.        *)
THEOREM ContainerImplementsRing == Spec => ImplementsHashRing
<1>1. IInv /\ [Next]_vars => [Ring!Next]_Ring!vars
  <2> SUFFICES ASSUME IInv, [Next]_vars PROVE [Ring!Next]_Ring!vars
    OBVIOUS
  <2>1. CASE Next
    <3>1. PICK t \in Thread : Action(t)
      BY <2>1 DEF Next, Action
    <3>2. QED
      BY <3>1, RingStep
  <2>2. CASE UNCHANGED vars
    <3>1. UNCHANGED <<value_map, keys, granted, reg, pc, out>>
      BY <2>2 DEF vars
    <3>2. \A h : Leaving(h)' <=> Leaving(h)
      BY <3>1 DEF Leaving
    <3>3. QED
      BY <3>1, <3>2, SameMembers, RingStutters
  <2>3. QED
    BY <2>1, <2>2
<1>2. QED
  BY <1>1, ContainerInvariant, RingInitially, PTL DEF Spec, ImplementsHashRing, Ring!Spec
=============================================================================
