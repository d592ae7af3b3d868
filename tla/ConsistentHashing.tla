-------------------------- MODULE ConsistentHashing --------------------------
(***************************************************************************)
(* experiment/consistent_hashing/consistent_hashing.hpp: a map from points *)
(* of a ring to values behind a shared mutex.  set() inserts the points of *)
(* a key one by one and undoes them when one is taken; handle::remove()    *)
(* erases them; get() finds the next point.  Only get()'s test for an      *)
(* empty map is made without the lock.                                     *)
(*                                                                         *)
(* A handle is used through one object: copies of it are not modelled.     *)
(***************************************************************************)
EXTENDS Naturals, Sequences, FiniteSets

CONSTANTS
  Thread,   \* the callers
  Handle,   \* the handles that set() returns, one for each call
  Key,      \* what members are set under
  NPoints,  \* the size of the ring, 2^32 in the code
  points,   \* hash_value and hash_combine: key -> its points in order
  Value,    \* what is stored
  NoValue,  \* T()
  None      \* no thread, no value, no handle

Point == 0 .. NPoints - 1

ASSUME RingAssumption ==
  /\ NPoints \in Nat \ {0}
  /\ points \in [Key -> Seq(Point)]
  /\ \A k \in Key : points[k] # <<>>
  /\ NoValue \notin Value
  /\ None \notin Value \cup Thread \cup Handle \cup Point \cup {NoValue}

VARIABLES
  value_map,  \* point -> value, None where the map has no entry
  keys,       \* handle -> _hash_keys
  granted,    \* the handles that set() has returned
  writer,     \* rwmutex: the thread that holds it alone
  readers,    \* rwmutex: the threads that share it
  pc,         \* where each thread is
  reg,        \* the local variables of each thread
  out         \* what the last get() of each thread returned

vars == <<value_map, keys, granted, writer, readers, pc, reg, out>>

(* key, value, cnt: the arguments of set.  h: the handle.  i: the loop's     *)
(* place.  point: the hash that get looks up.                              *)
Fresh == [key |-> None, value |-> None, cnt |-> 0, h |-> None, i |-> 0, point |-> None]

Goto(t, from, to) == pc[t] = from /\ pc' = [pc EXCEPT ![t] = to]

Entries == {p \in Point : value_map[p] # None}

Unlocked == writer = None /\ readers = {}

Init ==
  /\ value_map = [p \in Point |-> None]
  /\ keys = [h \in Handle |-> <<>>]
  /\ granted = {}
  /\ writer = None
  /\ readers = {}
  /\ pc = [t \in Thread |-> "idle"]
  /\ reg = [t \in Thread |-> Fresh]
  /\ out = [t \in Thread |-> None]

-----------------------------------------------------------------------------
(* set( key, value, cnt ), up to the lock. *)
SetBegin(t, k, v, n, h) ==
  /\ h \notin granted
  /\ \A u \in Thread : reg[u].h # h
  /\ Goto(t, "idle", "setlock")
  /\ reg' = [reg EXCEPT ![t] = [@ EXCEPT !.key = k, !.value = v, !.cnt = n, !.h = h]]
  /\ UNCHANGED <<value_map, keys, granted, writer, readers, out>>

SetLock(t) ==
  /\ Unlocked
  /\ Goto(t, "setlock", "first")
  /\ writer' = t
  /\ UNCHANGED <<value_map, keys, granted, readers, reg, out>>

(* set_one: insert does not replace an entry. *)
SetOne(p, v) == value_map' = [value_map EXCEPT ![p] = IF @ = None THEN v ELSE @]

(* set() returns its handle, and the lock is released. *)
SetReturn(t) ==
  /\ granted' = granted \cup {reg[t].h}
  /\ writer' = None
  /\ reg' = [reg EXCEPT ![t] = Fresh]

(* The first point: if it is taken, the handle stays empty. *)
SetFirst(t) ==
  LET r == reg[t]
      p == points[r.key][1] IN
  /\ pc[t] = "first"
  /\ SetOne(p, r.value)
  /\ \/ /\ value_map[p] = None
        /\ Goto(t, "first", "more")
        /\ keys' = [keys EXCEPT ![r.h] = Append(@, p)]
        /\ reg' = [reg EXCEPT ![t].i = 2]
        /\ UNCHANGED <<granted, writer>>
     \/ /\ value_map[p] # None
        /\ Goto(t, "first", "idle")
        /\ SetReturn(t)
        /\ UNCHANGED keys
  /\ UNCHANGED <<readers, out>>

(* Wrong: the lock is released before the other points are inserted. *)
SetNext_Unlocked(t) ==
  LET r == reg[t] IN
  /\ pc[t] = "more"
  /\ IF r.i > r.cnt
     THEN /\ Goto(t, "more", "idle")
          /\ SetReturn(t)
          /\ UNCHANGED <<value_map, keys>>
     ELSE /\ SetOne(points[r.key][r.i], r.value)
          /\ keys' = [keys EXCEPT ![r.h] = Append(@, points[r.key][r.i])]
          /\ reg' = [reg EXCEPT ![t].i = @ + 1]
          /\ writer' = None
          /\ UNCHANGED <<granted, pc>>
  /\ UNCHANGED <<readers, out>>

(* The other points.  When one is taken, h.remove() is called: it begins    *)
(* with taking the lock that this call holds.                              *)
SetNext(t) ==
  LET r == reg[t]
      p == points[r.key][r.i] IN
  /\ pc[t] = "more"
  /\ \/ /\ r.i > r.cnt
        /\ Goto(t, "more", "idle")
        /\ SetReturn(t)
        /\ UNCHANGED <<value_map, keys>>
     \/ /\ r.i <= r.cnt
        /\ value_map[p] = None
        /\ SetOne(p, r.value)
        /\ keys' = [keys EXCEPT ![r.h] = Append(@, p)]
        /\ reg' = [reg EXCEPT ![t].i = @ + 1]
        /\ UNCHANGED <<granted, writer, pc>>
     \/ /\ r.i <= r.cnt
        /\ value_map[p] # None
        /\ Goto(t, "more", "removelock")
        /\ UNCHANGED <<value_map, keys, granted, writer, reg>>
  /\ UNCHANGED <<readers, out>>

-----------------------------------------------------------------------------
(* handle::remove(), up to the lock. *)
RemoveBegin(t, h) ==
  /\ h \in granted
  /\ Goto(t, "idle", "removelock")
  /\ reg' = [reg EXCEPT ![t].h = h]
  /\ UNCHANGED <<value_map, keys, granted, writer, readers, out>>

(* The mutex is not recursive. *)
RemoveLock(t) ==
  /\ Unlocked
  /\ Goto(t, "removelock", "erase")
  /\ writer' = t
  /\ reg' = [reg EXCEPT ![t].i = 1]
  /\ UNCHANGED <<value_map, keys, granted, readers, out>>

(* Wrong: _hash_keys is not cleared. *)
RemoveErase_KeepsKeys(t) ==
  LET r == reg[t] IN
  /\ pc[t] = "erase"
  /\ IF r.i <= Len(keys[r.h])
     THEN /\ value_map' = [value_map EXCEPT ![keys[r.h][r.i]] = None]
          /\ reg' = [reg EXCEPT ![t].i = @ + 1]
          /\ UNCHANGED <<writer, pc>>
     ELSE /\ Goto(t, "erase", "idle")
          /\ writer' = None
          /\ reg' = [reg EXCEPT ![t] = Fresh]
          /\ UNCHANGED value_map
  /\ UNCHANGED <<keys, granted, readers, out>>

(* Wrong: the lock is kept. *)
RemoveErase_KeepsLock(t) ==
  LET r == reg[t] IN
  /\ pc[t] = "erase"
  /\ IF r.i <= Len(keys[r.h])
     THEN /\ value_map' = [value_map EXCEPT ![keys[r.h][r.i]] = None]
          /\ reg' = [reg EXCEPT ![t].i = @ + 1]
          /\ UNCHANGED <<keys, pc>>
     ELSE /\ Goto(t, "erase", "idle")
          /\ keys' = [keys EXCEPT ![r.h] = <<>>]
          /\ reg' = [reg EXCEPT ![t] = Fresh]
          /\ UNCHANGED value_map
  /\ UNCHANGED <<writer, granted, readers, out>>

(* The entries are erased one by one, then the keys are cleared. *)
RemoveErase(t) ==
  LET r == reg[t] IN
  /\ pc[t] = "erase"
  /\ \/ /\ r.i <= Len(keys[r.h])
        /\ value_map' = [value_map EXCEPT ![keys[r.h][r.i]] = None]
        /\ reg' = [reg EXCEPT ![t].i = @ + 1]
        /\ UNCHANGED <<keys, writer, pc>>
     \/ /\ r.i > Len(keys[r.h])
        /\ Goto(t, "erase", "idle")
        /\ keys' = [keys EXCEPT ![r.h] = <<>>]
        /\ writer' = None
        /\ reg' = [reg EXCEPT ![t] = Fresh]
        /\ UNCHANGED value_map
  /\ UNCHANGED <<granted, readers, out>>

-----------------------------------------------------------------------------
(* get( key ) whose hash is p. *)
GetBegin(t, p) ==
  /\ Goto(t, "idle", "empty")
  /\ reg' = [reg EXCEPT ![t].point = p]
  /\ out' = [out EXCEPT ![t] = None]
  /\ UNCHANGED <<value_map, keys, granted, writer, readers>>

(* value_map.empty(), read without the lock. *)
GetEmpty(t) ==
  /\ \/ /\ Entries = {}
        /\ Goto(t, "empty", "idle")
        /\ out' = [out EXCEPT ![t] = NoValue]
        /\ reg' = [reg EXCEPT ![t] = Fresh]
     \/ /\ Entries # {}
        /\ Goto(t, "empty", "getlock")
        /\ UNCHANGED <<out, reg>>
  /\ UNCHANGED <<value_map, keys, granted, writer, readers>>

GetLock(t) ==
  /\ writer = None
  /\ Goto(t, "getlock", "find")
  /\ readers' = readers \cup {t}
  /\ UNCHANGED <<value_map, keys, granted, writer, reg, out>>

(* lower_bound, or begin() past the last entry. *)
LowerBound(p) ==
  LET after == {q \in Entries : q >= p}
      from  == IF after = {} THEN Entries ELSE after
  IN CHOOSE q \in from : \A r \in from : q <= r

(* The entry found is returned; in an empty map end() is dereferenced. *)
GetFind(t) ==
  /\ \/ /\ Entries # {}
        /\ Goto(t, "find", "idle")
        /\ out' = [out EXCEPT ![t] = value_map[LowerBound(reg[t].point)]]
        /\ readers' = readers \ {t}
        /\ reg' = [reg EXCEPT ![t] = Fresh]
     \/ /\ Entries = {}
        /\ Goto(t, "find", "crashed")
        /\ UNCHANGED <<readers, reg, out>>
  /\ UNCHANGED <<value_map, keys, granted, writer>>

-----------------------------------------------------------------------------
Crashed == \E t \in Thread : pc[t] = "crashed"

Step(t) ==
  \/ SetLock(t) \/ SetFirst(t) \/ SetNext(t)
  \/ RemoveLock(t) \/ RemoveErase(t)
  \/ GetEmpty(t) \/ GetLock(t) \/ GetFind(t)

Next ==
  /\ ~Crashed
  /\ \E t \in Thread :
       \/ \E k \in Key, v \in Value, h \in Handle :
            \E n \in 1 .. Len(points[k]) : SetBegin(t, k, v, n, h)
       \/ \E h \in Handle : RemoveBegin(t, h)
       \/ \E p \in Point : GetBegin(t, p)
       \/ Step(t)

Spec == Init /\ [][Next]_vars

(* Threads run, and the mutex is fair: boost::shared_mutex keeps new readers *)
(* out while a writer waits.                                               *)
Fairness ==
  \A t \in Thread :
    /\ WF_vars(~Crashed /\ Step(t))
    /\ SF_vars(~Crashed /\ (SetLock(t) \/ RemoveLock(t) \/ GetLock(t)))

FairSpec == Spec /\ Fairness
-----------------------------------------------------------------------------
Labels == {"idle", "setlock", "first", "more", "removelock", "erase",
           "empty", "getlock", "find", "crashed"}

(* Every variable is of its kind. *)
TypeOK ==
  /\ value_map \in [Point -> Value \cup {None}]
  /\ keys \in [Handle -> Seq(Point)]
  /\ granted \subseteq Handle
  /\ writer \in Thread \cup {None}
  /\ readers \subseteq Thread
  /\ pc \in [Thread -> Labels]
  /\ reg \in [Thread -> [key : Key \cup {None}, value : Value \cup {None}, cnt : Nat,
                         h : Handle \cup {None}, i : Nat, point : Point \cup {None}]]
  /\ out \in [Thread -> Value \cup {NoValue, None}]

KeysOf(h) == {keys[h][i] : i \in 1 .. Len(keys[h])}

(* The members that lookups see: a set() counts from its end, a remove()    *)
(* from its beginning.                                                     *)
Leaving(h) == \E t \in Thread : pc[t] = "erase" /\ reg[t].h = h
Members    == {h \in granted : ~Leaving(h)}

(* While nobody holds the lock alone, each entry of the map belongs to one  *)
(* handle, so that it can be removed, and each key of a handle is an entry *)
(* of the map (consistent_hashing.hpp:35-37, 73-84).                       *)
EntriesHaveHandles ==
  writer = None =>
    \A p \in Point :
      Cardinality({h \in Handle : p \in KeysOf(h)}) = (IF value_map[p] = None THEN 0 ELSE 1)

(* The container is a hash ring: set() and remove() change the membership at *)
(* one instant, though they go point by point and get() first looks without *)
(* the lock, and every answer is the next member's at an instant within    *)
(* the call (consistent_hashing.hpp:53-63).                                *)
Ring == INSTANCE HashRing WITH
          member <- [h \in Handle |-> IF h \in Members THEN KeysOf(h) ELSE {}],
          stands <- [h \in Handle |-> IF h \in Members /\ keys[h] # <<>>
                                      THEN value_map[keys[h][1]] ELSE None],
          asked <- [t \in Thread |-> reg[t].point],
          got <- out

ImplementsHashRing == Ring!Spec

(* Every call returns, unless a set() comes to undo its first points, or    *)
(* the process ends in a get() whose ring was emptied under it: the lock is *)
(* released on every other path.                                           *)
Undoing == \E t \in Thread : pc[t] = "removelock" /\ writer = t

CallsReturn ==
  [](~Undoing /\ ~Crashed) => \A t \in Thread : pc[t] # "idle" ~> pc[t] = "idle"

(* remove() removes the node from the container, as its comment says        *)
(* (consistent_hashing.hpp:29), so it must return.                         *)
RemoveReturns ==
  []~Crashed => \A t \in Thread : pc[t] = "removelock" ~> pc[t] = "idle"
=============================================================================
