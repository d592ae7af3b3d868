------------------------------- MODULE Object -------------------------------
(***************************************************************************)
(* lugce/object.hpp: objects that hold nothing, a value, a vector or a     *)
(* table of objects, through a shared pointer to a helper.  Copying a      *)
(* const object clones the helper; copying any other one goes through the  *)
(* template constructor, which makes the object a value inside the copy;   *)
(* and assignment, which the class leaves to the compiler, shares.  The    *)
(* arithmetic operators do not compile and are left out.                   *)
(***************************************************************************)
EXTENDS Integers, Sequences, FiniteSets, FiniteSetsExt, SequencesExt, TLC

CONSTANTS
  Objects,    \* the variables of class object
  Keys,       \* the keys of tables
  ObjectCalls \* bound: calls on objects

VARIABLES
  ref,      \* the helper of each variable, None for none
  helpers,  \* the helpers there have been
  thrown,   \* what the last call threw: "", "bad_index", "bad_cast" or "overflow"
  objCall   \* the number of calls, and the last: its name and its objects
objectVars == <<ref, helpers, thrown, objCall>>

None == 0
NoItems == [k \in {} |-> None]
Value(v)  == [kind |-> "value", val |-> v, vec |-> <<>>, table |-> NoItems]
Vector(s) == [kind |-> "vector", val |-> "", vec |-> s, table |-> NoItems]
Table(t)  == [kind |-> "table", val |-> "", vec |-> <<>>, table |-> t]
Nested(r) == [kind |-> "nested", val |-> "", vec |-> <<r>>, table |-> NoItems]

ObjectInit ==
  /\ ref = [o \in Objects |-> None] /\ helpers = <<>> /\ thrown = ""
  /\ objCall \in {[n |-> 0, op |-> "", to |-> o, from |-> o] : o \in Objects}

-----------------------------------------------------------------------------
Items(hs, x) == IF x = None THEN {} ELSE ToSet(hs[x].vec) \cup {hs[x].table[k] : k \in DOMAIN hs[x].table}
(* What helper x leads to, itself too. *)
Reach(hs, x) ==
  LET within[n \in Nat] == IF n = 0 THEN {x} ELSE within[n - 1] \cup UNION {Items(hs, y) : y \in within[n - 1]}
  IN  within[Len(hs)] \ {None}

(* empty *)
IsEmpty(hs, x) ==
  x = None \/ (hs[x].kind = "vector" /\ hs[x].vec = <<>>) \/ (hs[x].kind = "table" /\ DOMAIN hs[x].table = {})

(* A clone goes down from an object to its items, but not into an object   *)
(* that is nested as a value, nor into what is empty.                      *)
Owned(hs, x) ==
  LET Below(y) == IF hs[y].kind = "nested" THEN {} ELSE {z \in Items(hs, y) : ~IsEmpty(hs, z)}
      within[n \in Nat] == IF n = 0 THEN {x} ELSE within[n - 1] \cup UNION {Below(y) : y \in within[n - 1]}
  IN  within[Len(hs)]
Endless(hs, x) ==
  \E y \in Owned(hs, x) : hs[y].kind # "nested" /\ \E z \in Items(hs, y) : ~IsEmpty(hs, z) /\ y \in Owned(hs, z)

NewHelper(hs, h) == Append(hs, h)

RECURSIVE Clone(_, _)

(* Wrong: the copy of a container shares the objects in it. *)
CopyItem_Shares(a, x) == [a EXCEPT !.items = Append(@, x)]

(* The copy of an object in a container, to the items copied before. *)
CopyItem(a, x) ==
  IF IsEmpty(a.helpers, x) THEN [a EXCEPT !.items = Append(@, None)]
  ELSE LET c == Clone(a.helpers, x) IN [helpers |-> c.helpers, items |-> Append(a.items, c.x)]

(* clone: the items first.  The object in a nested helper is assigned. *)
Clone(hs, x) ==
  LET h == hs[x]
      keys == SetToSeq(DOMAIN h.table)
      a == FoldLeft(CopyItem, [helpers |-> hs, items |-> <<>>],
                    CASE h.kind = "vector" -> h.vec
                      [] h.kind = "table"  -> [i \in DOMAIN keys |-> h.table[keys[i]]]
                      [] OTHER             -> <<>>)
      new == CASE h.kind = "vector" -> Vector(a.items)
               [] h.kind = "table"  -> Table([k \in DOMAIN h.table |-> a.items[CHOOSE i \in DOMAIN keys : keys[i] = k]])
               [] OTHER             -> h
  IN  [helpers |-> NewHelper(a.helpers, new), x |-> Len(a.helpers) + 1]

-----------------------------------------------------------------------------
Does(op, to, from) ==
  objCall.n < ObjectCalls /\ objCall' = [n |-> objCall.n + 1, op |-> op, to |-> to, from |-> from]
Throws(what) == thrown' = what /\ UNCHANGED <<ref, helpers>>
Sets(o, x, hs) == ref' = [ref EXCEPT ![o] = x] /\ helpers' = hs /\ thrown' = ""

(* object( v ) and object( container ), assigned to a variable; clear. *)
Make(o) == Does("make", o, o) /\ Sets(o, Len(helpers) + 1, NewHelper(helpers, Value("v")))
MakeVector(o) == Does("make", o, o) /\ Sets(o, Len(helpers) + 1, NewHelper(helpers, Vector(<<>>)))
MakeFilled(o) ==
  Does("make", o, o) /\ Sets(o, Len(helpers) + 1, helpers \o <<Vector(<<Len(helpers) + 2>>), Value("w")>>)
ClearObject(o) == Does("clear", o, o) /\ Sets(o, None, helpers)

(* The copy constructor, for a const object: nothing of what is empty. *)
CopyConst(o, p) ==
  /\ Does("copy", o, p)
  /\ IF IsEmpty(helpers, ref[p]) THEN Sets(o, None, helpers)
     ELSE IF Endless(helpers, ref[p]) THEN Throws("overflow")
     ELSE \E c \in {Clone(helpers, ref[p])} : Sets(o, c.x, c.helpers)

(* clone, which copies what is empty as well. *)
CloneCall(o, p) ==
  /\ Does("clone", o, p)
  /\ IF ref[p] = None THEN Sets(o, None, helpers)
     ELSE IF Endless(helpers, ref[p]) THEN Throws("overflow")
     ELSE \E c \in {Clone(helpers, ref[p])} : Sets(o, c.x, c.helpers)

(* The template constructor, for an object that is not const. *)
CopyOther(o, p) == Does("nest", o, p) /\ Sets(o, Len(helpers) + 1, NewHelper(helpers, Nested(ref[p])))

AssignObject(o, p) == Does("assign", o, p) /\ Sets(o, ref[p], helpers)

(* get_vector_if: a vector is made for an object that has no helper; for   *)
(* one that is neither a vector nor empty it throws.                       *)
ForVector(o, hs, x) == x = None \/ hs[x].kind = "vector"
WithVector(o) ==
  IF ref[o] # None THEN [x |-> ref[o], helpers |-> helpers]
  ELSE [x |-> Len(helpers) + 1, helpers |-> NewHelper(helpers, Vector(<<>>))]

(* push of a new value. *)
Push(o) ==
  /\ Does("push", o, o)
  /\ IF ~ForVector(o, helpers, ref[o]) THEN Throws("bad_index")
     ELSE LET w == WithVector(o)  v == Len(w.helpers) + 1
          IN  Sets(o, w.x, NewHelper([w.helpers EXCEPT ![w.x].vec = Append(@, v)], Value("v")))

(* at( i ), to which p is assigned: one behind the last adds, and an empty *)
(* object has no other index than 0.                                       *)
AtIndex(o, i, p) ==
  /\ Does("at", o, p)
  /\ IF (IsEmpty(helpers, ref[o]) /\ i # 0) \/ ~ForVector(o, helpers, ref[o]) THEN Throws("bad_index")
     ELSE \E w \in {WithVector(o)} :
            IF i > Len(w.helpers[w.x].vec)
            THEN thrown' = "bad_index" /\ ref' = [ref EXCEPT ![o] = w.x] /\ helpers' = w.helpers
            ELSE LET p0 == IF p = o THEN w.x ELSE ref[p]
                     vec == w.helpers[w.x].vec
                 IN  Sets(o, w.x, [w.helpers EXCEPT ![w.x].vec =
                                     IF i = Len(vec) THEN Append(vec, p0) ELSE [vec EXCEPT ![i + 1] = p0]])

(* at( key ), to which p is assigned; an empty vector is not made a table. *)
AtKey(o, k, p) ==
  /\ Does("at", o, p)
  /\ IF ref[o] # None /\ helpers[ref[o]].kind # "table" THEN Throws("bad_index")
     ELSE LET x == IF ref[o] = None THEN Len(helpers) + 1 ELSE ref[o]
              hs == IF ref[o] = None THEN NewHelper(helpers, Table(NoItems)) ELSE helpers
              p0 == IF p = o THEN x ELSE ref[p]
          IN  Sets(o, x, [hs EXCEPT ![x].table = (k :> p0) @@ @])

(* at of a const object, and get of a value: they change nothing.          *)
AtConst(o, i) ==
  /\ Does("look", o, o)
  /\ IF ref[o] = None \/ helpers[ref[o]].kind # "vector" \/ i >= Len(helpers[ref[o]].vec) THEN Throws("bad_index")
     ELSE Throws("")
Get(o) == Does("look", o, o) /\ Throws(IF ref[o] # None /\ helpers[ref[o]].kind = "nested" THEN "bad_cast" ELSE "")

ObjectNext ==
  \E o \in Objects :
    \/ Make(o) \/ MakeVector(o) \/ MakeFilled(o) \/ ClearObject(o) \/ Push(o) \/ Get(o) \/ AtConst(o, 0)
    \/ \E p \in Objects :
         \/ \E i \in 0..1 : AtIndex(o, i, p)
         \/ \E k \in Keys : AtKey(o, k, p)
         \/ p # o /\ (CopyConst(o, p) \/ CloneCall(o, p) \/ CopyOther(o, p) \/ AssignObject(o, p))

-----------------------------------------------------------------------------
(* Two objects have the same contents, where an empty one is like none.    *)
Alike(hs, x, y) ==
  LET alike[n \in Nat] ==  \* to the depth n
        IF n = 0 THEN Reach(hs, x) \X Reach(hs, y)
        ELSE {<<a, b>> \in alike[n - 1] :
               LET h == hs[a]  g == hs[b]
                   Same(i, j) == (IsEmpty(hs, i) /\ IsEmpty(hs, j)) \/ <<i, j>> \in alike[n - 1]
               IN  /\ h.kind = g.kind /\ h.val = g.val
                   /\ Len(h.vec) = Len(g.vec) /\ \A i \in DOMAIN h.vec : Same(h.vec[i], g.vec[i])
                   /\ DOMAIN h.table = DOMAIN g.table /\ \A k \in DOMAIN h.table : Same(h.table[k], g.table[k])}
  IN  (IsEmpty(hs, x) /\ IsEmpty(hs, y)) \/ <<x, y>> \in alike[Len(hs)]

(* A copy of a const object, and a clone, have the contents of the         *)
(* original, down to any depth, and share no helper with it that a later   *)
(* change could reach both through, but for objects that were copied into  *)
(* the original as values (object.hpp:368 takes a non-const object) and    *)
(* are shared by every copy.  Only an object that was assigned into itself *)
(* cannot be copied.                                                       *)
CopiesAreDeep ==
  [][objCall'.op \in {"copy", "clone"} =>
       \/ thrown' = "overflow" /\ Endless(helpers, ref[objCall'.from])
       \/ LET x == ref'[objCall'.to]  y == ref'[objCall'.from]
          IN  /\ Alike(helpers', x, y)
              /\ x # None => \A z \in Owned(helpers', x) \cap Reach(helpers', y) :
                   \E w \in Reach(helpers', y) : helpers'[w].kind = "nested" /\ z \in Reach(helpers', w)]_objectVars
=============================================================================
