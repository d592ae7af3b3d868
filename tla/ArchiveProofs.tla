---------------------------- MODULE ArchiveProofs ---------------------------
(***************************************************************************)
(* What is written arrives, for every base, width and longest code of the  *)
(* varints, all tags, types and values, and any number of fields: a number *)
(* is read back exactly if its varint keeps it, and fields arrive in order *)
(* up to the first one that is cut or not known.                           *)
(***************************************************************************)
EXTENDS Archive, SequenceTheorems, NaturalsInduction, WellFoundedInduction, TLAPS

-----------------------------------------------------------------------------
(* What has been written: each field's bytes, one field behind the other.  *)
Fields == UNION {[tag : {t}, v : ValuesOf[TypeOf[t]], end : Nat] : t \in Tags}
FieldOf(f) == Field(f.tag, Ty(f), f.v)
Written(i) ==
  /\ sent[i].end = Start(i) + Len(FieldOf(sent[i]))
  /\ \A k \in 1..Len(FieldOf(sent[i])) : out[Start(i) + k] = FieldOf(sent[i])[k]
InvWritten ==
  /\ sent \in Seq(Fields) /\ out \in Seq(Nat)
  /\ Len(out) = Start(Len(sent) + 1)
  /\ \A i \in 1..Len(sent) : Written(i)

(* What has arrived is a first part of it. *)
InvArrived ==
  /\ recv \in Seq(Nat) /\ Len(recv) <= Len(out)
  /\ \A k \in 1..Len(recv) : recv[k] = out[k]
  /\ known \subseteq Loadable
  /\ obj = [t \in Tags |-> obj[t]]
  /\ status = "writing" => frames = <<>> /\ pos = 1 /\ ~eof /\ \A t \in Tags : obj[t] = Unset
  /\ status \in {"writing", "loading", "done", "bad_cast"}

(* A load is in front of field j, which leaves bytes unless the load ends. *)
AtField(j) ==
  /\ frames = <<"outer">> /\ ~eof /\ pos = Start(j) + 1
  /\ j = FirstBad \/ ~Absent(sent[j])
  /\ \A t \in Tags : obj[t] = Arrived(t, j)

(* It is behind the length of field j, an embedded message.                *)
InClass(j) ==
  /\ frames = <<"outer", "inner">> /\ ~eof
  /\ j <= Len(sent) /\ Ty(sent[j]) = "class" /\ ~Absent(sent[j])
  /\ IF j = FirstBad THEN CutOff(j) ELSE Whole(j) /\ sent[j].end = Len(recv)
  /\ pos = Start(j) + Len(Key("class", sent[j].tag)) + 2 /\ pos <= Len(recv) + 1
  /\ \A t \in Tags : obj[t] = Arrived(t, j)

(* Everything has arrived that will, and only the end is still to be met.  *)
Settled ==
  \A t \in Tags : (CutOff(FirstBad) /\ t = sent[FirstBad].tag) \/ obj[t] = Arrived(t, FirstBad)
AtEnd ==
  /\ frames \in {<<"outer">>, <<"outer", "inner">>}
  /\ pos = Len(recv) + 1
  /\ Settled

InvLoad ==
  Foreseen(FirstBad) =>
    /\ status = "loading" => AtEnd \/ \E j \in 1..FirstBad : AtField(j) \/ InClass(j)
    /\ status = "done" => Settled
    /\ status = "bad_cast" => Settled /\ (CutOff(FirstBad) \/ ~BodyKept(sent[FirstBad]))

ArchiveInv == InvWritten /\ InvArrived /\ InvLoad

-----------------------------------------------------------------------------
(* Every nonempty set of natural numbers has a least element.              *)
LEMMA LeastNatural ==
  ASSUME NEW S \in SUBSET Nat, S # {}
  PROVE  \E k \in S : \A l \in S : k <= l
<1>1. PICK k \in S : \A l \in S : ~ (<<l, k>> \in OpToRel(<, Nat))
  BY NatLessThanWellFounded, WFMin
<1>2. ASSUME NEW l \in S PROVE k <= l
  <2>1. ~(l < k)
    BY <1>1 DEF OpToRel
  <2> QED BY <2>1
<1> QED BY <1>2

(* What holds of 0, and of n + 1 if of n, holds of every natural. *)
LEMMA Induct ==
  ASSUME NEW S \in SUBSET Nat, 0 \in S, \A n \in S : n + 1 \in S
  PROVE  S = Nat
<1> SUFFICES ASSUME Nat \ S # {} PROVE FALSE
  OBVIOUS
<1>1. PICK k \in Nat \ S : \A l \in Nat \ S : k <= l
  BY LeastNatural
<1>2. k # 0 /\ k - 1 \in Nat /\ ~(k <= k - 1)
  BY <1>1
<1>3. k - 1 \in S
  BY <1>1, <1>2
<1> QED BY <1>1, <1>2, <1>3

(* What holds of a natural if it holds of every smaller one holds of all.  *)
LEMMA StrongInduct ==
  ASSUME NEW S \in SUBSET Nat, \A n \in Nat : (\A k \in Nat : k < n => k \in S) => n \in S
  PROVE  S = Nat
<1> SUFFICES ASSUME Nat \ S # {} PROVE FALSE
  OBVIOUS
<1>1. PICK k \in Nat \ S : \A l \in Nat \ S : k <= l
  BY LeastNatural
<1>2. \A l \in Nat : l < k => l \in S
  BY <1>1
<1> QED BY <1>1, <1>2

(* A function that calls itself for the next argument, which measures      *)
(* less, until the argument is in B.                                       *)
Follows(f, x, next, B, b, c) == f[x] = IF x \in B THEN b[x] ELSE c[x][f[next[x]]]
(* A definition by recursion is one of a function that is there, if each   *)
(* argument that is not a base case needs one with a smaller measure.      *)
LEMMA RecursionDefines ==
  ASSUME NEW D, NEW V, NEW m \in [D -> Nat], NEW next \in [D -> D], NEW B \in SUBSET D,
         NEW b \in [D -> V], NEW c \in [D -> [V -> V]],
         \A x \in D \ B : m[next[x]] < m[x]
  PROVE  \E f \in [D -> V] : \A x \in D : Follows(f, x, next, B, b, c)
<1> DEFINE Upto(g, n) == g \in [D -> V] /\ \A x \in D : m[x] < n => Follows(g, x, next, B, b, c)
<1>1. \A n \in Nat : \E g : Upto(g, n)
  <2> DEFINE S == {n \in Nat : \E g : Upto(g, n)}
  <2>1. 0 \in S
    <3>1. Upto(b, 0)
      OBVIOUS
    <3> QED BY <3>1
  <2>2. ASSUME NEW n \in S PROVE n + 1 \in S
    <3>1. PICK g : Upto(g, n)
      OBVIOUS
    <3> DEFINE h == [x \in D |-> IF m[x] < n THEN g[x] ELSE IF x \in B THEN b[x] ELSE c[x][g[next[x]]]]
    <3>2. h \in [D -> V]
      BY <3>1
    <3>3. ASSUME NEW x \in D, m[x] < n + 1 PROVE Follows(h, x, next, B, b, c)
      <4>1. next[x] \in D /\ m[x] \in Nat /\ n \in Nat /\ m[next[x]] \in Nat
        OBVIOUS
      <4>2. g[x] \in V /\ g[next[x]] \in V
        BY <3>1, <4>1
      <4>3. x \notin B => m[next[x]] < n /\ h[next[x]] = g[next[x]]
        BY <3>3, <4>1
      <4>4. m[x] < n => g[x] = IF x \in B THEN b[x] ELSE c[x][g[next[x]]]
        BY <3>1 DEF Follows
      <4>5. h[x] = IF x \in B THEN b[x] ELSE c[x][g[next[x]]]
        BY <4>4
      <4> HIDE DEF h
      <4> QED BY <4>3, <4>5 DEF Follows
    <3>4. Upto(h, n + 1)
      BY <3>2, <3>3
    <3>5. n + 1 \in Nat
      OBVIOUS
    <3> HIDE DEF h, Upto
    <3> QED BY <3>4, <3>5
  <2>3. S = Nat
    <3> HIDE DEF S
    <3>1. S \in SUBSET Nat
      BY DEF S
    <3> QED BY <2>1, <2>2, <3>1, Induct
  <2> QED BY <2>3
<1>2. ASSUME NEW g, NEW h, NEW n \in Nat, NEW k \in Nat, Upto(g, n), Upto(h, k)
      PROVE  \A i \in Nat : \A x \in D : m[x] = i /\ i < n /\ i < k => g[x] = h[x]
  <2> DEFINE S == {i \in Nat : \A x \in D : m[x] = i /\ i < n /\ i < k => g[x] = h[x]}
  <2>1. ASSUME NEW i \in Nat, \A l \in Nat : l < i => l \in S PROVE i \in S
    <3> SUFFICES ASSUME NEW x \in D, m[x] = i, i < n, i < k PROVE g[x] = h[x]
      OBVIOUS
    <3>1. Follows(g, x, next, B, b, c) /\ Follows(h, x, next, B, b, c)
      BY <1>2
    <3>2. CASE x \in B
      BY <3>1, <3>2 DEF Follows
    <3>3. CASE x \notin B
      <4>1. next[x] \in D /\ m[next[x]] \in Nat /\ m[next[x]] < i /\ m[next[x]] < n /\ m[next[x]] < k
        BY <3>3
      <4>2. m[next[x]] \in S
        BY <2>1, <4>1
      <4>3. g[next[x]] = h[next[x]]
        BY <4>1, <4>2
      <4> QED BY <3>1, <3>3, <4>3 DEF Follows
    <3> QED BY <3>2, <3>3
  <2>2. S = Nat
    <3> HIDE DEF S
    <3>1. S \in SUBSET Nat
      BY DEF S
    <3> QED BY <2>1, <3>1, StrongInduct
  <2> QED BY <2>2
<1> DEFINE part(n) == CHOOSE g : Upto(g, n)
           f == [x \in D |-> part(m[x] + 1)[x]]
<1>3. \A n \in Nat : Upto(part(n), n)
  BY <1>1
<1>4. \A x \in D : m[x] \in Nat /\ m[x] + 1 \in Nat /\ m[x] < m[x] + 1
  OBVIOUS
<1>5. f \in [D -> V]
  <2>1. ASSUME NEW x \in D PROVE part(m[x] + 1)[x] \in V
    <3>1. Upto(part(m[x] + 1), m[x] + 1)
      BY <1>3, <1>4
    <3> HIDE DEF part
    <3> QED BY <3>1
  <2> QED BY <2>1
<1>6. ASSUME NEW x \in D PROVE Follows(f, x, next, B, b, c)
  <2> DEFINE g == part(m[x] + 1)
  <2>1. Follows(g, x, next, B, b, c) /\ f[x] = g[x]
    BY <1>3, <1>4
  <2>2. CASE x \in B
    <3> HIDE DEF f, g
    <3> QED BY <2>1, <2>2 DEF Follows
  <2>3. CASE x \notin B
    <3>1. /\ next[x] \in D /\ m[next[x]] \in Nat /\ m[next[x]] < m[x] + 1
          /\ m[next[x]] < m[next[x]] + 1 /\ m[next[x]] + 1 \in Nat /\ m[x] + 1 \in Nat
      BY <1>4, <2>3
    <3>2. Upto(g, m[x] + 1) /\ Upto(part(m[next[x]] + 1), m[next[x]] + 1)
      BY <1>3, <3>1
    <3>3. f[next[x]] = part(m[next[x]] + 1)[next[x]]
      BY <3>1
    <3>4. g[next[x]] = part(m[next[x]] + 1)[next[x]]
      <4> HIDE DEF g, part, Upto
      <4> QED BY <1>2, <3>1, <3>2
    <3> HIDE DEF f, g, part
    <3> QED BY <2>1, <2>3, <3>3, <3>4 DEF Follows
  <2> QED BY <2>2, <2>3
<1> HIDE DEF f
<1> QED BY <1>5, <1>6

-----------------------------------------------------------------------------
(* The numbers of a varint. *)
LEMMA BaseNumbers == Base \in Nat /\ Base > 16 /\ Longest \in Nat /\ Modulus \in Nat /\ Modulus > 3
BY VarintAssumption, KeysAssumption

(* The remainder of a number is a group, its quotient a number. *)
LEMMA BaseFacts ==
  /\ Base \in Nat /\ Base > 16 /\ Longest \in Nat /\ Modulus \in Nat /\ Modulus > 3
  /\ \A x \in Nat : x % Base \in 0..(Base - 1) /\ x \div Base \in Nat
<1>1. \A w \in Nat \ {0} : \A x \in Nat : x % w \in 0..(w - 1) /\ x \div w \in Nat
  OBVIOUS
<1> QED BY <1>1, VarintAssumption, KeysAssumption

(* A group, with and without the bit that tells of another, has the group  *)
(* as its remainder.                                                       *)
LEMMA Remainders ==
  ASSUME NEW i \in Nat, i < Base
  PROVE  (Base + i) % Base = i /\ i % Base = i /\ i + Base * 0 = i
<1>1. \A w \in Nat \ {0} : \A k \in 0..(w - 1) : (w + k) % w = k /\ k % w = k /\ k + w * 0 = k
  OBVIOUS
<1>2. Base \in Nat \ {0} /\ i \in 0..(Base - 1)
  BY BaseNumbers
<1> QED BY <1>1, <1>2

(* A number is its last group and Base times the rest, which is smaller. *)
LEMMA Divided ==
  ASSUME NEW x \in Nat
  PROVE  x = Base * (x \div Base) + (x % Base) /\ (x > 0 => x \div Base < x)
<1>1. \A w \in Nat \ {0} : \A q \in Nat, r \in Nat : r < w /\ w > 1 /\ w * q + r > 0 => q < w * q + r
  <2>1. \A w \in Nat \ {0} : \A q \in Nat : w > 1 /\ q > 0 => q < w * q
    OBVIOUS
  <2>2. ASSUME NEW w \in Nat \ {0}, NEW q \in Nat, NEW r \in Nat, r < w, w > 1, w * q + r > 0
        PROVE  q < w * q + r
    <3>1. w * q \in Nat
      OBVIOUS
    <3>2. q > 0 => q < w * q
      BY <2>1, <2>2
    <3>3. CASE q = 0
      BY <2>2, <3>3
    <3>4. CASE q > 0
      BY <2>2, <3>1, <3>2, <3>4
    <3> QED BY <3>3, <3>4
  <2> QED BY <2>2
<1>2. \A w \in Nat \ {0} : x = w * (x \div w) + (x % w)
  OBVIOUS
<1> DEFINE q == x \div Base
           r == x % Base
<1>3. q \in Nat /\ r \in Nat /\ r < Base /\ Base \in Nat \ {0} /\ Base > 1 /\ x = Base * q + r
  BY <1>2, BaseFacts
<1> HIDE DEF q, r
<1>4. x > 0 => q < x
  BY <1>1, <1>3
<1> QED BY <1>3, <1>4 DEF q, r

(* What is behind a group is smaller, in width too.                        *)
LEMMA NextNumber ==
  ASSUME NEW x \in Nat
  PROVE  /\ x \div Base \in Nat /\ (More(x) => x \div Base < x)
         /\ x \in Unsigned => x \div Base \in Unsigned
<1>1. x \div Base \in Nat /\ (x > 0 => x \div Base < x) /\ (x = 0 => ~More(x))
  BY BaseFacts, Divided DEF More
<1>2. x = 0 => x \div Base = 0
  <2>1. \A w \in Nat \ {0} : 0 \div w = 0
    OBVIOUS
  <2> QED BY <2>1, BaseFacts
<1> QED BY <1>1, <1>2, BaseFacts DEF Unsigned, More

(* save is defined by its recursive definition, and so is what it keeps.   *)
LEMMA SaveDefined ==
  /\ SaveUnsigned \in [Nat -> Seq(Nat)]
  /\ \A x \in Nat :
       SaveUnsigned[x] = IF More(x) THEN <<Base + (x % Base)>> \o SaveUnsigned[x \div Base] ELSE <<x>>
<1> DEFINE m == [x \in Nat |-> x]
           next == [x \in Nat |-> x \div Base]
           B == {x \in Nat : ~More(x)}
           b == [x \in Nat |-> <<x>>]
           c == [x \in Nat |-> [s \in Seq(Nat) |-> <<Base + (x % Base)>> \o s]]
           P(f) == f = [x \in Nat |-> IF More(x) THEN <<Base + (x % Base)>> \o f[x \div Base] ELSE <<x>>]
<1>1. m \in [Nat -> Nat] /\ next \in [Nat -> Nat] /\ B \in SUBSET Nat /\ b \in [Nat -> Seq(Nat)]
  BY NextNumber
<1>2. c \in [Nat -> [Seq(Nat) -> Seq(Nat)]]
  <2>1. ASSUME NEW x \in Nat, NEW s \in Seq(Nat) PROVE <<Base + (x % Base)>> \o s \in Seq(Nat)
    <3>1. Base + (x % Base) \in Nat
      BY BaseFacts
    <3>2. <<Base + (x % Base)>> \in Seq(Nat)
      BY <3>1
    <3> QED BY <3>2
  <2> QED BY <2>1
<1>3. \A x \in Nat \ B : m[next[x]] < m[x]
  BY NextNumber
<1>4. \E f \in [Nat -> Seq(Nat)] : \A x \in Nat : Follows(f, x, next, B, b, c)
  <2> HIDE DEF m, next, B, b, c
  <2> QED BY <1>1, <1>2, <1>3, RecursionDefines
<1>5. PICK f \in [Nat -> Seq(Nat)] : \A x \in Nat : Follows(f, x, next, B, b, c)
  BY <1>4
<1>6. ASSUME NEW x \in Nat
      PROVE  f[x] = IF More(x) THEN <<Base + (x % Base)>> \o f[x \div Base] ELSE <<x>>
  <2>1. x \div Base \in Nat /\ f[x \div Base] \in Seq(Nat)
    BY NextNumber
  <2>2. next[x] = x \div Base /\ b[x] = <<x>> /\ (x \in B <=> ~More(x))
    OBVIOUS
  <2>3. c[x][f[x \div Base]] = <<Base + (x % Base)>> \o f[x \div Base]
    BY <2>1
  <2> HIDE DEF m, next, B, b, c
  <2> QED BY <1>5, <2>2, <2>3 DEF Follows
<1>7. P(f)
  BY <1>6, ZenonT(60)
<1>8. P(SaveUnsigned)
  BY <1>7 DEF SaveUnsigned
<1> DEFINE g == SaveUnsigned
<1>9. P(g)
  BY <1>8
<1>10. \A x \in Nat : g[x] = f[x]
  <2> DEFINE S == {x \in Nat : g[x] = f[x]}
  <2>1. ASSUME NEW n \in Nat, \A k \in Nat : k < n => k \in S PROVE n \in S
    <3>1. g[n] = IF More(n) THEN <<Base + (n % Base)>> \o g[n \div Base] ELSE <<n>>
      <4> HIDE DEF g
      <4> QED BY <1>9
    <3>2. More(n) => n \div Base \in S
      BY <2>1, NextNumber
    <3> HIDE DEF g
    <3> QED BY <1>6, <3>1, <3>2
  <2>2. S = Nat
    <3> HIDE DEF S
    <3>1. S \in SUBSET Nat
      BY DEF S
    <3> QED BY <2>1, <3>1, StrongInduct
  <2> QED BY <2>2
<1>11. g = [x \in Nat |-> g[x]]
  <2> HIDE DEF g
  <2> QED BY <1>9
<1>12. g \in [Nat -> Seq(Nat)]
  <2> HIDE DEF g
  <2> QED BY <1>10, <1>11
<1>13. \A x \in Nat : g[x] = IF More(x) THEN <<Base + (x % Base)>> \o g[x \div Base] ELSE <<x>>
  <2> HIDE DEF g
  <2> QED BY <1>9
<1> QED BY <1>12, <1>13

(* Clipped satisfies its recursive definition. *)
LEMMA ClippedDefined ==
  \A x \in Nat : Clipped[x] = (x = Base \/ (x > Base /\ Clipped[x \div Base]))
<1> DEFINE m == [x \in Nat |-> x]
           next == [x \in Nat |-> x \div Base]
           B == {x \in Nat : ~More(x)}
           b == [x \in Nat |-> x = Base]
           c == [x \in Nat |-> [s \in BOOLEAN |-> s]]
           P(f) == f = [x \in Nat |-> x = Base \/ (x > Base /\ f[x \div Base])]
<1>1. /\ m \in [Nat -> Nat] /\ next \in [Nat -> Nat] /\ B \in SUBSET Nat /\ b \in [Nat -> BOOLEAN]
      /\ c \in [Nat -> [BOOLEAN -> BOOLEAN]]
  BY NextNumber
<1>2. \A x \in Nat \ B : m[next[x]] < m[x]
  BY NextNumber
<1>3. \E f \in [Nat -> BOOLEAN] : \A x \in Nat : Follows(f, x, next, B, b, c)
  <2> HIDE DEF m, next, B, b, c
  <2> QED BY <1>1, <1>2, RecursionDefines
<1>4. PICK f \in [Nat -> BOOLEAN] : \A x \in Nat : Follows(f, x, next, B, b, c)
  BY <1>3
<1>5. ASSUME NEW x \in Nat
      PROVE  f[x] = (x = Base \/ (x > Base /\ f[x \div Base]))
  <2>1. x \div Base \in Nat /\ f[x \div Base] \in BOOLEAN /\ f[x] \in BOOLEAN
    BY NextNumber
  <2>2. next[x] = x \div Base /\ b[x] = (x = Base) /\ (x \in B <=> ~More(x))
    OBVIOUS
  <2>3. c[x][f[x \div Base]] = f[x \div Base]
    BY <2>1
  <2>4. More(x) => x # Base
    BY BaseFacts DEF More
  <2> HIDE DEF m, next, B, b, c
  <2>5. CASE x \in B
    <3>1. f[x] = b[x]
      BY <1>4, <2>5 DEF Follows
    <3> QED BY <2>2, <2>5, <3>1 DEF More
  <2>6. CASE x \notin B
    <3>1. f[x] = f[x \div Base]
      BY <1>4, <2>2, <2>3, <2>6 DEF Follows
    <3> QED BY <2>2, <2>4, <2>6, <3>1 DEF More
  <2> QED BY <2>5, <2>6
<1>6. P(f)
  BY <1>5
<1>7. P(Clipped)
  BY <1>6 DEF Clipped
<1> DEFINE g == Clipped
<1>8. P(g)
  BY <1>7
<1>9. \A x \in Nat : g[x] = (x = Base \/ (x > Base /\ g[x \div Base]))
  <2> HIDE DEF g
  <2> QED BY <1>8
<1> QED BY <1>9

(* One element in front of a sequence. *)
LEMMA InFront ==
  ASSUME NEW S, NEW a \in S, NEW s \in Seq(S)
  PROVE  /\ <<a>> \o s \in Seq(S) /\ Len(<<a>> \o s) = Len(s) + 1 /\ (<<a>> \o s)[1] = a
         /\ \A k \in 1..Len(s) : (<<a>> \o s)[k + 1] = s[k]
<1>1. <<a>> \in Seq(S) /\ Len(<<a>>) = 1 /\ <<a>>[1] = a
  OBVIOUS
<1>2. /\ <<a>> \o s \in Seq(S) /\ Len(<<a>> \o s) = 1 + Len(s)
      /\ \A i \in 1..(1 + Len(s)) : (<<a>> \o s)[i] = IF i <= 1 THEN <<a>>[i] ELSE s[i - 1]
  BY <1>1, ConcatProperties
<1>3. 1 \in 1..(1 + Len(s)) /\ \A k \in 1..Len(s) : k + 1 \in 1..(1 + Len(s)) /\ ~(k + 1 <= 1) /\ (k + 1) - 1 = k
  <2>1. Len(s) \in Nat
    OBVIOUS
  <2> QED BY <2>1
<1> QED BY <1>1, <1>2, <1>3

(* The bytes of a code: all but the last have their continuation bit, and  *)
(* the last one has it exactly if the code has been cut short.             *)
CodeOf(x, s) ==
  /\ s \in Seq(Nat) /\ Len(s) \in Nat \ {0}
  /\ \A k \in 1..(Len(s) - 1) : s[k] >= Base
  /\ s[Len(s)] >= Base <=> Clipped[x]
(* SaveUnsigned makes codes of the shape that CodeOf states. *)
LEMMA CodeShape == ASSUME NEW x \in Nat PROVE CodeOf(x, SaveUnsigned[x])
<1> DEFINE S == {n \in Nat : CodeOf(n, SaveUnsigned[n])}
<1>1. ASSUME NEW n \in Nat, \A k \in Nat : k < n => k \in S PROVE n \in S
  <2> DEFINE s == SaveUnsigned[n]
             q == n \div Base
             t == SaveUnsigned[q]
             a == Base + (n % Base)
  <2>1. /\ q \in Nat /\ s \in Seq(Nat) /\ t \in Seq(Nat) /\ a \in Nat /\ a >= Base
        /\ s = IF More(n) THEN <<a>> \o t ELSE <<n>>
    <3>1. q \in Nat /\ n % Base \in Nat /\ Base \in Nat
      BY BaseFacts
    <3>2. a \in Nat /\ a >= Base
      BY <3>1
    <3>3. s \in Seq(Nat) /\ t \in Seq(Nat) /\ s = IF More(n) THEN <<a>> \o t ELSE <<n>>
      BY <3>1, SaveDefined
    <3> QED BY <3>1, <3>2, <3>3
  <2>2. Clipped[n] = (n = Base \/ (n > Base /\ Clipped[q]))
    BY ClippedDefined
  <2>3. CASE More(n)
    <3>1. q < n
      BY <2>3, NextNumber
    <3>2. CodeOf(q, t)
      BY <1>1, <2>1, <3>1
    <3>3. n # Base /\ n > Base
      BY <2>3, BaseFacts DEF More
    <3> HIDE DEF s, q, t, a
    <3>4. s = <<a>> \o t
      BY <2>1, <2>3
    <3>5. Len(s) = Len(t) + 1 /\ s[1] = a /\ \A k \in 1..Len(t) : s[k + 1] = t[k]
      <4>1. Len(<<a>> \o t) = Len(t) + 1 /\ (<<a>> \o t)[1] = a /\ \A k \in 1..Len(t) : (<<a>> \o t)[k + 1] = t[k]
        BY <2>1, InFront
      <4> QED BY <3>4, <4>1
    <3>6. Len(t) \in Nat \ {0} /\ Len(s) \in Nat \ {0}
      BY <3>2, <3>5 DEF CodeOf
    <3>7. ASSUME NEW k \in 1..(Len(s) - 1) PROVE s[k] >= Base
      <4>1. CASE k = 1
        BY <2>1, <3>5, <4>1
      <4>2. CASE k # 1
        <5>1. k - 1 \in 1..(Len(t) - 1) /\ k - 1 \in 1..Len(t) /\ (k - 1) + 1 = k
          BY <3>5, <3>6, <4>2
        <5>2. s[k] = t[k - 1] /\ t[k - 1] >= Base
          BY <3>2, <3>5, <5>1 DEF CodeOf
        <5> QED BY <5>2
      <4> QED BY <4>1, <4>2
    <3>8. s[Len(s)] = t[Len(t)]
      BY <3>5, <3>6
    <3>9. s[Len(s)] >= Base <=> Clipped[n]
      BY <2>2, <3>2, <3>3, <3>8 DEF CodeOf
    <3>10. CodeOf(n, s)
      BY <2>1, <3>6, <3>7, <3>9 DEF CodeOf
    <3> QED BY <3>10 DEF s
  <2>4. CASE ~More(n)
    <3>1. n <= Base
      BY <2>4, BaseFacts DEF More
    <3> HIDE DEF s, q, t, a
    <3>2. s = <<n>>
      BY <2>1, <2>4
    <3>3. Len(s) = 1 /\ s[1] = n
      BY <3>2
    <3>4. (n >= Base) <=> Clipped[n]
      <4>1. (n >= Base <=> n = Base) /\ ~(n > Base)
        BY <3>1, BaseFacts
      <4> QED BY <2>2, <4>1, Zenon
    <3>5. CodeOf(n, s)
      BY <2>1, <3>3, <3>4 DEF CodeOf
    <3> QED BY <3>5 DEF s
  <2> QED BY <2>3, <2>4
<1>2. S = Nat
  <2> HIDE DEF S
  <2>1. S \in SUBSET Nat
    BY DEF S
  <2> QED BY <1>1, <2>1, StrongInduct
<1> QED BY <1>2

-----------------------------------------------------------------------------
(* What load takes from the bytes d: the groups up to place e.             *)
Groups(d, e) ==
  CHOOSE f : f = [k \in Nat |-> IF k > e THEN 0 ELSE ((d[k] % Base) + Base * f[k + 1]) % Modulus]
Stops(d, p) == {k \in p..Len(d) : d[k] < Base \/ k - p + 1 >= Longest}
LoadsTo(d, p) == IF Stops(d, p) = {} THEN Len(d) ELSE CHOOSE k \in Stops(d, p) : \A l \in Stops(d, p) : k <= l
(* What load() takes from a place: the groups up to the first byte that    *)
(* ends it, and whether there is one.                                      *)
LEMMA LoadIs ==
  ASSUME NEW d, NEW p
  PROVE  LoadUnsigned(d, p) =
           Took(Groups(d, LoadsTo(d, p))[p], LoadsTo(d, p) + 1, Stops(d, p) = {},
                Stops(d, p) # {} /\ d[LoadsTo(d, p)] >= Base)
BY DEF LoadUnsigned, Groups, Stops, LoadsTo

(* The components of what a load gives. *)
LEMMA TookIs ==
  ASSUME NEW v, NEW p, NEW eof_, NEW bad
  PROVE  /\ Took(v, p, eof_, bad).v = v /\ Took(v, p, eof_, bad).p = p
         /\ Took(v, p, eof_, bad).eof = eof_ /\ Took(v, p, eof_, bad).bad = bad
BY DEF Took

(* A load has gone well exactly if its four components are the ones        *)
(* expected.                                                               *)
LEMMA TookWell ==
  ASSUME NEW w, NEW l, NEW e, NEW b, NEW v, NEW p
  PROVE  Took(w, l, e, b) = Took(v, p, FALSE, FALSE) <=> w = v /\ l = p /\ e = FALSE /\ b = FALSE
BY DEF Took

(* What is counted modulo 2^w is an integer of w bits. *)
LEMMA InUnsigned == ASSUME NEW n \in Int PROVE n % Modulus \in Unsigned
<1>1. \A w \in Nat \ {0} : n % w \in 0..(w - 1)
  OBVIOUS
<1> QED BY <1>1, BaseFacts DEF Unsigned

(* An integer of w bits is itself modulo 2^w. *)
LEMMA BelowModulus == ASSUME NEW n \in Unsigned PROVE n % Modulus = n
<1>1. \A w \in Nat \ {0} : \A x \in 0..(w - 1) : x % w = x
  BY SMTT(40)
<1> QED BY <1>1, BaseNumbers DEF Unsigned

(* The groups are defined by their recursive definition.                   *)
LEMMA GroupsDefined ==
  ASSUME NEW d \in Seq(Nat), NEW e \in Nat, e <= Len(d)
  PROVE  \A k \in Nat \ {0} :
           /\ Groups(d, e)[k] \in Unsigned
           /\ Groups(d, e)[k] = IF k > e THEN 0 ELSE ((d[k] % Base) + Base * Groups(d, e)[k + 1]) % Modulus
<1> DEFINE m == [k \in Nat |-> IF k > e THEN 0 ELSE e + 1 - k]
           next == [k \in Nat |-> k + 1]
           B == {k \in Nat : k = 0 \/ k > e}
           b == [k \in Nat |-> 0]
           c == [k \in Nat |-> [s \in Unsigned |-> IF k \in 1..Len(d) THEN ((d[k] % Base) + Base * s) % Modulus ELSE 0]]
           P(f) == f = [k \in Nat |-> IF k > e THEN 0 ELSE ((d[k] % Base) + Base * f[k + 1]) % Modulus]
<1>0. 0 \in Unsigned /\ Unsigned \subseteq Nat /\ Len(d) \in Nat
  BY BaseFacts DEF Unsigned
<1>1. ASSUME NEW k \in 1..Len(d), NEW s \in Unsigned
      PROVE  ((d[k] % Base) + Base * s) % Modulus \in Unsigned
  <2>1. d[k] % Base \in Nat /\ s \in Nat /\ Base \in Nat
    <3>1. d[k] \in Nat
      OBVIOUS
    <3>2. \A x \in Nat : x % Base \in 0..(Base - 1)
      BY BaseFacts
    <3>3. d[k] % Base \in 0..(Base - 1) /\ Base \in Nat
      BY <3>1, <3>2, BaseFacts
    <3>4. d[k] % Base \in Nat
      BY <3>3
    <3> QED BY <1>0, <3>3, <3>4
  <2>2. (d[k] % Base) + Base * s \in Int
    BY <2>1
  <2> QED BY <2>2, InUnsigned
<1>2. /\ m \in [Nat -> Nat] /\ next \in [Nat -> Nat] /\ B \in SUBSET Nat /\ b \in [Nat -> Unsigned]
      /\ c \in [Nat -> [Unsigned -> Unsigned]]
  BY <1>0, <1>1
<1>3. \A k \in Nat \ B : m[next[k]] < m[k]
  OBVIOUS
<1>4. \E f \in [Nat -> Unsigned] : \A k \in Nat : Follows(f, k, next, B, b, c)
  <2> HIDE DEF m, next, B, b, c
  <2> QED BY <1>2, <1>3, RecursionDefines
<1>5. PICK f \in [Nat -> Unsigned] : \A k \in Nat : Follows(f, k, next, B, b, c)
  BY <1>4
<1>6. ASSUME NEW k \in Nat \ {0}
      PROVE  f[k] = IF k > e THEN 0 ELSE ((d[k] % Base) + Base * f[k + 1]) % Modulus
  <2>1. k + 1 \in Nat /\ f[k + 1] \in Unsigned /\ (k \notin B => k \in 1..Len(d))
    BY <1>0
  <2>2. next[k] = k + 1 /\ b[k] = 0 /\ (k \in B <=> k > e)
    OBVIOUS
  <2>3. k \notin B => c[k][f[k + 1]] = ((d[k] % Base) + Base * f[k + 1]) % Modulus
    BY <2>1
  <2> HIDE DEF m, next, B, b, c
  <2> QED BY <1>5, <2>2, <2>3 DEF Follows
<1> DEFINE h == [k \in Nat |-> IF k = 0 THEN ((d[0] % Base) + Base * f[1]) % Modulus ELSE f[k]]
<1>7. P(h)
  <2>1. ASSUME NEW k \in Nat
        PROVE  h[k] = IF k > e THEN 0 ELSE ((d[k] % Base) + Base * h[k + 1]) % Modulus
    <3>1. k + 1 \in Nat /\ k + 1 # 0 /\ h[k + 1] = f[k + 1]
      OBVIOUS
    <3>2. CASE k = 0
      <4>1. ~(k > e) /\ h[k] = ((d[0] % Base) + Base * f[1]) % Modulus /\ k + 1 = 1
        BY <3>2
      <4> HIDE DEF h
      <4> QED BY <3>1, <3>2, <4>1
    <3>3. CASE k # 0
      <4>1. h[k] = f[k]
        BY <3>3
      <4> HIDE DEF h
      <4> QED BY <1>6, <3>1, <3>3, <4>1
    <3> QED BY <3>2, <3>3
  <2>2. h = [k \in Nat |-> h[k]]
    OBVIOUS
  <2> HIDE DEF h
  <2> QED BY <2>1, <2>2
<1>8. P(Groups(d, e))
  <2> HIDE DEF h
  <2> QED BY <1>7 DEF Groups
<1> DEFINE g == Groups(d, e)
<1>9. P(g)
  BY <1>8
<1>10. \A k \in Nat : g[k] = IF k > e THEN 0 ELSE ((d[k] % Base) + Base * g[k + 1]) % Modulus
  <2> HIDE DEF g
  <2> QED BY <1>9
<1>11. \A k \in Nat \ {0} : g[k] = f[k]
  <2> DEFINE S == {n \in Nat : \A k \in Nat \ {0} : m[k] = n => g[k] = f[k]}
  <2>1. ASSUME NEW n \in Nat, \A l \in Nat : l < n => l \in S PROVE n \in S
    <3> SUFFICES ASSUME NEW k \in Nat \ {0}, m[k] = n PROVE g[k] = f[k]
      OBVIOUS
    <3>1. CASE k > e
      <4> HIDE DEF g
      <4> QED BY <1>6, <1>10, <3>1
    <3>2. CASE ~(k > e)
      <4>1. k + 1 \in Nat \ {0} /\ m[k + 1] \in Nat /\ m[k + 1] < n
        BY <3>2
      <4>2. g[k + 1] = f[k + 1]
        <5> HIDE DEF g, m
        <5> QED BY <2>1, <4>1
      <4> HIDE DEF g
      <4> QED BY <1>6, <1>10, <3>2, <4>2
    <3> QED BY <3>1, <3>2
  <2>2. S = Nat
    <3> HIDE DEF S
    <3>1. S \in SUBSET Nat
      BY DEF S
    <3> QED BY <2>1, <3>1, StrongInduct
  <2>3. ASSUME NEW k \in Nat \ {0} PROVE g[k] = f[k]
    <3>1. m[k] \in Nat
      OBVIOUS
    <3>2. m[k] \in S
      <4> HIDE DEF S, m
      <4> QED BY <2>2, <3>1
    <3> HIDE DEF g, m
    <3> QED BY <3>2
  <2> QED BY <2>3
<1> HIDE DEF g
<1>12. \A k \in Nat \ {0} : g[k] \in Unsigned
  BY <1>11
<1> QED BY <1>10, <1>12 DEF g

(* Where a load stops: at the first byte that has no continuation bit.     *)
LEMMA LoadStops ==
  ASSUME NEW d \in Seq(Nat), NEW p \in Nat \ {0}, NEW e \in Nat, p <= e, e <= Len(d),
         \A k \in p..(e - 1) : d[k] >= Base, d[e] < Base, e - p + 1 <= Longest
  PROVE  LoadUnsigned(d, p) = Took(Groups(d, e)[p], e + 1, FALSE, FALSE)
<1>1. e \in Stops(d, p)
  BY DEF Stops
<1>2. ASSUME NEW k \in Stops(d, p) PROVE k >= e
  <2>1. k \in p..Len(d) /\ (d[k] < Base \/ k - p + 1 >= Longest) /\ Len(d) \in Nat
    BY DEF Stops
  <2>2. CASE k < e
    <3>1. k \in p..(e - 1) /\ d[k] >= Base /\ d[k] \in Nat
      BY <2>1, <2>2, SMTT(40)
    <3> QED BY <2>1, <2>2, <3>1, BaseNumbers
  <2> QED BY <2>1, <2>2
<1>3. LoadsTo(d, p) = e
  <2> DEFINE S == Stops(d, p)
  <2>1. S # {} /\ e \in S /\ \A k \in S : e <= k /\ k \in Int
    BY <1>1, <1>2 DEF Stops
  <2>2. \A k \in S : (\A l \in S : k <= l) => k = e
    <3> HIDE DEF S
    <3> QED BY <2>1
  <2>3. LoadsTo(d, p) = CHOOSE k \in S : \A l \in S : k <= l
    BY <2>1 DEF LoadsTo
  <2> HIDE DEF S
  <2> QED BY <2>1, <2>2, <2>3
<1>4. ~(d[e] >= Base)
  <2>1. d[e] \in Nat
    OBVIOUS
  <2> QED BY <2>1, BaseNumbers
<1>5. (Stops(d, p) = {}) = FALSE /\ (Stops(d, p) # {} /\ d[LoadsTo(d, p)] >= Base) = FALSE
  BY <1>1, <1>3, <1>4
<1> QED BY <1>3, <1>5, LoadIs

(* It runs out of bytes if all have their continuation bit, and are few.   *)
LEMMA LoadRunsOut ==
  ASSUME NEW d \in Seq(Nat), NEW p \in Nat \ {0}, p <= Len(d) + 1,
         \A k \in p..Len(d) : d[k] >= Base, Len(d) - p + 1 < Longest
  PROVE  \E v \in Unsigned : LoadUnsigned(d, p) = Took(v, Len(d) + 1, TRUE, FALSE)
<1>1. Stops(d, p) = {}
  <2>1. ASSUME NEW k \in p..Len(d) PROVE ~(d[k] < Base \/ k - p + 1 >= Longest)
    <3>1. d[k] \in Nat /\ d[k] >= Base /\ Len(d) \in Nat
      OBVIOUS
    <3> QED BY <3>1, BaseNumbers, SMTT(40)
  <2> QED BY <2>1 DEF Stops
<1>2. LoadsTo(d, p) = Len(d)
  BY <1>1 DEF LoadsTo
<1>3. Groups(d, Len(d))[p] \in Unsigned
  <2>1. Len(d) \in Nat /\ Len(d) <= Len(d)
    OBVIOUS
  <2> QED BY <2>1, GroupsDefined
<1>4. (Stops(d, p) = {}) = TRUE /\ (Stops(d, p) # {} /\ d[LoadsTo(d, p)] >= Base) = FALSE
  BY <1>1
<1>5. LoadUnsigned(d, p) = Took(Groups(d, Len(d))[p], Len(d) + 1, TRUE, FALSE)
  BY <1>2, <1>4, LoadIs
<1> QED BY <1>3, <1>5

(* A load that ends well ends behind a byte without a continuation bit.    *)
LEMMA LoadEndsWell ==
  ASSUME NEW d \in Seq(Nat), NEW p \in Nat \ {0}, NEW e \in Nat, NEW v,
         LoadUnsigned(d, p) = Took(v, e + 1, FALSE, FALSE)
  PROVE  d[e] < Base
<1> DEFINE S == Stops(d, p)
<1>1. /\ LoadsTo(d, p) + 1 = e + 1 /\ (S = {}) = FALSE
      /\ (S # {} /\ d[LoadsTo(d, p)] >= Base) = FALSE
  BY LoadIs DEF Took
<1>2. S \in SUBSET Nat /\ S # {}
  BY <1>1 DEF Stops
<1>3. PICK k \in S : \A l \in S : k <= l
  <2> HIDE DEF S
  <2> QED BY <1>2, LeastNatural
<1>4. LoadsTo(d, p) \in S
  <2>1. LoadsTo(d, p) = CHOOSE i \in S : \A l \in S : i <= l
    BY <1>2 DEF LoadsTo
  <2> HIDE DEF S
  <2> QED BY <1>3, <2>1
<1>5. LoadsTo(d, p) \in 1..Len(d)
  BY <1>4 DEF Stops
<1>6. LoadsTo(d, p) = e
  BY <1>1, <1>5
<1>7. d[e] \in Nat /\ ~(d[e] >= Base)
  BY <1>1, <1>2, <1>5, <1>6
<1> QED BY <1>7, BaseNumbers

-----------------------------------------------------------------------------
(* The bytes s at place p of d, as far as d goes.                          *)
Lies(d, p, s) == \A k \in 1..Len(s) : p + k - 1 <= Len(d) => d[p + k - 1] = s[k]

(* The bytes of a number from place p on are, in place, its groups.        *)
LEMMA GroupsRead ==
  ASSUME NEW d \in Seq(Nat), NEW e \in Nat, e <= Len(d)
  PROVE  \A x \in Nat : \A p \in Nat \ {0} :
           x \in Unsigned /\ ~Clipped[x] /\ Lies(d, p, SaveUnsigned[x]) /\ p + Len(SaveUnsigned[x]) - 1 = e
             => Groups(d, e)[p] = x
<1> DEFINE P(x, p) ==
             x \in Unsigned /\ ~Clipped[x] /\ Lies(d, p, SaveUnsigned[x]) /\ p + Len(SaveUnsigned[x]) - 1 = e
               => Groups(d, e)[p] = x
           S == {x \in Nat : \A p \in Nat \ {0} : P(x, p)}
<1>1. ASSUME NEW n \in Nat, \A k \in Nat : k < n => k \in S PROVE n \in S
  <2> SUFFICES ASSUME NEW p \in Nat \ {0}, n \in Unsigned, ~Clipped[n],
                      Lies(d, p, SaveUnsigned[n]), p + Len(SaveUnsigned[n]) - 1 = e
               PROVE  Groups(d, e)[p] = n
    OBVIOUS
  <2> DEFINE s == SaveUnsigned[n]
             q == n \div Base
             t == SaveUnsigned[q]
             r == n % Base
             g == Groups(d, e)
  <2>1. /\ q \in Nat /\ r \in Nat /\ r < Base /\ n = Base * q + r /\ Base \in Nat /\ n \in 0..(Modulus - 1)
        /\ Modulus \in Nat \ {0} /\ q \in Unsigned
    BY BaseFacts, Divided, NextNumber, SMTT(40) DEF Unsigned
  <2>2. CodeOf(n, s) /\ CodeOf(q, t)
    BY <2>1, CodeShape
  <2>3. Len(s) \in Nat \ {0} /\ Len(t) \in Nat \ {0} /\ s \in Seq(Nat) /\ t \in Seq(Nat)
    BY <2>2 DEF CodeOf
  <2>4. s = IF More(n) THEN <<Base + r>> \o t ELSE <<n>>
    BY SaveDefined
  <2>5. Clipped[n] = (n = Base \/ (n > Base /\ Clipped[q]))
    BY ClippedDefined
  <2>6. p <= e /\ p + 1 \in Nat \ {0} /\ d[p] = s[1] /\ p + Len(s) - 1 = e /\ ~Clipped[n] /\ Lies(d, p, s)
    <3>1. Len(s) \in Nat \ {0} /\ Len(d) \in Nat
      BY <2>3
    <3>2. p + Len(s) - 1 = e /\ ~Clipped[n] /\ Lies(d, p, s)
      OBVIOUS
    <3> HIDE DEF s
    <3>3. 1 \in 1..Len(s) /\ p + 1 - 1 = p /\ p <= e /\ p <= Len(d) /\ p + 1 \in Nat \ {0}
      BY <3>1, <3>2, SMTT(40)
    <3>4. d[p + 1 - 1] = s[1]
      BY <3>2, <3>3 DEF Lies
    <3> QED BY <3>2, <3>3, <3>4
  <2>7. g[p] = ((d[p] % Base) + Base * g[p + 1]) % Modulus
    BY <2>6, GroupsDefined
  <2>8. n % Modulus = n
    BY <2>1, BelowModulus
  <2>9. CASE More(n)
    <3>1. q < n /\ n > Base
      BY <2>9, NextNumber DEF More
    <3>2. ~Clipped[q]
      BY <2>5, <2>6, <3>1, Zenon
    <3> HIDE DEF s, q, t, g, r
    <3>3. s = <<Base + r>> \o t /\ Base + r \in Nat
      BY <2>1, <2>4, <2>9
    <3>4. Len(s) = Len(t) + 1 /\ s[1] = Base + r /\ \A k \in 1..Len(t) : s[k + 1] = t[k]
      <4>1. /\ Len(<<Base + r>> \o t) = Len(t) + 1 /\ (<<Base + r>> \o t)[1] = Base + r
            /\ \A k \in 1..Len(t) : (<<Base + r>> \o t)[k + 1] = t[k]
        BY <2>3, <3>3, InFront
      <4> QED BY <3>3, <4>1
    <3>5. Lies(d, p + 1, t) /\ (p + 1) + Len(t) - 1 = e
      <4>1. ASSUME NEW k \in 1..Len(t), (p + 1) + k - 1 <= Len(d) PROVE d[(p + 1) + k - 1] = t[k]
        <5>1. k + 1 \in 1..Len(s) /\ p + (k + 1) - 1 = (p + 1) + k - 1
          BY <2>3, <3>4
        <5>2. d[p + (k + 1) - 1] = s[k + 1]
          BY <2>6, <4>1, <5>1 DEF Lies
        <5> QED BY <3>4, <5>1, <5>2
      <4>2. (p + 1) + Len(t) - 1 = e
        BY <2>3, <2>6, <3>4
      <4> QED BY <4>1, <4>2 DEF Lies
    <3>6. g[p + 1] = q
      <4>1. q \in S
        BY <1>1, <2>1, <3>1
      <4>2. P(q, p + 1)
        BY <2>6, <4>1
      <4> QED BY <2>1, <3>2, <3>5, <4>2 DEF g, t
    <3>7. d[p] % Base = r
      <4>1. d[p] = Base + r
        BY <2>6, <3>4
      <4>2. (Base + r) % Base = r
        BY <2>1, Remainders
      <4> QED BY <4>1, <4>2
    <3>8. r + Base * q = n
      BY <2>1
    <3>9. g[p] = n
      BY <2>7, <2>8, <3>6, <3>7, <3>8
    <3> QED BY <3>9 DEF g
  <2>10. CASE ~More(n)
    <3>1. n < Base
      <4>1. n # Base
        BY <2>5, <2>6, Zenon
      <4>2. n <= Base
        BY <2>1, <2>10 DEF More
      <4> QED BY <2>1, <4>1, <4>2
    <3> HIDE DEF s, q, t, g, r
    <3>2. s = <<n>>
      BY <2>4, <2>10
    <3>3. Len(s) = 1 /\ s[1] = n
      BY <3>2
    <3>4. e = p /\ d[p] = n /\ p + 1 > e
      BY <2>6, <3>3
    <3>5. g[p + 1] = 0
      BY <2>6, <3>4, GroupsDefined DEF g
    <3>6. n % Base = n /\ n + Base * 0 = n
      BY <2>1, <3>1, Remainders
    <3>7. g[p] = n
      BY <2>7, <2>8, <3>4, <3>5, <3>6
    <3> QED BY <3>7 DEF g
  <2> QED BY <2>9, <2>10
<1>2. S = Nat
  <2> HIDE DEF S
  <2>1. S \in SUBSET Nat
    BY DEF S
  <2> QED BY <1>1, <2>1, StrongInduct
<1>3. \A x \in Nat : \A p \in Nat \ {0} : P(x, p)
  <2> HIDE DEF P
  <2> QED BY <1>2
<1> QED BY <1>3

(* What load makes of the bytes of an integer: the integer itself, if its  *)
(* code has not been cut short; ...                                        *)
LEMMA LoadKept ==
  ASSUME NEW d \in Seq(Nat), NEW p \in Nat \ {0}, NEW x \in Unsigned, ~Clipped[x],
         Lies(d, p, SaveUnsigned[x]), p + Len(SaveUnsigned[x]) - 1 <= Len(d)
  PROVE  LoadUnsigned(d, p) = Took(x, p + Len(SaveUnsigned[x]), FALSE, FALSE)
<1> DEFINE s == SaveUnsigned[x]
           e == p + Len(s) - 1
<1>1. x \in Nat /\ CodeOf(x, s) /\ Len(s) <= Longest
  BY CodeShape, LongestAssumption, BaseNumbers DEF Unsigned
<1>2. Len(s) \in Nat \ {0} /\ s \in Seq(Nat) /\ Len(d) \in Nat
  BY <1>1 DEF CodeOf
<1>3. Lies(d, p, s) /\ e <= Len(d) /\ ~Clipped[x]
  OBVIOUS
<1>4. Groups(d, e)[p] = x
  <2>1. e \in Nat /\ p + Len(s) - 1 = e
    BY <1>2
  <2> HIDE DEF e
  <2> QED BY <1>1, <1>3, <2>1, GroupsRead
<1> HIDE DEF s
<1>5. e \in Nat /\ p <= e /\ e - p + 1 <= Longest /\ e + 1 = p + Len(s)
  BY <1>1, <1>2, BaseNumbers
<1>6. ASSUME NEW k \in p..(e - 1) PROVE d[k] >= Base
  <2>1. k - p + 1 \in 1..(Len(s) - 1) /\ k - p + 1 \in 1..Len(s) /\ p + (k - p + 1) - 1 = k /\ k <= Len(d)
    BY <1>2, <1>3, <1>5, SMTT(40)
  <2>2. d[k] = s[k - p + 1]
    BY <1>3, <2>1 DEF Lies
  <2> QED BY <1>1, <2>1, <2>2 DEF CodeOf
<1>7. d[e] < Base
  <2>1. Len(s) \in 1..Len(s) /\ p + Len(s) - 1 = e
    BY <1>2
  <2>2. d[e] = s[Len(s)] /\ s[Len(s)] \in Nat
    BY <1>2, <1>3, <2>1 DEF Lies
  <2>3. ~(s[Len(s)] >= Base)
    BY <1>1, <1>3 DEF CodeOf
  <2> QED BY <2>2, <2>3, BaseNumbers
<1> HIDE DEF e
<1>8. LoadUnsigned(d, p) = Took(Groups(d, e)[p], e + 1, FALSE, FALSE)
  BY <1>3, <1>5, <1>6, <1>7, LoadStops
<1> QED BY <1>4, <1>5, <1>8 DEF s

(* ... something that ends elsewhere, or throws, if it has;                *)
LEMMA LoadClipped ==
  ASSUME NEW d \in Seq(Nat), NEW p \in Nat \ {0}, NEW x \in Unsigned, Clipped[x],
         Lies(d, p, SaveUnsigned[x]), p + Len(SaveUnsigned[x]) - 1 <= Len(d), NEW v
  PROVE  LoadUnsigned(d, p) # Took(v, p + Len(SaveUnsigned[x]), FALSE, FALSE)
<1> DEFINE s == SaveUnsigned[x]
           e == p + Len(s) - 1
<1>1. x \in Nat /\ CodeOf(x, s)
  BY CodeShape, BaseNumbers DEF Unsigned
<1>2. Len(s) \in Nat \ {0} /\ s \in Seq(Nat) /\ Len(d) \in Nat /\ Len(s) \in 1..Len(s)
  BY <1>1, SMTT(40) DEF CodeOf
<1>3. Lies(d, p, s) /\ e <= Len(d) /\ Clipped[x]
  OBVIOUS
<1> HIDE DEF s
<1>4. e \in Nat /\ e + 1 = p + Len(s)
  BY <1>2
<1>5. d[e] = s[Len(s)] /\ s[Len(s)] \in Nat
  BY <1>2, <1>3, SMTT(40) DEF Lies
<1>6. ~(d[e] < Base)
  BY <1>1, <1>3, <1>5, BaseNumbers, SMTT(40) DEF CodeOf
<1> HIDE DEF e
<1>7. LoadUnsigned(d, p) # Took(v, e + 1, FALSE, FALSE)
  BY <1>4, <1>6, LoadEndsWell
<1> QED BY <1>4, <1>7 DEF s

(* ... and the end of the bytes, if they are cut.                          *)
LEMMA LoadCut ==
  ASSUME NEW d \in Seq(Nat), NEW p \in Nat \ {0}, p <= Len(d) + 1, NEW x \in Unsigned,
         Lies(d, p, SaveUnsigned[x]), p + Len(SaveUnsigned[x]) - 1 > Len(d)
  PROVE  \E v \in Unsigned : LoadUnsigned(d, p) = Took(v, Len(d) + 1, TRUE, FALSE)
<1> DEFINE s == SaveUnsigned[x]
<1>1. x \in Nat /\ CodeOf(x, s) /\ Len(s) <= Longest
  BY CodeShape, LongestAssumption, BaseNumbers DEF Unsigned
<1>2. Len(s) \in Nat \ {0} /\ s \in Seq(Nat) /\ Len(d) \in Nat
  BY <1>1 DEF CodeOf
<1>3. Lies(d, p, s) /\ p + Len(s) - 1 > Len(d)
  OBVIOUS
<1> HIDE DEF s
<1>4. ASSUME NEW k \in p..Len(d) PROVE d[k] >= Base
  <2>1. k - p + 1 \in 1..(Len(s) - 1) /\ k - p + 1 \in 1..Len(s) /\ p + (k - p + 1) - 1 = k
    BY <1>2, <1>3
  <2>2. d[k] = s[k - p + 1]
    BY <1>3, <2>1, SMTT(40) DEF Lies
  <2> QED BY <1>1, <2>1, <2>2 DEF CodeOf
<1>5. Len(d) - p + 1 < Longest
  BY <1>1, <1>2, <1>3, BaseNumbers
<1> QED BY <1>4, <1>5, LoadRunsOut

-----------------------------------------------------------------------------
(* The code of a signed value is an unsigned value of the same width. *)
LEMMA ZigZagType == ASSUME NEW v \in Signed PROVE ZigZag(v) \in Unsigned
  BY VarintAssumption DEF Signed, Unsigned, ZigZag

(* A signed value comes back exactly if it is in the inner half of the     *)
(* range: >> at lines 123-126 of gprotocol_common.hpp keeps the sign of a  *)
(* code whose top bit is set.                                              *)
THEOREM ZigZagKeepsShort ==
  ASSUME NEW v \in Signed
  PROVE  UnZigZag(ZigZag(v)) = v <=> v \in Short
<1>1. PICK q \in Nat : Modulus = 4 * q
  BY VarintAssumption
<1>2. Modulus \div 2 = 2 * q /\ Modulus \div 4 = q
  BY <1>1
<1>3. CASE v < 0
  BY <1>1, <1>2, <1>3 DEF Signed, Short, ZigZag, UnZigZag
<1>4. CASE v >= 0
  BY <1>1, <1>2, <1>4 DEF Signed, Short, ZigZag, UnZigZag
<1>5. QED BY <1>3, <1>4 DEF Signed

(* Two signed values never have the same code. *)
THEOREM ZigZagInjective ==
  ASSUME NEW v \in Signed, NEW w \in Signed, ZigZag(v) = ZigZag(w)
  PROVE  v = w
  BY VarintAssumption DEF Signed, ZigZag

(* A number at its place is read back, to its last byte and no further,    *)
(* exactly if its varint keeps it.                                         *)
THEOREM NumberReadsBack ==
  ASSUME NEW d \in Seq(Nat), NEW p \in Nat \ {0}, NEW signed \in BOOLEAN,
         NEW v \in IF signed THEN Signed ELSE Unsigned,
         Lies(d, p, Save(v, signed)), p + Len(Save(v, signed)) - 1 <= Len(d)
  PROVE  Load(d, p, signed) = Took(v, p + Len(Save(v, signed)), FALSE, FALSE) <=> Kept(v, signed)
<1> DEFINE x == IF signed THEN ZigZag(v) ELSE v
           s == SaveUnsigned[x]
           r == LoadUnsigned(d, p)
           end == p + Len(s)
<1>1. x \in Unsigned /\ Save(v, signed) = s
  BY ZigZagType DEF Save
<1>2. Lies(d, p, s) /\ p + Len(s) - 1 <= Len(d)
  BY <1>1
<1>3. ~Clipped[x] => r = Took(x, end, FALSE, FALSE)
  BY <1>1, <1>2, LoadKept
<1>4. Clipped[x] => \A w : r # Took(w, end, FALSE, FALSE)
  BY <1>1, <1>2, LoadClipped
<1>5. Load(d, p, signed) = IF signed THEN [r EXCEPT !.v = UnZigZag(@)] ELSE r
  BY DEF Load
<1>6. Kept(v, signed) <=> (signed => v \in Short) /\ ~Clipped[x]
  BY DEF Kept
<1>7. \E w, l, e, b : r = Took(w, l, e, b)
  BY LoadIs
<1> HIDE DEF r, s, end
<1>8. CASE ~signed
  <2>1. x = v /\ Load(d, p, signed) = r
    BY <1>5, <1>8
  <2>2. r = Took(v, end, FALSE, FALSE) <=> ~Clipped[x]
    BY <1>3, <1>4, <2>1
  <2> QED BY <1>1, <1>6, <1>8, <2>1, <2>2 DEF end
<1>9. CASE signed
  <2>1. x = ZigZag(v) /\ v \in Signed /\ Load(d, p, signed) = [r EXCEPT !.v = UnZigZag(@)]
    BY <1>5, <1>9
  <2>2. PICK w, l, e, b : r = Took(w, l, e, b)
    BY <1>7
  <2>3. Load(d, p, signed) = Took(UnZigZag(w), l, e, b)
    BY <2>1, <2>2 DEF Took
  <2>4. Load(d, p, signed) = Took(v, end, FALSE, FALSE) => r = Took(w, end, FALSE, FALSE) /\ UnZigZag(w) = v
    <3>1. r = Took(w, end, FALSE, FALSE) <=> (w = w /\ l = end /\ e = FALSE /\ b = FALSE)
      <4>1. Took(w, l, e, b) = Took(w, end, FALSE, FALSE) <=> (w = w /\ l = end /\ e = FALSE /\ b = FALSE)
        BY DEF Took
      <4> QED BY <2>2, <4>1
    <3>2. Load(d, p, signed) = Took(v, end, FALSE, FALSE) <=> (UnZigZag(w) = v /\ l = end /\ e = FALSE /\ b = FALSE)
      <4>1. Took(UnZigZag(w), l, e, b) = Took(v, end, FALSE, FALSE) <=> (UnZigZag(w) = v /\ l = end /\ e = FALSE /\ b = FALSE)
        BY DEF Took
      <4> QED BY <2>3, <4>1
    <3> QED BY <3>1, <3>2, Zenon
  <2>5. CASE Clipped[x]
    BY <1>1, <1>4, <1>6, <2>4, <2>5 DEF end
  <2>6. CASE ~Clipped[x]
    <3>1. w = x /\ l = end /\ e = FALSE /\ b = FALSE
      BY <1>3, <2>2, <2>6 DEF Took
    <3>2. UnZigZag(x) = v <=> v \in Short
      BY <2>1, ZigZagKeepsShort
    <3>3. Load(d, p, signed) = Took(v, end, FALSE, FALSE) <=> UnZigZag(x) = v
      <4>1. Load(d, p, signed) = Took(v, end, FALSE, FALSE) <=> (UnZigZag(w) = v /\ l = end /\ e = FALSE /\ b = FALSE)
        <5>1. Took(UnZigZag(w), l, e, b) = Took(v, end, FALSE, FALSE) <=> (UnZigZag(w) = v /\ l = end /\ e = FALSE /\ b = FALSE)
          BY DEF Took
        <5> QED BY <2>3, <5>1
      <4> QED BY <3>1, <4>1, Zenon
    <3> QED BY <1>1, <1>6, <1>9, <2>6, <3>2, <3>3 DEF end
  <2> QED BY <2>5, <2>6
<1> QED BY <1>8, <1>9

-----------------------------------------------------------------------------
(* The pieces that fields are made of.                                     *)
LEMMA CodeType ==
  ASSUME NEW x \in Unsigned
  PROVE  /\ SaveUnsigned[x] \in Seq(Nat) /\ Len(SaveUnsigned[x]) \in 1..Longest
         /\ Len(SaveUnsigned[x]) \in Nat /\ Len(SaveUnsigned[x]) > 0
<1>1. x \in Nat
  BY BaseNumbers DEF Unsigned
<1>2. CodeOf(x, SaveUnsigned[x]) /\ Len(SaveUnsigned[x]) <= Longest
  BY <1>1, CodeShape, LongestAssumption
<1> QED BY <1>2, BaseNumbers DEF CodeOf

(* A number below a group is one byte, which is kept.                      *)
LEMMA SmallNumber ==
  ASSUME NEW x \in Nat, x < Base
  PROVE  SaveUnsigned[x] = <<x>> /\ ~Clipped[x] /\ x \in Unsigned
<1>1. ~More(x) /\ x # Base /\ ~(x > Base) /\ x \in Unsigned
  BY BaseNumbers, KeysAssumption DEF More, Unsigned
<1>2. SaveUnsigned[x] = <<x>>
  BY <1>1, SaveDefined
<1>3. Clipped[x] = (x = Base \/ (x > Base /\ Clipped[x \div Base]))
  BY ClippedDefined
<1>4. ~Clipped[x]
  BY <1>1, <1>3, Zenon
<1> QED BY <1>1, <1>2, <1>4

(* A key holds its tag and its wire type, and its code has at least one    *)
(* byte and at most Longest.                                               *)
LEMMA KeyFacts ==
  ASSUME NEW ty, NEW tag \in Tags \cup {InnerTag}
  PROVE  /\ WireKey(Wire(ty), tag) \in Unsigned /\ Key(ty, tag) = SaveUnsigned[WireKey(Wire(ty), tag)]
         /\ WireKey(Wire(ty), tag) \div 8 = tag /\ WireKey(Wire(ty), tag) % 8 = Wire(ty)
         /\ Key(ty, tag) \in Seq(Nat) /\ Len(Key(ty, tag)) \in 1..Longest
         /\ Len(Key(ty, tag)) \in Nat /\ Len(Key(ty, tag)) > 0
<1>1. Wire(ty) \in {0, 1, 2, 5}
  BY DEF Wire
<1>2. tag \in Nat \ {0} /\ tag * 8 + 7 < Modulus
  BY ArchiveAssumption, KeysAssumption DEF WireKey
<1>3. ASSUME NEW w \in {0, 1, 2, 5}
      PROVE  tag * 8 + w \in Unsigned /\ (tag * 8 + w) \div 8 = tag /\ (tag * 8 + w) % 8 = w
  BY <1>2, BaseNumbers DEF Unsigned
<1>4. /\ WireKey(Wire(ty), tag) \in Unsigned
      /\ WireKey(Wire(ty), tag) \div 8 = tag /\ WireKey(Wire(ty), tag) % 8 = Wire(ty)
  BY <1>1, <1>3 DEF WireKey
<1>5. Key(ty, tag) = SaveUnsigned[WireKey(Wire(ty), tag)]
  BY DEF Key, Save
<1> QED BY <1>4, <1>5, CodeType

(* A nonempty piece in front makes a nonempty sequence. *)
LEMMA Longer ==
  ASSUME NEW a \in Seq(Nat), Len(a) > 0, NEW b \in Seq(Nat), NEW s, s = a \o b
  PROVE  s \in Seq(Nat) /\ Len(s) = Len(a) + Len(b) /\ Len(s) \in Nat /\ Len(s) > 0
<1>1. a \o b \in Seq(Nat) /\ Len(a \o b) = Len(a) + Len(b) /\ Len(a) \in Nat /\ Len(b) \in Nat
  BY ConcatProperties
<1> QED BY <1>1

(* The length of a sequence with one behind it that is not empty. *)
LEMMA LongerBehind ==
  ASSUME NEW a \in Seq(Nat), NEW b \in Seq(Nat), Len(b) > 0, NEW s, s = a \o b
  PROVE  s \in Seq(Nat) /\ Len(s) = Len(a) + Len(b) /\ Len(s) \in Nat /\ Len(s) > 0
<1>1. a \o b \in Seq(Nat) /\ Len(a \o b) = Len(a) + Len(b) /\ Len(a) \in Nat /\ Len(b) \in Nat
  BY ConcatProperties
<1> QED BY <1>1

(* Pieces one behind the other lie one behind the other.                   *)
LEMMA LiesConcat ==
  ASSUME NEW d \in Seq(Nat), NEW p \in Nat \ {0}, NEW a \in Seq(Nat), NEW b \in Seq(Nat), Lies(d, p, a \o b)
  PROVE  Lies(d, p, a) /\ Lies(d, p + Len(a), b) /\ Len(a \o b) = Len(a) + Len(b)
<1>1. /\ Len(a \o b) = Len(a) + Len(b) /\ Len(a) \in Nat /\ Len(b) \in Nat
      /\ \A i \in 1..(Len(a) + Len(b)) : (a \o b)[i] = IF i <= Len(a) THEN a[i] ELSE b[i - Len(a)]
  BY ConcatProperties
<1>2. ASSUME NEW k \in 1..Len(a), p + k - 1 <= Len(d) PROVE d[p + k - 1] = a[k]
  <2>1. k \in 1..(Len(a) + Len(b)) /\ k <= Len(a)
    BY <1>1
  <2> QED BY <1>1, <1>2, <2>1 DEF Lies
<1>3. ASSUME NEW k \in 1..Len(b), (p + Len(a)) + k - 1 <= Len(d) PROVE d[(p + Len(a)) + k - 1] = b[k]
  <2>1. /\ Len(a) + k \in 1..(Len(a) + Len(b)) /\ ~(Len(a) + k <= Len(a)) /\ (Len(a) + k) - Len(a) = k
        /\ p + (Len(a) + k) - 1 = (p + Len(a)) + k - 1
    BY <1>1
  <2>2. d[p + (Len(a) + k) - 1] = (a \o b)[Len(a) + k]
    BY <1>1, <1>3, <2>1 DEF Lies
  <2> QED BY <1>1, <2>1, <2>2
<1> QED BY <1>1, <1>2, <1>3 DEF Lies

(* Bytes behind bytes behind bytes: concatenation is associative. *)
LEMMA Associates ==
  ASSUME NEW s \in Seq(Nat), NEW t \in Seq(Nat), NEW u \in Seq(Nat)
  PROVE  (s \o t) \o u = s \o (t \o u)
BY ConcatAssociative, SMTT(60)

(* The elements of a container, one behind the other, begin with the first.*)
LEMMA Flattened ==
  ASSUME NEW ss \in Seq(Seq(Nat)), Len(ss) # 0
  PROVE  \E t \in Seq(Nat) : FlattenSeq(ss) = ss[1] \o t
<1> DEFINE D == 1..Len(ss)
           m == [i \in D |-> i]
           next == [i \in D |-> IF i = 1 THEN 1 ELSE i - 1]
           B == {1}
           b == [i \in D |-> ss[i]]
           c == [i \in D |-> [s \in Seq(Nat) |-> s \o ss[i]]]
           P(f) == f = [i \in D |-> IF i = 1 THEN ss[i] ELSE f[i - 1] \o ss[i]]
           g == CHOOSE f : P(f)
<1>0. Len(ss) \in Nat \ {0} /\ 1 \in D /\ \A i \in D : ss[i] \in Seq(Nat)
  OBVIOUS
<1>1. /\ m \in [D -> Nat] /\ next \in [D -> D] /\ B \in SUBSET D /\ b \in [D -> Seq(Nat)]
      /\ c \in [D -> [Seq(Nat) -> Seq(Nat)]]
  BY <1>0
<1>2. \A i \in D \ B : m[next[i]] < m[i]
  BY <1>0
<1>3. \E f \in [D -> Seq(Nat)] : \A i \in D : Follows(f, i, next, B, b, c)
  <2> HIDE DEF D, m, next, B, b, c
  <2> QED BY <1>1, <1>2, RecursionDefines
<1>4. PICK f \in [D -> Seq(Nat)] : \A i \in D : Follows(f, i, next, B, b, c)
  BY <1>3
<1>5. ASSUME NEW i \in D PROVE f[i] = IF i = 1 THEN ss[i] ELSE f[i - 1] \o ss[i]
  <2>0. i # 1 => i - 1 \in D
    BY <1>0
  <2>1. i # 1 => i - 1 \in D /\ f[i - 1] \in Seq(Nat) /\ next[i] = i - 1
    <3>1. next[i] = IF i = 1 THEN 1 ELSE i - 1
      OBVIOUS
    <3> HIDE DEF D, next
    <3> QED BY <2>0, <3>1
  <2>2. b[i] = ss[i] /\ (i \in B <=> i = 1)
    OBVIOUS
  <2>3. i # 1 => c[i][f[i - 1]] = f[i - 1] \o ss[i]
    BY <2>1
  <2> HIDE DEF D, m, next, B, b, c
  <2> QED BY <1>4, <2>1, <2>2, <2>3 DEF Follows
<1>6. P(f)
  BY <1>5
<1>7. P(g)
  BY <1>6, ZenonT(60)
<1>8. FlattenSeq(ss) = g[Len(ss)]
  BY <1>0 DEF FlattenSeq
<1> HIDE DEF g
<1>9. \A i \in D : g[i] = IF i = 1 THEN ss[i] ELSE g[i - 1] \o ss[i]
  BY <1>7
<1> DEFINE E(i) == i \in D => \E t \in Seq(Nat) : g[i] = ss[1] \o t
           S == {i \in Nat : E(i + 1)}
<1>15. S \in SUBSET Nat
  OBVIOUS
<1>10. 0 \in S
  <2>1. g[0 + 1] = ss[1] \o <<>> /\ <<>> \in Seq(Nat)
    BY <1>0, <1>9
  <2> QED BY <2>1
<1>11. ASSUME NEW i \in S PROVE i + 1 \in S
  <2>0. i \in Nat
    <3> HIDE DEF S
    <3> QED BY <1>11, <1>15
  <2>1. E(i + 1) /\ i + 1 \in Nat
    <3> HIDE DEF E
    <3> QED BY <1>11, <2>0
  <2> DEFINE l == (i + 1) + 1
  <2>2. ASSUME l \in D PROVE \E t \in Seq(Nat) : g[l] = ss[1] \o t
    <3>1. i + 1 \in D /\ l # 1 /\ l - 1 = i + 1
      BY <1>0, <2>0, <2>2
    <3> HIDE DEF l
    <3>2. PICK t \in Seq(Nat) : g[i + 1] = ss[1] \o t
      BY <2>1, <3>1
    <3>3. g[l] = (ss[1] \o t) \o ss[l]
      BY <1>9, <2>2, <3>1, <3>2
    <3>4. ss[l] \in Seq(Nat) /\ ss[1] \in Seq(Nat)
      BY <1>0, <2>2
    <3>5. (ss[1] \o t) \o ss[l] = ss[1] \o (t \o ss[l])
      BY <3>4, Associates, ZenonT(60)
    <3>6. t \o ss[l] \in Seq(Nat)
      BY <3>4
    <3> QED BY <3>3, <3>5, <3>6
  <2>3. E(l)
    BY <2>2
  <2> HIDE DEF E
  <2> QED BY <2>1, <2>3
<1>12. S = Nat
  <2> HIDE DEF S
  <2>1. S \in SUBSET Nat
    BY DEF S
  <2> QED BY <1>10, <1>11, <2>1, Induct
<1>13. Len(ss) - 1 \in Nat /\ (Len(ss) - 1) + 1 = Len(ss) /\ Len(ss) \in D
  BY <1>0
<1>14. Len(ss) - 1 \in S
  <2> HIDE DEF S
  <2> QED BY <1>12, <1>13
<1> QED BY <1>8, <1>13, <1>14

-----------------------------------------------------------------------------
(* The values of the fields, by type. *)
LEMMA FieldsTyped ==
  ASSUME NEW f \in Fields
  PROVE  /\ f.tag \in Tags /\ f.end \in Nat /\ Ty(f) \in Types /\ f.v \in ValuesOf[Ty(f)]
         /\ f = [tag |-> f.tag, v |-> f.v, end |-> f.end]
<1>1. PICK t \in Tags : f \in [tag : {t}, v : ValuesOf[TypeOf[t]], end : Nat]
  BY DEF Fields
<1>2. f.tag = t /\ f.v \in ValuesOf[TypeOf[t]] /\ f.end \in Nat /\ f = [tag |-> f.tag, v |-> f.v, end |-> f.end]
  BY <1>1
<1> QED BY <1>2, ArchiveAssumption DEF Ty

(* What ValuesAssumption says of a value, by the name of its type. *)
LEMMA ValuesTyped ==
  ASSUME NEW ty, NEW v \in ValuesOf[ty]
  PROVE  /\ ty = "uint" => v \in Unsigned
         /\ ty = "sint" => v \in Signed
         /\ ty = "bool" => v \in {0, 1}
         /\ ty = "float" => v \in Nat
         /\ ty = "double" => v \in Nat
         /\ ty = "string" => v \in Seq(Nat) /\ Len(v) \in Unsigned
         /\ ty = "pair" => v[1] \in Unsigned /\ v[2] \in Unsigned
         /\ ty = "optional" => v \in Unsigned \/ v = Unset
         /\ ty = "class" => v \in Unsigned
         /\ ty \in Containers => v \in Seq(Unsigned)
         /\ ty \in Types \ (Containers \cup {"optional"}) => v # Unset
<1>1. ty = "string" => v \in Seq(Nat) /\ Len(v) \in Unsigned
  BY ValuesAssumption, BaseNumbers DEF Unsigned
<1>2. ty = "pair" => v[1] \in Unsigned /\ v[2] \in Unsigned
  BY ValuesAssumption
<1> QED BY <1>1, <1>2, ValuesAssumption DEF Containers

(* What save makes of a value, as its codes and bytes.                     *)
LEMMA NumberBody ==
  ASSUME NEW v \in Unsigned, NEW ty \in {"uint", "optional"}
  PROVE  Body(ty, v) = SaveUnsigned[v]
BY DEF Body, Save

(* The bytes of a signed number are the code of its zigzag number. *)
LEMMA SignedBody ==
  ASSUME NEW v \in Signed
  PROVE  Body("sint", v) = SaveUnsigned[ZigZag(v)] /\ Body("sint", v) = Save(v, TRUE) /\ ZigZag(v) \in Unsigned
BY ZigZagType DEF Body, Save

(* The bytes of a string are the code of its length and its own. *)
LEMMA StringBody ==
  ASSUME NEW v \in Seq(Nat), Len(v) \in Unsigned
  PROVE  Body("string", v) = SaveUnsigned[Len(v)] \o v
BY DEF Body, Save, WithLength

(* The bytes of the values that are not varints. *)
LEMMA PlainBody ==
  ASSUME NEW v
  PROVE  Body("bool", v) = <<v>> /\ Body("float", v) = Repeat(v, 4) /\ Body("double", v) = Repeat(v, 8)
BY DEF Body

(* A pair: its length and its keys are a byte each. *)
PairBytes(v) == <<8>> \o (SaveUnsigned[v[1]] \o (<<16>> \o SaveUnsigned[v[2]]))
(* The bytes of a pair are few enough for a length of one byte. *)
LEMMA PairBody ==
  ASSUME NEW v, v[1] \in Unsigned, v[2] \in Unsigned
  PROVE  /\ PairBytes(v) \in Seq(Nat) /\ Len(PairBytes(v)) \in Nat /\ Len(PairBytes(v)) < Base
         /\ Body("pair", v) = <<Len(PairBytes(v))>> \o PairBytes(v)
<1> DEFINE a == SaveUnsigned[v[1]]
           b == SaveUnsigned[v[2]]
           n == Len(PairBytes(v))
<1>1. a \in Seq(Nat) /\ b \in Seq(Nat) /\ Len(a) \in 1..Longest /\ Len(b) \in 1..Longest
  BY CodeType
<1>2. Key("uint", 1) = <<8>> /\ Key("uint", 2) = <<16>>
  <2>1. Wire("uint") = 0 /\ 1 * 8 + 0 = 8 /\ 2 * 8 + 0 = 16
    BY DEF Wire
  <2>2. SaveUnsigned[8] = <<8>> /\ SaveUnsigned[16] = <<16>>
    BY SmallNumber, BaseNumbers
  <2> QED BY <2>1, <2>2 DEF Key, Save, WireKey
<1> HIDE DEF a, b
<1>3. <<8>> \in Seq(Nat) /\ <<16>> \in Seq(Nat) /\ Len(<<8>>) = 1 /\ Len(<<16>>) = 1
  OBVIOUS
<1>4. ((<<8>> \o a) \o <<16>>) \o b = <<8>> \o (a \o (<<16>> \o b))
  <2>1. <<8>> \o a \in Seq(Nat) /\ <<16>> \o b \in Seq(Nat)
    BY <1>1, <1>3
  <2>2. ((<<8>> \o a) \o <<16>>) \o b = (<<8>> \o a) \o (<<16>> \o b)
    <3> DEFINE c == <<8>> \o a
               k == <<16>>
    <3>1. c \in Seq(Nat) /\ b \in Seq(Nat) /\ k \in Seq(Nat)
      BY <1>1, <1>3, <2>1
    <3> HIDE DEF c, k
    <3>2. (c \o k) \o b = c \o (k \o b)
      BY <3>1, Associates
    <3> QED BY <3>2 DEF c, k
  <2>3. (<<8>> \o a) \o (<<16>> \o b) = <<8>> \o (a \o (<<16>> \o b))
    <3> DEFINE c == <<16>> \o b
    <3>1. c \in Seq(Nat) /\ a \in Seq(Nat) /\ <<8>> \in Seq(Nat)
      BY <1>1, <1>3, <2>1
    <3> HIDE DEF c
    <3>2. (<<8>> \o a) \o c = <<8>> \o (a \o c)
      BY <3>1, Associates
    <3> QED BY <3>2 DEF c
  <2> QED BY <2>2, <2>3
<1>5. PairBytes(v) = <<8>> \o (a \o (<<16>> \o b))
  BY DEF PairBytes, a, b
<1>6. PairBytes(v) \in Seq(Nat) /\ n = 2 + Len(a) + Len(b)
  <2>1. <<16>> \o b \in Seq(Nat) /\ Len(<<16>> \o b) = 1 + Len(b)
    BY <1>1, <1>3, InFront
  <2>2. a \o (<<16>> \o b) \in Seq(Nat) /\ Len(a \o (<<16>> \o b)) = Len(a) + (1 + Len(b))
    BY <1>1, <2>1, ConcatProperties
  <2>3. <<8>> \o (a \o (<<16>> \o b)) \in Seq(Nat) /\ Len(<<8>> \o (a \o (<<16>> \o b))) = Len(a) + (1 + Len(b)) + 1
    BY <1>3, <2>2, InFront
  <2> QED BY <1>1, <1>5, <2>3
<1>7. n \in Nat /\ n < Base
  BY <1>1, <1>6, KeysAssumption, BaseNumbers
<1>8. Body("pair", v) = WithLength(Key("uint", 1) \o Save(v[1], FALSE) \o Key("uint", 2) \o Save(v[2], FALSE))
  BY DEF Body
<1>9. Save(v[1], FALSE) = a /\ Save(v[2], FALSE) = b
  BY DEF Save, a, b
<1>10. Body("pair", v) = SaveUnsigned[n] \o PairBytes(v)
  BY <1>2, <1>4, <1>5, <1>8, <1>9 DEF WithLength, Save
<1> HIDE DEF n
<1>11. SaveUnsigned[n] = <<n>>
  BY <1>7, SmallNumber
<1> QED BY <1>6, <1>7, <1>10, <1>11 DEF n

(* An embedded message: its length is a byte. *)
ClassBytes(v) == Key("uint", InnerTag) \o SaveUnsigned[v]
(* The bytes of an embedded message are few enough for a length of one     *)
(* byte.                                                                   *)
LEMMA ClassBody ==
  ASSUME NEW v \in Unsigned
  PROVE  /\ ClassBytes(v) \in Seq(Nat) /\ Len(ClassBytes(v)) \in Nat /\ Len(ClassBytes(v)) < Base
         /\ Body("class", v) = <<Len(ClassBytes(v))>> \o ClassBytes(v)
<1> DEFINE a == Key("uint", InnerTag)
           b == SaveUnsigned[v]
           n == Len(ClassBytes(v))
<1>1. a \in Seq(Nat) /\ b \in Seq(Nat) /\ Len(a) \in 1..Longest /\ Len(b) \in 1..Longest
  BY CodeType, KeyFacts
<1> HIDE DEF a, b
<1>2. a \o b \in Seq(Nat) /\ Len(a \o b) = Len(a) + Len(b)
  BY <1>1, ConcatProperties
<1>3. ClassBytes(v) = a \o b
  BY DEF ClassBytes, a, b
<1>4. n \in Nat /\ n < Base
  BY <1>1, <1>2, <1>3, KeysAssumption, BaseNumbers
<1>5. Body("class", v) = SaveUnsigned[n] \o ClassBytes(v)
  <2>1. Body("class", v) = WithLength(Key("uint", InnerTag) \o Save(v, FALSE))
    BY DEF Body
  <2> QED BY <2>1 DEF WithLength, Save, ClassBytes
<1> HIDE DEF n
<1>6. SaveUnsigned[n] = <<n>>
  BY <1>4, SmallNumber
<1> QED BY <1>2, <1>3, <1>4, <1>5, <1>6 DEF n

(* The body of a field that is there is one byte or more.                  *)
LEMMA BodyType ==
  ASSUME NEW ty \in Types \ Containers, NEW v \in ValuesOf[ty], v # Unset
  PROVE  Body(ty, v) \in Seq(Nat) /\ Len(Body(ty, v)) > 0
<1>1. CASE ty \in {"uint", "optional"}
  <2>1. v \in Unsigned
    BY <1>1, ValuesTyped
  <2> QED BY <1>1, <2>1, NumberBody, CodeType
<1>2. CASE ty = "sint"
  <2>1. v \in Signed
    BY <1>2, ValuesTyped
  <2>2. Body("sint", v) \in Seq(Nat) /\ Len(Body("sint", v)) > 0
    <3>1. Body("sint", v) = SaveUnsigned[ZigZag(v)] /\ ZigZag(v) \in Unsigned
      BY <2>1, SignedBody
    <3>2. SaveUnsigned[ZigZag(v)] \in Seq(Nat) /\ Len(SaveUnsigned[ZigZag(v)]) > 0
      BY <3>1, CodeType
    <3> QED BY <3>1, <3>2
  <2> QED BY <1>2, <2>2
<1>3. CASE ty = "string"
  <2>1. v \in Seq(Nat) /\ Len(v) \in Unsigned
    BY <1>3, ValuesTyped
  <2>3. Body("string", v) = SaveUnsigned[Len(v)] \o v
    BY <2>1, StringBody
  <2>4. SaveUnsigned[Len(v)] \in Seq(Nat) /\ Len(SaveUnsigned[Len(v)]) > 0
    BY <2>1, CodeType
  <2>5. Body("string", v) \in Seq(Nat) /\ Len(Body("string", v)) > 0
    BY <2>1, <2>3, <2>4, Longer
  <2> QED BY <1>3, <2>5
<1>4. CASE ty = "pair"
  <2>1. v[1] \in Unsigned /\ v[2] \in Unsigned
    BY <1>4, ValuesTyped
  <2>2. /\ PairBytes(v) \in Seq(Nat) /\ Len(PairBytes(v)) \in Nat
        /\ Body("pair", v) = <<Len(PairBytes(v))>> \o PairBytes(v)
    BY <2>1, PairBody
  <2>3. <<Len(PairBytes(v))>> \in Seq(Nat) /\ Len(<<Len(PairBytes(v))>>) > 0
    BY <2>2
  <2>4. Body("pair", v) \in Seq(Nat) /\ Len(Body("pair", v)) > 0
    BY <2>2, <2>3, Longer
  <2> QED BY <1>4, <2>4
<1>5. CASE ty = "class"
  <2>1. v \in Unsigned
    BY <1>5, ValuesTyped
  <2>2. /\ ClassBytes(v) \in Seq(Nat) /\ Len(ClassBytes(v)) \in Nat
        /\ Body("class", v) = <<Len(ClassBytes(v))>> \o ClassBytes(v)
    BY <2>1, ClassBody
  <2>3. <<Len(ClassBytes(v))>> \in Seq(Nat) /\ Len(<<Len(ClassBytes(v))>>) > 0
    BY <2>2
  <2>4. Body("class", v) \in Seq(Nat) /\ Len(Body("class", v)) > 0
    BY <2>2, <2>3, Longer
  <2> QED BY <1>5, <2>4
<1>6. CASE ty \in {"bool", "float", "double"}
  <2>1. v \in Nat
    BY <1>6, ValuesTyped
  <2>2. <<v>> \in Seq(Nat) /\ Len(<<v>>) = 1
    BY <2>1
  <2>3. ASSUME NEW n \in Nat PROVE Repeat(v, n) \in Seq(Nat) /\ Len(Repeat(v, n)) = n
    BY <2>1 DEF Repeat
  <2>4. Body("bool", v) \in Seq(Nat) /\ Len(Body("bool", v)) > 0
    <3>1. Body("bool", v) = <<v>> /\ Len(<<v>>) > 0
      BY <2>2, PlainBody
    <3> QED BY <2>2, <3>1
  <2>5. Body("float", v) \in Seq(Nat) /\ Len(Body("float", v)) > 0
    BY <2>3, PlainBody
  <2>6. Body("double", v) \in Seq(Nat) /\ Len(Body("double", v)) > 0
    BY <2>3, PlainBody
  <2> QED BY <1>6, <2>4, <2>5, <2>6
<1> QED BY <1>1, <1>2, <1>3, <1>4, <1>5, <1>6 DEF Types, Containers

(* The elements of a container, each behind the bytes k.                   *)
Elements(v, k) == FlattenSeq([i \in DOMAIN v |-> k \o Save(v[i], FALSE)])
ElementsMade(s, v, k) ==
  /\ s \in Seq(Nat)
  /\ v = <<>> => s = <<>>
  /\ v # <<>> => Len(s) > 0 /\ v[1] \in Unsigned /\ \E t \in Seq(Nat) : s = k \o (SaveUnsigned[v[1]] \o t)
(* The elements of a container are made of bytes, and begin with the first *)
(* one if there is one.                                                    *)
LEMMA ContainerBytes ==
  ASSUME NEW v \in Seq(Unsigned), NEW k \in Seq(Nat), NEW s, s = Elements(v, k)
  PROVE  ElementsMade(s, v, k)
<1> DEFINE ss == [i \in DOMAIN v |-> k \o Save(v[i], FALSE)]
<1>0. s = FlattenSeq(ss)
  BY DEF Elements
<1>1. Len(v) \in Nat /\ DOMAIN v = 1..Len(v) /\ \A i \in DOMAIN v : v[i] \in Unsigned
  OBVIOUS
<1>2. ASSUME NEW i \in DOMAIN v PROVE k \o Save(v[i], FALSE) \in Seq(Nat)
  <2>1. v[i] \in Unsigned
    BY <1>1
  <2>2. SaveUnsigned[v[i]] \in Seq(Nat)
    BY <2>1, CodeType
  <2>3. k \o SaveUnsigned[v[i]] \in Seq(Nat)
    BY <2>2
  <2> QED BY <2>3 DEF Save
<1>3. ss \in Seq(Seq(Nat)) /\ Len(ss) = Len(v)
  <2>1. ss \in [1..Len(v) -> Seq(Nat)]
    BY <1>1, <1>2
  <2> HIDE DEF ss
  <2> QED BY <1>1, <2>1
<1>4. CASE v = <<>>
  <2>1. Len(ss) = 0
    BY <1>3, <1>4
  <2>2. FlattenSeq(ss) = ss
    <3> HIDE DEF ss
    <3> QED BY <2>1 DEF FlattenSeq
  <2>3. ss = <<>>
    <3> HIDE DEF ss
    <3> QED BY <1>3, <2>1
  <2>4. s = <<>>
    BY <1>0, <2>2, <2>3
  <2>5. s \in Seq(Nat)
    BY <2>4
  <2> QED BY <1>4, <2>4, <2>5, Zenon DEF ElementsMade
<1>5. CASE v # <<>>
  <2>1. Len(v) # 0 /\ 1 \in DOMAIN v
    BY <1>1, <1>5
  <2>2. PICK t \in Seq(Nat) : FlattenSeq(ss) = ss[1] \o t
    <3> HIDE DEF ss
    <3> QED BY <1>3, <2>1, Flattened
  <2> DEFINE c == SaveUnsigned[v[1]]
  <2>3. v[1] \in Unsigned /\ c \in Seq(Nat) /\ Len(c) > 0 /\ Len(c) \in Nat
    BY <1>1, <2>1, CodeType
  <2>4. ss[1] = k \o c
    BY <2>1 DEF Save
  <2> HIDE DEF c
  <2>5. (k \o c) \o t = k \o (c \o t)
    BY <2>3, Associates
  <2>6. s = k \o (c \o t)
    BY <1>0, <2>2, <2>4, <2>5
  <2>7. c \o t \in Seq(Nat) /\ Len(c \o t) \in Nat /\ Len(c \o t) > 0
    <3> DEFINE u == c \o t
    <3>1. u = c \o t
      OBVIOUS
    <3> HIDE DEF u
    <3>2. u \in Seq(Nat) /\ Len(u) \in Nat /\ Len(u) > 0
      BY <2>3, <3>1, Longer
    <3> QED BY <3>2 DEF u
  <2>8. s \in Seq(Nat) /\ Len(s) > 0
    <3> DEFINE u == c \o t
    <3>1. u \in Seq(Nat) /\ Len(u) \in Nat /\ Len(u) > 0 /\ s = k \o u
      BY <2>6, <2>7
    <3> HIDE DEF u
    <3> QED BY <3>1, LongerBehind
  <2> QED BY <1>5, <2>3, <2>6, <2>8 DEF c, ElementsMade
<1> QED BY <1>4, <1>5

(* A field: nothing if it is absent, its key and its body, or, of a        *)
(* container, its elements.                                                *)
LEMMA FieldIs ==
  ASSUME NEW f \in Fields
  PROVE  /\ FieldOf(f) \in Seq(Nat) /\ Len(FieldOf(f)) \in Nat
         /\ Absent(f) <=> Len(FieldOf(f)) = 0
         /\ ~Absent(f) /\ Ty(f) \notin Containers =>
              f.v # Unset /\ FieldOf(f) = Key(Ty(f), f.tag) \o Body(Ty(f), f.v)
         /\ ~Absent(f) /\ Ty(f) = "unpacked" =>
              f.v[1] \in Unsigned /\ \E t \in Seq(Nat) : FieldOf(f) = Key("uint", f.tag) \o (SaveUnsigned[f.v[1]] \o t)
<1> DEFINE v == f.v
           s == FieldOf(f)
<1>1. f.tag \in Tags /\ Ty(f) \in Types /\ v \in ValuesOf[Ty(f)]
  BY FieldsTyped
<1>2. Key("uint", f.tag) \in Seq(Nat)
  BY <1>1, KeyFacts
<1>3. CASE Ty(f) \in Containers
  <2>1. v \in Seq(Unsigned)
    BY <1>1, <1>3, ValuesTyped
  <2>2. PICK k : k = IF Ty(f) = "packed" THEN <<>> ELSE Key("uint", f.tag)
    OBVIOUS
  <2>3. k \in Seq(Nat) /\ (Ty(f) = "unpacked" => k = Key("uint", f.tag))
    BY <1>2, <2>2
  <2>4. s = Elements(v, k)
    BY <1>3, <2>2 DEF FieldOf, Field, Elements
  <2>5. Absent(f) <=> v = <<>>
    BY <1>3 DEF Absent
  <2> HIDE DEF v, s
  <2>6. /\ s \in Seq(Nat)
        /\ v = <<>> => s = <<>>
        /\ v # <<>> => Len(s) > 0 /\ v[1] \in Unsigned /\ \E t \in Seq(Nat) : s = k \o (SaveUnsigned[v[1]] \o t)
    <3>1. ElementsMade(s, v, k)
      BY <2>1, <2>3, <2>4, ContainerBytes
    <3> QED BY <3>1, Zenon DEF ElementsMade
  <2>7. Len(s) \in Nat
    BY <2>6
  <2>8. Absent(f) => Len(s) = 0
    <3>1. Absent(f) => s = <<>>
      BY <2>5, <2>6
    <3> QED BY <3>1
  <2>9. ~Absent(f) => ~(Len(s) = 0)
    <3>1. ~Absent(f) => Len(s) > 0
      BY <2>5, <2>6, Zenon
    <3> QED BY <2>7, <3>1
  <2> QED BY <1>3, <2>3, <2>5, <2>6, <2>7, <2>8, <2>9 DEF v, s
<1>4. CASE Ty(f) \notin Containers
  <2>1. Absent(f) <=> v = Unset
    BY <1>4 DEF Absent
  <2>2. s = IF v = Unset THEN <<>> ELSE Key(Ty(f), f.tag) \o Body(Ty(f), v)
    BY <1>4 DEF FieldOf, Field
  <2>3. CASE v = Unset
    <3>1. s = <<>>
      BY <2>2, <2>3
    <3> HIDE DEF v, s
    <3>2. s \in Seq(Nat) /\ Len(s) = 0
      BY <3>1
    <3> QED BY <1>4, <2>1, <2>3, <3>2 DEF v, s, Containers
  <2>4. CASE v # Unset
    <3> DEFINE k == Key(Ty(f), f.tag)
               b == Body(Ty(f), v)
    <3>1. k \in Seq(Nat) /\ Len(k) > 0
      BY <1>1, KeyFacts
    <3>2. b \in Seq(Nat)
      BY <1>1, <1>4, <2>4, BodyType
    <3>3. s = k \o b
      BY <2>2, <2>4
    <3> HIDE DEF v, s, k, b
    <3>4. s \in Seq(Nat) /\ Len(s) \in Nat /\ Len(s) > 0
      BY <3>1, <3>2, <3>3, Longer
    <3>5. Len(s) # 0 /\ ~Absent(f) /\ Ty(f) # "unpacked"
      BY <1>4, <2>1, <2>4, <3>4 DEF Containers
    <3> QED BY <1>4, <2>4, <3>3, <3>4, <3>5, Zenon DEF v, s, k, b
  <2> QED BY <2>3, <2>4
<1> QED BY <1>3, <1>4

-----------------------------------------------------------------------------
(* Writing a field keeps the fields one behind the other.                  *)
LEMMA StartIs ==
  ASSUME InvWritten
  PROVE  /\ Len(sent) \in Nat /\ DOMAIN sent = 1..Len(sent) /\ Start(1) = 0
         /\ \A i \in 1..Len(sent) : sent[i] \in Fields /\ Start(i) \in Nat /\ Start(i + 1) = sent[i].end
         /\ Start(Len(sent) + 1) \in Nat
<1>1. /\ Len(sent) \in Nat /\ DOMAIN sent = 1..Len(sent)
      /\ \A i \in 1..Len(sent) : sent[i] \in Fields
  BY DEF InvWritten
<1>2. \A i \in 1..Len(sent) : sent[i].end \in Nat
  BY <1>1, FieldsTyped
<1>3. \A i \in 1..Len(sent) : i + 1 # 1 /\ (i + 1) - 1 = i /\ (i # 1 => i - 1 \in 1..Len(sent))
  BY <1>1
<1>4. \A i \in 1..Len(sent) : Start(i + 1) = sent[i].end /\ Start(i) \in Nat
  BY <1>2, <1>3 DEF Start
<1>5. Start(Len(sent) + 1) \in Nat
  <2>1. CASE Len(sent) = 0
    BY <2>1 DEF Start
  <2>2. CASE Len(sent) # 0
    <3>1. Len(sent) \in 1..Len(sent)
      BY <1>1, <2>2
    <3> QED BY <1>2, <1>4, <3>1
  <2> QED BY <2>1, <2>2
<1> QED BY <1>1, <1>4, <1>5 DEF Start

(* Fields start in order. *)
LEMMA StartsGrow ==
  ASSUME InvWritten
  PROVE  \A i, j \in 1..(Len(sent) + 1) : i <= j => Start(i) <= Start(j) /\ Start(i) \in Nat /\ Start(j) \in Nat
<1> DEFINE n == Len(sent)
           E(i, l) == i + l <= n + 1 => Start(i) <= Start(i + l)
           S == {l \in Nat : \A i \in 1..(n + 1) : E(i, l)}
<1>1. /\ n \in Nat
      /\ \A i \in 1..n : sent[i] \in Fields /\ Start(i) \in Nat /\ Start(i + 1) = sent[i].end
      /\ Start(n + 1) \in Nat
  BY StartIs
<1>2. \A i \in 1..n : Start(i) <= Start(i + 1)
  <2> SUFFICES ASSUME NEW i \in 1..n PROVE Start(i) <= Start(i + 1)
    OBVIOUS
  <2>1. Start(i) \in Nat /\ Start(i + 1) = sent[i].end /\ Len(FieldOf(sent[i])) \in Nat
    BY <1>1, FieldIs
  <2>2. sent[i].end = Start(i) + Len(FieldOf(sent[i]))
    BY DEF InvWritten, Written
  <2> QED BY <2>1, <2>2
<1> HIDE DEF n
<1>3. \A i \in 1..(n + 1) : Start(i) \in Nat
  BY <1>1
<1>4. 0 \in S
  <2>1. ASSUME NEW i \in 1..(n + 1) PROVE Start(i) <= Start(i + 0)
    <3>1. i + 0 = i
      BY <1>1
    <3> QED BY <1>3, <3>1
  <2> QED BY <2>1
<1>5. ASSUME NEW l \in S PROVE l + 1 \in S
  <2>1. l \in Nat /\ \A i \in 1..(n + 1) : E(i, l)
    <3> HIDE DEF E
    <3> QED BY <1>5
  <2>2. ASSUME NEW i \in 1..(n + 1), i + (l + 1) <= n + 1 PROVE Start(i) <= Start(i + (l + 1))
    <3>1. i + l \in 1..n /\ (i + l) + 1 = i + (l + 1) /\ i + l <= n + 1 /\ i + (l + 1) \in 1..(n + 1)
      BY <1>1, <2>1, <2>2
    <3>2. Start(i) <= Start(i + l)
      BY <2>1, <3>1
    <3>3. Start(i + l) <= Start(i + (l + 1))
      BY <1>2, <3>1
    <3>4. Start(i) \in Nat /\ Start(i + l) \in Nat /\ Start(i + (l + 1)) \in Nat
      BY <1>3, <3>1
    <3> QED BY <3>2, <3>3, <3>4
  <2>3. \A i \in 1..(n + 1) : E(i, l + 1)
    BY <2>2
  <2> HIDE DEF E
  <2> QED BY <2>1, <2>3
<1>6. S = Nat
  <2> HIDE DEF S
  <2>1. S \in SUBSET Nat
    BY DEF S
  <2> QED BY <1>4, <1>5, <2>1, Induct
<1>7. ASSUME NEW i \in 1..(n + 1), NEW j \in 1..(n + 1), i <= j PROVE Start(i) <= Start(j)
  <2>1. j - i \in Nat /\ i + (j - i) = j /\ j <= n + 1
    BY <1>1, <1>7
  <2>2. j - i \in S
    <3> HIDE DEF S
    <3> QED BY <1>6, <2>1
  <2>3. E(i, j - i)
    <3> HIDE DEF E
    <3> QED BY <2>2
  <2>4. Start(i) <= Start(i + (j - i))
    BY <2>1, <2>3
  <2> QED BY <2>1, <2>4
<1> QED BY <1>3, <1>7 DEF n

(* One more field behind the others keeps what has been written. *)
LEMMA WriteKeeps ==
  ASSUME InvWritten, NEW t \in Tags, NEW v \in ValuesOf[TypeOf[t]],
         sent' = Append(sent, [tag |-> t, v |-> v, end |-> Len(out) + Len(Field(t, TypeOf[t], v))]),
         out' = out \o Field(t, TypeOf[t], v)
  PROVE  InvWritten'
<1> DEFINE f == [tag |-> t, v |-> v, end |-> Len(out) + Len(Field(t, TypeOf[t], v))]
           s == Field(t, TypeOf[t], v)
<1>0. PICK n : n = Len(sent)
  OBVIOUS
<1>1. /\ sent \in Seq(Fields) /\ out \in Seq(Nat) /\ Len(out) = Start(n + 1)
      /\ \A i \in 1..n : Written(i)
  BY <1>0 DEF InvWritten
<1>2. n \in Nat /\ \A i \in 1..n : sent[i] \in Fields /\ Start(i) \in Nat /\ Start(i + 1) = sent[i].end
  BY <1>0, StartIs
<1>3. f \in Fields /\ FieldOf(f) = s
  <2>1. [tag |-> t, v |-> v, end |-> 0] \in Fields /\ FieldOf([tag |-> t, v |-> v, end |-> 0]) = s
    BY DEF Fields, FieldOf, Ty
  <2>2. Len(s) \in Nat
    BY <2>1, FieldIs
  <2>3. Len(out) + Len(s) \in Nat
    BY <1>1, <2>2
  <2> QED BY <2>3 DEF Fields, FieldOf, Ty
<1>4. s \in Seq(Nat) /\ Len(s) \in Nat
  BY <1>3, FieldIs
<1>5. f.end = Len(out) + Len(s)
  OBVIOUS
<1>6. sent' = Append(sent, f) /\ out' = out \o s
  OBVIOUS
<1> HIDE DEF f, s
<1>7. sent' \in Seq(Fields) /\ Len(sent') = n + 1 /\ sent'[n + 1] = f /\ \A i \in 1..n : sent'[i] = sent[i]
  BY <1>0, <1>1, <1>3, <1>6, AppendProperties
<1>8. /\ out' \in Seq(Nat) /\ Len(out') = Len(out) + Len(s) /\ Len(out) \in Nat
      /\ \A k \in 1..(Len(out) + Len(s)) : out'[k] = IF k <= Len(out) THEN out[k] ELSE s[k - Len(out)]
  BY <1>1, <1>4, <1>6, ConcatProperties, SMTT(40)
<1>9. /\ \A i \in 1..n : Start(i)' = Start(i)
      /\ Start(n + 1)' = Start(n + 1) /\ Start(n + 2)' = f.end
  <2>1. \A i \in 1..n : i # 1 => i - 1 \in 1..n
    BY <1>2
  <2>2. \A i \in 1..n : Start(i)' = Start(i)
    BY <1>7, <2>1 DEF Start
  <2>3. Start(n + 1)' = Start(n + 1)
    <3>1. n + 1 # 1 => n \in 1..n /\ (n + 1) - 1 = n
      BY <1>2
    <3>2. n + 1 # 1 => sent'[(n + 1) - 1] = sent[(n + 1) - 1]
      BY <1>7, <3>1
    <3>3. Start(n + 1) = IF n + 1 = 1 THEN 0 ELSE sent[(n + 1) - 1].end
      BY DEF Start
    <3>4. Start(n + 1)' = IF n + 1 = 1 THEN 0 ELSE sent'[(n + 1) - 1].end
      BY DEF Start
    <3>5. CASE n + 1 = 1
      BY <3>3, <3>4, <3>5
    <3>6. CASE n + 1 # 1
      BY <3>2, <3>3, <3>4, <3>6
    <3> QED BY <3>5, <3>6
  <2>4. Start(n + 2)' = f.end
    <3>1. n + 2 # 1 /\ (n + 2) - 1 = n + 1
      BY <1>2
    <3>2. Start(n + 2)' = sent'[(n + 2) - 1].end
      BY <3>1 DEF Start
    <3> QED BY <1>7, <3>1, <3>2
  <2> QED BY <2>2, <2>3, <2>4
<1>10. ASSUME NEW i \in 1..n PROVE Written(i)'
  <2>1. Written(i) /\ sent'[i] = sent[i] /\ Start(i)' = Start(i) /\ Start(i) \in Nat /\ sent[i] \in Fields
    BY <1>1, <1>2, <1>7, <1>9
  <2>2. Len(FieldOf(sent[i])) \in Nat
    BY <2>1, FieldIs
  <2>3. FieldOf(sent[i])' = FieldOf(sent[i])
    BY <2>1 DEF FieldOf, Ty
  <2>4. sent[i].end <= Len(out)
    <3>1. i + 1 \in 1..(n + 1) /\ n + 1 \in 1..(n + 1) /\ i + 1 <= n + 1
      BY <1>2
    <3>2. Start(i + 1) <= Start(n + 1)
      BY <1>0, <3>1, StartsGrow
    <3> QED BY <1>1, <1>2, <3>2
  <2>5. ASSUME NEW k \in 1..Len(FieldOf(sent[i])) PROVE out'[Start(i) + k] = FieldOf(sent[i])[k]
    <3>1. Start(i) + k \in 1..Len(out) /\ Start(i) + k \in 1..(Len(out) + Len(s)) /\ Start(i) + k <= Len(out)
      <4>1. sent[i].end = Start(i) + Len(FieldOf(sent[i])) /\ k \in 1..Len(FieldOf(sent[i]))
        BY <2>1 DEF Written
      <4>2. PICK m \in Nat : m = Len(FieldOf(sent[i])) /\ k \in 1..m /\ sent[i].end = Start(i) + m
        BY <2>2, <4>1
      <4>3. Start(i) \in Nat /\ Start(i) + m <= Len(out) /\ Len(out) \in Nat /\ Len(s) \in Nat
        BY <1>4, <1>8, <2>1, <2>4, <4>2
      <4> QED BY <4>2, <4>3
    <3>2. out[Start(i) + k] = FieldOf(sent[i])[k]
      BY <2>1 DEF Written
    <3> QED BY <1>8, <3>1, <3>2
  <2> QED BY <2>1, <2>3, <2>5 DEF Written
<1>11. Written(n + 1)'
  <2>1. FieldOf(sent[n + 1])' = s
    <3>1. FieldOf(sent[n + 1])' = FieldOf(sent'[n + 1])
      BY DEF FieldOf, Ty
    <3> QED BY <1>3, <1>7, <3>1
  <2>2. Start(n + 1)' = Len(out) /\ sent'[n + 1].end = Len(out) + Len(s)
    BY <1>5, <1>7, <1>1, <1>9
  <2>3. ASSUME NEW k \in 1..Len(s) PROVE out'[Len(out) + k] = s[k]
    <3>1. Len(out) + k \in 1..(Len(out) + Len(s)) /\ ~(Len(out) + k <= Len(out)) /\ (Len(out) + k) - Len(out) = k
      BY <1>4, <1>8, SMTT(40)
    <3> QED BY <1>8, <3>1
  <2>4. /\ sent'[n + 1].end = Start(n + 1)' + Len(FieldOf(sent[n + 1])')
        /\ \A k \in 1..Len(FieldOf(sent[n + 1])') : out'[Start(n + 1)' + k] = (FieldOf(sent[n + 1])')[k]
    BY <2>1, <2>2, <2>3
  <2> QED BY <2>4 DEF Written
<1>12. Len(out') = Start(Len(sent) + 1)'
  <2>1. Len(sent') + 1 = n + 2
    BY <1>2, <1>7
  <2>2. Start(Len(sent) + 1)' = sent'[n + 1].end
    <3>1. Len(sent') + 1 # 1 /\ (Len(sent') + 1) - 1 = n + 1
      BY <1>2, <2>1
    <3> QED BY <3>1 DEF Start
  <2> QED BY <1>5, <1>7, <1>8, <2>2
<1>13. \A i \in 1..Len(sent') : Written(i)'
  <2>1. \A i \in 1..Len(sent') : i \in 1..n \/ i = n + 1
    BY <1>2, <1>7
  <2> QED BY <1>10, <1>11, <2>1
<1> QED BY <1>7, <1>8, <1>12, <1>13 DEF InvWritten

-----------------------------------------------------------------------------
(* The bytes of a field lie at its place. *)
LEMMA FieldLies ==
  ASSUME InvWritten, NEW i \in 1..Len(sent)
  PROVE  /\ Lies(out, Start(i) + 1, FieldOf(sent[i])) /\ Start(i) \in Nat /\ sent[i] \in Fields
         /\ sent[i].end = Start(i) + Len(FieldOf(sent[i])) /\ sent[i].end <= Len(out)
         /\ FieldOf(sent[i]) \in Seq(Nat) /\ Len(FieldOf(sent[i])) \in Nat
<1>1. Start(i) \in Nat /\ sent[i] \in Fields /\ Start(i + 1) = sent[i].end /\ Len(sent) \in Nat
  BY StartIs
<1>2. Written(i) /\ Len(out) = Start(Len(sent) + 1)
  BY DEF InvWritten
<1>3. FieldOf(sent[i]) \in Seq(Nat) /\ Len(FieldOf(sent[i])) \in Nat
  BY <1>1, FieldIs
<1>4. sent[i].end <= Len(out)
  <2>1. i + 1 \in 1..(Len(sent) + 1) /\ Len(sent) + 1 \in 1..(Len(sent) + 1) /\ i + 1 <= Len(sent) + 1
    BY <1>1
  <2>2. Start(i + 1) <= Start(Len(sent) + 1)
    BY <2>1, StartsGrow
  <2> QED BY <1>1, <1>2, <2>2
<1>5. Lies(out, Start(i) + 1, FieldOf(sent[i]))
  <2>1. ASSUME NEW k \in 1..Len(FieldOf(sent[i])) PROVE out[(Start(i) + 1) + k - 1] = FieldOf(sent[i])[k]
    <3>1. (Start(i) + 1) + k - 1 = Start(i) + k
      BY <1>1, <1>3
    <3> QED BY <1>2, <3>1 DEF Written
  <2> QED BY <2>1 DEF Lies
<1> QED BY <1>1, <1>2, <1>3, <1>4, <1>5 DEF Written

(* VarintsExact follows from where the fields' bytes are in the stream. *)
LEMMA WrittenExact == InvWritten => VarintsExact
<1> SUFFICES ASSUME InvWritten, NEW i \in DOMAIN sent, Ty(sent[i]) \in {"uint", "sint"}
             PROVE  LET f == sent[i]  signed == Ty(f) = "sint"
                    IN  (Load(out, f.end - Len(Body(Ty(f), f.v)) + 1, signed) = Took(f.v, f.end + 1, FALSE, FALSE))
                          <=> Kept(f.v, signed)
  BY DEF VarintsExact
<1> DEFINE f == sent[i]
           v == f.v
           signed == Ty(f) = "sint"
           k == Key(Ty(f), f.tag)
           b == Body(Ty(f), v)
           p == f.end - Len(b) + 1
<1>1. i \in 1..Len(sent) /\ out \in Seq(Nat)
  BY StartIs DEF InvWritten
<1>2. /\ Lies(out, Start(i) + 1, FieldOf(f)) /\ Start(i) \in Nat /\ f \in Fields
      /\ f.end = Start(i) + Len(FieldOf(f)) /\ f.end <= Len(out)
  BY <1>1, FieldLies
<1>3. f.tag \in Tags /\ Ty(f) \in {"uint", "sint"} /\ v \in ValuesOf[Ty(f)]
  BY <1>2, FieldsTyped
<1>4. v # Unset /\ (signed => v \in Signed) /\ (~signed => v \in Unsigned)
  BY <1>3, ValuesTyped DEF Types, Containers
<1>5. ~Absent(f) /\ Ty(f) \notin Containers
  BY <1>3, <1>4 DEF Absent, Containers
<1>6. FieldOf(f) = k \o b
  BY <1>2, <1>5, FieldIs
<1>7. k \in Seq(Nat) /\ Len(k) \in Nat
  BY <1>3, KeyFacts
<1>8. b = Save(v, signed) /\ b \in Seq(Nat)
  <2>1. CASE signed
    <3>1. b = Body("sint", v)
      BY <2>1
    <3>2. Body("sint", v) = Save(v, TRUE) /\ Body("sint", v) = SaveUnsigned[ZigZag(v)] /\ ZigZag(v) \in Unsigned
      BY <1>4, <2>1, SignedBody
    <3>3. SaveUnsigned[ZigZag(v)] \in Seq(Nat)
      BY <3>2, CodeType
    <3>4. Save(v, TRUE) = Save(v, signed)
      BY <2>1 DEF Save
    <3> QED BY <3>1, <3>2, <3>3, <3>4
  <2>2. CASE ~signed
    <3>1. b = Body("uint", v)
      BY <1>3, <2>2
    <3>2. Body("uint", v) = SaveUnsigned[v] /\ SaveUnsigned[v] \in Seq(Nat)
      BY <1>4, <2>2, NumberBody, CodeType
    <3>3. Save(v, signed) = SaveUnsigned[v]
      BY <2>2 DEF Save
    <3> QED BY <3>1, <3>2, <3>3
  <2> QED BY <2>1, <2>2
<1> HIDE DEF f, v, signed, k, b, p
<1>9. Lies(out, (Start(i) + 1) + Len(k), b) /\ Len(FieldOf(f)) = Len(k) + Len(b)
  BY <1>1, <1>2, <1>6, <1>7, <1>8, LiesConcat
<1>10. /\ p = (Start(i) + 1) + Len(k) /\ p \in Nat \ {0} /\ p + Len(b) - 1 <= Len(out) /\ p + Len(b) = f.end + 1
       /\ Lies(out, p, b)
  <2>1. Len(b) \in Nat
    BY <1>8
  <2> QED BY <1>2, <1>7, <1>9, <2>1 DEF p
<1>11. signed \in BOOLEAN
  BY DEF signed
<1>12. Load(out, p, signed) = Took(v, p + Len(b), FALSE, FALSE) <=> Kept(v, signed)
  <2>1. v \in IF signed THEN Signed ELSE Unsigned
    BY <1>4
  <2> QED BY <1>1, <1>8, <1>10, <1>11, <2>1, NumberReadsBack, ZenonT(60)
<1>13. Load(out, p, signed) = Took(v, f.end + 1, FALSE, FALSE) <=> Kept(v, signed)
  BY <1>10, <1>12
<1> QED BY <1>13 DEF f, v, signed, b, p

-----------------------------------------------------------------------------
(* What is read at a place of the bytes that have arrived. *)
LEMMA NumberIs == ASSUME NEW p \in Nat PROVE Number[p] = LoadUnsigned(recv, p)
BY DEF Number

(* A code that save() keeps is read from the stream to its last byte. *)
LEMMA NumberWhole ==
  ASSUME recv \in Seq(Nat), NEW p \in Nat \ {0}, NEW x \in Unsigned, ~Clipped[x],
         Lies(recv, p, SaveUnsigned[x]), p + Len(SaveUnsigned[x]) <= Len(recv) + 1
  PROVE  Number[p] = Took(x, p + Len(SaveUnsigned[x]), FALSE, FALSE)
<1>1. p + Len(SaveUnsigned[x]) - 1 <= Len(recv)
  <2>1. Len(SaveUnsigned[x]) \in Nat /\ Len(recv) \in Nat
    BY CodeType
  <2> QED BY <2>1
<1>2. LoadUnsigned(recv, p) = Took(x, p + Len(SaveUnsigned[x]), FALSE, FALSE)
  BY <1>1, LoadKept
<1> QED BY <1>2, NumberIs

(* What a load has taken. *)
Reads(r, v, p) == r.v = v /\ r.p = p /\ r.eof = FALSE /\ r.bad = FALSE
(* A load that has gone well is one that reads. *)
LEMMA TookReads ==
  ASSUME NEW r, NEW v, NEW p, r = Took(v, p, FALSE, FALSE)
  PROVE  Reads(r, v, p)
BY DEF Took, Reads

(* A number at a place that is reached, which may be cut. *)
RunOut(r) == r.p = Len(recv) + 1 /\ r.eof = TRUE /\ r.bad = FALSE /\ r.v \in Unsigned
(* A load that has met the end is one that has run out. *)
LEMMA TookOut ==
  ASSUME NEW r, NEW v \in Unsigned, r = Took(v, Len(recv) + 1, TRUE, FALSE)
  PROVE  RunOut(r) /\ r.v = v
BY DEF Took, RunOut
(* A code that is cut runs out, whatever number it is of. *)
LEMMA NumberCut ==
  ASSUME recv \in Seq(Nat), NEW p \in Nat \ {0}, p <= Len(recv) + 1, NEW x \in Unsigned,
         Lies(recv, p, SaveUnsigned[x]), p + Len(SaveUnsigned[x]) > Len(recv) + 1
  PROVE  RunOut(Number[p])
<1>1. p + Len(SaveUnsigned[x]) - 1 > Len(recv)
  <2>1. Len(SaveUnsigned[x]) \in Nat /\ Len(recv) \in Nat
    BY CodeType
  <2> QED BY <2>1
<1>2. PICK v \in Unsigned : LoadUnsigned(recv, p) = Took(v, Len(recv) + 1, TRUE, FALSE)
  BY <1>1, LoadCut
<1>3. Number[p] = Took(v, Len(recv) + 1, TRUE, FALSE)
  BY <1>2, NumberIs
<1> QED BY <1>3, TookOut

(* Behind the last byte there is no number. *)
LEMMA NumberAtEnd ==
  ASSUME recv \in Seq(Nat)
  PROVE  RunOut(Number[Len(recv) + 1]) /\ Number[Len(recv) + 1].v = 0
<1> DEFINE e == Len(recv)
<1>1. e \in Nat /\ e + 1 \in Nat \ {0} /\ e + 1 > e /\ (e + 1)..e = {}
  OBVIOUS
<1>2. Stops(recv, e + 1) = {} /\ LoadsTo(recv, e + 1) = e
  BY <1>1 DEF Stops, LoadsTo
<1>3. Groups(recv, e)[e + 1] = 0
  BY <1>1, GroupsDefined
<1>4. LoadUnsigned(recv, e + 1) = Took(0, e + 1, TRUE, FALSE)
  <2>1. (Stops(recv, e + 1) = {}) = TRUE /\ (Stops(recv, e + 1) # {} /\ recv[LoadsTo(recv, e + 1)] >= Base) = FALSE
    BY <1>2
  <2> QED BY <1>2, <1>3, <2>1, LoadIs
<1>5. Number[e + 1] = Took(0, e + 1, TRUE, FALSE)
  BY <1>1, <1>4, NumberIs
<1>6. 0 \in Unsigned
  BY BaseNumbers DEF Unsigned
<1> QED BY <1>5, <1>6, TookOut

(* A number that lies at a place, or at the end, leads behind it or to the *)
(* end.                                                                    *)
Reached(q, x) == q = Len(recv) + 1 \/ (q \in Nat \ {0} /\ q <= Len(recv) + 1 /\ Lies(recv, q, SaveUnsigned[x]))
(* From its own place or from the end of the data, a code is read or runs  *)
(* out.                                                                    *)
LEMMA NumberReached ==
  ASSUME recv \in Seq(Nat), NEW x \in Unsigned, ~Clipped[x], NEW q, Reached(q, x)
  PROVE  IF q + Len(SaveUnsigned[x]) <= Len(recv) + 1
         THEN Reads(Number[q], x, q + Len(SaveUnsigned[x]))
         ELSE RunOut(Number[q])
<1>1. Len(SaveUnsigned[x]) \in Nat /\ Len(SaveUnsigned[x]) > 0 /\ Len(recv) \in Nat
  BY CodeType
<1>2. CASE q = Len(recv) + 1
  <2>1. \A e, l \in Nat : l > 0 => ~(e + 1 + l <= e + 1)
    OBVIOUS
  <2>2. ~(q + Len(SaveUnsigned[x]) <= Len(recv) + 1)
    BY <1>1, <1>2, <2>1
  <2> QED BY <1>2, <2>2, NumberAtEnd
<1>3. CASE q # Len(recv) + 1
  <2>1. q \in Nat \ {0} /\ q <= Len(recv) + 1 /\ Lies(recv, q, SaveUnsigned[x])
    BY <1>3 DEF Reached
  <2>2. CASE q + Len(SaveUnsigned[x]) > Len(recv) + 1
    <3>1. ~(q + Len(SaveUnsigned[x]) <= Len(recv) + 1)
      BY <1>1, <2>1, <2>2
    <3>2. RunOut(Number[q])
      BY <2>1, <2>2, NumberCut
    <3> QED BY <3>1, <3>2
  <2>3. CASE q + Len(SaveUnsigned[x]) <= Len(recv) + 1
    <3>1. Number[q] = Took(x, q + Len(SaveUnsigned[x]), FALSE, FALSE)
      BY <2>1, <2>3, NumberWhole
    <3>2. Reads(Number[q], x, q + Len(SaveUnsigned[x]))
      BY <3>1, TookReads
    <3> QED BY <2>3, <3>2
  <2> QED BY <1>1, <2>1, <2>2, <2>3
<1> QED BY <1>2, <1>3

(* read() and seekg from place p. *)
LEMMA SkippedIs ==
  ASSUME recv \in Seq(Nat), NEW p \in Nat, NEW n \in Nat
  PROVE  /\ p + n <= Len(recv) + 1 => Skipped(p, n) = Took(0, p + n, FALSE, FALSE)
         /\ p + n > Len(recv) + 1 => Skipped(p, n) = Took(0, Len(recv) + 1, TRUE, FALSE)
<1>1. Len(recv) \in Nat
  OBVIOUS
<1>2. CASE p + n > Len(recv) + 1
  <2>1. Skipped(p, n) = Took(0, Len(recv) + 1, TRUE, FALSE)
    BY <1>2, Zenon DEF Skipped
  <2>2. ~(p + n <= Len(recv) + 1)
    BY <1>1, <1>2
  <2> QED BY <2>1, <2>2, Zenon
<1>3. CASE ~(p + n > Len(recv) + 1)
  <2>1. Skipped(p, n) = Took(0, p + n, FALSE, FALSE)
    BY <1>3, Zenon DEF Skipped
  <2>2. ~(p + n > Len(recv) + 1)
    BY <1>3
  <2> QED BY <2>1, <2>2, Zenon
<1> QED BY <1>2, <1>3, Zenon

-----------------------------------------------------------------------------
(* What load makes of a field's body, which lies at place p.               *)
BodyClear(ty, v) ==
  CASE ty \in {"uint", "optional", "class"} -> ~Clipped[v]
    [] ty = "sint"   -> v \in Short /\ ~Clipped[ZigZag(v)]
    [] ty = "string" -> ~Clipped[Len(v)]
    [] ty = "pair"   -> ~Clipped[v[1]] /\ ~Clipped[v[2]]
    [] ty = "unpacked" -> ~Clipped[v[1]]
    [] OTHER         -> TRUE
(* What is kept of a field does not depend on its tag but for the type. *)
LEMMA BodyKeptIs == ASSUME NEW f PROVE BodyKept(f) <=> BodyClear(Ty(f), f.v)
BY DEF BodyKept, BodyClear, Kept

(* A body that has arrived is read as it was written; one that is cut      *)
(* leads to the end of the bytes.                                          *)
ReadsBody(ty, v, p) ==
  LET r == LoadBody(ty, p)
  IN  IF p + Len(Body(ty, v)) <= Len(recv) + 1
      THEN Reads(r, v, p + Len(Body(ty, v)))
      ELSE r.p = Len(recv) + 1

(* load() of an unsigned number, or of an optional one. *)
LEMMA ReadsNumber ==
  ASSUME recv \in Seq(Nat), NEW p \in Nat \ {0}, p <= Len(recv) + 1,
         NEW ty \in {"uint", "optional"}, NEW v \in Unsigned, ~Clipped[v], Lies(recv, p, Body(ty, v))
  PROVE  ReadsBody(ty, v, p)
<1> DEFINE s == SaveUnsigned[v]
<1>1. Body(ty, v) = s /\ LoadBody(ty, p) = Number[p]
  BY NumberBody DEF LoadBody
<1>2. Len(s) \in Nat /\ Len(recv) \in Nat /\ Lies(recv, p, s)
  BY <1>1, CodeType
<1>3. CASE p + Len(s) <= Len(recv) + 1
  <2>1. Number[p] = Took(v, p + Len(s), FALSE, FALSE)
    BY <1>2, <1>3, NumberWhole
  <2> HIDE DEF s
  <2>2. Reads(Number[p], v, p + Len(s))
    BY <2>1, TookReads
  <2> QED BY <1>1, <1>3, <2>2 DEF ReadsBody
<1>4. CASE p + Len(s) > Len(recv) + 1
  <2>1. RunOut(Number[p])
    BY <1>2, <1>4, NumberCut
  <2> HIDE DEF s
  <2> QED BY <1>1, <1>2, <1>4, <2>1 DEF ReadsBody, RunOut
<1> HIDE DEF s
<1> QED BY <1>2, <1>3, <1>4

(* load() of a signed number. *)
LEMMA ReadsSigned ==
  ASSUME recv \in Seq(Nat), NEW p \in Nat \ {0}, p <= Len(recv) + 1,
         NEW v \in Signed, v \in Short, ~Clipped[ZigZag(v)], Lies(recv, p, Body("sint", v))
  PROVE  ReadsBody("sint", v, p)
<1> DEFINE x == ZigZag(v)
           s == SaveUnsigned[x]
           n == Number[p]
           r == LoadBody("sint", p)
<1>1. Body("sint", v) = s /\ x \in Unsigned
  BY SignedBody
<1>2. Len(s) \in Nat /\ Len(recv) \in Nat /\ Lies(recv, p, s)
  BY <1>1, CodeType
<1>3. r = [n EXCEPT !.v = UnZigZag(@)]
  BY NumberIs DEF LoadBody, Load
<1>4. PICK a, l, e, b : n = Took(a, l, e, b)
  BY LoadIs, NumberIs
<1>5. r.v = UnZigZag(n.v) /\ r.p = n.p /\ r.eof = n.eof /\ r.bad = n.bad
  <2> HIDE DEF n, r
  <2> QED BY <1>3, <1>4 DEF Took
<1>6. CASE p + Len(s) <= Len(recv) + 1
  <2>1. n = Took(x, p + Len(s), FALSE, FALSE)
    BY <1>1, <1>2, <1>6, NumberWhole
  <2>2. UnZigZag(x) = v
    BY ZigZagKeepsShort
  <2>3. n.v = x /\ n.p = p + Len(s) /\ n.eof = FALSE /\ n.bad = FALSE
    <3> HIDE DEF n, s, x
    <3>1. Reads(n, x, p + Len(s))
      BY <2>1, TookReads
    <3> QED BY <3>1 DEF Reads
  <2>4. Reads(r, v, p + Len(s))
    <3> HIDE DEF n, s, x, r
    <3> QED BY <1>5, <2>2, <2>3 DEF Reads
  <2> HIDE DEF s
  <2> QED BY <1>1, <1>6, <2>4 DEF ReadsBody
<1>7. CASE p + Len(s) > Len(recv) + 1
  <2>1. RunOut(n)
    BY <1>1, <1>2, <1>7, NumberCut
  <2>2. r.p = Len(recv) + 1
    <3> HIDE DEF n, s, x, r
    <3> QED BY <1>5, <2>1 DEF RunOut
  <2> HIDE DEF s
  <2> QED BY <1>1, <1>2, <1>7, <2>2 DEF ReadsBody
<1> HIDE DEF s
<1> QED BY <1>2, <1>6, <1>7

(* Bytes that are passed over are passed over whole or run out. *)
LEMMA SkipReads ==
  ASSUME recv \in Seq(Nat), NEW p \in Nat, NEW n \in Nat
  PROVE  /\ p + n <= Len(recv) + 1 => Reads(Skipped(p, n), 0, p + n)
         /\ p + n > Len(recv) + 1 => RunOut(Skipped(p, n))
<1>1. 0 \in Unsigned
  BY BaseNumbers DEF Unsigned
<1> QED BY <1>1, SkippedIs, TookReads, TookOut, Zenon

(* A value that read() fetched. *)
LEMMA FetchIs ==
  ASSUME recv \in Seq(Nat), NEW p \in Nat \ {0}, NEW n \in Nat, NEW v, NEW r,
         r = [Skipped(p, n) EXCEPT !.v = v]
  PROVE  /\ p + n <= Len(recv) + 1 => Reads(r, v, p + n)
         /\ p + n > Len(recv) + 1 => r.p = Len(recv) + 1
<1>1. CASE p + n <= Len(recv) + 1
  <2>1. Skipped(p, n) = Took(0, p + n, FALSE, FALSE)
    BY <1>1, SkippedIs
  <2>2. Reads(r, v, p + n)
    BY <2>1 DEF Took, Reads
  <2> QED BY <1>1, <2>2
<1>2. CASE p + n > Len(recv) + 1
  <2>1. Skipped(p, n) = Took(0, Len(recv) + 1, TRUE, FALSE)
    BY <1>2, SkippedIs, Zenon
  <2>2. r.p = Len(recv) + 1
    BY <2>1 DEF Took
  <2>3. ~(p + n <= Len(recv) + 1)
    BY <1>2
  <2> QED BY <2>2, <2>3
<1>3. p + n <= Len(recv) + 1 \/ p + n > Len(recv) + 1
  OBVIOUS
<1> QED BY <1>1, <1>2, <1>3, Zenon

(* load() of a bool, a float or a double. *)
LEMMA ReadsPlain ==
  ASSUME recv \in Seq(Nat), NEW p \in Nat \ {0}, p <= Len(recv) + 1,
         NEW ty \in {"bool", "float", "double"}, NEW v \in Nat, ty = "bool" => v \in {0, 1},
         Lies(recv, p, Body(ty, v))
  PROVE  ReadsBody(ty, v, p)
<1> DEFINE b == Body(ty, v)
           r == LoadBody(ty, p)
<1>1. PICK n \in 1..8 : n = IF ty = "bool" THEN 1 ELSE IF ty = "float" THEN 4 ELSE 8
  OBVIOUS
<1>2. b = Repeat(v, n) /\ Len(b) = n
  <2>1. CASE ty = "bool"
    BY <1>1, <2>1, PlainBody DEF Repeat
  <2>2. CASE ty = "float"
    BY <1>1, <2>2, PlainBody DEF Repeat
  <2>3. CASE ty = "double"
    BY <1>1, <2>3, PlainBody DEF Repeat
  <2> QED BY <2>1, <2>2, <2>3
<1>3. PICK x : /\ r = [Skipped(p, n) EXCEPT !.v = x]
               /\ x = IF ty = "bool" THEN IF p > Len(recv) \/ recv[p] # 0 THEN 1 ELSE 0
                      ELSE IF p > Len(recv) THEN 0 ELSE recv[p]
  BY <1>1 DEF LoadBody
<1>4. CASE p + n <= Len(recv) + 1
  <2>1. p <= Len(recv) /\ p + 1 - 1 = p
    BY <1>1, <1>4
  <2>2. 1 \in 1..Len(b)
    BY <1>1, <1>2
  <2>3. recv[p] = b[1]
    BY <2>1, <2>2 DEF Lies
  <2>4. b[1] = v
    BY <1>1, <1>2 DEF Repeat
  <2>5. x = v
    BY <1>3, <2>1, <2>3, <2>4
  <2>6. Reads(r, x, p + n)
    BY <1>1, <1>3, <1>4, FetchIs
  <2> HIDE DEF b
  <2>7. Reads(r, v, p + Len(b))
    BY <1>2, <2>5, <2>6
  <2> QED BY <1>2, <1>4, <2>7 DEF ReadsBody, b
<1>5. CASE ~(p + n <= Len(recv) + 1)
  <2>1. p + n > Len(recv) + 1
    BY <1>1, <1>5
  <2>2. r.p = Len(recv) + 1
    <3> HIDE DEF r
    <3> QED BY <1>1, <1>3, <2>1, FetchIs, ZenonT(60)
  <2> HIDE DEF r
  <2>3. ~(p + Len(b) <= Len(recv) + 1)
    BY <1>2, <1>5
  <2> QED BY <2>2, <2>3 DEF ReadsBody, r
<1> QED BY <1>4, <1>5

(* A string: the length, and as many bytes. *)
LEMMA ReadsString ==
  ASSUME recv \in Seq(Nat), NEW p \in Nat \ {0}, p <= Len(recv) + 1,
         NEW v \in Seq(Nat), Len(v) \in Unsigned, ~Clipped[Len(v)], Lies(recv, p, Body("string", v))
  PROVE  ReadsBody("string", v, p)
<1> DEFINE s == SaveUnsigned[Len(v)]
           n == Number[p]
           r == LoadBody("string", p)
<1>1. /\ Body("string", v) = s \o v /\ s \in Seq(Nat) /\ Len(s) \in Nat /\ Len(s) > 0
      /\ Len(v) \in Nat /\ Len(recv) \in Nat
  BY CodeType, StringBody
<1>2. Lies(recv, p, s) /\ Lies(recv, p + Len(s), v) /\ Len(Body("string", v)) = Len(s) + Len(v)
  <2>1. Lies(recv, p, s \o v)
    BY <1>1
  <2> HIDE DEF s
  <2> QED BY <1>1, <2>1, LiesConcat
<1>3. r = [Skipped(n.p, n.v) EXCEPT !.v = Bytes(n.p, n.v), !.bad = n.bad]
  BY DEF LoadBody
<1>4. Reached(p, Len(v))
  BY <1>2 DEF Reached
<1>5. IF p + Len(s) <= Len(recv) + 1 THEN Reads(n, Len(v), p + Len(s)) ELSE RunOut(n)
  BY <1>4, NumberReached
<1> HIDE DEF s, n, r
<1>6. CASE ~(p + Len(s) <= Len(recv) + 1)
  <2>1. n.p \in Nat \ {0} /\ n.v \in Nat /\ n.p = Len(recv) + 1
    BY <1>1, <1>5, <1>6 DEF RunOut, Unsigned
  <2>2. r.p = Len(recv) + 1
    <3>1. CASE n.v = 0
      <4>1. n.p + n.v = Len(recv) + 1
        BY <1>1, <2>1, <3>1
      <4>2. n.p + n.v <= Len(recv) + 1
        BY <1>1, <4>1
      <4>3. Skipped(n.p, n.v) = Took(0, n.p + n.v, FALSE, FALSE)
        BY <2>1, <4>2, SkippedIs
      <4> QED BY <1>3, <4>1, <4>3 DEF Took
    <3>2. CASE n.v # 0
      <4>1. n.p + n.v > Len(recv) + 1
        BY <1>1, <2>1, <3>2
      <4>2. Skipped(n.p, n.v) = Took(0, Len(recv) + 1, TRUE, FALSE)
        BY <1>1, <2>1, <4>1, SkippedIs, Zenon
      <4> QED BY <1>3, <4>2 DEF Took
    <3> QED BY <3>1, <3>2
  <2>3. ~(p + Len(Body("string", v)) <= Len(recv) + 1)
    BY <1>1, <1>2, <1>6
  <2> QED BY <2>2, <2>3 DEF ReadsBody, r
<1>7. CASE p + Len(s) <= Len(recv) + 1
  <2>1. n.p = p + Len(s) /\ n.v = Len(v) /\ n.bad = FALSE /\ n.p \in Nat \ {0} /\ n.v \in Nat
    BY <1>1, <1>5, <1>7, SMTT(40) DEF Reads
  <2>2. CASE n.p + n.v <= Len(recv) + 1
    <3>1. Skipped(n.p, n.v) = Took(0, n.p + n.v, FALSE, FALSE)
      BY <1>1, <2>1, <2>2, SkippedIs
    <3>2. Reads(r, Bytes(n.p, n.v), n.p + n.v)
      BY <1>3, <2>1, <3>1 DEF Took, Reads
    <3>3. Bytes(n.p, n.v) = v
      <4>1. \A k \in 1..Len(v) : n.p + k - 1 <= Len(recv) /\ recv[n.p + k - 1] = v[k]
        <5>1. \A k \in 1..Len(v) : n.p + k - 1 <= Len(recv)
          BY <1>1, <2>1, <2>2
        <5> QED BY <1>2, <2>1, <5>1 DEF Lies
      <4>2. Bytes(n.p, n.v) = [k \in 1..Len(v) |-> v[k]]
        BY <2>1, <4>1, Zenon DEF Bytes
      <4> QED BY <1>1, <4>2
    <3>4. n.p + n.v = p + Len(Body("string", v))
      <4>1. Len(Body("string", v)) = Len(s) + Len(v)
        BY <1>2
      <4>2. n.p + n.v = (p + Len(s)) + Len(v)
        BY <2>1
      <4>3. p \in Nat /\ Len(s) \in Nat /\ Len(v) \in Nat
        BY <1>1
      <4>4. \A i, j, k \in Nat : (i + j) + k = i + (j + k)
        OBVIOUS
      <4>5. (p + Len(s)) + Len(v) = p + (Len(s) + Len(v))
        BY <4>3, <4>4
      <4> QED BY <4>1, <4>2, <4>5
    <3>5. Reads(r, v, p + Len(Body("string", v)))
      BY <3>2, <3>3, <3>4
    <3>6. p + Len(Body("string", v)) <= Len(recv) + 1
      BY <2>2, <3>4
    <3> QED BY <3>5, <3>6 DEF ReadsBody, r
  <2>3. CASE ~(n.p + n.v <= Len(recv) + 1)
    <3>1. n.p + n.v > Len(recv) + 1
      BY <1>1, <2>1, <2>3
    <3>2. Skipped(n.p, n.v) = Took(0, Len(recv) + 1, TRUE, FALSE)
      BY <1>1, <2>1, <3>1, SkippedIs, Zenon
    <3>3. r.p = Len(recv) + 1
      BY <1>3, <3>2 DEF Took
    <3>4. ~(p + Len(Body("string", v)) <= Len(recv) + 1)
      BY <1>1, <1>2, <2>1, <2>3
    <3> QED BY <3>3, <3>4 DEF ReadsBody, r
  <2> QED BY <2>2, <2>3
<1> QED BY <1>6, <1>7

(* A byte in front of others lies where they begin. *)
LEMMA LiesFront ==
  ASSUME NEW d \in Seq(Nat), NEW p \in Nat \ {0}, NEW x \in Nat, NEW b \in Seq(Nat), Lies(d, p, <<x>> \o b)
  PROVE  Lies(d, p, <<x>>) /\ Lies(d, p + 1, b) /\ Len(<<x>> \o b) = 1 + Len(b)
<1>1. PICK s : s = <<x>> \o b
  OBVIOUS
<1>2. Len(s) = Len(b) + 1 /\ s[1] = x /\ (\A k \in 1..Len(b) : s[k + 1] = b[k]) /\ Len(b) \in Nat
  BY <1>1, InFront
<1>3. \A k \in 1..Len(s) : p + k - 1 <= Len(d) => d[p + k - 1] = s[k]
  BY <1>1 DEF Lies
<1>4. \A k \in 1..Len(b) : p + 1 + k - 1 <= Len(d) => d[p + 1 + k - 1] = b[k]
  <2> TAKE k \in 1..Len(b)
  <2>1. k + 1 \in 1..Len(s) /\ p + 1 + k - 1 = p + (k + 1) - 1
    BY <1>2
  <2>2. s[k + 1] = b[k]
    BY <1>2
  <2> QED BY <1>3, <2>1, <2>2
<1>5. p <= Len(d) => d[p] = x
  <2>1. 1 \in 1..Len(s) /\ p + 1 - 1 = p
    BY <1>2
  <2> QED BY <1>2, <1>3, <2>1
<1>6. Lies(d, p, <<x>>)
  <2>1. Len(<<x>>) = 1 /\ <<x>>[1] = x
    OBVIOUS
  <2>2. \A k \in 1..1 : k = 1 /\ p + k - 1 = p
    OBVIOUS
  <2> QED BY <1>5, <2>1, <2>2 DEF Lies
<1>7. Lies(d, p + 1, b)
  BY <1>4 DEF Lies
<1>8. Len(<<x>> \o b) = 1 + Len(b)
  BY <1>1, <1>2
<1> QED BY <1>6, <1>7, <1>8

(* A chain of numbers: the reading is at the place of the next one, or it  *)
(* has run out.                                                            *)
Near(q, a) == q = Len(recv) + 1 \/ (q = a /\ a <= Len(recv) + 1)
(* Near a code's place it can be read or has run out. *)
LEMMA NearReached ==
  ASSUME NEW x, NEW a \in Nat \ {0}, Lies(recv, a, SaveUnsigned[x]), NEW q, Near(q, a)
  PROVE  Reached(q, x)
BY DEF Near, Reached

(* Reading a code leads near the place behind it, though the data may end  *)
(* in it.                                                                  *)
LEMMA NearNext ==
  ASSUME recv \in Seq(Nat), NEW x \in Unsigned, ~Clipped[x], NEW a \in Nat \ {0},
         Lies(recv, a, SaveUnsigned[x]), NEW q, Near(q, a)
  PROVE  Near(Number[q].p, a + Len(SaveUnsigned[x]))
<1>1. Len(SaveUnsigned[x]) \in Nat /\ Len(SaveUnsigned[x]) > 0 /\ Len(recv) \in Nat
  BY CodeType
<1>2. IF q + Len(SaveUnsigned[x]) <= Len(recv) + 1
      THEN Reads(Number[q], x, q + Len(SaveUnsigned[x]))
      ELSE RunOut(Number[q])
  BY NearReached, NumberReached
<1>3. CASE RunOut(Number[q])
  BY <1>3 DEF RunOut, Near
<1>4. CASE ~RunOut(Number[q])
  <2>1. q + Len(SaveUnsigned[x]) <= Len(recv) + 1 /\ Number[q].p = q + Len(SaveUnsigned[x])
    BY <1>2, <1>4 DEF Reads
  <2>2. q = a
    <3>1. CASE q = Len(recv) + 1
      <4>1. \A i, l \in Nat : l > 0 => ~(i + 1 + l <= i + 1)
        OBVIOUS
      <4> QED BY <1>1, <2>1, <3>1, <4>1
    <3> QED BY <3>1 DEF Near
  <2> QED BY <2>1, <2>2 DEF Near
<1> QED BY <1>3, <1>4

(* The places of the five numbers of a pair.                               *)
PairLies(v, p) ==
  LET a == SaveUnsigned[v[1]]  b == SaveUnsigned[v[2]]  n == Len(PairBytes(v))
  IN  /\ Lies(recv, p, SaveUnsigned[n]) /\ Lies(recv, p + 1, SaveUnsigned[8])
      /\ Lies(recv, p + 2, a) /\ Lies(recv, p + 2 + Len(a), SaveUnsigned[16])
      /\ Lies(recv, p + 3 + Len(a), b)
      /\ n \in Unsigned /\ ~Clipped[n] /\ Len(SaveUnsigned[n]) = 1
      /\ Len(Body("pair", v)) = 3 + Len(a) + Len(b)
(* Where the four codes of a pair are. *)
LEMMA PairPlaces ==
  ASSUME recv \in Seq(Nat), NEW p \in Nat \ {0}, NEW v, v[1] \in Unsigned, v[2] \in Unsigned,
         Lies(recv, p, Body("pair", v))
  PROVE  PairLies(v, p)
<1> DEFINE a == SaveUnsigned[v[1]]
           b == SaveUnsigned[v[2]]
           n == Len(PairBytes(v))
           c == <<16>> \o b
           e == a \o c
<1>1. a \in Seq(Nat) /\ b \in Seq(Nat) /\ Len(a) \in Nat /\ Len(b) \in Nat
  BY CodeType
<1>2. n \in Nat /\ n < Base /\ PairBytes(v) \in Seq(Nat)
  BY PairBody
<1>3. Body("pair", v) = <<n>> \o PairBytes(v)
  BY PairBody
<1>4. PairBytes(v) = <<8>> \o e
  BY DEF PairBytes
<1> HIDE DEF a, b, n
<1>5. SaveUnsigned[n] = <<n>> /\ ~Clipped[n] /\ n \in Unsigned
  BY <1>2, SmallNumber
<1>6. SaveUnsigned[8] = <<8>> /\ SaveUnsigned[16] = <<16>>
  BY SmallNumber, BaseNumbers
<1>7. <<n>> \in Seq(Nat) /\ Len(<<n>>) = 1 /\ <<8>> \in Seq(Nat) /\ Len(<<8>>) = 1
      /\ <<16>> \in Seq(Nat) /\ Len(<<16>>) = 1
  BY <1>2
<1>8. c \in Seq(Nat)
  BY <1>1, <1>7
<1> HIDE DEF c
<1>9. e \in Seq(Nat)
  BY <1>1, <1>8
<1> HIDE DEF e
<1>10. Lies(recv, p, <<n>> \o PairBytes(v))
  BY <1>3
<1>11. Lies(recv, p, <<n>>) /\ Lies(recv, p + 1, PairBytes(v)) /\ Len(<<n>> \o PairBytes(v)) = 1 + Len(PairBytes(v))
  BY <1>2, <1>10, LiesFront
<1>12. Lies(recv, p + 1, <<8>> \o e)
  BY <1>4, <1>11
<1>13. p + 1 \in Nat \ {0} /\ p + 2 \in Nat \ {0} /\ p + 2 + Len(a) \in Nat \ {0}
       /\ (p + 1) + 1 = p + 2 /\ (p + 2 + Len(a)) + 1 = p + 3 + Len(a)
  BY <1>1
<1>14. Lies(recv, p + 1, <<8>>) /\ Lies(recv, p + 2, e) /\ Len(<<8>> \o e) = 1 + Len(e)
  <2>1. Lies(recv, p + 1, <<8>>) /\ Lies(recv, (p + 1) + 1, e) /\ Len(<<8>> \o e) = 1 + Len(e)
    <3> DEFINE q == p + 1
    <3>1. q \in Nat \ {0} /\ Lies(recv, q, <<8>> \o e)
      BY <1>12, <1>13
    <3> HIDE DEF q
    <3>2. Lies(recv, q, <<8>>) /\ Lies(recv, q + 1, e) /\ Len(<<8>> \o e) = 1 + Len(e)
      BY <1>9, <3>1, LiesFront
    <3> QED BY <3>2 DEF q
  <2> QED BY <1>13, <2>1
<1>15. Lies(recv, p + 2, a) /\ Lies(recv, p + 2 + Len(a), c) /\ Len(e) = Len(a) + Len(c)
  <2>1. Lies(recv, p + 2, a \o c)
    BY <1>14 DEF e
  <2> DEFINE q == p + 2
  <2>2. q \in Nat \ {0} /\ Lies(recv, q, a \o c)
    BY <1>13, <2>1
  <2> HIDE DEF q
  <2>3. Lies(recv, q, a) /\ Lies(recv, q + Len(a), c) /\ Len(a \o c) = Len(a) + Len(c)
    BY <1>1, <1>8, <2>2, LiesConcat
  <2> QED BY <2>3 DEF q, e
<1>16. /\ Lies(recv, p + 2 + Len(a), <<16>>) /\ Lies(recv, p + 3 + Len(a), b)
       /\ Len(c) = 1 + Len(b)
  <2> DEFINE q == p + 2 + Len(a)
  <2>1. Lies(recv, q, <<16>> \o b)
    BY <1>15 DEF c
  <2>2. q \in Nat \ {0}
    BY <1>13
  <2> HIDE DEF q
  <2>3. Lies(recv, q, <<16>>) /\ Lies(recv, q + 1, b) /\ Len(<<16>> \o b) = 1 + Len(b)
    BY <1>1, <2>1, <2>2, LiesFront
  <2> QED BY <1>13, <2>3 DEF q, c
<1>17. Len(Body("pair", v)) = 3 + Len(a) + Len(b)
  <2>1. Len(Body("pair", v)) = 1 + Len(PairBytes(v))
    BY <1>3, <1>11
  <2>2. Len(PairBytes(v)) = 1 + Len(e)
    BY <1>4, <1>14
  <2> QED BY <1>1, <1>15, <1>16, <2>1, <2>2
<1>18. Len(SaveUnsigned[n]) = 1
  BY <1>5, <1>7
<1>19. Lies(recv, p, SaveUnsigned[n]) /\ Lies(recv, p + 1, SaveUnsigned[8])
       /\ Lies(recv, p + 2 + Len(a), SaveUnsigned[16])
  BY <1>5, <1>6, <1>11, <1>14, <1>16
<1> QED BY <1>5, <1>15, <1>16, <1>17, <1>18, <1>19, Zenon DEF PairLies, a, b, n

(* load() of a pair, whose loop meets both keys and both numbers or the    *)
(* end.                                                                    *)
LEMMA ReadsPair ==
  ASSUME recv \in Seq(Nat), NEW p \in Nat \ {0}, p <= Len(recv) + 1,
         NEW v \in Unsigned \X Unsigned, ~Clipped[v[1]], ~Clipped[v[2]],
         Lies(recv, p, Body("pair", v))
  PROVE  ReadsBody("pair", v, p)
<1> DEFINE a == SaveUnsigned[v[1]]
           b == SaveUnsigned[v[2]]
           n == Len(PairBytes(v))
<1>1. v[1] \in Unsigned /\ v[2] \in Unsigned /\ v = <<v[1], v[2]>>
  OBVIOUS
<1>2. Len(a) \in Nat /\ Len(b) \in Nat /\ Len(b) > 0 /\ Len(recv) \in Nat
  BY <1>1, CodeType
<1>3. /\ Lies(recv, p, SaveUnsigned[n]) /\ Lies(recv, p + 1, SaveUnsigned[8])
      /\ Lies(recv, p + 2, a) /\ Lies(recv, p + 2 + Len(a), SaveUnsigned[16])
      /\ Lies(recv, p + 3 + Len(a), b)
      /\ n \in Unsigned /\ ~Clipped[n] /\ Len(SaveUnsigned[n]) = 1
      /\ Len(Body("pair", v)) = 3 + Len(a) + Len(b)
  BY <1>1, PairPlaces DEF PairLies
<1>4. /\ 8 \in Unsigned /\ 16 \in Unsigned /\ ~Clipped[8] /\ ~Clipped[16]
      /\ Len(SaveUnsigned[8]) = 1 /\ Len(SaveUnsigned[16]) = 1
  <2>1. 8 \in Nat /\ 16 \in Nat /\ 8 < Base /\ 16 < Base
    BY BaseNumbers
  <2>2. SaveUnsigned[8] = <<8>> /\ SaveUnsigned[16] = <<16>> /\ 8 \in Unsigned /\ 16 \in Unsigned
    BY <2>1, SmallNumber
  <2>3. ~Clipped[8] /\ ~Clipped[16]
    BY <2>1, SmallNumber, Zenon
  <2> QED BY <2>2, <2>3
<1> HIDE DEF a, b, n
<1>5. PICK len : len = Number[p]
  OBVIOUS
<1>6. PICK k1 : k1 = Number[len.p]
  OBVIOUS
<1>7. PICK l : l = Number[k1.p]
  OBVIOUS
<1>8. PICK k2 : k2 = Number[l.p]
  OBVIOUS
<1>9. PICK r : r = Number[k2.p]
  OBVIOUS
<1>10. PICK bad : /\ bad = (k1.v # WireKey(0, 1) \/ k2.v # WireKey(0, 2) \/ len.bad \/ l.bad \/ r.bad)
                  /\ LoadBody("pair", p) = Took(<<l.v, r.v>>, r.p, r.eof, bad)
  <2>1. LoadBody("pair", p) =
           Took(<<l.v, r.v>>, r.p, r.eof,
                k1.v # WireKey(0, 1) \/ k2.v # WireKey(0, 2) \/ len.bad \/ l.bad \/ r.bad)
    <3>1. LoadBody("pair", p) = LoadPair(p)
      BY DEF LoadBody
    <3> QED BY <1>5, <1>6, <1>7, <1>8, <1>9, <3>1, Zenon DEF LoadPair
  <2> QED BY <2>1, Zenon
<1>11. p + 1 \in Nat \ {0} /\ p + 2 \in Nat \ {0} /\ p + 2 + Len(a) \in Nat \ {0} /\ p + 3 + Len(a) \in Nat \ {0}
  BY <1>2
<1>12. (p + 1) + 1 = p + 2 /\ (p + 2 + Len(a)) + 1 = p + 3 + Len(a)
       /\ (p + 3 + Len(a)) + Len(b) = p + (3 + Len(a) + Len(b))
  BY <1>2
<1>13. CASE p + Len(Body("pair", v)) <= Len(recv) + 1
  <2>1. p + (3 + Len(a) + Len(b)) <= Len(recv) + 1
    BY <1>3, <1>13
  <2>2. /\ p + 1 <= Len(recv) + 1 /\ p + 2 <= Len(recv) + 1 /\ p + 2 + Len(a) <= Len(recv) + 1
        /\ p + 3 + Len(a) <= Len(recv) + 1 /\ (p + 3 + Len(a)) + Len(b) <= Len(recv) + 1
    BY <1>2, <2>1
  <2>3. Reads(len, n, p + 1)
    <3>1. Reached(p, n)
      BY <1>3, <1>11 DEF Reached
    <3>2. p + Len(SaveUnsigned[n]) <= Len(recv) + 1 /\ Reads(Number[p], n, p + Len(SaveUnsigned[n]))
      BY <1>3, <2>2, <3>1, NumberReached
    <3> QED BY <1>3, <1>5, <3>2
  <2>4. Reads(k1, 8, p + 2)
    <3>1. Reached(p + 1, 8)
      BY <1>3, <1>11, <2>2 DEF Reached
    <3> DEFINE q == p + 1
    <3>2. q + 1 = p + 2 /\ Reached(q, 8)
      BY <1>12, <3>1
    <3> HIDE DEF q
    <3>3. q + Len(SaveUnsigned[8]) <= Len(recv) + 1 /\ Reads(Number[q], 8, q + Len(SaveUnsigned[8]))
      BY <1>4, <2>2, <3>2, NumberReached
    <3>4. len.p = q
      BY <2>3 DEF Reads, q
    <3> QED BY <1>4, <1>6, <3>2, <3>3, <3>4
  <2>5. Reads(l, v[1], p + 2 + Len(a))
    <3> DEFINE q == p + 2
    <3>1. Reached(q, v[1]) /\ q + Len(a) <= Len(recv) + 1
      BY <1>3, <1>11, <2>2 DEF Reached, a
    <3> HIDE DEF q
    <3>2. Reads(Number[q], v[1], q + Len(a))
      BY <1>1, <3>1, NumberReached DEF a
    <3>3. k1.p = q
      BY <2>4 DEF Reads, q
    <3> QED BY <1>7, <3>2, <3>3 DEF q
  <2>6. Reads(k2, 16, p + 3 + Len(a))
    <3> DEFINE q == p + 2 + Len(a)
    <3>1. Reached(q, 16)
      BY <1>3, <1>11, <2>2 DEF Reached
    <3>2. q + 1 = p + 3 + Len(a)
      BY <1>12
    <3> HIDE DEF q
    <3>3. q + Len(SaveUnsigned[16]) <= Len(recv) + 1 /\ Reads(Number[q], 16, q + Len(SaveUnsigned[16]))
      BY <1>4, <2>2, <3>1, <3>2, NumberReached
    <3>4. l.p = q
      BY <2>5 DEF Reads, q
    <3> QED BY <1>4, <1>8, <3>2, <3>3, <3>4
  <2>7. Reads(r, v[2], p + Len(Body("pair", v)))
    <3> DEFINE q == p + 3 + Len(a)
    <3>1. Reached(q, v[2]) /\ q + Len(b) <= Len(recv) + 1
      BY <1>3, <1>11, <2>2 DEF Reached, b
    <3>2. q + Len(b) = p + Len(Body("pair", v))
      BY <1>3, <1>12
    <3> HIDE DEF q
    <3>3. Reads(Number[q], v[2], q + Len(b))
      BY <1>1, <3>1, NumberReached DEF b
    <3>4. k2.p = q
      BY <2>6 DEF Reads, q
    <3> QED BY <1>9, <3>2, <3>3, <3>4
  <2>8. WireKey(0, 1) = 8 /\ WireKey(0, 2) = 16
    BY DEF WireKey
  <2>9. bad = FALSE
    BY <1>10, <2>3, <2>4, <2>5, <2>6, <2>7, <2>8, Zenon DEF Reads
  <2>10. <<l.v, r.v>> = v /\ r.p = p + Len(Body("pair", v)) /\ r.eof = FALSE
    BY <1>1, <2>5, <2>7 DEF Reads
  <2>11. Reads(LoadBody("pair", p), v, p + Len(Body("pair", v)))
    BY <1>10, <2>9, <2>10, TookReads
  <2> QED BY <1>13, <2>11 DEF ReadsBody
<1>14. CASE ~(p + Len(Body("pair", v)) <= Len(recv) + 1)
  <2>1. Near(p, p)
    BY DEF Near
  <2>2. Near(len.p, p + 1)
    <3>1. Near(Number[p].p, p + Len(SaveUnsigned[n]))
      BY <1>3, <2>1, NearNext
    <3> QED BY <1>3, <1>5, <3>1
  <2>3. Near(k1.p, p + 2)
    <3> DEFINE q == p + 1
    <3>1. q \in Nat \ {0} /\ q + 1 = p + 2 /\ Near(len.p, q) /\ Lies(recv, q, SaveUnsigned[8])
      BY <1>3, <1>11, <1>12, <2>2
    <3> HIDE DEF q
    <3>2. Near(k1.p, q + Len(SaveUnsigned[8]))
      BY <1>4, <1>6, <3>1, NearNext
    <3> QED BY <1>4, <3>1, <3>2
  <2>4. Near(l.p, p + 2 + Len(a))
    <3> DEFINE q == p + 2
    <3>1. q \in Nat \ {0} /\ Near(k1.p, q) /\ Lies(recv, q, SaveUnsigned[v[1]])
      BY <1>3, <1>11, <2>3 DEF a
    <3> HIDE DEF q
    <3>2. Near(l.p, q + Len(SaveUnsigned[v[1]]))
      BY <1>1, <1>7, <3>1, NearNext
    <3> QED BY <3>2 DEF q, a
  <2>5. Near(k2.p, p + 3 + Len(a))
    <3> DEFINE q == p + 2 + Len(a)
    <3>1. q \in Nat \ {0} /\ q + 1 = p + 3 + Len(a) /\ Near(l.p, q) /\ Lies(recv, q, SaveUnsigned[16])
      BY <1>3, <1>11, <1>12, <2>4
    <3> HIDE DEF q
    <3>2. Near(k2.p, q + Len(SaveUnsigned[16]))
      BY <1>4, <1>8, <3>1, NearNext
    <3> QED BY <1>4, <3>1, <3>2
  <2>6. RunOut(r)
    <3> DEFINE q == p + 3 + Len(a)
    <3>1. q \in Nat \ {0} /\ Near(k2.p, q) /\ Lies(recv, q, SaveUnsigned[v[2]])
      BY <1>3, <1>11, <2>5 DEF b
    <3>2. ~(q + Len(b) <= Len(recv) + 1)
      <4>1. q + Len(b) = p + Len(Body("pair", v))
        BY <1>3, <1>12
      <4> QED BY <1>14, <4>1
    <3> HIDE DEF q
    <3>3. Reached(k2.p, v[2])
      BY <3>1, NearReached
    <3>4. ~(k2.p + Len(b) <= Len(recv) + 1)
      <4>1. CASE k2.p = q
        BY <3>2, <4>1
      <4>2. CASE k2.p = Len(recv) + 1
        <5>1. \A i, j \in Nat : j > 0 => ~(i + 1 + j <= i + 1)
          OBVIOUS
        <5> QED BY <1>2, <4>2, <5>1
      <4> QED BY <3>1, <4>1, <4>2 DEF Near
    <3> QED BY <1>1, <1>9, <3>3, <3>4, NumberReached DEF b
  <2>7. LoadBody("pair", p).p = Len(recv) + 1
    <3>1. LoadBody("pair", p).p = r.p
      BY <1>10 DEF Took
    <3> QED BY <2>6, <3>1 DEF RunOut
  <2> QED BY <1>14, <2>7 DEF ReadsBody
<1> QED BY <1>13, <1>14

(* Whatever the type, but for an embedded message.                         *)
LEMMA ReadsField ==
  ASSUME recv \in Seq(Nat), NEW p \in Nat \ {0}, p <= Len(recv) + 1,
         NEW f \in Fields, ~Absent(f), Ty(f) \notin Containers \cup {"class"}, BodyKept(f),
         Lies(recv, p, Body(Ty(f), f.v))
  PROVE  ReadsBody(Ty(f), f.v, p)
<1>1. f.v \in ValuesOf[Ty(f)] /\ Ty(f) \in Types
  BY FieldsTyped
<1>2. f.v # Unset
  BY DEF Absent
<1>3. BodyClear(Ty(f), f.v)
  BY BodyKeptIs
<1>4. PICK ty, v : ty = Ty(f) /\ v = f.v
  OBVIOUS
<1>5. /\ v \in ValuesOf[ty] /\ ty \in Types /\ v # Unset /\ BodyClear(ty, v)
      /\ ty \notin Containers \cup {"class"} /\ Lies(recv, p, Body(ty, v))
  BY <1>1, <1>2, <1>3, <1>4
<1>6. CASE ty \in {"uint", "optional"}
  <2>1. v \in Unsigned
    BY <1>5, <1>6, ValuesTyped
  <2>2. ~Clipped[v]
    BY <1>5, <1>6 DEF BodyClear
  <2> QED BY <1>4, <1>5, <1>6, <2>1, <2>2, ReadsNumber
<1>7. CASE ty = "sint"
  <2>1. v \in Signed
    BY <1>5, <1>7, ValuesTyped
  <2>2. v \in Short /\ ~Clipped[ZigZag(v)]
    BY <1>5, <1>7 DEF BodyClear
  <2>3. Lies(recv, p, Body("sint", v))
    BY <1>5, <1>7
  <2>4. ReadsBody("sint", v, p)
    BY <2>1, <2>2, <2>3, ReadsSigned
  <2> QED BY <1>4, <1>7, <2>4
<1>8. CASE ty \in {"bool", "float", "double"}
  <2>1. v \in Nat /\ (ty = "bool" => v \in {0, 1})
    BY <1>5, <1>8, ValuesTyped
  <2> QED BY <1>4, <1>5, <1>8, <2>1, ReadsPlain
<1>9. CASE ty = "string"
  <2>1. v \in Seq(Nat) /\ Len(v) \in Unsigned
    BY <1>5, <1>9, ValuesTyped
  <2>2. ~Clipped[Len(v)]
    BY <1>5, <1>9 DEF BodyClear
  <2>3. Lies(recv, p, Body("string", v))
    BY <1>5, <1>9
  <2>4. ReadsBody("string", v, p)
    BY <2>1, <2>2, <2>3, ReadsString
  <2> QED BY <1>4, <1>9, <2>4
<1>10. CASE ty = "pair"
  <2>1. v \in Unsigned \X Unsigned
    BY <1>5, <1>10, ValuesAssumption
  <2>2. ~Clipped[v[1]] /\ ~Clipped[v[2]]
    BY <1>5, <1>10 DEF BodyClear
  <2>3. Lies(recv, p, Body("pair", v))
    BY <1>5, <1>10
  <2>4. ReadsBody("pair", v, p)
    BY <2>1, <2>2, <2>3, ReadsPair
  <2> QED BY <1>4, <1>10, <2>4
<1> QED BY <1>5, <1>6, <1>7, <1>8, <1>9, <1>10 DEF Types, Containers

(* The places of an embedded message's length, key and number.             *)
ClassLies(v, p) ==
  LET k == SaveUnsigned[WireKey(0, InnerTag)]  n == Len(ClassBytes(v))
  IN  /\ Lies(recv, p, SaveUnsigned[n]) /\ Lies(recv, p + 1, k) /\ Lies(recv, p + 1 + Len(k), SaveUnsigned[v])
      /\ n \in Unsigned /\ ~Clipped[n] /\ Len(SaveUnsigned[n]) = 1
      /\ Len(Body("class", v)) = 1 + Len(k) + Len(SaveUnsigned[v])
InnerKey == SaveUnsigned[WireKey(0, InnerTag)]
(* The key of the embedded message's field. *)
LEMMA InnerKeyIs ==
  /\ InnerKey = Key("uint", InnerTag) /\ InnerKey = SaveUnsigned[WireKey(0, InnerTag)]
  /\ WireKey(0, InnerTag) \in Unsigned /\ ~Clipped[WireKey(0, InnerTag)]
  /\ WireKey(0, InnerTag) \div 8 = InnerTag /\ WireKey(0, InnerTag) % 8 = 0
  /\ InnerKey \in Seq(Nat) /\ Len(InnerKey) \in Nat /\ Len(InnerKey) > 0
<1>1. Wire("uint") = 0
  BY DEF Wire
<1>2. InnerTag \in Tags \cup {InnerTag}
  OBVIOUS
<1>3. ~Clipped[WireKey(0, InnerTag)]
  BY KeysAssumption DEF Kept
<1>4. /\ WireKey(Wire("uint"), InnerTag) \in Unsigned
      /\ Key("uint", InnerTag) = SaveUnsigned[WireKey(Wire("uint"), InnerTag)]
      /\ WireKey(Wire("uint"), InnerTag) \div 8 = InnerTag /\ WireKey(Wire("uint"), InnerTag) % 8 = Wire("uint")
      /\ Key("uint", InnerTag) \in Seq(Nat) /\ Len(Key("uint", InnerTag)) \in Nat /\ Len(Key("uint", InnerTag)) > 0
  BY <1>2, KeyFacts
<1> QED BY <1>1, <1>3, <1>4 DEF InnerKey

(* Where the length, the key and the number of an embedded message are. *)
LEMMA ClassPlaces ==
  ASSUME recv \in Seq(Nat), NEW p \in Nat \ {0}, NEW v \in Unsigned, Lies(recv, p, Body("class", v))
  PROVE  ClassLies(v, p)
<1> DEFINE k == InnerKey
           b == SaveUnsigned[v]
           n == Len(ClassBytes(v))
<1>1. b \in Seq(Nat) /\ k \in Seq(Nat) /\ Len(k) \in Nat /\ Len(b) \in Nat
  BY CodeType, InnerKeyIs
<1>2. n \in Nat /\ n < Base /\ ClassBytes(v) \in Seq(Nat)
  BY ClassBody
<1>3. Body("class", v) = <<n>> \o ClassBytes(v)
  BY ClassBody
<1>4. ClassBytes(v) = k \o b
  BY InnerKeyIs DEF ClassBytes
<1> HIDE DEF k, b, n
<1>5. SaveUnsigned[n] = <<n>> /\ ~Clipped[n] /\ n \in Unsigned /\ Len(<<n>>) = 1
  BY <1>2, SmallNumber
<1>6. Lies(recv, p, <<n>> \o ClassBytes(v))
  BY <1>3
<1>7. Lies(recv, p, <<n>>) /\ Lies(recv, p + 1, ClassBytes(v)) /\ Len(<<n>> \o ClassBytes(v)) = 1 + Len(ClassBytes(v))
  BY <1>2, <1>6, LiesFront
<1>8. Lies(recv, p + 1, k) /\ Lies(recv, p + 1 + Len(k), b) /\ Len(k \o b) = Len(k) + Len(b)
  <2> DEFINE q == p + 1
  <2>1. q \in Nat \ {0} /\ Lies(recv, q, k \o b)
    BY <1>4, <1>7
  <2> HIDE DEF q
  <2>2. Lies(recv, q, k) /\ Lies(recv, q + Len(k), b) /\ Len(k \o b) = Len(k) + Len(b)
    BY <1>1, <2>1, LiesConcat
  <2> QED BY <2>2 DEF q
<1>9. Len(Body("class", v)) = 1 + Len(k) + Len(b)
  BY <1>1, <1>3, <1>4, <1>7, <1>8
<1>10. Lies(recv, p, SaveUnsigned[n]) /\ Len(SaveUnsigned[n]) = 1
  BY <1>5, <1>7
<1>11. k = SaveUnsigned[WireKey(0, InnerTag)]
  BY InnerKeyIs DEF k
<1> QED BY <1>5, <1>8, <1>9, <1>10, <1>11, Zenon DEF ClassLies, b, n

-----------------------------------------------------------------------------
(* A field in the bytes that have arrived: its key, and what follows.      *)
KeyOf(f) == WireKey(Wire(IF Ty(f) \in Containers THEN "uint" ELSE Ty(f)), f.tag)
CodeOfKey(f) == SaveUnsigned[KeyOf(f)]
(* The key of a field, an element's key if the field is a container. *)
LEMMA FieldKey ==
  ASSUME NEW f \in Fields
  PROVE  /\ KeyOf(f) \in Unsigned /\ CodeOfKey(f) \in Seq(Nat)
         /\ Len(CodeOfKey(f)) \in Nat /\ Len(CodeOfKey(f)) > 0
         /\ KeyOf(f) \div 8 = f.tag /\ KeyOf(f) % 8 = Wire(IF Ty(f) \in Containers THEN "uint" ELSE Ty(f))
         /\ KeyKept(f) <=> ~Clipped[KeyOf(f)]
<1>1. PICK ty : ty = IF Ty(f) \in Containers THEN "uint" ELSE Ty(f)
  OBVIOUS
<1>2. f.tag \in Tags \cup {InnerTag}
  BY FieldsTyped
<1>3. KeyOf(f) = WireKey(Wire(ty), f.tag) /\ CodeOfKey(f) = SaveUnsigned[WireKey(Wire(ty), f.tag)]
  BY <1>1 DEF KeyOf, CodeOfKey
<1>4. /\ KeyOf(f) \in Unsigned /\ KeyOf(f) \div 8 = f.tag /\ KeyOf(f) % 8 = Wire(ty)
      /\ CodeOfKey(f) \in Seq(Nat) /\ Len(CodeOfKey(f)) \in Nat /\ Len(CodeOfKey(f)) > 0
  BY <1>2, <1>3, KeyFacts
<1>5. KeyKept(f) <=> ~Clipped[KeyOf(f)]
  BY DEF KeyKept, Kept, KeyOf
<1> QED BY <1>1, <1>4, <1>5

BodyBehind(f, b) ==
  /\ b \in Seq(Nat) /\ FieldOf(f) = CodeOfKey(f) \o b
  /\ Ty(f) \notin Containers => b = Body(Ty(f), f.v) /\ f.v # Unset /\ Len(b) > 0
  /\ Ty(f) \in Containers => f.v[1] \in Unsigned /\ \E t \in Seq(Nat) : b = SaveUnsigned[f.v[1]] \o t
(* A field that leaves bytes leaves its key's first, unless it is a packed *)
(* container.                                                              *)
LEMMA FieldBehind ==
  ASSUME NEW f \in Fields, ~Absent(f), Ty(f) # "packed"
  PROVE  \E b : BodyBehind(f, b)
<1>1. f.tag \in Tags \cup {InnerTag} /\ Ty(f) \in Types /\ f.v \in ValuesOf[Ty(f)]
  BY FieldsTyped
<1>2. CASE Ty(f) \in Containers
  <2>1. Ty(f) = "unpacked"
    BY <1>2 DEF Containers
  <2>2. f.v[1] \in Unsigned
    BY <2>1, FieldIs
  <2>3. PICK t \in Seq(Nat) : FieldOf(f) = Key("uint", f.tag) \o (SaveUnsigned[f.v[1]] \o t)
    BY <2>1, FieldIs
  <2>4. PICK b : b = SaveUnsigned[f.v[1]] \o t
    OBVIOUS
  <2>5. b \in Seq(Nat)
    BY <2>2, <2>3, <2>4, CodeType
  <2>6. CodeOfKey(f) = Key("uint", f.tag)
    BY <1>1, <1>2, KeyFacts DEF CodeOfKey, KeyOf
  <2>7. FieldOf(f) = CodeOfKey(f) \o b
    BY <2>3, <2>4, <2>6
  <2>8. \E u \in Seq(Nat) : b = SaveUnsigned[f.v[1]] \o u
    BY <2>4
  <2>9. BodyBehind(f, b)
    BY <1>2, <2>2, <2>5, <2>7, <2>8, Zenon DEF BodyBehind
  <2> QED BY <2>9
<1>3. CASE Ty(f) \notin Containers
  <2>1. f.v # Unset /\ FieldOf(f) = Key(Ty(f), f.tag) \o Body(Ty(f), f.v)
    BY <1>3, FieldIs
  <2>2. Body(Ty(f), f.v) \in Seq(Nat) /\ Len(Body(Ty(f), f.v)) > 0
    BY <1>1, <1>3, <2>1, BodyType
  <2>3. CodeOfKey(f) = Key(Ty(f), f.tag)
    BY <1>1, <1>3, KeyFacts DEF CodeOfKey, KeyOf
  <2>4. BodyBehind(f, Body(Ty(f), f.v))
    BY <1>3, <2>1, <2>2, <2>3, Zenon DEF BodyBehind
  <2> QED BY <2>4
<1> QED BY <1>2, <1>3

-----------------------------------------------------------------------------
(* The bytes that have arrived are a first part of those that were written. *)
LEMMA FieldArrived ==
  ASSUME InvWritten, InvArrived, NEW i \in 1..Len(sent)
  PROVE  Lies(recv, Start(i) + 1, FieldOf(sent[i]))
<1> DEFINE s == FieldOf(sent[i])
           p == Start(i) + 1
<1>1. Lies(out, p, s) /\ p \in Nat /\ p > 0 /\ Len(s) \in Nat
  BY FieldLies
<1> HIDE DEF s, p
<1>2. Len(recv) \in Nat /\ Len(recv) <= Len(out) /\ Len(out) \in Nat
  BY DEF InvWritten, InvArrived
<1>3. \A k \in 1..Len(recv) : recv[k] = out[k]
  BY DEF InvArrived
<1>4. ASSUME NEW k \in 1..Len(s), p + k - 1 <= Len(recv)
      PROVE  recv[p + k - 1] = s[k]
  <2>1. p + k - 1 \in 1..Len(recv) /\ p + k - 1 <= Len(out)
    BY <1>1, <1>2, <1>4
  <2>2. out[p + k - 1] = s[k]
    BY <1>1, <2>1 DEF Lies
  <2> QED BY <1>3, <2>1, <2>2
<1> QED BY <1>4 DEF Lies, s, p

Place(i) == Start(i) + 1 + Len(CodeOfKey(sent[i]))
KeyArrives(i, b) ==
  /\ BodyBehind(sent[i], b) /\ Lies(recv, Place(i), b)
  /\ Place(i) \in Nat \ {0} /\ Len(b) \in Nat /\ sent[i].end + 1 = Place(i) + Len(b)
  /\ sent[i] \in Fields /\ sent[i].end \in Nat /\ Start(i) \in Nat
  /\ IF Place(i) <= Len(recv) + 1
     THEN Reads(Number[Start(i) + 1], KeyOf(sent[i]), Place(i))
     ELSE RunOut(Number[Start(i) + 1])
(* The key of a field that begins within the data lies at its place, as    *)
(* far as the data go.                                                     *)
LEMMA KeyHasArrived ==
  ASSUME InvWritten, InvArrived, NEW i \in 1..Len(sent), ~Absent(sent[i]),
         Ty(sent[i]) # "packed", KeyKept(sent[i]), Start(i) <= Len(recv)
  PROVE  \E b : KeyArrives(i, b)
<1>1. PICK f : f = sent[i]
  OBVIOUS
<1>2. PICK p : p = Start(i) + 1
  OBVIOUS
<1>3. /\ f \in Fields /\ ~Absent(f) /\ Ty(f) # "packed" /\ KeyKept(f) /\ Start(i) \in Nat
      /\ p \in Nat \ {0} /\ p <= Len(recv) + 1 /\ f.end = Start(i) + Len(FieldOf(f))
      /\ recv \in Seq(Nat) /\ Len(recv) \in Nat
  <2>1. f \in Fields /\ Start(i) \in Nat /\ f.end = Start(i) + Len(FieldOf(f))
    BY <1>1, FieldLies
  <2>2. recv \in Seq(Nat)
    BY DEF InvArrived
  <2> QED BY <1>1, <1>2, <2>1, <2>2
<1>4. PICK b : BodyBehind(f, b)
  BY <1>3, FieldBehind
<1>5. b \in Seq(Nat) /\ FieldOf(f) = CodeOfKey(f) \o b
  BY <1>4 DEF BodyBehind
<1>6. /\ KeyOf(f) \in Unsigned /\ CodeOfKey(f) \in Seq(Nat) /\ ~Clipped[KeyOf(f)]
      /\ Len(CodeOfKey(f)) \in Nat /\ Len(CodeOfKey(f)) > 0
  BY <1>3, FieldKey
<1>7. Lies(recv, p, CodeOfKey(f) \o b)
  BY <1>1, <1>2, <1>5, FieldArrived
<1>8. PICK c : c = CodeOfKey(f)
  OBVIOUS
<1>9. Lies(recv, p, c) /\ Lies(recv, p + Len(c), b) /\ Len(c \o b) = Len(c) + Len(b)
  <2>1. Lies(recv, p, c \o b) /\ c \in Seq(Nat)
    BY <1>6, <1>7, <1>8
  <2> QED BY <1>3, <1>5, <2>1, LiesConcat, SMTT(40)
<1>10. Place(i) = p + Len(c)
  BY <1>1, <1>2, <1>8 DEF Place
<1>11. Reached(p, KeyOf(f))
  BY <1>3, <1>8, <1>9 DEF Reached, CodeOfKey
<1>12. IF p + Len(c) <= Len(recv) + 1 THEN Reads(Number[p], KeyOf(f), p + Len(c)) ELSE RunOut(Number[p])
  BY <1>3, <1>6, <1>8, <1>11, NumberReached DEF CodeOfKey
<1>13. /\ Place(i) \in Nat \ {0} /\ Len(b) \in Nat /\ f.end + 1 = Place(i) + Len(b) /\ f.end \in Nat
  <2>1. Len(FieldOf(f)) = Len(c) + Len(b)
    BY <1>5, <1>8, <1>9
  <2>2. Len(c) \in Nat /\ Len(b) \in Nat
    BY <1>5, <1>6, <1>8
  <2>3. Place(i) \in Nat \ {0}
    BY <1>3, <1>10, <2>2, SMTT(40)
  <2>4. f.end = Start(i) + (Len(c) + Len(b)) /\ Start(i) \in Nat
    BY <1>3, <2>1
  <2>5. Place(i) = (Start(i) + 1) + Len(c)
    BY <1>2, <1>10
  <2>6. f.end \in Nat /\ f.end + 1 = Place(i) + Len(b)
    BY <2>2, <2>4, <2>5, SMTT(40)
  <2> QED BY <2>2, <2>3, <2>6
<1>14. Lies(recv, Place(i), b)
  BY <1>9, <1>10
<1>15. IF Place(i) <= Len(recv) + 1
       THEN Reads(Number[Start(i) + 1], KeyOf(sent[i]), Place(i))
       ELSE RunOut(Number[Start(i) + 1])
  BY <1>1, <1>2, <1>10, <1>12
<1>16. KeyArrives(i, b)
  BY <1>1, <1>3, <1>4, <1>13, <1>14, <1>15, Zenon DEF KeyArrives
<1> QED BY <1>16

-----------------------------------------------------------------------------
(* The first field that does not simply arrive.                            *)
LEMMA FirstBadIs ==
  ASSUME Len(sent) \in Nat
  PROVE  /\ FirstBad \in 1..(Len(sent) + 1) /\ (FirstBad > Len(sent) \/ ~Good(FirstBad))
         /\ \A i \in 1..(FirstBad - 1) : Good(i)
<1> DEFINE B(n) == (n > Len(sent) \/ ~Good(n)) /\ \A i \in 1..(n - 1) : Good(i)
           S == {n \in 1..(Len(sent) + 1) : n > Len(sent) \/ ~Good(n)}
<1>1. S \in SUBSET Nat /\ Len(sent) + 1 \in S
  OBVIOUS
<1>2. PICK k \in S : \A l \in S : k <= l
  <2> HIDE DEF S
  <2> QED BY <1>1, LeastNatural
<1>3. B(k)
  <2>1. ASSUME NEW i \in 1..(k - 1) PROVE Good(i)
    <3>1. i \in 1..(Len(sent) + 1) /\ ~(k <= i)
      BY <1>1, <1>2
    <3>2. i \notin S
      BY <1>2, <3>1
    <3> QED BY <3>1, <3>2
  <2> QED BY <1>2, <2>1
<1>4. \E n \in 1..(Len(sent) + 1) : B(n)
  BY <1>2, <1>3
<1>5. FirstBad = CHOOSE n \in 1..(Len(sent) + 1) : B(n)
  BY DEF FirstBad
<1> HIDE DEF B
<1>6. FirstBad \in 1..(Len(sent) + 1) /\ B(FirstBad)
  BY <1>4, <1>5
<1> QED BY <1>6 DEF B

(* Fields up to it start within the bytes.                                 *)
LEMMA StartsReached ==
  ASSUME InvWritten, InvArrived
  PROVE  \A i \in 1..FirstBad : Start(i) \in Nat /\ Start(i) <= Len(recv)
<1> DEFINE S == {n \in Nat : n + 1 <= FirstBad => Start(n + 1) \in Nat /\ Start(n + 1) <= Len(recv)}
<1>1. Len(recv) \in Nat
  BY DEF InvArrived
<1>2. /\ Len(sent) \in Nat /\ Start(1) = 0
      /\ \A i \in 1..Len(sent) : sent[i] \in Fields /\ Start(i) \in Nat /\ Start(i + 1) = sent[i].end
  BY StartIs
<1>3. FirstBad \in 1..(Len(sent) + 1) /\ \A i \in 1..(FirstBad - 1) : Good(i)
  BY <1>2, FirstBadIs
<1>4. 0 \in S
  BY <1>1, <1>2
<1>5. ASSUME NEW n \in S PROVE n + 1 \in S
  <2>1. SUFFICES ASSUME n + 2 <= FirstBad PROVE Start(n + 2) \in Nat /\ Start(n + 2) <= Len(recv)
    OBVIOUS
  <2>2. PICK i \in Nat : i = n + 1
    OBVIOUS
  <2>3. i \in 1..Len(sent) /\ i \in 1..(FirstBad - 1) /\ i + 1 = n + 2 /\ i <= FirstBad
    BY <1>2, <1>3, <2>1, <2>2
  <2>4. Good(i) /\ Start(i) \in Nat /\ Start(i) <= Len(recv) /\ Start(i + 1) = sent[i].end
    BY <1>2, <1>3, <2>2, <2>3
  <2>5. sent[i].end = Start(i) + Len(FieldOf(sent[i])) /\ sent[i] \in Fields
    BY <2>3, FieldLies
  <2>6. CASE Absent(sent[i])
    <3>1. Len(FieldOf(sent[i])) = 0
      BY <2>5, <2>6, FieldIs
    <3> QED BY <2>3, <2>4, <2>5, <3>1
  <2>7. CASE ~Absent(sent[i])
    <3>1. sent[i].end <= Len(recv)
      BY <2>4, <2>7 DEF Good, Whole
    <3>2. sent[i].end \in Nat
      BY <2>5, FieldsTyped
    <3> QED BY <2>3, <2>4, <3>1, <3>2
  <2> QED BY <2>6, <2>7
<1> HIDE DEF S
<1>6. S = Nat
  <2>1. S \in SUBSET Nat
    BY DEF S
  <2> QED BY <1>4, <1>5, <2>1, Induct
<1>7. TAKE i \in 1..FirstBad
<1>8. i - 1 \in Nat /\ (i - 1) + 1 = i /\ i <= FirstBad
  BY <1>3
<1>9. i - 1 \in S
  BY <1>6, <1>8
<1> QED BY <1>8, <1>9 DEF S

(* What has arrived in front of a field, from one field to the next.       *)
Sources(t, n) == {i \in 1..(n - 1) : sent[i].tag = t /\ ~Absent(sent[i])}
LastOf(is) == CHOOSE i \in is : \A j \in is : j <= i
(* Arrived, with names for its parts. *)
LEMMA ArrivedIs ==
  ASSUME NEW t, NEW n
  PROVE  Arrived(t, n) = IF Sources(t, n) = {} THEN Unset ELSE sent[LastOf(Sources(t, n))].v
BY DEF Arrived, Sources, LastOf

(* Fields that leave no bytes change nothing of what has arrived. *)
LEMMA ArrivedSame ==
  ASSUME NEW i \in Nat, NEW k \in Nat, i <= k, \A l \in i..(k - 1) : Absent(sent[l])
  PROVE  \A t : Arrived(t, k) = Arrived(t, i)
<1> TAKE t
<1>1. Sources(t, k) = Sources(t, i)
  <2>1. ASSUME NEW l \in Sources(t, k) PROVE l \in Sources(t, i)
    <3>1. l \in 1..(k - 1) /\ ~Absent(sent[l]) /\ sent[l].tag = t
      BY DEF Sources
    <3>2. l \in 1..(i - 1)
      BY <3>1
    <3> QED BY <3>1, <3>2 DEF Sources
  <2>2. ASSUME NEW l \in Sources(t, i) PROVE l \in Sources(t, k)
    <3>1. l \in 1..(i - 1) /\ ~Absent(sent[l]) /\ sent[l].tag = t
      BY DEF Sources
    <3>2. l \in 1..(k - 1)
      BY <3>1
    <3> QED BY <3>1, <3>2 DEF Sources
  <2> QED BY <2>1, <2>2
<1> QED BY <1>1, ArrivedIs

(* A field that leaves bytes changes what has arrived of its own tag. *)
LEMMA ArrivedNext ==
  ASSUME NEW j \in Nat \ {0}, ~Absent(sent[j])
  PROVE  \A t : Arrived(t, j + 1) = IF t = sent[j].tag THEN sent[j].v ELSE Arrived(t, j)
<1> TAKE t
<1>1. (j + 1) - 1 = j
  OBVIOUS
<1>2. CASE t = sent[j].tag
  <2>1. j \in Sources(t, j + 1)
    BY <1>1, <1>2 DEF Sources
  <2>2. \A i \in Sources(t, j + 1) : i \in Nat /\ i <= j
    BY <1>1 DEF Sources
  <2>3. PICK is : is = Sources(t, j + 1)
    OBVIOUS
  <2>4. j \in is /\ \A i \in is : i \in Nat /\ i <= j
    BY <2>1, <2>2, <2>3
  <2>5. LastOf(is) = j
    <3>1. LastOf(is) \in is /\ \A i \in is : i <= LastOf(is)
      BY <2>4 DEF LastOf
    <3>2. LastOf(is) \in Nat /\ LastOf(is) <= j /\ j <= LastOf(is)
      BY <2>4, <3>1
    <3> QED BY <3>2
  <2>6. is # {}
    BY <2>4
  <2>7. Arrived(t, j + 1) = sent[j].v
    BY <2>3, <2>5, <2>6, ArrivedIs
  <2> QED BY <1>2, <2>7
<1>3. CASE t # sent[j].tag
  <2>1. Sources(t, j + 1) = Sources(t, j)
    <3>1. ASSUME NEW l \in Sources(t, j + 1) PROVE l \in Sources(t, j)
      <4>1. l \in 1..j /\ ~Absent(sent[l]) /\ sent[l].tag = t
        BY <1>1 DEF Sources
      <4>2. l # j
        BY <1>3, <4>1
      <4>3. l \in 1..(j - 1)
        BY <4>1, <4>2
      <4> QED BY <4>1, <4>3 DEF Sources
    <3>2. ASSUME NEW l \in Sources(t, j) PROVE l \in Sources(t, j + 1)
      <4>1. l \in 1..(j - 1) /\ ~Absent(sent[l]) /\ sent[l].tag = t
        BY DEF Sources
      <4>2. l \in 1..((j + 1) - 1)
        BY <4>1
      <4> QED BY <4>1, <4>2 DEF Sources
    <3> QED BY <3>1, <3>2
  <2>2. Arrived(t, j + 1) = Arrived(t, j)
    BY <2>1, ArrivedIs
  <2> QED BY <1>3, <2>2
<1> QED BY <1>2, <1>3

(* Before the first field nothing has arrived. *)
LEMMA NothingArrived == \A t : Arrived(t, 1) = Unset
<1> TAKE t
<1>1. Sources(t, 1) = {}
  BY DEF Sources
<1> QED BY <1>1, ArrivedIs

(* Fields that are absent take no place.                                   *)
LEMMA StartSame ==
  ASSUME InvWritten, NEW i \in 1..(Len(sent) + 1), NEW k \in 1..(Len(sent) + 1), i <= k,
         \A l \in i..(k - 1) : Absent(sent[l])
  PROVE  Start(k) = Start(i)
<1> DEFINE S == {n \in Nat : i + n <= k => Start(i + n) = Start(i)}
<1>1. Len(sent) \in Nat /\ \A l \in 1..Len(sent) : sent[l] \in Fields /\ Start(l) \in Nat /\ Start(l + 1) = sent[l].end
  BY StartIs
<1>2. 0 \in S
  <2>1. i + 0 = i
    OBVIOUS
  <2> QED BY <2>1
<1>3. ASSUME NEW n \in S PROVE n + 1 \in S
  <2>1. SUFFICES ASSUME i + (n + 1) <= k PROVE Start(i + (n + 1)) = Start(i)
    OBVIOUS
  <2>2. PICK l \in Nat : l = i + n
    OBVIOUS
  <2>3. l \in 1..Len(sent) /\ l \in i..(k - 1) /\ l + 1 = i + (n + 1) /\ l <= k
    BY <1>1, <2>1, <2>2
  <2>4. Start(l) = Start(i)
    BY <2>2, <2>3
  <2>5. Absent(sent[l]) /\ sent[l] \in Fields /\ Start(l) \in Nat
    BY <1>1, <2>3
  <2>6. Len(FieldOf(sent[l])) = 0
    BY <2>5, FieldIs
  <2>7. sent[l].end = Start(l) + Len(FieldOf(sent[l]))
    BY <2>3, FieldLies
  <2>8. Start(l + 1) = sent[l].end
    BY <1>1, <2>3
  <2>9. Start(l + 1) = Start(l)
    BY <2>5, <2>6, <2>7, <2>8
  <2> QED BY <2>3, <2>4, <2>9
<1> HIDE DEF S
<1>4. S = Nat
  <2>1. S \in SUBSET Nat
    BY DEF S
  <2> QED BY <1>2, <1>3, <2>1, Induct
<1>5. PICK n \in Nat : n = k - i
  OBVIOUS
<1>6. n \in S /\ i + n = k /\ i + n <= k
  BY <1>4, <1>5
<1> QED BY <1>6 DEF S

(* The next field that leaves bytes, or ends the load.                     *)
LeadsOn(j, k) ==
  /\ k \in 1..FirstBad /\ k >= j /\ (k = FirstBad \/ ~Absent(sent[k])) /\ Start(k) = Start(j)
  /\ \A t : Arrived(t, k) = Arrived(t, j)
(* From every field up to the first bad one the next that leaves bytes, or *)
(* the first bad one, is found at the same place.                          *)
LEMMA Onward ==
  ASSUME InvWritten, NEW j \in 1..FirstBad
  PROVE  \E k : LeadsOn(j, k)
<1>1. FirstBad \in 1..(Len(sent) + 1) /\ Len(sent) \in Nat
  BY FirstBadIs, StartIs
<1> DEFINE S == {k \in j..FirstBad : k = FirstBad \/ ~Absent(sent[k])}
<1>2. S \in SUBSET Nat /\ FirstBad \in S
  BY <1>1
<1>3. PICK k \in S : \A l \in S : k <= l
  <2> HIDE DEF S
  <2> QED BY <1>2, LeastNatural
<1>4. k \in j..FirstBad /\ (k = FirstBad \/ ~Absent(sent[k]))
  OBVIOUS
<1>5. ASSUME NEW l \in j..(k - 1) PROVE Absent(sent[l])
  <2>1. l \in j..FirstBad /\ ~(k <= l)
    BY <1>1, <1>4
  <2>2. l \notin S
    BY <1>3, <2>1
  <2> QED BY <2>1, <2>2
<1> HIDE DEF S
<1>6. j \in Nat /\ k \in Nat /\ j <= k /\ k \in 1..FirstBad /\ k >= j
      /\ j \in 1..(Len(sent) + 1) /\ k \in 1..(Len(sent) + 1)
  BY <1>1, <1>4
<1>7. Start(k) = Start(j)
  BY <1>5, <1>6, StartSame
<1>8. \A t : Arrived(t, k) = Arrived(t, j)
  BY <1>5, <1>6, ArrivedSame
<1> QED BY <1>4, <1>6, <1>7, <1>8 DEF LeadsOn

(* Behind a whole field that ends the bytes nothing more arrives.          *)
LEMMA NothingBehind ==
  ASSUME InvWritten, InvArrived, NEW j \in Nat, j \in 1..(FirstBad - 1), sent[j].end = Len(recv)
  PROVE  \A t : Arrived(t, FirstBad) = Arrived(t, j + 1)
<1>1. FirstBad \in 1..(Len(sent) + 1) /\ Len(sent) \in Nat /\ \A i \in 1..(FirstBad - 1) : Good(i)
  BY FirstBadIs, StartIs
<1>2. Len(recv) \in Nat
  BY DEF InvArrived
<1>3. ASSUME NEW l \in (j + 1)..(FirstBad - 1) PROVE Absent(sent[l])
  <2>1. l \in 1..Len(sent) /\ j + 1 \in 1..(Len(sent) + 1) /\ l \in 1..(Len(sent) + 1) /\ j + 1 <= l
        /\ j \in 1..Len(sent) /\ l \in 1..(FirstBad - 1)
    BY <1>1
  <2>2. Start(j + 1) = Len(recv)
    BY <2>1, StartIs
  <2>3. Start(j + 1) <= Start(l) /\ Start(l) \in Nat
    BY <2>1, StartsGrow
  <2>4. sent[l].end = Start(l) + Len(FieldOf(sent[l])) /\ sent[l] \in Fields /\ Len(FieldOf(sent[l])) \in Nat
    BY <2>1, FieldLies
  <2>5. SUFFICES ASSUME ~Absent(sent[l]) PROVE FALSE
    OBVIOUS
  <2>6. sent[l].end <= Len(recv)
    BY <1>1, <2>1, <2>5 DEF Good, Whole
  <2>7. Len(FieldOf(sent[l])) # 0
    BY <2>4, <2>5, FieldIs
  <2> QED BY <1>2, <2>2, <2>3, <2>4, <2>6, <2>7
<1>4. j + 1 \in Nat /\ FirstBad \in Nat /\ j + 1 <= FirstBad
  BY <1>1
<1> QED BY <1>3, <1>4, ArrivedSame

-----------------------------------------------------------------------------
(* A round of the loop in load(): the key that it meets, and its cases.    *)
Met == IF pos > Len(recv) + 1 THEN Took(0, pos, FALSE, TRUE) ELSE Number[pos]
Ends == eof \/ Met.eof \/ Met.bad
Idx == Met.v \div 8
(* The two stacks of loads that there are. *)
LEMMA FramesStack ==
  /\ Append(<<"outer">>, "inner") = <<"outer", "inner">>
  /\ SubSeq(<<"outer", "inner">>, 1, 1) = <<"outer">>
<1>1. ASSUME NEW x, NEW y PROVE Append(<<x>>, y) = <<x, y>> /\ SubSeq(<<x, y>>, 1, 1) = <<x>>
  <2> DEFINE S == {x, y}
  <2>1. PICK a, b, c, d : a = <<x>> /\ b = <<x, y>> /\ c = Append(a, y) /\ d = SubSeq(b, 1, 1)
    OBVIOUS
  <2>2. a \in Seq(S) /\ Len(a) = 1 /\ a[1] = x /\ b \in Seq(S) /\ Len(b) = 2 /\ b[1] = x /\ b[2] = y /\ y \in S
    BY <2>1
  <2>3. c \in Seq(S) /\ Len(c) = 2 /\ c[1] = x /\ c[2] = y
    BY <2>1, <2>2, AppendProperties
  <2>4. d \in Seq(S) /\ Len(d) = 1 /\ d[1] = x
    BY <2>1, <2>2, SubSeqProperties
  <2>5. c = b
    BY <2>2, <2>3, SeqEqual
  <2>6. d = a
    BY <2>2, <2>4, SeqEqual
  <2> QED BY <2>1, <2>5, <2>6
<1> QED BY <1>1

(* What a round of load() does for the message itself. *)
LEMMA RoundOuter ==
  ASSUME LoadRound, frames = <<"outer">>
  PROVE  /\ Ends => Goes([Met EXCEPT !.eof = TRUE, !.bad = @ /\ ~eof], <<>>) /\ obj' = obj
         /\ ~Ends /\ Idx \notin known => Goes(SkipType(Met.v % 8, Met.p), <<>>) /\ obj' = obj
         /\ ~Ends /\ Idx \in known /\ Met.v % 8 = Wire(TypeOf[Idx]) /\ TypeOf[Idx] = "class" =>
              Goes(Number[Met.p], <<"outer", "inner">>) /\ obj' = obj
         /\ ~Ends /\ Idx \in known /\ Met.v % 8 = Wire(TypeOf[Idx]) /\ TypeOf[Idx] # "class" =>
              \E r : /\ r = LoadBody(TypeOf[Idx], Met.p) /\ Goes(r, <<"outer">>)
                     /\ obj' = IF r.bad THEN obj ELSE [obj EXCEPT ![Idx] = r.v]
<1>1. Last(frames) = "outer" /\ Front(frames) = <<>> /\ Append(frames, "inner") = <<"outer", "inner">>
  <2>1. Last(frames) = "outer"
    BY DEF Last
  <2>2. Front(frames) = <<>>
    BY DEF Front
  <2>3. Append(frames, "inner") = <<"outer", "inner">>
    BY FramesStack
  <2> QED BY <2>1, <2>2, <2>3
<1>2. PICK key : key = Met
  OBVIOUS
<1>3. PICK idx, wire : idx = key.v \div 8 /\ wire = key.v % 8
  OBVIOUS
<1>4. PICK found : found = (idx \in known)
  OBVIOUS
<1>5. PICK ty : ty = IF ~found THEN "" ELSE TypeOf[idx]
  BY ZenonT(60)
<1>6. IF eof \/ key.eof \/ key.bad
      THEN Goes([key EXCEPT !.eof = TRUE, !.bad = @ /\ ~eof], <<>>) /\ UNCHANGED obj
      ELSE \/ ~found /\ Goes(SkipType(wire, key.p), <<>>) /\ UNCHANGED obj
           \/ found /\ wire # Wire(ty) /\ Goes([key EXCEPT !.bad = TRUE], <<>>) /\ UNCHANGED obj
           \/ found /\ wire = Wire(ty) /\ ty = "class" /\ Goes(Number[key.p], <<"outer", "inner">>) /\ UNCHANGED obj
           \/ /\ found /\ wire = Wire(ty) /\ ty # "class"
              /\ \E r \in {LoadBody(ty, key.p)} :
                   Goes(r, <<"outer">>) /\ obj' = IF r.bad THEN obj ELSE [obj EXCEPT ![idx] = r.v]
  BY <1>1, <1>2, <1>3, <1>4, <1>5, ZenonT(60) DEF LoadRound, Met, OnEnd
<1> QED BY <1>2, <1>3, <1>4, <1>5, <1>6 DEF Ends, Idx

(* What a round of load() does for an embedded message. *)
LEMMA RoundInner ==
  ASSUME LoadRound, frames = <<"outer", "inner">>
  PROVE  /\ Ends => Goes([Met EXCEPT !.eof = TRUE, !.bad = @ /\ ~eof], <<"outer">>) /\ obj' = obj
         /\ \A c \in Tags : TypeOf[c] = "class" /\ ~Ends /\ Idx = InnerTag /\ Met.v % 8 = 0 =>
              /\ Goes(Number[Met.p], frames)
              /\ obj' = IF Number[Met.p].bad THEN obj ELSE [obj EXCEPT ![c] = Number[Met.p].v]
<1>1. Last(frames) = "inner" /\ Front(frames) = <<"outer">>
  <2>1. SubSeq(<<"outer", "inner">>, 1, 1) = <<"outer">>
    BY FramesStack
  <2>2. Len(frames) = 2 /\ frames[2] = "inner" /\ Len(frames) - 1 = 1
    OBVIOUS
  <2>3. Front(frames) = SubSeq(frames, 1, 1)
    BY <2>2, Zenon DEF Front
  <2>4. Front(frames) = <<"outer">>
    BY <2>1, <2>3, Zenon
  <2> QED BY <2>2, <2>4 DEF Last
<1>2. PICK key : key = Met
  OBVIOUS
<1>3. PICK idx, wire : idx = key.v \div 8 /\ wire = key.v % 8
  OBVIOUS
<1>4. PICK found : found = (idx \in {InnerTag})
  OBVIOUS
<1>5. PICK ty : ty = IF ~found THEN "" ELSE "uint"
  OBVIOUS
<1>6. PICK c : c = CHOOSE t \in Tags : TypeOf[t] = "class"
  OBVIOUS
<1>7. "inner" # "outer"
  OBVIOUS
<1>8. IF eof \/ key.eof \/ key.bad
      THEN Goes([key EXCEPT !.eof = TRUE, !.bad = @ /\ ~eof], <<"outer">>) /\ UNCHANGED obj
      ELSE \/ ~found /\ Goes(SkipType(wire, key.p), <<"outer">>) /\ UNCHANGED obj
           \/ found /\ wire # Wire(ty) /\ Goes([key EXCEPT !.bad = TRUE], <<"outer">>) /\ UNCHANGED obj
           \/ found /\ wire = Wire(ty) /\ ty = "class" /\ Goes(Number[key.p], Append(frames, "inner")) /\ UNCHANGED obj
           \/ /\ found /\ wire = Wire(ty) /\ ty # "class"
              /\ \E r \in {LoadBody(ty, key.p)} :
                   Goes(r, frames) /\ obj' = IF r.bad THEN obj ELSE [obj EXCEPT ![c] = r.v]
  BY <1>1, <1>2, <1>3, <1>4, <1>5, <1>6, <1>7, ZenonT(60) DEF LoadRound, Met, OnEnd
<1>9. Wire("uint") = 0 /\ LoadBody("uint", key.p) = Number[key.p]
  BY DEF Wire, LoadBody
<1>10. \A t \in Tags : TypeOf[t] = "class" => t = c
  BY <1>6, ArchiveAssumption
<1> QED BY <1>2, <1>3, <1>4, <1>5, <1>8, <1>9, <1>10 DEF Ends, Idx

(* A round leaves what has been written, has arrived and is known.         *)
LEMMA RoundLeaves ==
  ASSUME LoadRound
  PROVE  sent' = sent /\ out' = out /\ recv' = recv /\ known' = known /\ wtag' = wtag /\ status = "loading"
BY DEF LoadRound

(* A round of load() moves none of the definitions about fields and data. *)
LEMMA SameFields ==
  ASSUME sent' = sent, recv' = recv, known' = known
  PROVE  /\ \A n : Start(n)' = Start(n) /\ (Whole(n)' <=> Whole(n)) /\ (CutOff(n)' <=> CutOff(n)) /\ (Good(n)' <=> Good(n))
         /\ \A n : (Foreseen(n)' <=> Foreseen(n)) /\ (Absent(sent[n])' <=> Absent(sent[n]))
         /\ \A n : (BodyKept(sent[n])' <=> BodyKept(sent[n]))
         /\ \A n : \A t : Arrived(t, n)' = Arrived(t, n)
         /\ FirstBad' = FirstBad
<1>1. \A n : Start(n)' = Start(n) /\ (Whole(n)' <=> Whole(n)) /\ (CutOff(n)' <=> CutOff(n))
  BY DEF Start, Whole, CutOff
<1>2. \A n : (Good(n)' <=> Good(n))
  BY DEF Good, Whole
<1>3. \A n : (Foreseen(n)' <=> Foreseen(n))
  BY DEF Foreseen, Unknown, CutOff, Whole
<1>4. \A n : (Absent(sent[n])' <=> Absent(sent[n])) /\ (BodyKept(sent[n])' <=> BodyKept(sent[n]))
  OBVIOUS
<1>5. \A n : \A t : Arrived(t, n)' = Arrived(t, n)
  BY DEF Arrived
<1>6. FirstBad' = FirstBad
  BY DEF FirstBad, Good, Whole
<1> QED BY <1>1, <1>2, <1>3, <1>4, <1>5, <1>6

(* Where a round leads.                                                    *)
LEMMA GoesOn ==
  ASSUME NEW r, NEW fs, Goes(r, fs), ~r.bad
  PROVE  /\ pos' = r.p /\ eof' = r.eof /\ frames' = fs
         /\ fs = <<>> => status' = "done"
         /\ fs # <<>> => status' = "loading"
BY DEF Goes

(* A load that goes bad throws. *)
LEMMA GoesBad == ASSUME NEW r, NEW fs, Goes(r, fs), r.bad PROVE status' = "bad_cast"
BY DEF Goes

SettledBy(o) ==
  \A t \in Tags : (CutOff(FirstBad) /\ t = sent[FirstBad].tag) \/ o[t] = Arrived(t, FirstBad)
After ==
  \/ status' = "loading" /\ (AtEnd' \/ \E k \in 1..FirstBad : AtField(k)' \/ InClass(k)')
  \/ status' = "done" /\ SettledBy(obj')
  \/ status' = "bad_cast" /\ SettledBy(obj') /\ (CutOff(FirstBad) \/ ~BodyKept(sent[FirstBad]))

(* Settled in the next state, of the object alone. *)
LEMMA NextSettled ==
  ASSUME LoadRound
  PROVE  SettledBy(obj') <=> Settled'
<1>1. FirstBad' = FirstBad /\ (\A n : (CutOff(n)' <=> CutOff(n))) /\ (\A n : \A t : Arrived(t, n)' = Arrived(t, n)) /\ sent' = sent
  BY RoundLeaves, SameFields
<1>2. PICK n : n = FirstBad
  OBVIOUS
<1>3. Settled' <=> \A t \in Tags : (CutOff(n)' /\ t = sent'[n].tag) \/ obj'[t] = Arrived(t, n)'
  BY <1>1, <1>2 DEF Settled
<1> QED BY <1>1, <1>2, <1>3 DEF SettledBy

(* AtEnd in the next state, of what a round changes. *)
LEMMA NextAtEnd ==
  ASSUME LoadRound, SettledBy(obj'), frames' \in {<<"outer">>, <<"outer", "inner">>}, pos' = Len(recv) + 1
  PROVE  AtEnd'
BY NextSettled, RoundLeaves DEF AtEnd

(* AtField in the next state, of what a round changes. *)
LEMMA NextAtField ==
  ASSUME LoadRound, NEW k, frames' = <<"outer">>, ~eof', pos' = Start(k) + 1,
         k = FirstBad \/ ~Absent(sent[k]), \A t \in Tags : obj'[t] = Arrived(t, k)
  PROVE  AtField(k)'
<1>1. /\ FirstBad' = FirstBad /\ (Absent(sent[k])' <=> Absent(sent[k])) /\ Start(k)' = Start(k)
      /\ \A t : Arrived(t, k)' = Arrived(t, k)
  BY RoundLeaves, SameFields
<1> QED BY <1>1 DEF AtField

(* InClass in the next state, of what a round changes. *)
LEMMA NextInClass ==
  ASSUME LoadRound, NEW j, frames' = <<"outer", "inner">>, ~eof', j <= Len(sent),
         Ty(sent[j]) = "class", ~Absent(sent[j]),
         IF j = FirstBad THEN CutOff(j) ELSE Whole(j) /\ sent[j].end = Len(recv),
         pos' = Start(j) + Len(Key("class", sent[j].tag)) + 2, pos' <= Len(recv) + 1,
         \A t \in Tags : obj'[t] = Arrived(t, j)
  PROVE  InClass(j)'
<1>1. /\ FirstBad' = FirstBad /\ (Absent(sent[j])' <=> Absent(sent[j])) /\ Start(j)' = Start(j)
      /\ (CutOff(j)' <=> CutOff(j)) /\ (Whole(j)' <=> Whole(j))
      /\ \A t : Arrived(t, j)' = Arrived(t, j)
  BY RoundLeaves, SameFields
<1>2. sent' = sent /\ recv' = recv
  BY RoundLeaves
<1>3. Ty(sent[j])' = Ty(sent[j])
  BY <1>2 DEF Ty
<1> QED BY <1>1, <1>2, <1>3 DEF InClass

(* The cases of After are those of the invariant in the next state. *)
LEMMA AfterHolds ==
  ASSUME LoadRound, After, Foreseen(FirstBad)
  PROVE  InvLoad'
<1>1. /\ FirstBad' = FirstBad /\ (Settled' <=> SettledBy(obj'))
      /\ (\A n : (CutOff(n)' <=> CutOff(n)) /\ (BodyKept(sent[n])' <=> BodyKept(sent[n])))
  BY RoundLeaves, SameFields, NextSettled
<1>2. PICK n : n = FirstBad
  OBVIOUS
<1>3. CASE status' = "loading"
  <2>1. AtEnd' \/ \E k \in 1..FirstBad : AtField(k)' \/ InClass(k)'
    BY <1>3 DEF After
  <2>2. AtEnd' \/ \E k \in 1..FirstBad' : AtField(k)' \/ InClass(k)'
    BY <1>1, <2>1
  <2> QED BY <1>3, <2>2 DEF InvLoad
<1>4. CASE status' = "done"
  <2>1. SettledBy(obj')
    BY <1>4 DEF After
  <2> QED BY <1>1, <1>4, <2>1 DEF InvLoad
<1>5. CASE status' = "bad_cast"
  <2>1. SettledBy(obj') /\ (CutOff(n) \/ ~BodyKept(sent[n]))
    BY <1>2, <1>5 DEF After
  <2>2. CutOff(n)' \/ ~BodyKept(sent[n])'
    BY <1>1, <2>1
  <2> QED BY <1>1, <1>2, <1>5, <2>1, <2>2 DEF InvLoad
<1> QED BY <1>3, <1>4, <1>5 DEF After

-----------------------------------------------------------------------------
(* The end of the bytes ends the load, or the inner one.                   *)
LEMMA EndGoes ==
  ASSUME InvArrived, RunOut(Met), NEW fs, Goes([Met EXCEPT !.eof = TRUE, !.bad = @ /\ ~eof], fs),
         NEW q \in Nat, Met = Number[q]
  PROVE  /\ pos' = Len(recv) + 1 /\ frames' = fs
         /\ fs = <<>> => status' = "done"
         /\ fs # <<>> => status' = "loading"
<1>1. PICK v, p, e, b : Met = Took(v, p, e, b)
  BY LoadIs, NumberIs
<1>2. PICK r, x : r = [Met EXCEPT !.eof = TRUE, !.bad = @ /\ ~eof] /\ x = (Met.bad /\ ~eof)
  OBVIOUS
<1>3. Met.bad = b /\ Met.p = p
  BY <1>1 DEF Took
<1>4. b = FALSE /\ p = Len(recv) + 1
  BY <1>3 DEF RunOut
<1>5. r = [Met EXCEPT !.eof = TRUE, !.bad = x]
  BY <1>2, Zenon
<1>6. r.p = p /\ r.bad = x
  BY <1>1, <1>5 DEF Took
<1>7. ~r.bad
  BY <1>2, <1>3, <1>4, <1>6
<1>8. Goes(r, fs)
  BY <1>2
<1> QED BY <1>4, <1>6, <1>7, <1>8, GoesOn

(* Within the data, or just behind them, a round meets the number that is  *)
(* there.                                                                  *)
LEMMA MetAt ==
  ASSUME InvArrived, NEW q \in Nat, pos = q, q <= Len(recv) + 1
  PROVE  Met = Number[q]
<1>1. Len(recv) \in Nat
  BY DEF InvArrived
<1>2. ~(pos > Len(recv) + 1)
  BY <1>1
<1> QED BY <1>2 DEF Met

(* A round that starts at the end of the data ends the load it is in. *)
LEMMA EndRound ==
  ASSUME InvArrived, LoadRound, AtEnd
  PROVE  After
<1>1. Len(recv) + 1 \in Nat /\ recv \in Seq(Nat) /\ pos = Len(recv) + 1
  BY DEF InvArrived, AtEnd
<1>2. Met = Number[Len(recv) + 1]
  BY <1>1, MetAt
<1>3. RunOut(Met) /\ Met.eof = TRUE
  BY <1>1, <1>2, NumberAtEnd DEF RunOut
<1>4. Ends
  BY <1>3 DEF Ends
<1>5. SettledBy(obj)
  BY DEF AtEnd, Settled, SettledBy
<1>6. CASE frames = <<"outer">>
  <2>1. Goes([Met EXCEPT !.eof = TRUE, !.bad = @ /\ ~eof], <<>>) /\ obj' = obj
    BY <1>4, <1>6, RoundOuter
  <2>2. status' = "done"
    <3> DEFINE q == Len(recv) + 1
               fs == <<>>
    <3>1. q \in Nat /\ Met = Number[q] /\ Goes([Met EXCEPT !.eof = TRUE, !.bad = @ /\ ~eof], fs)
      BY <1>1, <1>2, <2>1
    <3> HIDE DEF q, fs
    <3>2. fs = <<>> => status' = "done"
      BY <1>3, <3>1, EndGoes
    <3> QED BY <3>2 DEF fs
  <2> QED BY <1>5, <2>1, <2>2 DEF After
<1>7. CASE frames = <<"outer", "inner">>
  <2>1. Goes([Met EXCEPT !.eof = TRUE, !.bad = @ /\ ~eof], <<"outer">>) /\ obj' = obj
    BY <1>4, <1>7, RoundInner
  <2>2. status' = "loading" /\ frames' = <<"outer">> /\ pos' = Len(recv) + 1
    <3> DEFINE q == Len(recv) + 1
               fs == <<"outer">>
    <3>1. q \in Nat /\ Met = Number[q] /\ Goes([Met EXCEPT !.eof = TRUE, !.bad = @ /\ ~eof], fs) /\ fs # <<>>
      BY <1>1, <1>2, <2>1
    <3> HIDE DEF q, fs
    <3>2. pos' = Len(recv) + 1 /\ frames' = fs /\ (fs # <<>> => status' = "loading")
      BY <1>3, <3>1, EndGoes
    <3> QED BY <3>1, <3>2 DEF fs
  <2>3. AtEnd'
    BY <1>5, <2>1, <2>2, NextAtEnd
  <2> QED BY <2>2, <2>3 DEF After
<1> QED BY <1>6, <1>7 DEF AtEnd

-----------------------------------------------------------------------------
(* A round in front of a field that leaves bytes: what its key selects.    *)
TypeKnown(f) == f.tag \in known /\ Ty(f) \notin Containers
AtKey(j, b) ==
  /\ InvWritten /\ InvArrived /\ LoadRound /\ AtField(j)
  /\ j \in 1..Len(sent) /\ j \in 1..FirstBad /\ ~Absent(sent[j]) /\ KeyArrives(j, b)

(* No field that a load knows is a container. *)
LEMMA KnownType ==
  ASSUME InvArrived, NEW f \in Fields, f.tag \in known
  PROVE  Ty(f) \notin Containers
BY FieldsTyped DEF InvArrived, Loadable, Ty

(* A round in front of a key that save() keeps goes by that key's tag and  *)
(* type.                                                                   *)
LEMMA RoundAtKey ==
  ASSUME NEW j, NEW b, AtKey(j, b)
  PROVE  /\ Place(j) > Len(recv) + 1 => status' = "done" /\ obj' = obj
         /\ Place(j) <= Len(recv) + 1 =>
              /\ sent[j].tag \notin known =>
                   Goes(SkipType(KeyOf(sent[j]) % 8, Place(j)), <<>>) /\ obj' = obj
              /\ sent[j].tag \in known /\ Ty(sent[j]) = "class" =>
                   Goes(Number[Place(j)], <<"outer", "inner">>) /\ obj' = obj
              /\ sent[j].tag \in known /\ Ty(sent[j]) # "class" =>
                   \E r : /\ r = LoadBody(Ty(sent[j]), Place(j)) /\ Goes(r, <<"outer">>)
                          /\ obj' = IF r.bad THEN obj ELSE [obj EXCEPT ![sent[j].tag] = r.v]
<1>1. PICK f, q : f = sent[j] /\ q = Place(j)
  OBVIOUS
<1>2. f \in Fields /\ q \in Nat /\ Start(j) \in Nat /\ Len(recv) \in Nat /\ ~eof /\ frames = <<"outer">>
      /\ pos = Start(j) + 1 /\ LoadRound /\ InvArrived /\ InvWritten
  BY <1>1, SMTT(40) DEF AtKey, KeyArrives, AtField, InvArrived
<1>3. Start(j) <= Len(recv)
  BY StartsReached DEF AtKey
<1>4. Met = Number[Start(j) + 1] /\ Start(j) + 1 \in Nat
  <2> DEFINE p == Start(j) + 1
  <2>1. p \in Nat /\ pos = p /\ p <= Len(recv) + 1
    BY <1>2, <1>3
  <2> HIDE DEF p
  <2>2. Met = Number[p]
    BY <1>2, <2>1, MetAt
  <2> QED BY <2>1, <2>2 DEF p
<1>5. IF q <= Len(recv) + 1 THEN Reads(Met, KeyOf(f), q) ELSE RunOut(Met)
  BY <1>1, <1>4 DEF AtKey, KeyArrives
<1>6. CASE q > Len(recv) + 1
  <2>1. ~(q <= Len(recv) + 1)
    BY <1>2, <1>6
  <2>2. RunOut(Met)
    BY <1>5, <2>1
  <2>3. Ends
    BY <2>2 DEF Ends, RunOut
  <2>4. Goes([Met EXCEPT !.eof = TRUE, !.bad = @ /\ ~eof], <<>>) /\ obj' = obj
    BY <1>2, <2>3, RoundOuter
  <2>5. status' = "done"
    <3> DEFINE p == Start(j) + 1
               fs == <<>>
    <3>1. p \in Nat /\ Met = Number[p] /\ Goes([Met EXCEPT !.eof = TRUE, !.bad = @ /\ ~eof], fs)
      BY <1>4, <2>4
    <3> HIDE DEF p, fs
    <3>2. fs = <<>> => status' = "done"
      BY <1>2, <2>2, <3>1, EndGoes
    <3> QED BY <3>2 DEF fs
  <2> QED BY <1>1, <2>1, <2>4, <2>5
<1>7. CASE q <= Len(recv) + 1
  <2>1. Met.v = KeyOf(f) /\ Met.p = q /\ Met.eof = FALSE /\ Met.bad = FALSE
    BY <1>5, <1>7 DEF Reads
  <2>2. ~Ends
    BY <1>2, <2>1 DEF Ends
  <2>3. Idx = f.tag /\ Met.v % 8 = KeyOf(f) % 8
    BY <1>2, <2>1, FieldKey DEF Idx
  <2>4. ~(q > Len(recv) + 1)
    BY <1>2, <1>7
  <2>5. CASE f.tag \notin known
    <3>1. Goes(SkipType(KeyOf(f) % 8, q), <<>>) /\ obj' = obj
      BY <1>2, <2>1, <2>2, <2>3, <2>5, RoundOuter
    <3> QED BY <1>1, <2>4, <2>5, <3>1
  <2>6. CASE f.tag \in known
    <3>1. TypeOf[Idx] = Ty(f) /\ Idx \in known
      BY <2>3, <2>6 DEF Ty
    <3>2. Met.v % 8 = Wire(TypeOf[Idx])
      <4>1. Ty(f) \notin Containers
        BY <1>2, <2>6, KnownType
      <4>2. KeyOf(f) % 8 = Wire(Ty(f))
        BY <1>2, <4>1, FieldKey
      <4> QED BY <2>3, <3>1, <4>2
    <3>3. CASE Ty(f) = "class"
      <4>1. Goes(Number[q], <<"outer", "inner">>) /\ obj' = obj
        BY <1>2, <2>1, <2>2, <3>1, <3>2, <3>3, RoundOuter
      <4> QED BY <1>1, <2>4, <2>6, <3>3, <4>1
    <3>4. CASE Ty(f) # "class"
      <4>1. \E r : /\ r = LoadBody(TypeOf[Idx], Met.p) /\ Goes(r, <<"outer">>)
                   /\ obj' = IF r.bad THEN obj ELSE [obj EXCEPT ![Idx] = r.v]
        BY <1>2, <2>2, <3>1, <3>2, <3>4, RoundOuter
      <4>2. \E r : /\ r = LoadBody(Ty(f), q) /\ Goes(r, <<"outer">>)
                   /\ obj' = IF r.bad THEN obj ELSE [obj EXCEPT ![f.tag] = r.v]
        BY <2>1, <2>3, <3>1, <4>1
      <4> QED BY <1>1, <2>4, <2>6, <3>4, <4>2
    <3> QED BY <3>3, <3>4
  <2> QED BY <2>5, <2>6
<1> QED BY <1>2, <1>6, <1>7

(* What skip_type makes of a field that save() kept: no exception.         *)
LeadsWith(p, b) ==
  \E x \in Unsigned : ~Clipped[x] /\ Lies(recv, p, SaveUnsigned[x]) /\ Len(SaveUnsigned[x]) <= Len(b)
(* A code with bytes behind it leads them. *)
LEMMA LeadsWithCode ==
  ASSUME recv \in Seq(Nat), NEW p \in Nat \ {0}, NEW x \in Unsigned, ~Clipped[x], NEW t \in Seq(Nat),
         NEW b, b = SaveUnsigned[x] \o t, Lies(recv, p, b)
  PROVE  LeadsWith(p, b)
<1>1. PICK a : a = SaveUnsigned[x]
  OBVIOUS
<1>2. a \in Seq(Nat) /\ Len(a) \in Nat /\ Len(t) \in Nat
  BY <1>1, CodeType
<1>3. Lies(recv, p, a \o t)
  BY <1>1
<1>4. Lies(recv, p, a) /\ Len(a \o t) = Len(a) + Len(t)
  BY <1>2, <1>3, LiesConcat
<1>5. Len(b) = Len(a) + Len(t)
  BY <1>1, <1>4
<1>6. Len(a) <= Len(b)
  BY <1>2, <1>5
<1> QED BY <1>1, <1>4, <1>6 DEF LeadsWith

(* A code alone leads itself. *)
LEMMA LeadsWithNumber ==
  ASSUME NEW p, NEW x \in Unsigned, ~Clipped[x], NEW b, b = SaveUnsigned[x], Lies(recv, p, b)
  PROVE  LeadsWith(p, b)
<1>1. Len(SaveUnsigned[x]) <= Len(b)
  BY CodeType
<1> QED BY <1>1 DEF LeadsWith

(* What is behind the key of a field that is kept starts with a code that  *)
(* is kept, but for fixed sizes.                                           *)
LEMMA FirstCode ==
  ASSUME recv \in Seq(Nat), NEW p \in Nat \ {0}, NEW f \in Fields, NEW b, BodyBehind(f, b), BodyKept(f),
         Ty(f) \notin {"packed", "float", "double"}, Lies(recv, p, b)
  PROVE  LeadsWith(p, b)
<1>1. PICK ty, v : ty = Ty(f) /\ v = f.v
  OBVIOUS
<1>2. ty \in Types /\ v \in ValuesOf[ty] /\ BodyClear(ty, v) /\ ty \notin {"packed", "float", "double"}
  BY <1>1, FieldsTyped, BodyKeptIs
<1>3. ty \notin Containers => b = Body(ty, v) /\ v # Unset
  BY <1>1 DEF BodyBehind
<1>4. CASE ty \in {"uint", "optional"}
  <2>1. v \in Unsigned /\ ty \notin Containers
    BY <1>2, <1>3, <1>4, ValuesTyped DEF Containers
  <2>2. ~Clipped[v]
    BY <1>2, <1>4 DEF BodyClear
  <2>3. b = SaveUnsigned[v]
    BY <1>3, <1>4, <2>1, NumberBody
  <2> QED BY <2>1, <2>2, <2>3, LeadsWithNumber
<1>5. CASE ty = "sint"
  <2>1. v \in Signed /\ ty \notin Containers
    BY <1>2, <1>5, ValuesTyped DEF Containers
  <2>2. ~Clipped[ZigZag(v)]
    BY <1>2, <1>5 DEF BodyClear
  <2>3. b = SaveUnsigned[ZigZag(v)] /\ ZigZag(v) \in Unsigned
    BY <1>3, <1>5, <2>1, SignedBody
  <2> QED BY <2>2, <2>3, LeadsWithNumber
<1>6. CASE ty = "bool"
  <2>1. v \in {0, 1} /\ ty \notin Containers
    BY <1>2, <1>6, ValuesTyped DEF Containers
  <2>2. v \in Nat /\ v < Base
    BY <2>1, BaseNumbers
  <2>3. SaveUnsigned[v] = <<v>> /\ ~Clipped[v] /\ v \in Unsigned
    BY <2>2, SmallNumber
  <2>4. b = <<v>>
    BY <1>3, <1>6, <2>1, PlainBody
  <2>5. b = SaveUnsigned[v]
    BY <2>3, <2>4
  <2> QED BY <2>3, <2>5, LeadsWithNumber
<1>7. CASE ty = "string"
  <2>1. v \in Seq(Nat) /\ Len(v) \in Unsigned /\ ty \notin Containers
    BY <1>2, <1>7, ValuesTyped DEF Containers
  <2>2. ~Clipped[Len(v)]
    BY <1>2, <1>7 DEF BodyClear
  <2>3. b = SaveUnsigned[Len(v)] \o v
    BY <1>3, <1>7, <2>1, StringBody
  <2>4. PICK x : x = Len(v)
    OBVIOUS
  <2>5. x \in Unsigned /\ ~Clipped[x] /\ b = SaveUnsigned[x] \o v
    BY <2>1, <2>2, <2>3, <2>4
  <2> QED BY <2>1, <2>5, LeadsWithCode
<1>8. CASE ty = "pair"
  <2>1. v[1] \in Unsigned /\ v[2] \in Unsigned /\ ty \notin Containers
    BY <1>2, <1>8, ValuesTyped DEF Containers
  <2>2. PICK t, x : t = PairBytes(v) /\ x = Len(PairBytes(v))
    OBVIOUS
  <2>3. t \in Seq(Nat) /\ x \in Nat /\ x < Base /\ Body("pair", v) = <<x>> \o t
    BY <2>1, <2>2, PairBody
  <2>4. SaveUnsigned[x] = <<x>> /\ ~Clipped[x] /\ x \in Unsigned
    BY <2>3, SmallNumber
  <2>5. b = SaveUnsigned[x] \o t
    BY <1>3, <1>8, <2>1, <2>3, <2>4
  <2> QED BY <2>3, <2>4, <2>5, LeadsWithCode
<1>9. CASE ty = "class"
  <2>1. v \in Unsigned /\ ty \notin Containers
    BY <1>2, <1>9, ValuesTyped DEF Containers
  <2>2. PICK t, x : t = ClassBytes(v) /\ x = Len(ClassBytes(v))
    OBVIOUS
  <2>3. t \in Seq(Nat) /\ x \in Nat /\ x < Base /\ Body("class", v) = <<x>> \o t
    BY <2>1, <2>2, ClassBody
  <2>4. SaveUnsigned[x] = <<x>> /\ ~Clipped[x] /\ x \in Unsigned
    BY <2>3, SmallNumber
  <2>5. b = SaveUnsigned[x] \o t
    BY <1>3, <1>9, <2>1, <2>3, <2>4
  <2> QED BY <2>3, <2>4, <2>5, LeadsWithCode
<1>10. CASE ty = "unpacked"
  <2>1. Ty(f) \in Containers
    BY <1>1, <1>10 DEF Containers
  <2>2. v[1] \in Unsigned /\ \E t \in Seq(Nat) : b = SaveUnsigned[v[1]] \o t
    BY <1>1, <2>1 DEF BodyBehind
  <2>3. ~Clipped[v[1]]
    BY <1>2, <1>10 DEF BodyClear
  <2> QED BY <2>2, <2>3, LeadsWithCode
<1> QED BY <1>2, <1>4, <1>5, <1>6, <1>7, <1>8, <1>9, <1>10 DEF Types

(* skip_type for the wire types that fields have. *)
LEMMA SkipIs ==
  ASSUME NEW p
  PROVE  /\ SkipType(0, p) = Number[p] /\ SkipType(1, p) = Took(0, p + 8, FALSE, FALSE)
         /\ SkipType(2, p) = [Number[p] EXCEPT !.v = 0, !.p = @ + Number[p].v]
         /\ SkipType(5, p) = Took(0, p + 4, FALSE, FALSE)
<1>1. SkipType(0, p) = Number[p]
  BY DEF SkipType
<1>2. SkipType(1, p) = Took(0, p + 8, FALSE, FALSE)
  BY DEF SkipType
<1>3. SkipType(2, p) = [Number[p] EXCEPT !.v = 0, !.p = @ + Number[p].v]
  BY DEF SkipType
<1>4. SkipType(5, p) = Took(0, p + 4, FALSE, FALSE)
  BY DEF SkipType
<1> QED BY <1>1, <1>2, <1>3, <1>4

(* A field that is whole and kept is passed over without an exception. *)
LEMMA SkipsKept ==
  ASSUME recv \in Seq(Nat), NEW p \in Nat \ {0}, NEW f \in Fields, NEW b, BodyBehind(f, b), BodyKept(f),
         Ty(f) # "packed", Lies(recv, p, b), Len(b) \in Nat, p + Len(b) <= Len(recv) + 1
  PROVE  ~SkipType(KeyOf(f) % 8, p).bad
<1>1. PICK ty, wire : ty = (IF Ty(f) \in Containers THEN "uint" ELSE Ty(f)) /\ wire = KeyOf(f) % 8
  OBVIOUS
<1>2. wire = Wire(ty) /\ Ty(f) \in Types
  BY <1>1, FieldKey, FieldsTyped
<1>3. CASE Ty(f) \in {"float", "double"}
  <2>1. wire \in {1, 5}
    BY <1>1, <1>2, <1>3 DEF Containers, Wire
  <2>2. SkipType(1, p) = Took(0, p + 8, FALSE, FALSE) /\ SkipType(5, p) = Took(0, p + 4, FALSE, FALSE)
    BY SkipIs
  <2>3. SkipType(1, p).bad = FALSE /\ SkipType(5, p).bad = FALSE
    BY <2>2 DEF Took
  <2>4. SkipType(wire, p).bad = FALSE
    BY <2>1, <2>3
  <2> QED BY <1>1, <2>4
<1>4. CASE Ty(f) \notin {"float", "double"}
  <2>1. wire \in {0, 2}
    BY <1>1, <1>2, <1>4 DEF Containers, Wire, Types
  <2>2. PICK x \in Unsigned : ~Clipped[x] /\ Lies(recv, p, SaveUnsigned[x]) /\ Len(SaveUnsigned[x]) <= Len(b)
    <3>1. LeadsWith(p, b)
      BY <1>4, FirstCode
    <3> QED BY <3>1 DEF LeadsWith
  <2>3. p + Len(SaveUnsigned[x]) <= Len(recv) + 1 /\ p <= Len(recv) + 1
    <3>1. Len(SaveUnsigned[x]) \in Nat /\ Len(recv) \in Nat
      BY CodeType
    <3> QED BY <2>2, <3>1
  <2>4. Reached(p, x)
    BY <2>2, <2>3 DEF Reached
  <2>5. Reads(Number[p], x, p + Len(SaveUnsigned[x]))
    BY <2>2, <2>3, <2>4, NumberReached
  <2>6. Number[p].bad = FALSE
    BY <2>5 DEF Reads
  <2>7. PICK n, a, l, e, d : n = Number[p] /\ n = Took(a, l, e, d)
    BY LoadIs, NumberIs
  <2>8. SkipType(0, p) = n /\ SkipType(2, p) = [n EXCEPT !.v = 0, !.p = @ + n.v]
    BY <2>7, SkipIs
  <2>9. n.bad = d
    BY <2>7 DEF Took
  <2>10. SkipType(2, p).bad = n.bad
    BY <2>7, <2>8, <2>9 DEF Took
  <2>11. SkipType(wire, p).bad = n.bad
    BY <2>1, <2>8, <2>10
  <2> QED BY <1>1, <2>6, <2>7, <2>11
<1> QED BY <1>3, <1>4

-----------------------------------------------------------------------------
(* The facts of a round in front of field j, behind whose key b lies.      *)
KeyFactsAt(j, b) ==
  LET f == sent[j]
  IN  /\ f \in Fields /\ ~Absent(f) /\ BodyBehind(f, b) /\ Lies(recv, Place(j), b)
      /\ Place(j) \in Nat \ {0} /\ Len(b) \in Nat /\ f.end \in Nat /\ f.end + 1 = Place(j) + Len(b)
      /\ Len(recv) \in Nat /\ recv \in Seq(Nat)
      /\ j \in 1..Len(sent) /\ FirstBad \in 1..(Len(sent) + 1) /\ j <= FirstBad
      /\ \A t \in Tags : obj[t] = Arrived(t, j)
      /\ obj = [t \in Tags |-> obj[t]] /\ f.tag \in Tags
(* The facts about a field in front of whose key a load is, in one place. *)
LEMMA FactsAtKey ==
  ASSUME NEW j, NEW b, AtKey(j, b)
  PROVE  KeyFactsAt(j, b)
<1>1. /\ sent[j] \in Fields /\ ~Absent(sent[j]) /\ BodyBehind(sent[j], b) /\ Lies(recv, Place(j), b)
      /\ Place(j) \in Nat \ {0} /\ Len(b) \in Nat /\ sent[j].end \in Nat /\ sent[j].end + 1 = Place(j) + Len(b)
      /\ j \in 1..Len(sent) /\ j \in 1..FirstBad
  BY DEF AtKey, KeyArrives
<1>2. Len(recv) \in Nat /\ recv \in Seq(Nat) /\ obj = [t \in Tags |-> obj[t]]
  BY DEF AtKey, InvArrived
<1>3. FirstBad \in 1..(Len(sent) + 1)
  BY StartIs, FirstBadIs DEF AtKey
<1>4. \A t \in Tags : obj[t] = Arrived(t, j)
  BY DEF AtKey, AtField
<1>5. sent[j].tag \in Tags
  BY <1>1, FieldsTyped
<1>6. j <= FirstBad
  BY <1>1, <1>3
<1> QED BY <1>1, <1>2, <1>3, <1>4, <1>5, <1>6, Zenon DEF KeyFactsAt

(* The field that is cut may have set its own value.                       *)
LEMMA OwnValue ==
  ASSUME \A t \in Tags : obj[t] = Arrived(t, FirstBad), obj = [t \in Tags |-> obj[t]], NEW v,
         obj' = obj \/ (CutOff(FirstBad) /\ obj' = [obj EXCEPT ![sent[FirstBad].tag] = v])
  PROVE  SettledBy(obj')
<1>1. CASE obj' = obj
  BY <1>1 DEF SettledBy
<1>2. CASE CutOff(FirstBad) /\ obj' = [obj EXCEPT ![sent[FirstBad].tag] = v]
  <2>1. \A t \in Tags : t # sent[FirstBad].tag => obj'[t] = obj[t]
    BY <1>2
  <2> QED BY <1>2, <2>1 DEF SettledBy
<1> QED BY <1>1, <1>2

(* Setting the first bad field's own value, or none, settles everything. *)
LEMMA SetsOwn ==
  ASSUME NEW j, NEW b, AtKey(j, b), j = FirstBad, NEW v,
         obj' = obj \/ (CutOff(j) /\ obj' = [obj EXCEPT ![sent[j].tag] = v])
  PROVE  SettledBy(obj')
<1>1. (\A t \in Tags : obj[t] = Arrived(t, j)) /\ obj = [t \in Tags |-> obj[t]]
  BY FactsAtKey DEF KeyFactsAt
<1> QED BY <1>1, OwnValue

(* The length of an embedded message.                                      *)
LEMMA ClassRound ==
  ASSUME NEW j, NEW b, AtKey(j, b), Ty(sent[j]) = "class",
         Place(j) <= Len(recv) + 1, Goes(Number[Place(j)], <<"outer", "inner">>), obj' = obj,
         IF j = FirstBad THEN CutOff(j) ELSE Whole(j) /\ sent[j].end = Len(recv)
  PROVE  After
<1>1. PICK f, p, v : f = sent[j] /\ p = Place(j) /\ v = sent[j].v
  OBVIOUS
<1>2. KeyFactsAt(j, b) /\ LoadRound
  BY FactsAtKey DEF AtKey
<1>3. /\ f \in Fields /\ ~Absent(f) /\ BodyBehind(f, b) /\ Lies(recv, p, b)
      /\ p \in Nat \ {0} /\ Len(b) \in Nat /\ f.end + 1 = p + Len(b) /\ f.end \in Nat
      /\ Len(recv) \in Nat /\ recv \in Seq(Nat)
      /\ \A t \in Tags : obj[t] = Arrived(t, j)
  BY <1>1, <1>2, SMTT(40) DEF KeyFactsAt
<1>4. Ty(f) \notin Containers /\ Ty(f) = "class"
  BY <1>1 DEF Containers
<1>5. v \in Unsigned /\ b = Body("class", v)
  BY <1>1, <1>3, <1>4, FieldsTyped, ValuesTyped DEF BodyBehind
<1>6. PICK n : n = Len(ClassBytes(v))
  OBVIOUS
<1>7. Lies(recv, p, SaveUnsigned[n]) /\ n \in Unsigned /\ ~Clipped[n] /\ Len(SaveUnsigned[n]) = 1
  BY <1>3, <1>5, <1>6, ClassPlaces DEF ClassLies
<1>8. Reached(p, n)
  BY <1>1, <1>3, <1>7 DEF Reached
<1>9. IF p + 1 <= Len(recv) + 1 THEN Reads(Number[p], n, p + 1) ELSE RunOut(Number[p])
  BY <1>3, <1>7, <1>8, NumberReached
<1>10. Goes(Number[p], <<"outer", "inner">>) /\ <<"outer", "inner">> # <<>>
  BY <1>1
<1>11. CASE p + 1 <= Len(recv) + 1
  <2>1. Number[p].p = p + 1 /\ Number[p].eof = FALSE /\ ~Number[p].bad
    BY <1>9, <1>11 DEF Reads
  <2>2. pos' = p + 1 /\ ~eof' /\ frames' = <<"outer", "inner">> /\ status' = "loading"
    BY <1>10, <2>1, GoesOn
  <2>3. pos' = Start(j) + Len(Key("class", sent[j].tag)) + 2
    <3>1. CodeOfKey(f) = Key("class", f.tag)
      <4>1. f.tag \in Tags \cup {InnerTag}
        BY <1>3, FieldsTyped
      <4> QED BY <1>4, <4>1, KeyFacts DEF CodeOfKey, KeyOf
    <3>2. p = Start(j) + 1 + Len(CodeOfKey(f))
      BY <1>1 DEF Place
    <3>3. Start(j) \in Nat /\ Len(CodeOfKey(f)) \in Nat
      <4>1. Start(j) \in Nat
        BY DEF AtKey, KeyArrives
      <4> QED BY <1>3, <4>1, FieldKey
    <3> QED BY <1>1, <2>2, <3>1, <3>2, <3>3
  <2>4. pos' <= Len(recv) + 1 /\ j <= Len(sent)
    <3>1. j \in 1..Len(sent)
      BY DEF AtKey
    <3> QED BY <1>11, <2>2, <3>1
  <2>5. \A t \in Tags : obj'[t] = Arrived(t, j)
    BY <1>3
  <2>6. InClass(j)'
    BY <1>1, <1>2, <1>3, <2>2, <2>3, <2>4, <2>5, NextInClass
  <2>7. j \in 1..FirstBad
    BY DEF AtKey
  <2> QED BY <2>2, <2>6, <2>7 DEF After
<1>12. CASE ~(p + 1 <= Len(recv) + 1)
  <2>1. RunOut(Number[p])
    BY <1>9, <1>12
  <2>2. pos' = Len(recv) + 1 /\ frames' = <<"outer", "inner">> /\ status' = "loading"
    <3>1. Number[p].p = Len(recv) + 1 /\ ~Number[p].bad
      BY <2>1 DEF RunOut
    <3>2. PICK r, fs : r = Number[p] /\ fs = <<"outer", "inner">>
      OBVIOUS
    <3>3. Goes(r, fs) /\ ~r.bad /\ fs # <<>>
      BY <1>10, <3>1, <3>2
    <3>4. pos' = r.p /\ frames' = fs /\ status' = "loading"
      BY <3>3, GoesOn
    <3> QED BY <3>1, <3>2, <3>4
  <2>3. j = FirstBad
    <3>1. SUFFICES ASSUME j # FirstBad PROVE FALSE
      OBVIOUS
    <3>2. f.end = Len(recv)
      BY <1>1, <3>1
    <3>3. Len(b) > 0
      BY <1>3, <1>4 DEF BodyBehind
    <3> QED BY <1>3, <1>12, <3>2, <3>3
  <2>4. SettledBy(obj')
    BY <2>3, SetsOwn
  <2>5. AtEnd'
    BY <1>2, <2>2, <2>4, NextAtEnd
  <2> QED BY <2>2, <2>5 DEF After
<1> QED BY <1>11, <1>12

(* The first field that does not simply arrive.                            *)
LEMMA BadRound ==
  ASSUME NEW j, NEW b, AtKey(j, b), j = FirstBad, Foreseen(j)
  PROVE  After
<1>1. PICK f, p : f = sent[j] /\ p = Place(j)
  OBVIOUS
<1>2. KeyFactsAt(j, b) /\ LoadRound
  BY FactsAtKey DEF AtKey
<1>3. /\ f \in Fields /\ ~Absent(f) /\ BodyBehind(f, b) /\ Lies(recv, p, b)
      /\ p \in Nat \ {0} /\ Len(b) \in Nat /\ f.end + 1 = p + Len(b) /\ f.end \in Nat
      /\ Len(recv) \in Nat /\ recv \in Seq(Nat) /\ j \in Nat /\ j <= Len(sent) /\ Len(sent) \in Nat
  <2>1. /\ f \in Fields /\ ~Absent(f) /\ BodyBehind(f, b) /\ Lies(recv, p, b)
        /\ p \in Nat \ {0} /\ Len(b) \in Nat /\ f.end + 1 = p + Len(b) /\ f.end \in Nat
        /\ Len(recv) \in Nat /\ recv \in Seq(Nat) /\ j \in 1..Len(sent)
    BY <1>1, <1>2 DEF KeyFactsAt
  <2>2. Len(sent) \in Nat
    BY StartIs DEF AtKey
  <2> QED BY <2>1, <2>2
<1>4. (Unknown(j) \/ (CutOff(j) /\ BodyKept(f))) /\ KeyKept(f) /\ Ty(f) # "packed"
  BY <1>1, <1>3 DEF Foreseen
<1>5. CASE p > Len(recv) + 1
  <2>1. status' = "done" /\ obj' = obj
    BY <1>1, <1>5, RoundAtKey
  <2>2. SettledBy(obj')
    BY <2>1, SetsOwn
  <2> QED BY <2>1, <2>2 DEF After
<1>6. CASE p <= Len(recv) + 1 /\ f.tag \notin known
  <2>1. PICK r : r = SkipType(KeyOf(f) % 8, p)
    OBVIOUS
  <2>2. Goes(r, <<>>) /\ obj' = obj
    BY <1>1, <1>6, <2>1, RoundAtKey
  <2>3. SettledBy(obj')
    BY <2>2, SetsOwn
  <2>4. CASE ~r.bad
    <3>1. status' = "done"
      BY <2>2, <2>4, GoesOn
    <3> QED BY <2>3, <3>1 DEF After
  <2>5. CASE r.bad
    <3>1. status' = "bad_cast"
      BY <2>2, <2>5, GoesBad
    <3>2. CutOff(j) \/ ~BodyKept(f)
      <4>1. SUFFICES ASSUME ~CutOff(j), BodyKept(f) PROVE FALSE
        OBVIOUS
      <4>2. f.end <= Len(recv)
        BY <1>1, <1>3, <4>1 DEF CutOff, Whole
      <4>3. p + Len(b) <= Len(recv) + 1
        BY <1>3, <4>2
      <4> QED BY <1>3, <1>4, <2>1, <2>5, <4>1, <4>3, SkipsKept
    <3> QED BY <1>1, <2>3, <3>1, <3>2 DEF After
  <2> QED BY <2>4, <2>5
<1>7. CASE p <= Len(recv) + 1 /\ f.tag \in known
  <2>1. CutOff(j) /\ BodyKept(f)
    BY <1>1, <1>4, <1>7 DEF Unknown
  <2>2. CASE Ty(f) = "class"
    <3>1. Goes(Number[p], <<"outer", "inner">>) /\ obj' = obj
      BY <1>1, <1>7, <2>2, RoundAtKey
    <3> QED BY <1>1, <1>7, <2>1, <2>2, <3>1, ClassRound
  <2>3. CASE Ty(f) # "class"
    <3>1. PICK r : /\ r = LoadBody(Ty(f), p) /\ Goes(r, <<"outer">>)
                   /\ obj' = IF r.bad THEN obj ELSE [obj EXCEPT ![f.tag] = r.v]
      BY <1>1, <1>7, <2>3, RoundAtKey
    <3>2. Ty(f) \notin Containers
      BY <1>3, <1>7, KnownType DEF AtKey
    <3>3. b = Body(Ty(f), f.v)
      BY <1>3, <3>2 DEF BodyBehind
    <3>4. ReadsBody(Ty(f), f.v, p)
      BY <1>3, <1>7, <2>1, <2>3, <3>2, <3>3, ReadsField
    <3>5. ~(p + Len(b) <= Len(recv) + 1)
      <4>1. ~(f.end <= Len(recv))
        BY <1>1, <2>1 DEF CutOff, Whole
      <4> QED BY <1>3, <4>1
    <3>6. r.p = Len(recv) + 1
      BY <3>1, <3>3, <3>4, <3>5 DEF ReadsBody
    <3>7. PICK v : v = r.v
      OBVIOUS
    <3>8. obj' = obj \/ (CutOff(j) /\ obj' = [obj EXCEPT ![sent[j].tag] = v])
      BY <1>1, <2>1, <3>1, <3>7
    <3>9. SettledBy(obj')
      BY <3>8, SetsOwn
    <3>10. CASE r.bad
      <4>1. status' = "bad_cast"
        BY <3>1, <3>10, GoesBad
      <4> QED BY <2>1, <3>9, <4>1 DEF After
    <3>11. CASE ~r.bad
      <4>1. PICK fs : fs = <<"outer">>
        OBVIOUS
      <4>2. Goes(r, fs) /\ fs # <<>>
        BY <3>1, <4>1
      <4>3. pos' = r.p /\ frames' = fs /\ status' = "loading"
        BY <3>11, <4>2, GoesOn
      <4>4. AtEnd'
        BY <1>2, <3>6, <3>9, <4>1, <4>3, NextAtEnd
      <4> QED BY <4>3, <4>4 DEF After
    <3> QED BY <3>10, <3>11
  <2> QED BY <2>2, <2>3
<1> QED BY <1>3, <1>5, <1>6, <1>7

(* A field that arrives.                                                   *)
LEMMA GoodRound ==
  ASSUME NEW j, NEW b, AtKey(j, b), j # FirstBad
  PROVE  After
<1>1. PICK f, p : f = sent[j] /\ p = Place(j)
  OBVIOUS
<1>2. KeyFactsAt(j, b) /\ LoadRound /\ InvWritten
  BY FactsAtKey DEF AtKey
<1>3. /\ f \in Fields /\ ~Absent(f) /\ BodyBehind(f, b) /\ Lies(recv, p, b)
      /\ p \in Nat \ {0} /\ Len(b) \in Nat /\ f.end + 1 = p + Len(b) /\ f.end \in Nat
      /\ Len(recv) \in Nat /\ recv \in Seq(Nat) /\ f.tag \in Tags
      /\ j \in 1..Len(sent) /\ FirstBad \in 1..(Len(sent) + 1) /\ j <= FirstBad
      /\ (\A t \in Tags : obj[t] = Arrived(t, j)) /\ obj = [t \in Tags |-> obj[t]]
  BY <1>1, <1>2 DEF KeyFactsAt
<1>4. Len(sent) \in Nat /\ \A i \in 1..(FirstBad - 1) : Good(i)
  BY <1>2, StartIs, FirstBadIs
<1>5. j \in 1..(FirstBad - 1) /\ j + 1 \in 1..FirstBad /\ j \in Nat \ {0}
  BY <1>3, <1>4, SMTT(40)
<1>6. /\ Whole(j) /\ f.tag \in known /\ KeyKept(f) /\ BodyKept(f)
      /\ Ty(f) = "class" => f.end = Len(recv)
  BY <1>1, <1>3, <1>4, <1>5 DEF Good
<1>7. p + Len(b) <= Len(recv) + 1 /\ p <= Len(recv) + 1
  <2>1. f.end <= Len(recv)
    BY <1>1, <1>6 DEF Whole
  <2> QED BY <1>3, <2>1
<1>8. CASE Ty(f) = "class"
  <2>1. Goes(Number[p], <<"outer", "inner">>) /\ obj' = obj
    BY <1>1, <1>6, <1>7, <1>8, RoundAtKey
  <2> QED BY <1>1, <1>6, <1>7, <1>8, <2>1, ClassRound
<1>9. CASE Ty(f) # "class"
  <2>1. PICK r : /\ r = LoadBody(Ty(f), p) /\ Goes(r, <<"outer">>)
                 /\ obj' = IF r.bad THEN obj ELSE [obj EXCEPT ![f.tag] = r.v]
    BY <1>1, <1>6, <1>7, <1>9, RoundAtKey
  <2>2. Ty(f) \notin Containers
    BY <1>3, <1>6, KnownType DEF AtKey
  <2>3. b = Body(Ty(f), f.v)
    BY <1>3, <2>2 DEF BodyBehind
  <2>4. ReadsBody(Ty(f), f.v, p)
    BY <1>3, <1>6, <1>7, <1>9, <2>2, <2>3, ReadsField
  <2>5. Reads(r, f.v, p + Len(b))
    BY <1>7, <2>1, <2>3, <2>4 DEF ReadsBody
  <2>6. r.v = f.v /\ r.p = f.end + 1 /\ ~r.eof /\ ~r.bad
    BY <1>3, <2>5 DEF Reads
  <2>7. pos' = f.end + 1 /\ ~eof' /\ frames' = <<"outer">> /\ status' = "loading"
    <3>1. PICK fs : fs = <<"outer">>
      OBVIOUS
    <3>2. Goes(r, fs) /\ fs # <<>> /\ ~r.bad
      BY <2>1, <2>6, <3>1
    <3>3. pos' = r.p /\ eof' = r.eof /\ frames' = fs /\ status' = "loading"
      BY <3>2, GoesOn
    <3> QED BY <2>6, <3>1, <3>3
  <2>8. obj' = [obj EXCEPT ![f.tag] = f.v]
    BY <2>1, <2>6
  <2>9. \A t \in Tags : obj'[t] = IF t = f.tag THEN f.v ELSE obj[t]
    BY <1>3, <2>8
  <2>10. \A t \in Tags : obj'[t] = Arrived(t, j + 1)
    BY <1>1, <1>3, <1>5, <2>9, ArrivedNext, SMTT(40)
  <2>11. PICK k : LeadsOn(j + 1, k)
    <3> DEFINE i == j + 1
    <3>1. i \in 1..FirstBad
      BY <1>5
    <3> HIDE DEF i
    <3>2. \E k : LeadsOn(i, k)
      BY <1>2, <3>1, Onward
    <3> QED BY <3>2 DEF i
  <2>12. /\ k \in 1..FirstBad /\ (k = FirstBad \/ ~Absent(sent[k])) /\ Start(k) = Start(j + 1)
         /\ \A t : Arrived(t, k) = Arrived(t, j + 1)
    BY <2>11 DEF LeadsOn
  <2>13. Start(j + 1) = f.end
    BY <1>1, <1>2, <1>3, StartIs
  <2>14. AtField(k)'
    <3>1. pos' = Start(k) + 1
      BY <2>7, <2>12, <2>13
    <3>2. \A t \in Tags : obj'[t] = Arrived(t, k)
      BY <2>10, <2>12
    <3> QED BY <1>2, <2>7, <2>12, <3>1, <3>2, NextAtField
  <2> QED BY <2>7, <2>12, <2>14 DEF After
<1> QED BY <1>8, <1>9

(* The inner load of an embedded message.                                  *)
LEMMA InnerRound ==
  ASSUME InvWritten, InvArrived, LoadRound, Foreseen(FirstBad), NEW j \in 1..FirstBad, InClass(j)
  PROVE  After
<1>1. PICK f, v, q, e : f = sent[j] /\ v = sent[j].v /\ q = Place(j) + 1 /\ e = Len(recv)
  OBVIOUS
<1>2. /\ FirstBad \in 1..(Len(sent) + 1) /\ Len(sent) \in Nat /\ \A i \in 1..(FirstBad - 1) : Good(i)
  BY StartIs, FirstBadIs
<1>3. /\ frames = <<"outer", "inner">> /\ ~eof /\ j <= Len(sent) /\ Ty(f) = "class" /\ ~Absent(f)
      /\ IF j = FirstBad THEN CutOff(j) ELSE Whole(j) /\ f.end = e
      /\ pos = Start(j) + Len(Key("class", f.tag)) + 2 /\ pos <= e + 1
      /\ \A t \in Tags : obj[t] = Arrived(t, j)
  BY <1>1 DEF InClass
<1>4. j \in 1..Len(sent) /\ j \in Nat \ {0}
  BY <1>2, <1>3
<1>5. KeyKept(f) /\ BodyKept(f)
  <2>1. CASE j = FirstBad
    <3>1. ~Unknown(j)
      BY <1>3, <2>1 DEF CutOff, Unknown
    <3>2. ~(FirstBad > Len(sent))
      BY <1>2, <1>4, <2>1
    <3> QED BY <1>1, <2>1, <3>1, <3>2 DEF Foreseen
  <2>2. CASE j # FirstBad
    <3>1. j \in 1..(FirstBad - 1)
      BY <1>2, <1>4, <2>2
    <3>2. Good(j)
      BY <1>2, <3>1
    <3> QED BY <1>1, <1>3, <3>2 DEF Good
  <2> QED BY <2>1, <2>2
<1>6. PICK b : KeyArrives(j, b)
  <2>1. Start(j) <= Len(recv)
    BY StartsReached
  <2>2. Ty(f) # "packed"
    BY <1>3
  <2> QED BY <1>1, <1>3, <1>4, <1>5, <2>1, <2>2, KeyHasArrived
<1>7. /\ BodyBehind(f, b) /\ Lies(recv, Place(j), b) /\ Place(j) \in Nat \ {0} /\ Len(b) \in Nat
      /\ f.end + 1 = Place(j) + Len(b) /\ f \in Fields /\ f.end \in Nat /\ Start(j) \in Nat
  BY <1>1, <1>6 DEF KeyArrives
<1>8. recv \in Seq(Nat) /\ e \in Nat /\ obj = [t \in Tags |-> obj[t]]
  BY <1>1 DEF InvArrived
<1>9. v \in Unsigned /\ b = Body("class", v) /\ f.tag \in Tags /\ ~Clipped[v]
  <2>1. Ty(f) \notin Containers
    BY <1>3 DEF Containers
  <2>2. f.v \in ValuesOf["class"] /\ f.tag \in Tags
    BY <1>3, <1>7, FieldsTyped
  <2>3. v \in Unsigned
    BY <1>1, <2>2, ValuesAssumption
  <2>4. b = Body("class", v)
    BY <1>1, <1>3, <1>7, <2>1 DEF BodyBehind
  <2>5. ~Clipped[v]
    BY <1>1, <1>3, <1>5 DEF BodyKept, Kept
  <2> QED BY <2>2, <2>3, <2>4, <2>5
<1>10. PICK k, s, kx : k = InnerKey /\ s = SaveUnsigned[v] /\ kx = WireKey(0, InnerTag)
  OBVIOUS
<1>11. /\ Lies(recv, q, k) /\ Lies(recv, q + Len(k), s) /\ Len(b) = 1 + Len(k) + Len(s)
  <2>1. ClassLies(v, Place(j))
    BY <1>7, <1>8, <1>9, ClassPlaces
  <2>2. InnerKey = SaveUnsigned[WireKey(0, InnerTag)]
    BY DEF InnerKey
  <2> QED BY <1>1, <1>9, <1>10, <2>1, <2>2 DEF ClassLies
<1>12. /\ k = SaveUnsigned[kx] /\ kx \in Unsigned /\ ~Clipped[kx] /\ kx \div 8 = InnerTag /\ kx % 8 = 0
       /\ Len(k) \in Nat /\ Len(k) > 0 /\ Len(s) \in Nat /\ Len(s) > 0
  BY <1>9, <1>10, InnerKeyIs, CodeType
<1>13. pos = q /\ q \in Nat \ {0} /\ q <= e + 1
  <2>1. CodeOfKey(f) = Key("class", f.tag)
    <3>1. f.tag \in Tags \cup {InnerTag} /\ Ty(f) \notin Containers
      BY <1>3, <1>9 DEF Containers
    <3> QED BY <1>3, <3>1, KeyFacts DEF CodeOfKey, KeyOf
  <2>2. Place(j) = Start(j) + 1 + Len(CodeOfKey(f)) /\ Len(CodeOfKey(f)) \in Nat
    BY <1>1, <1>7, FieldKey DEF Place
  <2>3. pos = q
    BY <1>1, <1>3, <1>7, <2>1, <2>2, SMTT(40)
  <2> QED BY <1>1, <1>3, <1>7, <2>3, SMTT(40)
<1>14. f.end + 1 = (q + Len(k)) + Len(s) /\ q + Len(k) \in Nat \ {0}
  <2>1. PICK a \in Nat : a = Place(j)
    BY <1>7
  <2>2. PICK x, y \in Nat : x = Len(k) /\ y = Len(s)
    BY <1>12
  <2>3. f.end + 1 = a + (1 + x + y) /\ q = a + 1
    BY <1>1, <1>7, <1>11, <2>1, <2>2
  <2>4. q + x \in Nat \ {0} /\ a + (1 + x + y) = (q + x) + y
    BY <2>3
  <2> QED BY <2>2, <2>3, <2>4
<1>15. Met = Number[q]
  BY <1>1, <1>13, MetAt
<1>16. Reached(q, kx)
  BY <1>1, <1>11, <1>12, <1>13 DEF Reached
<1>17. IF q + Len(k) <= e + 1 THEN Reads(Met, kx, q + Len(k)) ELSE RunOut(Met)
  BY <1>1, <1>8, <1>12, <1>15, <1>16, NumberReached
<1>18. (f.end > e <=> j = FirstBad) /\ (j # FirstBad => f.end = e)
  <2>1. CutOff(j) <=> ~(f.end <= e)
    BY <1>1, <1>3 DEF CutOff, Whole
  <2>2. f.end > e <=> ~(f.end <= e)
    BY <1>7, <1>8
  <2>3. CASE j = FirstBad
    BY <1>3, <2>1, <2>2, <2>3
  <2>4. CASE j # FirstBad
    <3>1. f.end = e
      BY <1>3, <2>4
    <3>2. ~(f.end > e)
      BY <1>8, <3>1
    <3> QED BY <2>4, <3>1, <3>2
  <2> QED BY <2>3, <2>4
<1>19. CASE ~(q + Len(k) <= e + 1)
  <2>1. RunOut(Met) /\ Ends
    BY <1>17, <1>19 DEF Ends, RunOut
  <2>2. PICK fs : fs = <<"outer">>
    OBVIOUS
  <2>3. Goes([Met EXCEPT !.eof = TRUE, !.bad = @ /\ ~eof], fs) /\ obj' = obj /\ fs # <<>>
    BY <1>3, <2>1, <2>2, RoundInner
  <2>4. pos' = Len(recv) + 1 /\ frames' = fs /\ status' = "loading"
    BY <1>13, <1>15, <2>1, <2>3, EndGoes
  <2>5. j = FirstBad
    BY <1>8, <1>12, <1>14, <1>18, <1>19
  <2>6. SettledBy(obj')
    BY <1>3, <1>8, <2>3, <2>5, OwnValue
  <2>7. AtEnd'
    BY <2>2, <2>4, <2>6, NextAtEnd
  <2> QED BY <2>4, <2>7 DEF After
<1>20. CASE q + Len(k) <= e + 1
  <2>1. Met.v = kx /\ Met.p = q + Len(k) /\ Met.eof = FALSE /\ Met.bad = FALSE
    BY <1>17, <1>20 DEF Reads
  <2>2. ~Ends /\ Idx = InnerTag /\ Met.v % 8 = 0
    BY <1>3, <1>12, <2>1 DEF Ends, Idx
  <2>3. PICK r, fs : r = Number[q + Len(k)] /\ fs = <<"outer", "inner">>
    OBVIOUS
  <2>4. Goes(r, fs) /\ obj' = (IF r.bad THEN obj ELSE [obj EXCEPT ![f.tag] = r.v]) /\ fs # <<>>
    BY <1>3, <1>9, <2>1, <2>2, <2>3, RoundInner DEF Ty
  <2>5. Reached(q + Len(k), v)
    BY <1>1, <1>10, <1>11, <1>14, <1>20 DEF Reached
  <2>6. IF (q + Len(k)) + Len(s) <= e + 1 THEN Reads(r, v, (q + Len(k)) + Len(s)) ELSE RunOut(r)
    <3> DEFINE p == q + Len(k)
    <3>1. Reached(p, v) /\ r = Number[p]
      BY <2>3, <2>5
    <3> HIDE DEF p
    <3>2. IF p + Len(s) <= e + 1 THEN Reads(r, v, p + Len(s)) ELSE RunOut(r)
      BY <1>1, <1>8, <1>9, <1>10, <3>1, NumberReached
    <3> QED BY <3>2 DEF p
  <2>7. CASE f.end <= e
    <3>1. (q + Len(k)) + Len(s) <= e + 1
      BY <1>7, <1>8, <1>14, <2>7, SMTT(40)
    <3>2. r.v = v /\ r.p = f.end + 1 /\ ~r.bad
      BY <1>14, <2>6, <3>1 DEF Reads
    <3>3. j # FirstBad /\ f.end = e
      BY <1>7, <1>8, <1>18, <2>7
    <3>4. pos' = Len(recv) + 1 /\ frames' = fs /\ status' = "loading"
      BY <1>1, <2>4, <3>2, <3>3, GoesOn
    <3>5. \A t \in Tags : obj'[t] = IF t = f.tag THEN v ELSE obj[t]
      BY <1>8, <2>4, <3>2
    <3>6. \A t \in Tags : obj'[t] = Arrived(t, j + 1)
      BY <1>1, <1>3, <1>4, <3>5, ArrivedNext
    <3>7. j \in 1..(FirstBad - 1) /\ j \in Nat
      BY <1>2, <1>4, <3>3
    <3>8. \A t : Arrived(t, FirstBad) = Arrived(t, j + 1)
      BY <1>1, <3>3, <3>7, NothingBehind
    <3>9. SettledBy(obj')
      BY <3>6, <3>8 DEF SettledBy
    <3>10. AtEnd'
      BY <2>3, <3>4, <3>9, NextAtEnd
    <3> QED BY <3>4, <3>10 DEF After
  <2>8. CASE f.end > e
    <3>1. ~((q + Len(k)) + Len(s) <= e + 1)
      BY <1>7, <1>8, <1>14, <2>8, SMTT(40)
    <3>2. r.p = Len(recv) + 1 /\ ~r.bad
      BY <2>6, <3>1 DEF RunOut
    <3>3. pos' = r.p /\ frames' = fs /\ status' = "loading"
      BY <2>4, <3>2, GoesOn
    <3>4. j = FirstBad /\ CutOff(FirstBad)
      BY <1>3, <1>18, <2>8
    <3>5. PICK w : w = r.v
      OBVIOUS
    <3>6. obj' = [obj EXCEPT ![sent[FirstBad].tag] = w]
      BY <1>1, <2>4, <3>2, <3>4, <3>5
    <3>7. SettledBy(obj')
      BY <1>3, <1>8, <3>4, <3>6, OwnValue
    <3>8. AtEnd'
      BY <2>3, <3>2, <3>3, <3>7, NextAtEnd
    <3> QED BY <3>3, <3>8 DEF After
  <2> QED BY <1>7, <1>8, <2>7, <2>8
<1> QED BY <1>19, <1>20

-----------------------------------------------------------------------------
(* Steps that leave what has been written.                                 *)
LEMMA WrittenStays ==
  ASSUME InvWritten, sent' = sent, out' = out
  PROVE  InvWritten'
<1>1. \A i : Start(i)' = Start(i)
  BY DEF Start
<1>2. ASSUME NEW i \in 1..Len(sent) PROVE Written(i)'
  <2>1. Written(i)
    BY DEF InvWritten
  <2>2. FieldOf(sent[i])' = FieldOf(sent[i])
    BY DEF FieldOf, Ty
  <2> QED BY <1>1, <2>1, <2>2 DEF Written
<1>3. Start(Len(sent) + 1)' = Start(Len(sent) + 1)
  BY DEF Start
<1> QED BY <1>2, <1>3 DEF InvWritten

(* A write adds bytes behind the others.                                   *)
LEMMA WriteExtends ==
  ASSUME InvWritten, NEW t \in Tags, NEW v \in ValuesOf[TypeOf[t]], out' = out \o Field(t, TypeOf[t], v)
  PROVE  Len(out) \in Nat /\ Len(out) <= Len(out') /\ \A k \in 1..Len(out) : out'[k] = out[k]
<1> DEFINE s == Field(t, TypeOf[t], v)
<1>1. [tag |-> t, v |-> v, end |-> 0] \in Fields /\ FieldOf([tag |-> t, v |-> v, end |-> 0]) = s
  BY DEF Fields, FieldOf, Ty
<1>2. s \in Seq(Nat)
  BY <1>1, FieldIs
<1>3. out \in Seq(Nat) /\ out' = out \o s
  BY DEF InvWritten
<1> HIDE DEF s
<1>4. Len(out') = Len(out) + Len(s) /\ Len(out) \in Nat /\ Len(s) \in Nat
      /\ \A k \in 1..(Len(out) + Len(s)) : out'[k] = IF k <= Len(out) THEN out[k] ELSE s[k - Len(out)]
  BY <1>2, <1>3, ConcatProperties
<1>5. \A k \in 1..Len(out) : out'[k] = out[k]
  BY <1>4
<1> QED BY <1>4, <1>5

(* serialize and write. *)
LEMMA WriteStep ==
  ASSUME ArchiveInv, NEW t \in Tags, NEW v \in ValuesOf[TypeOf[t]], status = "writing",
         sent' = Append(sent, [tag |-> t, v |-> v, end |-> Len(out) + Len(Field(t, TypeOf[t], v))]),
         out' = out \o Field(t, TypeOf[t], v),
         UNCHANGED <<recv, known, pos, eof, frames, obj, status>>
  PROVE  ArchiveInv'
<1>1. InvWritten'
  BY WriteKeeps DEF ArchiveInv
<1>2. Len(out) \in Nat /\ Len(out) <= Len(out') /\ \A k \in 1..Len(out) : out'[k] = out[k]
  BY WriteExtends DEF ArchiveInv
<1>3. InvArrived /\ InvWritten /\ out' \in Seq(Nat)
  BY <1>1 DEF ArchiveInv, InvWritten
<1>4. recv' \in Seq(Nat) /\ Len(recv') <= Len(out') /\ \A k \in 1..Len(recv') : recv'[k] = out'[k]
  <2>1. recv' = recv /\ recv \in Seq(Nat) /\ Len(recv) <= Len(out) /\ \A k \in 1..Len(recv) : recv[k] = out[k]
    BY <1>3 DEF InvArrived
  <2>2. Len(recv) \in Nat /\ Len(out') \in Nat
    BY <1>3, <2>1
  <2>3. Len(recv) <= Len(out') /\ \A k \in 1..Len(recv) : k \in 1..Len(out)
    BY <1>2, <2>1, <2>2
  <2> QED BY <1>2, <2>1, <2>3
<1>5. InvArrived'
  BY <1>3, <1>4 DEF InvArrived
<1>6. InvLoad'
  <2>1. status' = "writing" /\ "writing" # "loading" /\ "writing" # "done" /\ "writing" # "bad_cast"
    OBVIOUS
  <2> QED BY <2>1 DEF InvLoad
<1> QED BY <1>1, <1>5, <1>6 DEF ArchiveInv

(* serialize writes a field. *)
LEMMA SerializeStep ==
  ASSUME ArchiveInv, NEW t \in Tags, NEW v \in ValuesOf[TypeOf[t]], Serialize(t, v)
  PROVE  ArchiveInv'
BY WriteStep DEF Serialize

(* write writes a string as a field. *)
LEMMA WriteStringStep ==
  ASSUME ArchiveInv, NEW t \in Tags, TypeOf[t] = "string", NEW v \in ValuesOf["string"], WriteString(t, v)
  PROVE  ArchiveInv'
BY WriteStep DEF WriteString

(* A load begins in front of the first field.                              *)
LEMMA LoadBegins ==
  InvWritten /\ InvArrived /\ frames = <<"outer">> /\ ~eof /\ pos = 1 /\ status = "loading"
    /\ (\A t \in Tags : obj[t] = Unset) => InvLoad
<1> SUFFICES ASSUME InvWritten, InvArrived, frames = <<"outer">>, ~eof, pos = 1, status = "loading",
                    \A t \in Tags : obj[t] = Unset
             PROVE  InvLoad
  OBVIOUS
<1>1. FirstBad \in 1..(Len(sent) + 1) /\ Len(sent) \in Nat /\ Start(1) = 0
  BY StartIs, FirstBadIs
<1>2. 1 \in 1..FirstBad
  BY <1>1
<1>3. PICK k : LeadsOn(1, k)
  BY <1>2, Onward
<1>4. /\ k \in 1..FirstBad /\ (k = FirstBad \/ ~Absent(sent[k])) /\ Start(k) = 0
      /\ \A t : Arrived(t, k) = Unset
  BY <1>1, <1>3, NothingArrived DEF LeadsOn
<1>5. AtField(k)
  BY <1>4 DEF AtField
<1> QED BY <1>4, <1>5 DEF InvLoad

(* The data arrive, up to a byte, and a load begins in front of the first  *)
(* field that leaves bytes.                                                *)
LEMMA StartLoadStep ==
  ASSUME ArchiveInv, NEW n \in 0..Len(out), NEW tags \in SUBSET Loadable, StartLoad(n, tags)
  PROVE  ArchiveInv'
<1>1. InvWritten /\ InvArrived
  BY DEF ArchiveInv
<1>2. /\ status = "writing" /\ status' = "loading" /\ recv' = SubSeq(out, 1, n) /\ known' = tags
      /\ frames' = <<"outer">> /\ sent' = sent /\ out' = out /\ pos' = pos /\ eof' = eof /\ obj' = obj
  BY DEF StartLoad
<1>3. InvWritten'
  BY <1>1, <1>2, WrittenStays
<1>4. out \in Seq(Nat) /\ n \in Nat /\ n <= Len(out) /\ Len(out) \in Nat
  BY <1>1 DEF InvWritten
<1>5. recv' \in Seq(Nat) /\ Len(recv') = n /\ \A k \in 1..n : recv'[k] = out[k]
  <2>1. \A i \in 1..n : out[i] \in Nat
    BY <1>4
  <2>2. SubSeq(out, 1, n) \in Seq(Nat) /\ Len(SubSeq(out, 1, n)) = n /\ \A k \in 1..n : SubSeq(out, 1, n)[k] = out[k]
    BY <1>4, <2>1
  <2> QED BY <1>2, <2>2
<1>6. InvArrived'
  <2>1. obj = [t \in Tags |-> obj[t]]
    BY <1>1 DEF InvArrived
  <2>2. status' # "writing" /\ status' \in {"writing", "loading", "done", "bad_cast"}
    BY <1>2
  <2>3. known' \subseteq Loadable
    BY <1>2
  <2> QED BY <1>2, <1>4, <1>5, <2>1, <2>2, <2>3 DEF InvArrived
<1>7. frames' = <<"outer">> /\ ~eof' /\ pos' = 1 /\ status' = "loading" /\ \A t \in Tags : obj'[t] = Unset
  BY <1>1, <1>2 DEF InvArrived
<1>8. (InvWritten /\ InvArrived /\ frames = <<"outer">> /\ ~eof /\ pos = 1 /\ status = "loading"
        /\ \A t \in Tags : obj[t] = Unset)'
  BY <1>3, <1>6, <1>7
<1>9. InvLoad'
  BY <1>8, LoadBegins, PTL
<1> QED BY <1>3, <1>6, <1>9 DEF ArchiveInv

(* A round of a load. *)
LEMMA RoundSets ==
  ASSUME LoadRound
  PROVE  /\ obj' = obj \/ \E a, v : obj' = [obj EXCEPT ![a] = v]
         /\ status' \in {"loading", "done", "bad_cast"}
<1>1. ASSUME NEW r, NEW fs, Goes(r, fs) PROVE status' \in {"loading", "done", "bad_cast"}
  BY <1>1 DEF Goes
<1>2. obj' = obj \/ \E a, v : obj' = [obj EXCEPT ![a] = v]
  BY DEF LoadRound
<1>3. \E r, fs : Goes(r, fs)
  BY DEF LoadRound
<1> QED BY <1>1, <1>2, <1>3

(* A round in front of a field: it is loaded, or it is the first bad one   *)
(* and the load ends or runs to the end of the data.                       *)
LEMMA FieldRound ==
  ASSUME InvWritten, InvArrived, LoadRound, Foreseen(FirstBad), NEW j \in 1..FirstBad, AtField(j)
  PROVE  After
<1>1. /\ FirstBad \in 1..(Len(sent) + 1) /\ Len(sent) \in Nat /\ (FirstBad > Len(sent) \/ ~Good(FirstBad))
      /\ \A i \in 1..(FirstBad - 1) : Good(i)
  BY StartIs, FirstBadIs
<1>2. Start(j) \in Nat /\ Start(j) <= Len(recv)
  BY StartsReached
<1>3. CASE j > Len(sent)
  <2>1. j = Len(sent) + 1 /\ j = FirstBad
    BY <1>1, <1>3
  <2>2. Len(recv) \in Nat /\ Len(out) \in Nat /\ Len(recv) <= Len(out) /\ Len(out) = Start(j)
    BY <2>1 DEF InvWritten, InvArrived
  <2>3. Start(j) = Len(recv)
    BY <1>2, <2>2
  <2>4. AtEnd
    BY <2>1, <2>3 DEF AtField, AtEnd, Settled
  <2> QED BY <2>4, EndRound
<1>4. CASE j <= Len(sent)
  <2>1. j \in 1..Len(sent) /\ sent[j] \in Fields
    BY <1>1, <1>4, StartIs
  <2>2. ~Absent(sent[j]) /\ KeyKept(sent[j]) /\ Ty(sent[j]) # "packed"
    <3>1. CASE j = FirstBad
      <4>1. ~(FirstBad > Len(sent))
        BY <1>1, <1>4, <3>1
      <4> QED BY <1>1, <3>1, <4>1 DEF Foreseen, Good
    <3>2. CASE j # FirstBad
      <4>1. j \in 1..(FirstBad - 1)
        BY <1>1, <3>2
      <4>2. Good(j) /\ ~Absent(sent[j])
        BY <1>1, <3>2, <4>1 DEF AtField
      <4>3. sent[j].tag \in known /\ KeyKept(sent[j])
        BY <4>2 DEF Good
      <4>4. Ty(sent[j]) # "packed"
        BY <2>1, <4>3, KnownType DEF Containers
      <4> QED BY <4>2, <4>3, <4>4
    <3> QED BY <3>1, <3>2
  <2>3. PICK b : KeyArrives(j, b)
    BY <1>2, <2>1, <2>2, KeyHasArrived
  <2>4. AtKey(j, b)
    BY <2>1, <2>2, <2>3 DEF AtKey
  <2> QED BY <2>4, BadRound, GoodRound
<1> QED BY <1>1, <1>3, <1>4

(* A round of load() keeps the invariant. *)
LEMMA RoundStep ==
  ASSUME ArchiveInv, LoadRound
  PROVE  ArchiveInv'
<1>1. InvWritten /\ InvArrived /\ InvLoad
  BY DEF ArchiveInv
<1>2. sent' = sent /\ out' = out /\ recv' = recv /\ known' = known /\ status = "loading"
  BY RoundLeaves
<1>3. InvWritten'
  BY <1>1, <1>2, WrittenStays
<1>4. InvArrived'
  <2>1. obj' = [t \in Tags |-> obj'[t]]
    <3>1. obj = [t \in Tags |-> obj[t]]
      BY <1>1 DEF InvArrived
    <3>2. CASE obj' = obj
      BY <3>1, <3>2
    <3>3. CASE \E a, v : obj' = [obj EXCEPT ![a] = v]
      <4>1. PICK a, v : obj' = [obj EXCEPT ![a] = v]
        BY <3>3
      <4>2. DOMAIN obj = Tags
        BY <3>1
      <4> QED BY <4>1, <4>2
    <3> QED BY <3>2, <3>3, RoundSets
  <2>2. status' \in {"loading", "done", "bad_cast"}
    BY RoundSets
  <2>3. status' # "writing"
    BY <2>2
  <2> QED BY <1>1, <1>2, <2>1, <2>2, <2>3 DEF InvArrived
<1>5. InvLoad'
  <2>1. CASE Foreseen(FirstBad)
    <3>1. AtEnd \/ \E j \in 1..FirstBad : AtField(j) \/ InClass(j)
      BY <1>1, <1>2, <2>1 DEF InvLoad
    <3>2. After
      BY <1>1, <2>1, <3>1, EndRound, FieldRound, InnerRound
    <3> QED BY <2>1, <3>2, AfterHolds
  <2>2. CASE ~Foreseen(FirstBad)
    <3>1. FirstBad' = FirstBad /\ \A n : (Foreseen(n)' <=> Foreseen(n))
      BY <1>2, SameFields
    <3>2. ~Foreseen(FirstBad)'
      BY <2>2, <3>1
    <3> QED BY <3>2 DEF InvLoad
  <2> QED BY <2>1, <2>2
<1> QED BY <1>3, <1>4, <1>5 DEF ArchiveInv

-----------------------------------------------------------------------------
(* Before anything is written the invariant holds. *)
LEMMA InitEstablishes == ArchiveInit => ArchiveInv
<1> SUFFICES ASSUME ArchiveInit PROVE ArchiveInv
  OBVIOUS
<1>1. sent = <<>> /\ out = <<>> /\ recv = <<>> /\ known = {} /\ pos = 1 /\ ~eof /\ frames = <<>>
      /\ obj = [t \in Tags |-> Unset] /\ status = "writing"
  BY DEF ArchiveInit
<1>2. Start(Len(sent) + 1) = 0
  BY <1>1 DEF Start
<1>3. InvWritten
  BY <1>1, <1>2 DEF InvWritten
<1>4. InvArrived
  <2>1. obj = [t \in Tags |-> obj[t]] /\ \A t \in Tags : obj[t] = Unset
    BY <1>1
  <2>2. known \subseteq Loadable
    BY <1>1
  <2> QED BY <1>1, <2>1, <2>2 DEF InvArrived
<1>5. InvLoad
  BY <1>1 DEF InvLoad
<1> QED BY <1>3, <1>4, <1>5 DEF ArchiveInv

(* A step that moves none of the variables the invariant is about keeps    *)
(* it.                                                                     *)
LEMMA NothingMoves ==
  ASSUME ArchiveInv, sent' = sent, out' = out, recv' = recv, known' = known, pos' = pos, eof' = eof,
         frames' = frames, obj' = obj, status' = status
  PROVE  ArchiveInv'
<1>1. InvWritten /\ InvArrived /\ InvLoad
  BY DEF ArchiveInv
<1>2. InvWritten'
  BY <1>1, WrittenStays
<1>3. InvArrived'
  BY <1>1 DEF InvArrived
<1>4. /\ \A n : Start(n)' = Start(n) /\ (Whole(n)' <=> Whole(n)) /\ (CutOff(n)' <=> CutOff(n))
      /\ \A n : (Foreseen(n)' <=> Foreseen(n)) /\ (Absent(sent[n])' <=> Absent(sent[n])) /\ (BodyKept(sent[n])' <=> BodyKept(sent[n]))
      /\ \A n : \A t : Arrived(t, n)' = Arrived(t, n)
      /\ FirstBad' = FirstBad
  BY SameFields
<1>5. Settled' <=> Settled
  BY <1>4 DEF Settled
<1>6. AtEnd' <=> AtEnd
  BY <1>5 DEF AtEnd
<1>7. \A j : AtField(j)' <=> AtField(j)
  BY <1>4 DEF AtField
<1>8. \A j : InClass(j)' <=> InClass(j)
  BY <1>4 DEF InClass, Ty
<1>9. InvLoad'
  <2>1. PICK n : n = FirstBad
    OBVIOUS
  <2>2. (Foreseen(n)' <=> Foreseen(n)) /\ (CutOff(n)' <=> CutOff(n)) /\ (BodyKept(sent[n])' <=> BodyKept(sent[n])) /\ FirstBad' = n
    BY <1>4, <2>1
  <2> QED BY <1>1, <1>5, <1>6, <1>7, <1>8, <2>1, <2>2 DEF InvLoad
<1> QED BY <1>2, <1>3, <1>9 DEF ArchiveInv

(* Every step keeps the invariant. *)
LEMMA NextPreserves == ArchiveInv /\ [ArchiveNext]_archiveVars => ArchiveInv'
<1> SUFFICES ASSUME ArchiveInv, [ArchiveNext]_archiveVars PROVE ArchiveInv'
  OBVIOUS
<1>1. CASE \E t \in Tags : \E v \in ValuesOf[TypeOf[t]] : Serialize(t, v)
  BY <1>1, SerializeStep
<1>2. CASE SerializeNext
  BY <1>2, SerializeStep DEF SerializeNext
<1>3. CASE \E t \in Tags : TypeOf[t] = "string" /\ \E v \in ValuesOf["string"] : WriteString(t, v)
  BY <1>3, WriteStringStep
<1>4. CASE \E n \in 0..Len(out), others \in SUBSET {sent[i].tag : i \in DOMAIN sent} : StartLoad(n, Loadable \ others)
  <2>1. PICK n \in 0..Len(out), others \in SUBSET {sent[i].tag : i \in DOMAIN sent} : StartLoad(n, Loadable \ others)
    BY <1>4
  <2>2. PICK tags : tags = Loadable \ others
    OBVIOUS
  <2>3. tags \in SUBSET Loadable /\ StartLoad(n, tags)
    BY <2>1, <2>2
  <2> QED BY <2>3, StartLoadStep
<1>5. CASE LoadRound
  BY <1>5, RoundStep
<1>6. CASE UNCHANGED archiveVars
  <2>1. /\ sent' = sent /\ out' = out /\ recv' = recv /\ known' = known /\ pos' = pos /\ eof' = eof
        /\ frames' = frames /\ obj' = obj /\ status' = status
    BY <1>6 DEF archiveVars
  <2> QED BY <2>1, NothingMoves
<1> QED BY <1>1, <1>2, <1>3, <1>4, <1>5, <1>6 DEF ArchiveNext

(* What has been written lies field behind field, what has arrived is a    *)
(* first part of it, and a load is in front of, in or behind a field, with *)
(* what the fields before it have set: the inductive invariant.            *)
THEOREM ArchiveInvariant == ArchiveSpec => []ArchiveInv
<1>1. ArchiveInit => ArchiveInv
  BY InitEstablishes
<1>2. ArchiveInv /\ [ArchiveNext]_archiveVars => ArchiveInv'
  BY NextPreserves
<1> QED BY <1>1, <1>2, PTL DEF ArchiveSpec

(* A number is read back, to its last byte and no further, exactly if it   *)
(* is one that save() keeps (lines 86-140 of gprotocol_common.hpp).        *)
THEOREM NumbersExact == ArchiveSpec => []VarintsExact
<1>1. ArchiveInv => VarintsExact
  BY WrittenExact DEF ArchiveInv
<1> QED BY <1>1, ArchiveInvariant, PTL

(* The code ends a load at the first field that the archive does not know: *)
(* then, too, each tag holds the last of its fields before that one, and   *)
(* no exception has come but for the field's own number.                   *)
ArrivesBefore(n) ==
  /\ status = "done" \/ CutOff(n) \/ ~BodyKept(sent[n])
  /\ \A t \in Tags : (CutOff(n) /\ t = sent[n].tag) \/ obj[t] = Arrived(t, n)

EndsAtUnknown ==
  status \in {"done", "bad_cast"} => \A n \in {FirstBad} : Foreseen(n) => ArrivesBefore(n)

(* What the invariant says of a load that has ended. *)
LEMMA ArrivesUntilUnknown == ArchiveSpec => []EndsAtUnknown
<1>1. ArchiveInv => EndsAtUnknown
  <2> SUFFICES ASSUME ArchiveInv, status \in {"done", "bad_cast"}, Foreseen(FirstBad)
               PROVE  ArrivesBefore(FirstBad)
    BY DEF EndsAtUnknown
  <2>1. Settled
    BY DEF ArchiveInv, InvLoad
  <2>2. status = "done" \/ CutOff(FirstBad) \/ ~BodyKept(sent[FirstBad])
    BY DEF ArchiveInv, InvLoad
  <2> QED BY <2>1, <2>2 DEF Settled, ArrivesBefore
<1> QED BY <1>1, ArchiveInvariant, PTL

(* Fields arrive as they were written up to the place where the bytes end  *)
(* or a field comes that the archive does not know.                        *)
THEOREM WrittenArrives == ArchiveSpec => []FieldsArrive
<1>1. EndsAtUnknown => FieldsArrive
  <2> SUFFICES ASSUME status \in {"done", "bad_cast"}, NEW n \in {FirstBad}, Foreseen(n), ArrivesBefore(n)
               PROVE  /\ status = "done" \/ CutOff(n) \/ ~BodyKept(sent[n])
                      /\ \A t \in Tags : (CutOff(n) /\ t = sent[n].tag) \/ obj[t] = Arrived(t, n)
    BY DEF EndsAtUnknown, FieldsArrive
  <2> QED BY DEF ArrivesBefore
<1> QED BY <1>1, ArrivesUntilUnknown, PTL
=============================================================================
