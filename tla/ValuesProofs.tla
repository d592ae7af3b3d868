---------------------------- MODULE ValuesProofs ----------------------------
(***************************************************************************)
(* Three of the classes that stand alone, whatever their constants are.    *)
(*                                                                         *)
(* Calls on an atomic word are atomic, for every number of threads, every  *)
(* width, all operands and every functor.                                  *)
(*                                                                         *)
(* A message makes the same of a text however the text is cut into pieces, *)
(* and copies of a message are kept apart, for every text and any number   *)
(* of messages and calls.  What parse does with the characters of a piece  *)
(* is a recursive function: that it is one, and that it reads the second   *)
(* of two pieces as the end of the whole, is shown by induction.           *)
(*                                                                         *)
(* The text that a url puts together of its parts, it takes apart into the *)
(* same parts, for every url whose text is read as it was meant.           *)
(***************************************************************************)
EXTENDS Http, Atomics, FiniteSetTheorems, SequenceTheorems, NaturalsInduction, WellFoundedInduction, TLAPS

-----------------------------------------------------------------------------
(* A thread in a call, or between two. *)
AtomicCalls ==
  [op : Operators \cup {"none"}, pc : {"idle", "once", "read", "lacks_low", "lacks_high", "try"},
   low : Int, high : Int, result : Int]

(* What the proof needs to know of the variables: the word stays in its    *)
(* width, and a thread that is inside a call is inside one of the          *)
(* operators.                                                              *)
InvTypes ==
  /\ word \in Words
  /\ call \in [AtomicThreads -> AtomicCalls]
InvBusy == \A t \in AtomicThreads : call[t].pc # "idle" => call[t].op \in Operators
AtomicInv == InvTypes /\ InvBusy

(* A word of two halves has at least one value.                            *)
LEMMA WidthPositive == Half * Half \in Nat \ {0}
<1>1. \A h \in Nat \ {0} : h * h \in Nat \ {0}
  OBVIOUS
<1> QED BY <1>1, HalfAssumption

(* Wrapping brings every number into the word.                             *)
LEMMA WrapInWords == ASSUME NEW n \in Int PROVE Wrap(n) \in Words
<1>1. \A w \in Nat \ {0} : n % w \in 0..(w - 1)
  OBVIOUS
<1> QED BY <1>1, WidthPositive DEF Wrap, Words

(* Words are numbers.                                                      *)
LEMMA WordsAreInts == Words \subseteq Int
BY WidthPositive DEF Words

(* The operands are numbers.                                               *)
LEMMA OperandIsInt == ASSUME NEW o PROVE Operator(o).operand \in Int /\ Operator(o).plus \in Int
<1>1. Offset \in Int
  BY OperandAssumption, WordsAreInts
<1> QED BY <1>1 DEF Operator

(* Every call makes a word of a word.                                      *)
LEMMA AfterInWords == ASSUME NEW o, NEW w \in Words PROVE After(o, w) \in Words
<1>1. w + Operator(o).operand \in Int
  BY OperandIsInt, WordsAreInts
<1>2. Wrap(w + Operator(o).operand) \in Words
  BY <1>1, WrapInWords
<1> QED BY <1>2, OperandAssumption DEF After

(* Results are numbers.                                                    *)
LEMMA ResultIsInt == ASSUME NEW o, NEW w \in Int PROVE Result(o, w) \in Int
<1>1. ASSUME NEW v \in Int PROVE Returned(o, v) \in Int
  <2>1. v + Operator(o).plus \in Int
    BY OperandIsInt
  <2>2. Wrap(v + Operator(o).plus) \in Int
    BY <2>1, WrapInWords, WordsAreInts
  <2> QED BY <2>2 DEF Returned
<1>2. w + Operator(o).operand \in Int
  BY OperandIsInt
<1> QED BY <1>1, <1>2 DEF Result

(* Where it is not an Interlocked function, it is what the comments say.   *)
LEMMA ResultIsReturned == ASSUME NEW o, NEW w, ~Interlocked(o) PROVE Result(o, w) = Returned(o, w)
BY DEF Result

(* The halves of a word are numbers.                                       *)
LEMMA HalvesAreInts == ASSUME NEW w \in Words PROVE w % Half \in Int /\ w \div Half \in Int
BY WordsAreInts, HalfAssumption

(* A call that starts, or starts over, is a call.                          *)
LEMMA StartedIsCall ==
  ASSUME NEW o \in Operators
  PROVE  Started(o) \in AtomicCalls /\ Started(o).pc # "idle" /\ Started(o).op \in Operators
BY DEF Started, AtomicCalls

(* A call that ends leaves the thread idle, with a result that is a number. *)
LEMMA IdleIsCall == ASSUME NEW r \in Int PROVE Idle(r) \in AtomicCalls /\ Idle(r).pc = "idle" /\ Idle(r).result = r
BY DEF Idle, AtomicCalls

-----------------------------------------------------------------------------
LEMMA InitInv == AtomicInit => AtomicInv
<1> SUFFICES ASSUME AtomicInit PROVE AtomicInv
  OBVIOUS
<1>1. Idle(0) \in AtomicCalls /\ Idle(0).pc = "idle"
  BY IdleIsCall
<1> QED BY <1>1 DEF AtomicInit, AtomicInv, InvTypes, InvBusy

(* Every step keeps the invariant and is what CallsAreAtomic allows.       *)
Allowed ==
  /\ word' # word => \E t \in AtomicThreads : Ends(t)
  /\ \A t \in AtomicThreads : Ends(t) /\ call[t].op # "load" =>
       /\ word' = After(call[t].op, word)
       /\ ~Interlocked(call[t].op) => call'[t].result = Returned(call[t].op, word)

(* A step in which thread t ends its call as the code prescribes.          *)
LEMMA EndOfCall ==
  ASSUME AtomicInv, NEW t \in AtomicThreads, call[t].pc # "idle", Finish(t, word),
         word' = IF call[t].op = "load" THEN word ELSE After(call[t].op, word)
  PROVE  AtomicInv' /\ Allowed
<1>1. Result(call[t].op, word) \in Int
  BY ResultIsInt, WordsAreInts DEF AtomicInv, InvTypes
<1>2. call' = [call EXCEPT ![t] = Idle(Result(call[t].op, word))]
  BY DEF Finish
<1>3. /\ call' \in [AtomicThreads -> AtomicCalls]
      /\ call'[t].pc = "idle" /\ call'[t].result = Result(call[t].op, word)
      /\ \A u \in AtomicThreads \ {t} : call'[u] = call[u]
  BY <1>1, <1>2, IdleIsCall DEF AtomicInv, InvTypes
<1>4. word' \in Words
  BY AfterInWords DEF AtomicInv, InvTypes
<1>5. AtomicInv'
  BY <1>3, <1>4 DEF AtomicInv, InvTypes, InvBusy
<1>6. Allowed
  BY <1>3, ResultIsReturned DEF Allowed, Ends
<1> QED BY <1>5, <1>6

(* A step inside a call of thread t, or into one, which changes no word.   *)
LEMMA WithinCall ==
  ASSUME AtomicInv, NEW t \in AtomicThreads, NEW c \in AtomicCalls, c.pc # "idle", c.op \in Operators,
         call' = [call EXCEPT ![t] = c], UNCHANGED word
  PROVE  AtomicInv' /\ Allowed
<1>1. /\ call' \in [AtomicThreads -> AtomicCalls]
      /\ call'[t] = c
      /\ \A u \in AtomicThreads \ {t} : call'[u] = call[u]
  BY DEF AtomicInv, InvTypes
<1>2. AtomicInv'
  BY <1>1 DEF AtomicInv, InvTypes, InvBusy
<1>3. Allowed
  BY <1>1 DEF Allowed, Ends
<1> QED BY <1>2, <1>3

LEMMA StepAllowed == ASSUME AtomicInv, NEW t \in AtomicThreads, AtomicStep(t) PROVE AtomicInv' /\ Allowed
<1> USE DEF AtomicInv
<1>0. /\ call[t] \in AtomicCalls /\ word \in Words
      /\ call[t].pc # "idle" => call[t].op \in Operators
      /\ word % Half \in Int /\ word \div Half \in Int
  BY HalvesAreInts DEF InvTypes, InvBusy
<1>1. ASSUME NEW o \in Operators, Begin(t, o) PROVE AtomicInv' /\ Allowed
  <2>1. call' = [call EXCEPT ![t] = Started(o)] /\ UNCHANGED word
    BY <1>1 DEF Begin
  <2> QED BY <2>1, StartedIsCall, WithinCall
<1>2. CASE Once(t)
  <2>1. word' = IF call[t].op = "load" THEN word ELSE After(call[t].op, word)
    BY <1>2 DEF Once, After
  <2>2. call[t].pc # "idle" /\ Finish(t, word)
    BY <1>2 DEF Once
  <2> QED BY <2>1, <2>2, EndOfCall
<1>3. CASE ReadWord(t)
  <2> DEFINE c == [call[t] EXCEPT !.pc = "try", !.low = word % Half, !.high = word \div Half]
  <2>1. c \in AtomicCalls /\ c.pc # "idle" /\ c.op \in Operators
    BY <1>0, <1>3 DEF AtomicCalls, ReadWord
  <2>2. call' = [call EXCEPT ![t] = c] /\ UNCHANGED word
    BY <1>0, <1>3 DEF ReadWord, InvTypes, AtomicCalls
  <2> HIDE DEF c
  <2> QED BY <2>1, <2>2, WithinCall
<1>4. CASE ReadLow(t)
  <2> DEFINE c == [call[t] EXCEPT !.low = word % Half, !.pc = IF @ = "read" THEN "lacks_high" ELSE "try"]
  <2>1. c \in AtomicCalls /\ c.pc # "idle" /\ c.op \in Operators
    BY <1>0, <1>4 DEF AtomicCalls, ReadLow
  <2>2. call' = [call EXCEPT ![t] = c] /\ UNCHANGED word
    BY <1>0, <1>4 DEF ReadLow, InvTypes, AtomicCalls
  <2> HIDE DEF c
  <2> QED BY <2>1, <2>2, WithinCall
<1>5. CASE ReadHigh(t)
  <2> DEFINE c == [call[t] EXCEPT !.high = word \div Half, !.pc = IF @ = "read" THEN "lacks_low" ELSE "try"]
  <2>1. c \in AtomicCalls /\ c.pc # "idle" /\ c.op \in Operators
    BY <1>0, <1>5 DEF AtomicCalls, ReadHigh
  <2>2. call' = [call EXCEPT ![t] = c] /\ UNCHANGED word
    BY <1>0, <1>5 DEF ReadHigh, InvTypes, AtomicCalls
  <2> HIDE DEF c
  <2> QED BY <2>1, <2>2, WithinCall
<1>6. CASE Try(t)
  <2>1. HasRead(call[t]) = word
    BY <1>6 DEF Try, Unchanged
  <2>2. word' = IF call[t].op = "load" THEN word ELSE After(call[t].op, word)
    BY <1>6, <2>1 DEF Try
  <2>3. call[t].pc # "idle" /\ Finish(t, word)
    BY <1>6, <2>1 DEF Try
  <2> QED BY <2>2, <2>3, EndOfCall
<1>7. CASE TryFails(t)
  <2>1. call[t].pc = "try" /\ call[t].op \in Operators /\ UNCHANGED word
    BY <1>0, <1>7 DEF TryFails
  <2>2. CASE InAssembler(t) /\ call[t].op # "exchange"
    <3> DEFINE c == [call[t] EXCEPT !.low = word % Half, !.high = word \div Half]
    <3>1. c \in AtomicCalls /\ c.pc # "idle" /\ c.op \in Operators
      BY <1>0, <2>1 DEF AtomicCalls
    <3>2. call' = [call EXCEPT ![t] = c]
      BY <1>0, <1>7, <2>2 DEF TryFails, InvTypes, AtomicCalls
    <3> HIDE DEF c
    <3> QED BY <2>1, <3>1, <3>2, WithinCall
  <2>3. CASE ~(InAssembler(t) /\ call[t].op # "exchange")
    <3>1. call' = [call EXCEPT ![t] = Started(call[t].op)]
      BY <1>7, <2>3 DEF TryFails
    <3> QED BY <2>1, <3>1, StartedIsCall, WithinCall
  <2> QED BY <2>2, <2>3
<1>8. CASE LoadWord(t)
  <2> DEFINE r == Result(call[t].op, HasRead(call[t]))
  <2>1. call[t].low \in Int /\ call[t].high \in Int
    BY <1>0 DEF AtomicCalls
  <2>2. r \in Int
    <3>1. HasRead(call[t]) \in Int
      BY <2>1, HalfAssumption DEF HasRead
    <3> QED BY <3>1, ResultIsInt
  <2>3. /\ call' \in [AtomicThreads -> AtomicCalls]
        /\ call'[t].pc = "idle"
        /\ \A u \in AtomicThreads \ {t} : call'[u] = call[u]
    BY <1>8, <2>2, IdleIsCall DEF LoadWord, Finish, InvTypes
  <2>4. word' = word /\ call[t].op = "load"
    BY <1>8 DEF LoadWord
  <2>5. AtomicInv'
    BY <2>3, <2>4 DEF InvTypes, InvBusy
  <2>6. Allowed
    BY <2>3, <2>4 DEF Allowed, Ends
  <2> QED BY <2>5, <2>6
<1> QED BY <1>1, <1>2, <1>3, <1>4, <1>5, <1>6, <1>7, <1>8 DEF AtomicStep

-----------------------------------------------------------------------------
(* The word never leaves its width, and a thread is inside one operator at *)
(* a time.                                                                 *)
THEOREM AtomicInvariant == AtomicSpec => []AtomicInv
<1>1. AtomicInv /\ [AtomicNext]_atomicVars => AtomicInv'
  <2>1. ASSUME AtomicInv, AtomicNext PROVE AtomicInv'
    BY <2>1, StepAllowed DEF AtomicNext
  <2>2. ASSUME AtomicInv, UNCHANGED atomicVars PROVE AtomicInv'
    BY <2>2 DEF AtomicInv, InvTypes, InvBusy, atomicVars
  <2> QED BY <2>1, <2>2
<1> QED BY InitInv, <1>1, PTL DEF AtomicSpec

(* Calls on atomic integers and pointers are atomic (atomic_integer.hpp:47) *)
(* in each of the builds, and return what the comments promise, but for    *)
(* the Interlocked functions of ++ and --.                                 *)
THEOREM EveryCallIsAtomic == AtomicSpec => CallsAreAtomic
<1>1. AtomicInv /\ [AtomicNext]_atomicVars => [Allowed]_atomicVars
  BY StepAllowed DEF AtomicNext
<1> QED BY AtomicInvariant, <1>1, PTL DEF AtomicSpec, CallsAreAtomic, Allowed

-----------------------------------------------------------------------------
(* Induction, for sets of naturals: an operator as a parameter is beyond   *)
(* the provers, the set of the numbers with a property is not.             *)

(* A set of naturals that is not empty has a least element. *)
LEMMA LeastNatural ==
  ASSUME NEW S \in SUBSET Nat, S # {}
  PROVE  \E k \in S : \A l \in S : k <= l
<1>1. PICK k \in S : \A l \in S : ~ (<<l, k>> \in OpToRel(<, Nat))
  BY NatLessThanWellFounded, WFMin
<1>2. ASSUME NEW l \in S PROVE k <= l
  <2>1. ~(l < k)
    BY <1>1 DEF OpToRel
  <2> QED BY <2>1
<1> QED BY <1>2

(* Min picks it. *)
LEMMA MinLeast ==
  ASSUME NEW S \in SUBSET Nat, S # {}
  PROVE  Min(S) \in S /\ \A l \in S : Min(S) <= l
  BY LeastNatural DEF Min

(* What holds of 0, and of n + 1 if of n, holds of every natural. *)
LEMMA Induct ==
  ASSUME NEW S \in SUBSET Nat, 0 \in S, \A n \in S : n + 1 \in S
  PROVE  S = Nat
<1> SUFFICES ASSUME Nat \ S # {} PROVE FALSE
  OBVIOUS
<1>1. PICK k \in Nat \ S : \A l \in Nat \ S : k <= l
  BY LeastNatural
<1>2. k # 0 /\ k - 1 \in Nat /\ ~(k <= k - 1)
  BY <1>1
<1>3. k - 1 \in S
  BY <1>1, <1>2
<1> QED BY <1>1, <1>2, <1>3

-----------------------------------------------------------------------------
(* A text is read character by character: the function upTo of Parse.      *)
StepOf(x, t, k, c) ==
  CHOOSE s \in {IF p.r = "more" THEN ParseChar(p.d, t[k], k, c) ELSE p : p \in {x}} : TRUE
Scan(d, t, c) ==
  CHOOSE f : f = [k \in Nat |-> IF k = 0 THEN Says(d, "more") ELSE StepOf(f[k - 1], t, k, c)]
(* The first n values of it. *)
IsScan(g, n, d, t, c) ==
  g = [k \in 0..n |-> IF k = 0 THEN Says(d, "more") ELSE StepOf(g[k - 1], t, k, c)]

(* There are such values for every n. *)
LEMMA ScanStarts ==
  ASSUME NEW d, NEW t, NEW c
  PROVE  \A n \in Nat : \E g : IsScan(g, n, d, t, c)
<1> DEFINE S == {n \in Nat : \E g : IsScan(g, n, d, t, c)}
<1>1. 0 \in S
  <2> DEFINE g == [k \in 0..0 |-> Says(d, "more")]
  <2>1. IsScan(g, 0, d, t, c)
    BY DEF IsScan
  <2> QED BY <2>1
<1>2. ASSUME NEW n \in S PROVE n + 1 \in S
  <2>1. PICK g : IsScan(g, n, d, t, c)
    OBVIOUS
  <2> DEFINE h == [k \in 0..(n + 1) |-> IF k = n + 1 THEN StepOf(g[n], t, k, c) ELSE g[k]]
  <2>2. n \in Nat
    OBVIOUS
  <2>3. ASSUME NEW k \in 0..(n + 1) PROVE h[k] = IF k = 0 THEN Says(d, "more") ELSE StepOf(h[k - 1], t, k, c)
    <3>1. CASE k = n + 1
      BY <2>2, <3>1
    <3>2. CASE k # n + 1
      <4>1. k \in 0..n /\ (k # 0 => k - 1 \in 0..n /\ k - 1 \in 0..(n + 1) /\ k - 1 # n + 1)
        BY <2>2, <3>2
      <4>2. g[k] = IF k = 0 THEN Says(d, "more") ELSE StepOf(g[k - 1], t, k, c)
        BY <2>1, <4>1 DEF IsScan
      <4> QED BY <3>2, <4>1, <4>2
    <3> QED BY <3>1, <3>2
  <2>4. IsScan(h, n + 1, d, t, c)
    <3> DEFINE e == [k \in 0..(n + 1) |-> IF k = 0 THEN Says(d, "more") ELSE StepOf(h[k - 1], t, k, c)]
    <3>1. DOMAIN h = DOMAIN e /\ h = [k \in DOMAIN h |-> h[k]] /\ e = [k \in DOMAIN e |-> e[k]]
      OBVIOUS
    <3>2. \A k \in DOMAIN h : h[k] = e[k]
      BY <2>3
    <3>3. h = e
      <4> HIDE DEF h, e
      <4> QED BY <3>1, <3>2
    <3> QED BY <3>3 DEF IsScan
  <2> QED BY <2>2, <2>4
<1>3. S = Nat
  <2> HIDE DEF S
  <2>1. S \in SUBSET Nat
    BY DEF S
  <2> QED BY <1>1, <1>2, <2>1, Induct
<1> QED BY <1>3

(* They do not depend on how far they go. *)
LEMMA ScanAgrees ==
  ASSUME NEW d, NEW t, NEW c, NEW n \in Nat, NEW m \in Nat, NEW g, NEW h,
         IsScan(g, n, d, t, c), IsScan(h, m, d, t, c)
  PROVE  \A k \in Nat : k <= n /\ k <= m => g[k] = h[k]
<1> DEFINE S == {k \in Nat : k <= n /\ k <= m => g[k] = h[k]}
<1>1. 0 \in S
  BY DEF IsScan
<1>2. ASSUME NEW k \in S PROVE k + 1 \in S
  <2>1. CASE k + 1 <= n /\ k + 1 <= m
    <3>1. k \in Nat /\ k + 1 \in 0..n /\ k + 1 \in 0..m /\ k <= n /\ k <= m /\ k + 1 # 0 /\ (k + 1) - 1 = k
      BY <2>1
    <3>2. g[k + 1] = StepOf(g[k], t, k + 1, c) /\ h[k + 1] = StepOf(h[k], t, k + 1, c)
      BY <3>1 DEF IsScan
    <3> QED BY <3>1, <3>2
  <2> QED BY <2>1
<1>3. S = Nat
  <2> HIDE DEF S
  <2>1. S \in SUBSET Nat
    BY DEF S
  <2> QED BY <1>1, <1>2, <2>1, Induct
<1> QED BY <1>3

(* The recursive definition of upTo defines it. *)
LEMMA ScanDefined ==
  ASSUME NEW d, NEW t, NEW c
  PROVE  /\ Scan(d, t, c)[0] = Says(d, "more")
         /\ \A k \in Nat : Scan(d, t, c)[k + 1] = StepOf(Scan(d, t, c)[k], t, k + 1, c)
<1> DEFINE part(n) == CHOOSE g : IsScan(g, n, d, t, c)
           f == [k \in Nat |-> part(k)[k]]
<1>1. \A n \in Nat : IsScan(part(n), n, d, t, c)
  BY ScanStarts
<1>2. ASSUME NEW k \in Nat PROVE f[k] = IF k = 0 THEN Says(d, "more") ELSE StepOf(f[k - 1], t, k, c)
  <2>1. k \in 0..k /\ f[k] = part(k)[k]
    OBVIOUS
  <2>2. part(k)[k] = IF k = 0 THEN Says(d, "more") ELSE StepOf(part(k)[k - 1], t, k, c)
    <3> HIDE DEF part, f
    <3> QED BY <1>1, <2>1 DEF IsScan
  <2>3. CASE k = 0
    BY <2>1, <2>2, <2>3
  <2>4. CASE k # 0
    <3>1. k - 1 \in Nat /\ k - 1 <= k - 1 /\ k - 1 <= k
      BY <2>4
    <3>2. part(k)[k - 1] = part(k - 1)[k - 1]
      <4> HIDE DEF part, f
      <4> QED BY <1>1, <3>1, ScanAgrees
    <3>3. f[k - 1] = part(k - 1)[k - 1]
      BY <3>1
    <3> HIDE DEF part, f
    <3> QED BY <2>1, <2>2, <2>4, <3>2, <3>3
  <2> QED BY <2>3, <2>4
<1>3. f = [k \in Nat |-> IF k = 0 THEN Says(d, "more") ELSE StepOf(f[k - 1], t, k, c)]
  <2> DEFINE e == [k \in Nat |-> IF k = 0 THEN Says(d, "more") ELSE StepOf(f[k - 1], t, k, c)]
  <2>1. f = [k \in Nat |-> f[k]] /\ e = [k \in Nat |-> e[k]]
    OBVIOUS
  <2>2. \A k \in Nat : f[k] = e[k]
    BY <1>2
  <2>3. f = e
    <3> HIDE DEF f, e
    <3> QED BY <2>1, <2>2
  <2> QED BY <2>3
<1>4. Scan(d, t, c) =
        [k \in Nat |-> IF k = 0 THEN Says(d, "more") ELSE StepOf(Scan(d, t, c)[k - 1], t, k, c)]
  <2> HIDE DEF f
  <2> QED BY <1>3 DEF Scan
<1> DEFINE s == Scan(d, t, c)
<1>5. s = [k \in Nat |-> IF k = 0 THEN Says(d, "more") ELSE StepOf(s[k - 1], t, k, c)]
  BY <1>4
<1> HIDE DEF s
<1>6. s[0] = Says(d, "more")
  BY <1>5
<1>7. ASSUME NEW k \in Nat PROVE s[k + 1] = StepOf(s[k], t, k + 1, c)
  <2>1. k + 1 \in Nat /\ k + 1 # 0 /\ (k + 1) - 1 = k
    OBVIOUS
  <2> QED BY <1>5, <2>1
<1> QED BY <1>6, <1>7 DEF s

(* A step reads a character, unless the header has ended or is bad. *)
LEMMA StepIs ==
  ASSUME NEW x, NEW t, NEW k, NEW c
  PROVE  StepOf(x, t, k, c) = IF x.r = "more" THEN ParseChar(x.d, t[k], k, c) ELSE x
<1> DEFINE e == IF x.r = "more" THEN ParseChar(x.d, t[k], k, c) ELSE x
<1>1. {IF p.r = "more" THEN ParseChar(p.d, t[k], k, c) ELSE p : p \in {x}} = {e}
  OBVIOUS
<1>2. (CHOOSE s \in {e} : TRUE) = e
  <2> HIDE DEF e
  <2> QED OBVIOUS
<1> QED BY <1>1, <1>2 DEF StepOf

(* The place of a character in its piece does not count. *)
LEMMA Placeless ==
  ASSUME NEW x, NEW t, NEW k, NEW u, NEW l, NEW c, t[k] = u[l]
  PROVE  StepOf(x, t, k, c) = StepOf(x, u, l, c)
<1>1. ParseChar(x.d, t[k], k, c) = ParseChar(x.d, u[l], l, c)
  BY DEF ParseChar, LineEnds
<1> QED BY <1>1, StepIs

(* A token is one that arrives or is in the body that body() is called     *)
(* with.                                                                   *)
Token == {"x", "LF"} \cup UNION {ToSet(i.text) : i \in Inputs}

(* Where the header ends in t. *)
EndPlaces(d, t, c) == {k \in 1..Len(t) : Scan(d, t, c)[k].r = "end"}
(* It ends behind a line, the only place where Parse looks. *)
LEMMA EndsAtLine ==
  ASSUME NEW d, NEW t \in Seq(Token), NEW c, Scan(d, t, c)[Len(t)].r = "end"
  PROVE  Min({k \in 1..Len(t) : t[k] = "LF" /\ Scan(d, t, c)[k].r = "end"}) = Min(EndPlaces(d, t, c))
<1> DEFINE f == Scan(d, t, c)
           E == EndPlaces(d, t, c)
           L == {k \in 1..Len(t) : t[k] = "LF" /\ f[k].r = "end"}
<1>1. Len(t) \in Nat
  OBVIOUS
<1>2. f[0] = Says(d, "more") /\ f[0].r = "more" /\ \A k \in Nat : f[k + 1] = StepOf(f[k], t, k + 1, c)
  <2>1. f[0] = Says(d, "more") /\ \A k \in Nat : f[k + 1] = StepOf(f[k], t, k + 1, c)
    BY ScanDefined
  <2>2. Says(d, "more").r = "more"
    BY DEF Says
  <2> QED BY <2>1, <2>2
<1>3. E = {k \in 1..Len(t) : f[k].r = "end"}
  BY DEF EndPlaces
<1> DEFINE n == Len(t)
<1>4. n \in Nat /\ f[n].r = "end" /\ E = {k \in 1..n : f[k].r = "end"} /\ L = {k \in 1..n : t[k] = "LF" /\ f[k].r = "end"}
  BY <1>1, <1>3
<1> HIDE DEF f, E, L, n
<1>5. n \in E /\ E \in SUBSET Nat
  <2>1. n # 0
    BY <1>2, <1>4
  <2> QED BY <1>4, <2>1
<1>6. Min(E) \in E /\ \A k \in E : Min(E) <= k
  BY <1>5, MinLeast
<1> DEFINE m == Min(E)
<1>7. m \in E /\ \A k \in E : m <= k
  BY <1>6
<1> HIDE DEF m
<1>8. m \in 1..n /\ m - 1 \in Nat /\ m - 1 + 1 = m /\ f[m].r = "end"
  BY <1>4, <1>7
<1>9. f[m - 1].r # "end"
  <2>1. CASE m - 1 = 0
    BY <1>2, <2>1
  <2>2. CASE m - 1 # 0
    <3>1. m - 1 \in 1..n /\ ~(m <= m - 1)
      BY <1>4, <1>8, <2>2
    <3> QED BY <1>4, <1>7, <3>1
  <2> QED BY <2>1, <2>2
<1>10. f[m] = IF f[m - 1].r = "more" THEN ParseChar(f[m - 1].d, t[m], m, c) ELSE f[m - 1]
  <2>1. f[m] = StepOf(f[m - 1], t, m, c)
    BY <1>2, <1>8
  <2> QED BY <2>1, StepIs
<1>11. t[m] = "LF"
  <2>1. ParseChar(f[m - 1].d, t[m], m, c).r = "end"
    BY <1>8, <1>9, <1>10
  <2>2. SUFFICES ASSUME t[m] # "LF" PROVE FALSE
    OBVIOUS
  <2>3. PICK x : ParseChar(f[m - 1].d, t[m], m, c) = Says(x, "more")
    BY <2>2 DEF ParseChar
  <2>4. Says(x, "more").r = "more"
    BY DEF Says
  <2> QED BY <2>1, <2>3, <2>4
<1>12. m \in L /\ L \in SUBSET E
  BY <1>4, <1>8, <1>11
<1>13. Min(L) \in L /\ \A k \in L : Min(L) <= k
  BY <1>5, <1>12, MinLeast
<1>14. Min(L) = m
  <2>1. Min(L) \in E /\ Min(L) <= m /\ m <= Min(L)
    BY <1>7, <1>12, <1>13
  <2>2. Min(L) \in Nat /\ m \in Nat
    BY <1>5, <1>7, <2>1
  <2> QED BY <2>1, <2>2
<1> QED BY <1>14 DEF m, E, L, f, n

(* What Parse makes of a piece, by the last value of the scan and its ends. *)
LEMMA ParseIs ==
  ASSUME NEW d, NEW t \in Seq(Token), NEW c
  PROVE  LET h == Scan(d, t, c)[Len(t)] IN
         Parse(d, t, c) =
           IF ~d.header THEN BodyGoesOn(d, t)
           ELSE CASE h.r = "more" -> Says(h.d, "false")
                  [] h.r = "bad"  -> h
                  [] h.r = "end"  -> BodyBegins(h.d, Rest(t, Min(EndPlaces(d, t, c))), c)
<1> DEFINE h == Scan(d, t, c)[Len(t)]
           L == {k \in 1..Len(t) : t[k] = "LF" /\ Scan(d, t, c)[k].r = "end"}
<1>1. Parse(d, t, c) =
        IF ~d.header THEN BodyGoesOn(d, t)
        ELSE CASE h.r = "more" -> Says(h.d, "false")
               [] h.r = "bad"  -> h
               [] h.r = "end"  -> BodyBegins(h.d, Rest(t, Min(L)), c)
  BY DEF Parse, Scan, StepOf
<1>2. h.r = "end" => Min(L) = Min(EndPlaces(d, t, c))
  BY EndsAtLine
<1> DEFINE m == Min(L)
           e == Min(EndPlaces(d, t, c))
<1> SUFFICES Parse(d, t, c) =
               IF ~d.header THEN BodyGoesOn(d, t)
               ELSE CASE h.r = "more" -> Says(h.d, "false")
                      [] h.r = "bad"  -> h
                      [] h.r = "end"  -> BodyBegins(h.d, Rest(t, e), c)
  OBVIOUS
<1> HIDE DEF h, L
<1>3. h.r = "end" => m = e
  BY <1>2
<1>4. Parse(d, t, c) =
        IF ~d.header THEN BodyGoesOn(d, t)
        ELSE CASE h.r = "more" -> Says(h.d, "false")
               [] h.r = "bad"  -> h
               [] h.r = "end"  -> BodyBegins(h.d, Rest(t, m), c)
  BY <1>1
<1> HIDE DEF m, e
<1> QED BY <1>3, <1>4

-----------------------------------------------------------------------------
(* What parse makes of a text when it comes in two pieces.                 *)

(* The n characters of t after i are those of u. *)
From(t, i, u, n) == \A k \in 1..n : t[i + k] = u[k]

(* Equal steps lead to equal places. *)
LEMMA ScanFollows ==
  ASSUME NEW d, NEW t, NEW c, NEW e, NEW u, NEW i \in Nat, NEW n \in Nat,
         Scan(d, t, c)[i] = Scan(e, u, c)[0],
         From(t, i, u, n)
  PROVE  \A k \in 0..n : Scan(d, t, c)[i + k] = Scan(e, u, c)[k]
<1> DEFINE f == Scan(d, t, c)
           g == Scan(e, u, c)
           S == {k \in Nat : k <= n => f[i + k] = g[k]}
<1>1. 0 \in S
  <2>1. f[i] = g[0] /\ i + 0 = i
    OBVIOUS
  <2> HIDE DEF f, g
  <2> QED BY <2>1
<1>2. ASSUME NEW k \in S PROVE k + 1 \in S
  <2>1. k \in Nat /\ i + k \in Nat /\ i + (k + 1) = (i + k) + 1 /\ k + 1 \in Nat
    OBVIOUS
  <2>2. f[(i + k) + 1] = StepOf(f[i + k], t, (i + k) + 1, c) /\ g[k + 1] = StepOf(g[k], u, k + 1, c)
    BY <2>1, ScanDefined
  <2>3. CASE k + 1 <= n
    <3>1. t[(i + k) + 1] = u[k + 1] /\ k <= n
      BY <2>1, <2>3 DEF From
    <3>2. StepOf(g[k], t, (i + k) + 1, c) = StepOf(g[k], u, k + 1, c)
      BY <3>1, Placeless
    <3>3. f[i + k] = g[k]
      BY <3>1
    <3> HIDE DEF f, g
    <3> QED BY <2>1, <2>2, <3>2, <3>3
  <2> HIDE DEF f, g
  <2> QED BY <2>1, <2>3
<1>3. S = Nat
  <2> HIDE DEF S
  <2>1. S \in SUBSET Nat
    BY DEF S
  <2> QED BY <1>1, <1>2, <2>1, Induct
<1> QED BY <1>3

(* What has ended, or is bad, stays. *)
LEMMA ScanStays ==
  ASSUME NEW d, NEW t, NEW c, NEW i \in Nat, Scan(d, t, c)[i].r # "more"
  PROVE  \A k \in Nat : k >= i => Scan(d, t, c)[k] = Scan(d, t, c)[i]
<1> DEFINE f == Scan(d, t, c)
           S == {k \in Nat : f[i + k] = f[i]}
<1>0. \A k \in Nat : f[k + 1] = StepOf(f[k], t, k + 1, c)
  BY ScanDefined
<1>00. f[i].r # "more"
  OBVIOUS
<1> HIDE DEF f
<1>1. 0 \in S
  OBVIOUS
<1>2. ASSUME NEW k \in S PROVE k + 1 \in S
  <2>1. k \in Nat /\ i + k \in Nat /\ i + (k + 1) = (i + k) + 1 /\ k + 1 \in Nat /\ f[i + k] = f[i]
    OBVIOUS
  <2>2. f[(i + k) + 1] = f[i + k]
    BY <1>0, <1>00, <2>1, StepIs
  <2> QED BY <2>1, <2>2
<1>3. S = Nat
  <2> HIDE DEF S
  <2>1. S \in SUBSET Nat
    BY DEF S
  <2> QED BY <1>1, <1>2, <2>1, Induct
<1>4. ASSUME NEW k \in Nat, k >= i PROVE f[k] = f[i]
  <2>1. PICK j \in Nat : k = i + j
    <3>1. k - i \in Nat /\ k = i + (k - i)
      BY <1>4
    <3> QED BY <3>1
  <2>2. j \in S
    BY <1>3
  <2> QED BY <2>1, <2>2
<1> QED BY <1>4 DEF f

-----------------------------------------------------------------------------
(* The fields of a message's data.  Of most of them nothing needs to be    *)
(* known but that they are there.                                          *)
Fields == {"version", "code", "method", "host", "url", "params", "body", "cache", "header", "requisite"}
(* The fields make the data; data are sound if parse can go on with them.  *)
IsData(d) == d = [f \in Fields |-> d[f]]
Good(d) ==
  /\ IsData(d)
  /\ d.body \in Seq(Token)
  /\ d.header \in BOOLEAN
  /\ d.requisite \in Nat \cup {-1}

(* Reading a header touches no body, and no size of one. *)
Kin(e, d) == IsData(e) /\ e.body = d.body /\ e.requisite = d.requisite /\ e.header = d.header

(* Other fields may change. *)
LEMMA KinUpdate ==
  ASSUME NEW d, NEW e, Kin(e, d), NEW n \in Fields \ {"body", "header", "requisite"}, NEW x
  PROVE  Kin([e EXCEPT ![n] = x], d)
<1> DEFINE g == [e EXCEPT ![n] = x]
<1>1. g = [f \in Fields |-> IF f = n THEN x ELSE e[f]]
  BY DEF Kin, IsData
<1>2. g.body = e.body /\ g.requisite = e.requisite /\ g.header = e.header
  BY <1>1 DEF Fields
<1>3. IsData(g)
  BY <1>1 DEF IsData
<1> QED BY <1>2, <1>3 DEF Kin

(* What an update leaves, and what it writes. *)
LEMMA DataUpdate ==
  ASSUME NEW e, IsData(e), NEW n \in Fields, NEW x
  PROVE  /\ IsData([e EXCEPT ![n] = x])
         /\ \A f \in Fields : [e EXCEPT ![n] = x][f] = IF f = n THEN x ELSE e[f]
<1> DEFINE g == [e EXCEPT ![n] = x]
<1>1. g = [f \in Fields |-> IF f = n THEN x ELSE e[f]]
  BY DEF IsData
<1> QED BY <1>1 DEF IsData

(* What a line of the header is answered with. *)
Header(s, d) == s = Says(s.d, s.r) /\ s.r \in {"more", "end", "bad"} /\ Kin(s.d, d)

(* The first line sets the version, the method, the url or the code. *)
LEMMA FirstLineKeeps ==
  ASSUME NEW d, NEW e, Kin(e, d), NEW line
  PROVE  Header(FirstLine(e, line), d)
<1>1. \A x : Kin(x, d) => Header(Says(x, "more"), d) /\ Header(Says(x, "bad"), d)
  BY DEF Header, Says
<1>2. \A x, v : Kin(x, d) => /\ Kin([x EXCEPT !.version = v], d) /\ Kin([x EXCEPT !.method = v], d)
                             /\ Kin([x EXCEPT !.code = v], d) /\ Kin([x EXCEPT !.url = v], d)
  BY KinUpdate DEF Fields
<1>3. \A v, w : Kin([e EXCEPT !.method = v, !.url = w], d)
  <2> TAKE v, w
  <2>1. Kin([e EXCEPT !.method = v], d)
    BY <1>2
  <2>2. Kin([[e EXCEPT !.method = v] EXCEPT !.url = w], d)
    BY <1>2, <2>1
  <2> QED BY <2>2
<1> DEFINE i == Find(line, "SP", 1)
           l == Find(line, "SP", i + 1)
           version == [e EXCEPT !.version = SubSeq(line, 2, i - 1)]
           request == [e EXCEPT !.method = SubSeq(line, 1, i - 1), !.url = SetText(Blank, SubSeq(line, i + 1, l - 1))]
           code == SubSeq(line, i + 1, l - 1)
           said1 == [version EXCEPT !.code = IF code[1] = "0" THEN "" ELSE code[1]]
           method == [e EXCEPT !.method = SubSeq(line, 1, i - 1)]
           said2 == [request EXCEPT !.version = Rest(line, l + 1)]
<1>4. Kin(version, d) /\ Kin(request, d) /\ Kin(method, d)
  BY <1>2, <1>3
<1>5. Kin(said1, d) /\ Kin(said2, d)
  <2> HIDE DEF version, request
  <2> QED BY <1>2, <1>4
<1>6. FirstLine(e, line) \in {Says(e, "bad"), Says(version, "bad"), Says(said1, "more"), Says(method, "bad"),
                              Says(said2, "more"), Says(request, "bad")}
  BY DEF FirstLine
<1> HIDE DEF i, l, version, request, code, said1, method, said2
<1> QED BY <1>1, <1>4, <1>5, <1>6

(* Every other line sets a parameter, ends the header or throws. *)
LEMMA ParseHeaderKeeps ==
  ASSUME NEW d, NEW e, Kin(e, d), NEW line, NEW c
  PROVE  Header(ParseHeader(e, line, c), d)
<1>1. \A x : Kin(x, d) => Header(Says(x, "more"), d) /\ Header(Says(x, "bad"), d) /\ Header(Says(x, "end"), d)
  BY DEF Header, Says
<1>2. \A v : Kin([e EXCEPT !.params = v], d)
  BY KinUpdate DEF Fields
<1>3. Header(FirstLine(e, line), d)
  BY FirstLineKeeps
<1>4. \/ ParseHeader(e, line, c) \in {FirstLine(e, line), Says(e, "end"), Says(e, "bad")}
      \/ \E v : ParseHeader(e, line, c) = Says([e EXCEPT !.params = v], "more")
  BY DEF ParseHeader
<1> QED BY <1>1, <1>2, <1>3, <1>4

(* A character of the header.  The header goes on until the empty line. *)
Read(s, d) ==
  /\ s = Says(s.d, s.r) /\ s.r \in {"more", "end", "bad"}
  /\ IsData(s.d) /\ s.d.body = d.body /\ s.d.requisite = d.requisite
  /\ s.d.header = IF s.r = "end" THEN FALSE ELSE TRUE

(* What makes an answer one of those. *)
LEMMA SaysRead ==
  ASSUME NEW d, NEW x, IsData(x), x.body = d.body, x.requisite = d.requisite,
         NEW r \in {"more", "end", "bad"}, x.header = IF r = "end" THEN FALSE ELSE TRUE
  PROVE  Read(Says(x, r), d)
<1>1. Says(x, r).d = x /\ Says(x, r).r = r
  BY DEF Says
<1> QED BY <1>1 DEF Read

(* Every character leaves the body alone, whatever it does to the line. *)
LEMMA ParseCharKeeps ==
  ASSUME NEW d, d.header = TRUE, NEW e, Kin(e, d), NEW ch, NEW k, NEW c
  PROVE  Read(ParseChar(e, ch, k, c), d)
<1> DEFINE cache == Append(e.cache, ch)
           q == [e EXCEPT !.cache = Front(Front(cache))]
           p == ParseHeader(q, Front(Front(cache)), c)
           one == [e EXCEPT !.cache = cache]
           two == [p.d EXCEPT !.cache = <<>>, !.header = (p.r = "more")]
<1>1. \A x, v : Kin(x, d) => Kin([x EXCEPT !.cache = v], d)
  BY KinUpdate DEF Fields
<1>2. Kin(q, d) /\ Kin(one, d)
  BY <1>1
<1>3. Header(p, d)
  <2> HIDE DEF q
  <2> QED BY <1>2, ParseHeaderKeeps
<1>4. ParseChar(e, ch, k, c) \in {Says(one, "more"), Says(one, "bad")}
        \/ (p.r = "bad" /\ ParseChar(e, ch, k, c) = p)
        \/ (p.r # "bad" /\ ParseChar(e, ch, k, c) = Says(two, p.r))
  BY DEF ParseChar
<1>5. IsData(two) /\ two.body = p.d.body /\ two.requisite = p.d.requisite /\ two.header = (p.r = "more")
  <2> HIDE DEF p
  <2> DEFINE y == [p.d EXCEPT !.cache = <<>>]
  <2>1. IsData(p.d)
    BY <1>3 DEF Header, Kin
  <2>2. IsData(y) /\ \A f \in Fields : y[f] = IF f = "cache" THEN <<>> ELSE p.d[f]
    BY <2>1, DataUpdate DEF Fields
  <2>3. y.body = p.d.body /\ y.requisite = p.d.requisite
    BY <2>2 DEF Fields
  <2>4. two = [y EXCEPT !.header = (p.r = "more")]
    OBVIOUS
  <2> HIDE DEF y, two
  <2> DEFINE z == [y EXCEPT !.header = (p.r = "more")]
  <2>5. IsData(z) /\ \A f \in Fields : z[f] = IF f = "header" THEN (p.r = "more") ELSE y[f]
    BY <2>2, DataUpdate DEF Fields
  <2>6. z.body = y.body /\ z.requisite = y.requisite /\ z.header = (p.r = "more")
    BY <2>5 DEF Fields
  <2> QED BY <2>3, <2>4, <2>5, <2>6
<1> HIDE DEF p, one, two, q
<1>6. CASE ParseChar(e, ch, k, c) \in {Says(one, "more"), Says(one, "bad")}
  BY <1>2, <1>6, SaysRead DEF Kin
<1>7. CASE p.r = "bad" /\ ParseChar(e, ch, k, c) = p
  BY <1>3, <1>7 DEF Read, Kin, Header
<1>8. CASE p.r # "bad" /\ ParseChar(e, ch, k, c) = Says(two, p.r)
  <2>1. p.r \in {"more", "end"} /\ p.d.body = d.body /\ p.d.requisite = d.requisite
    BY <1>3, <1>8 DEF Header, Kin
  <2>2. (p.r = "more") = IF p.r = "end" THEN FALSE ELSE TRUE
    BY <2>1
  <2>3. two.header = IF p.r = "end" THEN FALSE ELSE TRUE
    BY <1>5, <2>2
  <2> QED BY <1>5, <1>8, <2>1, <2>3, SaysRead, ZenonT(60)
<1> QED BY <1>4, <1>6, <1>7, <1>8

(* So does every number of characters. *)
LEMMA ScanKeeps ==
  ASSUME NEW d, IsData(d), d.header = TRUE, NEW t, NEW c
  PROVE  \A k \in Nat : Read(Scan(d, t, c)[k], d)
<1> DEFINE f == Scan(d, t, c)
           S == {k \in Nat : Read(f[k], d)}
<1>0. f[0] = Says(d, "more") /\ \A k \in Nat : f[k + 1] = StepOf(f[k], t, k + 1, c)
  BY ScanDefined
<1> HIDE DEF f
<1>1. 0 \in S
  BY <1>0, SaysRead
<1>2. ASSUME NEW k \in S PROVE k + 1 \in S
  <2>1. k \in Nat /\ k + 1 \in Nat /\ Read(f[k], d)
    OBVIOUS
  <2>2. CASE f[k].r = "more"
    <3>1. Kin(f[k].d, d)
      BY <2>1, <2>2 DEF Read, Kin
    <3>2. f[k + 1] = ParseChar(f[k].d, t[k + 1], k + 1, c)
      BY <1>0, <2>1, <2>2, StepIs
    <3> QED BY <2>1, <3>1, <3>2, ParseCharKeeps
  <2>3. CASE f[k].r # "more"
    BY <1>0, <2>1, <2>3, StepIs
  <2> QED BY <2>2, <2>3
<1>3. S = Nat
  <2> HIDE DEF S
  <2>1. S \in SUBSET Nat
    BY DEF S
  <2> QED BY <1>1, <1>2, <2>1, Induct
<1> QED BY <1>3 DEF f

-----------------------------------------------------------------------------
(* A body ends at its size, wherever it is cut into pieces.                *)
Shorten(s, n) == IF Len(s) > n THEN SubSeq(s, 1, n) ELSE s

(* Sequences with the same elements are the same. *)
(* A shortened sequence is the beginning of the sequence. *)
LEMMA ShortenFacts ==
  ASSUME NEW T, NEW s \in Seq(T), NEW n \in Nat
  PROVE  /\ Shorten(s, n) \in Seq(T)
         /\ Len(Shorten(s, n)) = IF Len(s) > n THEN n ELSE Len(s)
         /\ \A i \in 1..Len(Shorten(s, n)) : Shorten(s, n)[i] = s[i]
<1>1. Len(s) \in Nat
  OBVIOUS
<1>2. CASE Len(s) > n
  <2>1. SubSeq(s, 1, n) \in Seq(T) /\ Len(SubSeq(s, 1, n)) = n
    BY <1>1, <1>2, SubSeqProperties
  <2>2. \A i \in 1..n : SubSeq(s, 1, n)[i] = s[i]
    BY <1>1, <1>2, SubSeqProperties
  <2>3. Shorten(s, n) = SubSeq(s, 1, n)
    BY <1>2 DEF Shorten
  <2> QED BY <1>2, <2>1, <2>2, <2>3
<1>3. CASE ~(Len(s) > n)
  BY <1>3 DEF Shorten
<1> QED BY <1>2, <1>3

(* What two sequences, one behind the other, hold. *)
LEMMA ConcatFacts ==
  ASSUME NEW T, NEW s \in Seq(T), NEW u \in Seq(T)
  PROVE  /\ s \o u \in Seq(T) /\ Len(s \o u) = Len(s) + Len(u)
         /\ \A i \in 1..Len(s) : (s \o u)[i] = s[i]
         /\ \A i \in 1..Len(u) : (s \o u)[Len(s) + i] = u[i]
  OBVIOUS

(* What is cut off a piece is cut off the whole. *)
LEMMA ShortenPieces ==
  ASSUME NEW T, NEW s \in Seq(T), NEW u \in Seq(T), NEW n \in Nat
  PROVE  /\ Shorten(Shorten(s, n) \o u, n) = Shorten(s \o u, n)
         /\ Len(Shorten(s, n) \o u) >= n <=> Len(s \o u) >= n
<1> DEFINE a == Shorten(s, n)
<1>1. a \in Seq(T) /\ Len(a) = (IF Len(s) > n THEN n ELSE Len(s)) /\ \A i \in 1..Len(a) : a[i] = s[i]
  BY ShortenFacts
<1>2. Len(s) \in Nat /\ Len(u) \in Nat
  OBVIOUS
<1>3. CASE ~(Len(s) > n)
  BY <1>3 DEF Shorten
<1>4. CASE Len(s) > n
  <2> HIDE DEF a
  <2>1. Len(a) = n
    BY <1>1, <1>4
  <2>2. /\ a \o u \in Seq(T) /\ Len(a \o u) = n + Len(u) /\ \A i \in 1..n : (a \o u)[i] = a[i]
        /\ s \o u \in Seq(T) /\ Len(s \o u) = Len(s) + Len(u) /\ \A i \in 1..Len(s) : (s \o u)[i] = s[i]
    BY <1>1, <2>1, ConcatFacts, ZenonT(60)
  <2> DEFINE x == Shorten(a \o u, n)
             y == Shorten(s \o u, n)
             au == a \o u
             su == s \o u
  <2>3. /\ x \in Seq(T) /\ Len(x) = (IF Len(au) > n THEN n ELSE Len(au)) /\ \A i \in 1..Len(x) : x[i] = au[i]
        /\ y \in Seq(T) /\ Len(y) = (IF Len(su) > n THEN n ELSE Len(su)) /\ \A i \in 1..Len(y) : y[i] = su[i]
    BY <2>2, ShortenFacts
  <2>4. /\ Len(au) = n + Len(u) /\ Len(su) = Len(s) + Len(u)
        /\ \A i \in 1..n : au[i] = a[i]
        /\ \A i \in 1..Len(s) : su[i] = s[i]
    BY <2>2
  <2>5. x = y /\ Len(au) >= n /\ Len(su) >= n
    <3> HIDE DEF x, y, au, su
    <3>1. Len(x) = n /\ Len(y) = n /\ Len(au) >= n /\ Len(su) >= n
      BY <1>2, <1>4, <2>3, <2>4
    <3>2. ASSUME NEW i \in 1..n PROVE x[i] = y[i]
      <4>1. i \in 1..Len(s) /\ i \in 1..Len(a)
        BY <1>2, <1>4, <2>1
      <4>2. a[i] = s[i] /\ au[i] = a[i] /\ su[i] = s[i]
        BY <1>1, <2>4, <4>1
      <4> QED BY <2>3, <3>1, <4>2
    <3> QED BY <2>3, <3>1, <3>2, SeqEqual
  <2> QED BY <2>5 DEF a
<1> QED BY <1>3, <1>4

-----------------------------------------------------------------------------
(* BodyGoesOn, where the body has a size and where it has none.            *)
Answer(d, body) == IF d.requisite >= 0 /\ Len(body) >= d.requisite THEN "true" ELSE "false"
Limited(d, body) == IF d.requisite >= 0 THEN Shorten(body, d.requisite) ELSE body

(* It answers by what there is, and keeps no more than the size. *)
LEMMA BodyGoesOnIs ==
  ASSUME NEW d, Good(d), NEW p \in Seq(Token)
  PROVE  BodyGoesOn(d, p) = Says([d EXCEPT !.body = Limited(d, d.body \o p)], Answer(d, d.body \o p))
<1> DEFINE b == d.body \o p
<1>1. Len(b) \in Nat /\ d.requisite \in Nat \cup {-1}
  BY DEF Good
<1>2. BodyGoesOn(d, p) =
        IF d.requisite >= 0 /\ Len(b) > d.requisite
        THEN Says([d EXCEPT !.body = SubSeq(b, 1, d.requisite)], "true")
        ELSE Says([d EXCEPT !.body = b], IF Len(b) = d.requisite THEN "true" ELSE "false")
  BY DEF BodyGoesOn
<1> HIDE DEF b
<1>3. CASE d.requisite >= 0 /\ Len(b) > d.requisite
  <2>1. Limited(d, b) = SubSeq(b, 1, d.requisite) /\ Answer(d, b) = "true"
    BY <1>1, <1>3 DEF Limited, Shorten, Answer
  <2> QED BY <1>2, <1>3, <2>1 DEF b
<1>4. CASE ~(d.requisite >= 0 /\ Len(b) > d.requisite)
  <2>1. Limited(d, b) = b /\ Answer(d, b) = (IF Len(b) = d.requisite THEN "true" ELSE "false")
    BY <1>1, <1>4 DEF Limited, Shorten, Answer
  <2> QED BY <1>2, <1>4, <2>1 DEF b
<1> QED BY <1>3, <1>4

(* What it keeps is a text. *)
LEMMA LimitedType ==
  ASSUME NEW d, Good(d), NEW b \in Seq(Token)
  PROVE  Limited(d, b) \in Seq(Token)
  BY ShortenFacts DEF Limited, Good

(* A body that goes on keeps its size. *)
LEMMA BodyGoesOnKeeps ==
  ASSUME NEW d, Good(d), NEW p \in Seq(Token)
  PROVE  LET s == BodyGoesOn(d, p) IN
         /\ s.d = [d EXCEPT !.body = Limited(d, d.body \o p)] /\ s.r \in {"true", "false"}
         /\ Good(s.d) /\ s.d.header = d.header /\ s.d.requisite = d.requisite
         /\ s.d.body = Limited(d, d.body \o p)
<1> DEFINE e == [d EXCEPT !.body = Limited(d, d.body \o p)]
<1>1. d.body \o p \in Seq(Token) /\ IsData(d)
  BY ConcatFacts DEF Good
<1>2. Limited(d, d.body \o p) \in Seq(Token)
  BY <1>1, LimitedType
<1>3. IsData(e) /\ \A f \in Fields : e[f] = IF f = "body" THEN Limited(d, d.body \o p) ELSE d[f]
  <2>1. "body" \in Fields
    BY DEF Fields
  <2>2. \A x : IsData([d EXCEPT !.body = x]) /\ \A f \in Fields : [d EXCEPT !.body = x][f] = IF f = "body" THEN x ELSE d[f]
    BY <1>1, <2>1, DataUpdate
  <2> QED BY <2>2
<1>4. e.body = Limited(d, d.body \o p) /\ e.header = d.header /\ e.requisite = d.requisite
  BY <1>3 DEF Fields
<1>5. Answer(d, d.body \o p) \in {"true", "false"}
  BY DEF Answer
<1>6. BodyGoesOn(d, p).d = e /\ BodyGoesOn(d, p).r = Answer(d, d.body \o p)
  BY BodyGoesOnIs DEF Says
<1> HIDE DEF e
<1>7. Good(e)
  BY <1>2, <1>3, <1>4 DEF Good
<1> QED BY <1>4, <1>5, <1>6, <1>7 DEF e

(* Two pieces of a body, one after the other, are one. *)
LEMMA BodyTwice ==
  ASSUME NEW d, Good(d), NEW p \in Seq(Token), NEW q \in Seq(Token)
  PROVE  BodyGoesOn(BodyGoesOn(d, p).d, q) = BodyGoesOn(d, p \o q)
<1> DEFINE b == d.body \o p
           e == BodyGoesOn(d, p).d
           n == d.requisite
<1>1. d.body \in Seq(Token) /\ b \in Seq(Token) /\ p \o q \in Seq(Token) /\ n \in Nat \cup {-1}
  BY ConcatFacts DEF Good
<1>2. Good(e) /\ e = [d EXCEPT !.body = Limited(d, b)] /\ e.body = Limited(d, b) /\ e.requisite = n
  BY BodyGoesOnKeeps
<1>3. d.body \o (p \o q) = b \o q
  <2>1. \A x \in Seq(Token) : (x \o p) \o q = x \o (p \o q)
    BY ConcatAssociative
  <2> QED BY <1>1, <2>1
<1>4. Limited(e, e.body \o q) = Limited(d, b \o q) /\ Answer(e, e.body \o q) = Answer(d, b \o q)
  <2> HIDE DEF b, e
  <2>1. CASE n >= 0
    <3>1. n \in Nat
      BY <1>1, <2>1
    <3>2. Limited(d, b) = Shorten(b, n)
      BY <2>1 DEF Limited
    <3>3. /\ Shorten(Shorten(b, n) \o q, n) = Shorten(b \o q, n)
          /\ Len(Shorten(b, n) \o q) >= n <=> Len(b \o q) >= n
      BY <1>1, <3>1, ShortenPieces
    <3> QED BY <1>2, <2>1, <3>2, <3>3 DEF Limited, Answer
  <2>2. CASE ~(n >= 0)
    BY <1>2, <2>2 DEF Limited, Answer
  <2> QED BY <2>1, <2>2
<1>5. BodyGoesOn(e, q) = Says([e EXCEPT !.body = Limited(e, e.body \o q)], Answer(e, e.body \o q))
  <2> HIDE DEF e
  <2> QED BY <1>2, BodyGoesOnIs
<1>6. BodyGoesOn(d, p \o q) = Says([d EXCEPT !.body = Limited(d, b \o q)], Answer(d, b \o q))
  BY <1>1, <1>3, BodyGoesOnIs
<1>7. \A x : [e EXCEPT !.body = x] = [d EXCEPT !.body = x]
  <2> HIDE DEF e, b
  <2> QED BY <1>2
<1> HIDE DEF e, b
<1> QED BY <1>4, <1>5, <1>6, <1>7 DEF e

-----------------------------------------------------------------------------
(* Content-Length says a natural. *)
LEMMA NumberType ==
  ASSUME NEW text, OneNumber(text)
  PROVE  NumberOf(text[1]) \in Nat
<1>1. PICK i \in DOMAIN Numeral : Numeral[i] = text[1]
  BY DEF OneNumber, IsNumeral, ToSet
<1>2. DOMAIN Numeral \subseteq Nat \ {0}
  BY NumeralAssumption
<1>3. (CHOOSE j \in DOMAIN Numeral : Numeral[j] = text[1]) \in DOMAIN Numeral
  BY <1>1
<1> QED BY <1>2, <1>3 DEF NumberOf

(* The data with nothing in its body yet, and n to come. *)
Awaits(h, n) == [h EXCEPT !.requisite = n, !.body = <<>>]

(* Such data are sound. *)
LEMMA AwaitsType ==
  ASSUME NEW h, Good(h), NEW n \in Nat \cup {-1}
  PROVE  /\ Good(Awaits(h, n)) /\ Awaits(h, n).header = h.header
         /\ Awaits(h, n).requisite = n /\ Awaits(h, n).body = <<>>
         /\ \A x : [Awaits(h, n) EXCEPT !.body = x] = [h EXCEPT !.requisite = n, !.body = x]
<1> DEFINE e == [h EXCEPT !.requisite = n]
           g == [e EXCEPT !.body = <<>>]
<1>1. Awaits(h, n) = g
  BY DEF Awaits
<1>2. IsData(e) /\ \A f \in Fields : e[f] = IF f = "requisite" THEN n ELSE h[f]
  <2>1. "requisite" \in Fields /\ IsData(h)
    BY DEF Fields, Good
  <2>2. \A x : IsData([h EXCEPT !.requisite = x]) /\ \A f \in Fields : [h EXCEPT !.requisite = x][f] = IF f = "requisite" THEN x ELSE h[f]
    BY <2>1, DataUpdate
  <2> QED BY <2>2
<1> HIDE DEF e
<1>3. IsData(g) /\ \A f \in Fields : g[f] = IF f = "body" THEN <<>> ELSE e[f]
  BY <1>2, DataUpdate DEF Fields
<1>4. g.body = <<>> /\ g.requisite = n /\ g.header = h.header
  BY <1>2, <1>3 DEF Fields
<1>5. \A x : [g EXCEPT !.body = x] = [e EXCEPT !.body = x]
  BY <1>2 DEF IsData
<1>6. \A x : [e EXCEPT !.body = x] = [h EXCEPT !.requisite = n, !.body = x]
  BY DEF e
<1> HIDE DEF g
<1>7. <<>> \in Seq(Token)
  OBVIOUS
<1>8. Good(g)
  BY <1>3, <1>4, <1>7 DEF Good
<1> QED BY <1>1, <1>4, <1>5, <1>6, <1>8

(* The piece that ends the header begins a body as a later piece goes on   *)
(* with an empty one: but it answers otherwise where there is no size, and *)
(* leaves a body that was there where the size is 0.                       *)
LEMMA BodyBeginsIs ==
  ASSUME NEW h, Good(h), NEW c
  PROVE  \/ \A rest \in Seq(Token) : BodyBegins(h, rest, c) = Says(h, "bad")
         \/ \A rest \in Seq(Token) : BodyBegins(h, rest, c) = Says(BodyGoesOn(Awaits(h, -1), rest).d, "true")
         \/ \E n \in Nat : \A rest \in Seq(Token) : BodyBegins(h, rest, c) = BodyGoesOn(Awaits(h, n), rest)
         \/ h.body # <<>> /\ \A rest \in Seq(Token) : BodyBegins(h, rest, c) = Says([h EXCEPT !.requisite = 0], "true")
<1> DEFINE name == IF c THEN <<"content-length">> ELSE <<"Content-Length">>
           size == NumberOf(h.params[name][1])
<1>0. \A rest : BodyBegins(h, rest, c) =
        IF name \notin DOMAIN h.params THEN Says([h EXCEPT !.requisite = -1, !.body = rest], "true")
        ELSE IF ~OneNumber(h.params[name]) THEN Says(h, "bad")
        ELSE IF size = 0 THEN Says([h EXCEPT !.requisite = 0], "true")
        ELSE IF size <= Len(rest) THEN Says([h EXCEPT !.requisite = size, !.body = SubSeq(rest, 1, size)], "true")
        ELSE Says([h EXCEPT !.requisite = size, !.body = rest], "false")
  BY DEF BodyBegins
<1>1. ASSUME NEW n \in Nat \cup {-1}, NEW rest \in Seq(Token)
      PROVE  LET g == Awaits(h, n) IN
             BodyGoesOn(g, rest) = Says([h EXCEPT !.requisite = n, !.body = Limited(g, rest)], Answer(g, rest))
  <2> DEFINE g == Awaits(h, n)
  <2>1. Good(g) /\ g.body = <<>> /\ \A x : [g EXCEPT !.body = x] = [h EXCEPT !.requisite = n, !.body = x]
    BY AwaitsType
  <2>2. <<>> \o rest = rest
    OBVIOUS
  <2> HIDE DEF g
  <2>3. BodyGoesOn(g, rest) = Says([g EXCEPT !.body = Limited(g, rest)], Answer(g, rest))
    BY <2>1, <2>2, BodyGoesOnIs
  <2>4. BodyGoesOn(g, rest) = Says([h EXCEPT !.requisite = n, !.body = Limited(g, rest)], Answer(g, rest))
    BY <2>1, <2>3
  <2> QED BY <2>4 DEF g
<1>2. CASE name \notin DOMAIN h.params
  <2>1. ASSUME NEW rest \in Seq(Token)
        PROVE  BodyBegins(h, rest, c) = Says(BodyGoesOn(Awaits(h, -1), rest).d, "true")
    <3> DEFINE g == Awaits(h, -1)
    <3>a. -1 \in Nat \cup {-1} /\ ~(-1 >= 0)
      OBVIOUS
    <3>b. g.requisite = -1
      BY <3>a, AwaitsType
    <3>c. BodyGoesOn(g, rest) = Says([h EXCEPT !.requisite = -1, !.body = Limited(g, rest)], Answer(g, rest))
      BY <1>1, <3>a
    <3>1. Limited(g, rest) = rest
      <4> HIDE DEF g
      <4> QED BY <3>a, <3>b DEF Limited
    <3>2. BodyGoesOn(g, rest).d = [h EXCEPT !.requisite = -1, !.body = rest]
      <4> HIDE DEF g
      <4> QED BY <3>c, <3>1 DEF Says
    <3> HIDE DEF name, size
    <3> QED BY <1>0, <1>2, <3>2
  <2> QED BY <2>1
<1>3. CASE name \in DOMAIN h.params /\ ~OneNumber(h.params[name])
  <2> HIDE DEF name, size
  <2> QED BY <1>0, <1>3
<1>4. CASE name \in DOMAIN h.params /\ OneNumber(h.params[name])
  <2>1. size \in Nat
    BY <1>4, NumberType
  <2> HIDE DEF name, size
  <2>2. CASE size = 0 /\ h.body # <<>>
    BY <1>0, <1>4, <2>2
  <2>3. CASE size = 0 /\ h.body = <<>>
    <3>1. ASSUME NEW rest \in Seq(Token) PROVE BodyBegins(h, rest, c) = BodyGoesOn(Awaits(h, 0), rest)
      <4> DEFINE g == Awaits(h, 0)
      <4>a. g.requisite = 0 /\ Len(rest) \in Nat
        <5>1. 0 \in Nat \cup {-1} /\ Len(rest) \in Nat
          OBVIOUS
        <5> QED BY <5>1, AwaitsType
      <4>1. Limited(Awaits(h, 0), rest) = Shorten(rest, 0) /\ Answer(Awaits(h, 0), rest) = "true"
        <5>1. Limited(g, rest) = Shorten(rest, 0) /\ Answer(g, rest) = "true"
          <6> HIDE DEF g
          <6> QED BY <4>a DEF Limited, Answer
        <5> QED BY <5>1
      <4>2. Shorten(rest, 0) = <<>>
        BY ShortenFacts
      <4>3. [h EXCEPT !.requisite = 0, !.body = <<>>] = [h EXCEPT !.requisite = 0]
        BY <2>3 DEF Good, IsData, Fields
      <4> HIDE DEF g
      <4>4. BodyGoesOn(Awaits(h, 0), rest) = Says([h EXCEPT !.requisite = 0], "true")
        BY <1>1, <4>1, <4>2, <4>3
      <4> QED BY <1>0, <1>4, <2>3, <4>4
    <3> QED BY <3>1
  <2>4. CASE size # 0
    <3>1. ASSUME NEW rest \in Seq(Token) PROVE BodyBegins(h, rest, c) = BodyGoesOn(Awaits(h, size), rest)
      <4> DEFINE g == Awaits(h, size)
      <4>1. g.requisite = size
        BY <2>1, AwaitsType
      <4>2. Len(rest) \in Nat
        OBVIOUS
      <4>3. BodyGoesOn(g, rest) = Says([h EXCEPT !.requisite = size, !.body = Limited(g, rest)], Answer(g, rest))
        BY <1>1, <2>1, ZenonT(60)
      <4> HIDE DEF g
      <4>4. CASE size <= Len(rest)
        <5>1. Answer(g, rest) = "true"
          BY <2>1, <4>1, <4>2, <4>4 DEF Answer
        <5>2. Limited(g, rest) = SubSeq(rest, 1, size)
          <6>1. Limited(g, rest) = Shorten(rest, size)
            BY <2>1, <4>1 DEF Limited
          <6>2. CASE size < Len(rest)
            BY <6>1, <6>2, <2>1, <4>2 DEF Shorten
          <6>3. CASE size = Len(rest)
            <7>1. SubSeq(rest, 1, Len(rest)) = rest
              BY SMTT(40)
            <7> QED BY <6>1, <6>3, <7>1 DEF Shorten
          <6> QED BY <2>1, <4>2, <4>4, <6>2, <6>3
        <5> QED BY <1>0, <1>4, <2>4, <4>3, <4>4, <5>1, <5>2, ZenonT(40) DEF g
      <4>5. CASE ~(size <= Len(rest))
        <5>1. Answer(g, rest) = "false" /\ Limited(g, rest) = rest
          BY <2>1, <4>1, <4>2, <4>5 DEF Answer, Limited, Shorten
        <5> QED BY <1>0, <1>4, <2>4, <4>3, <4>5, <5>1, ZenonT(40) DEF g
      <4> QED BY <4>4, <4>5
    <3> QED BY <2>1, <3>1
  <2> QED BY <2>2, <2>3, <2>4
<1> QED BY <1>2, <1>3, <1>4

(* Whatever the header says of the size, the data stay sound. *)
LEMMA BodyBeginsKeeps ==
  ASSUME NEW h, Good(h), NEW c, NEW rest \in Seq(Token)
  PROVE  LET s == BodyBegins(h, rest, c) IN
         s.r \in {"true", "false", "bad"} /\ Good(s.d) /\ s.d.header = h.header
<1> DEFINE s == BodyBegins(h, rest, c)
<1>1. \A x, r : Says(x, r).d = x /\ Says(x, r).r = r
  BY DEF Says
<1>2. ASSUME NEW n \in Nat \cup {-1}
      PROVE  LET v == BodyGoesOn(Awaits(h, n), rest) IN
             v.r \in {"true", "false"} /\ Good(v.d) /\ v.d.header = h.header
  <2>1. Good(Awaits(h, n)) /\ Awaits(h, n).header = h.header
    BY AwaitsType
  <2> QED BY <2>1, BodyGoesOnKeeps
<1>3. -1 \in Nat \cup {-1} /\ \A n \in Nat : n \in Nat \cup {-1}
  OBVIOUS
<1>4. Good([h EXCEPT !.requisite = 0]) /\ [h EXCEPT !.requisite = 0].header = h.header
  <2>1. "requisite" \in Fields /\ IsData(h)
    BY DEF Fields, Good
  <2>2. \A x : IsData([h EXCEPT !.requisite = x]) /\ \A f \in Fields : [h EXCEPT !.requisite = x][f] = IF f = "requisite" THEN x ELSE h[f]
    BY <2>1, DataUpdate
  <2> DEFINE e == [h EXCEPT !.requisite = 0]
  <2>3. IsData(e) /\ \A f \in Fields : e[f] = IF f = "requisite" THEN 0 ELSE h[f]
    BY <2>2
  <2> HIDE DEF e
  <2>4. e.requisite = 0 /\ e.body = h.body /\ e.header = h.header
    BY <2>3 DEF Fields
  <2>5. Good(e)
    BY <2>3, <2>4 DEF Good
  <2> QED BY <2>4, <2>5 DEF e
<1>5. CASE s = Says(h, "bad")
  BY <1>1, <1>5
<1>6. CASE s = Says(BodyGoesOn(Awaits(h, -1), rest).d, "true")
  <2> HIDE DEF s
  <2>1. Good(BodyGoesOn(Awaits(h, -1), rest).d) /\ BodyGoesOn(Awaits(h, -1), rest).d.header = h.header
    BY <1>2, <1>3
  <2>2. s.r = "true" /\ s.d = BodyGoesOn(Awaits(h, -1), rest).d
    BY <1>1, <1>6
  <2> QED BY <2>1, <2>2 DEF s
<1>7. ASSUME NEW n \in Nat, s = BodyGoesOn(Awaits(h, n), rest)
      PROVE  s.r \in {"true", "false", "bad"} /\ Good(s.d) /\ s.d.header = h.header
  <2> HIDE DEF s
  <2> QED BY <1>2, <1>3, <1>7
<1>8. CASE s = Says([h EXCEPT !.requisite = 0], "true")
  <2> HIDE DEF s
  <2>1. s.r \in {"true", "false", "bad"} /\ Good(s.d) /\ s.d.header = h.header
    BY <1>1, <1>4, <1>8, ZenonT(60)
  <2> QED BY <2>1 DEF s
<1>9. \/ s = Says(h, "bad") \/ s = Says(BodyGoesOn(Awaits(h, -1), rest).d, "true")
      \/ \E n \in Nat : s = BodyGoesOn(Awaits(h, n), rest)
      \/ s = Says([h EXCEPT !.requisite = 0], "true")
  BY BodyBeginsIs
<1> HIDE DEF s
<1> QED BY <1>5, <1>6, <1>7, <1>8, <1>9 DEF s

(* A header that ends has a place where it does. *)
LEMMA EndsSomewhere ==
  ASSUME NEW d, NEW t \in Seq(Token), NEW c, Scan(d, t, c)[Len(t)].r = "end"
  PROVE  LET m == Min(EndPlaces(d, t, c)) IN
         /\ m \in 1..Len(t) /\ Scan(d, t, c)[m].r = "end" /\ \A k \in EndPlaces(d, t, c) : m <= k
         /\ Rest(t, m) \in Seq(Token)
<1> DEFINE E == EndPlaces(d, t, c)
<1>1. Len(t) \in Nat
  OBVIOUS
<1>2. Len(t) # 0
  <2>1. Scan(d, t, c)[0] = Says(d, "more") /\ Says(d, "more").r = "more"
    BY ScanDefined DEF Says
  <2> QED BY <2>1
<1>3. Len(t) \in E
  BY <1>1, <1>2 DEF EndPlaces
<1>4. E \in SUBSET Nat
  BY <1>1 DEF EndPlaces
<1>5. Min(E) \in E /\ \A k \in E : Min(E) <= k
  <2> HIDE DEF E
  <2> QED BY <1>3, <1>4, MinLeast
<1>6. Min(E) \in 1..Len(t) /\ Scan(d, t, c)[Min(E)].r = "end"
  BY <1>5 DEF EndPlaces
<1>7. ASSUME NEW m \in 1..Len(t) PROVE Rest(t, m) \in Seq(Token)
  BY <1>1, <1>7, SubSeqProperties DEF Rest
<1> QED BY <1>5, <1>6, <1>7

(* What the parser keeps. *)
LEMMA ParseKeeps ==
  ASSUME NEW d, Good(d), NEW t \in Seq(Token), NEW c
  PROVE  LET s == Parse(d, t, c) IN
         /\ s.r \in {"true", "false", "bad"} /\ Good(s.d)
         /\ ~d.header => ~s.d.header /\ s.d.requisite = d.requisite /\ s.r # "bad"
<1>1. d.header \in BOOLEAN
  BY DEF Good
<1>2. CASE ~d.header
  <2>1. Parse(d, t, c) = BodyGoesOn(d, t)
    BY <1>2, ParseIs
  <2> DEFINE s == BodyGoesOn(d, t)
  <2>2. s.r \in {"true", "false"} /\ Good(s.d) /\ s.d.header = d.header /\ s.d.requisite = d.requisite
    BY BodyGoesOnKeeps
  <2> HIDE DEF s
  <2>3. s.r \in {"true", "false", "bad"} /\ ~s.d.header /\ s.r # "bad"
    BY <1>2, <2>2
  <2> QED BY <2>1, <2>2, <2>3 DEF s
<1>3. CASE d.header
  <2> DEFINE h == Scan(d, t, c)[Len(t)]
  <2>1. Read(h, d)
    <3>1. Len(t) \in Nat /\ d.header = TRUE /\ IsData(d)
      BY <1>1, <1>3 DEF Good
    <3> QED BY <3>1, ScanKeeps
  <2>2. Good(h.d) /\ h.r \in {"more", "end", "bad"}
    <3> HIDE DEF h
    <3> QED BY <2>1 DEF Read, Good
  <2>3. Parse(d, t, c) = CASE h.r = "more" -> Says(h.d, "false")
                           [] h.r = "bad"  -> h
                           [] h.r = "end"  -> BodyBegins(h.d, Rest(t, Min(EndPlaces(d, t, c))), c)
    BY <1>3, ParseIs
  <2>4. CASE h.r = "end"
    <3>1. Rest(t, Min(EndPlaces(d, t, c))) \in Seq(Token)
      BY <2>4, EndsSomewhere
    <3>2. Parse(d, t, c) = BodyBegins(h.d, Rest(t, Min(EndPlaces(d, t, c))), c)
      <4> HIDE DEF h
      <4> QED BY <2>3, <2>4
    <3> HIDE DEF h
    <3> QED BY <1>3, <2>2, <3>1, <3>2, BodyBeginsKeeps
  <2>5. CASE h.r = "more"
    <3> HIDE DEF h
    <3>1. Parse(d, t, c) = Says(h.d, "false")
      BY <2>3, <2>5
    <3> QED BY <1>3, <2>2, <3>1 DEF Says
  <2>6. CASE h.r = "bad"
    <3> HIDE DEF h
    <3>1. Parse(d, t, c) = h
      BY <2>3, <2>6
    <3> QED BY <1>3, <2>2, <2>6, <3>1
  <2> QED BY <2>2, <2>4, <2>5, <2>6
<1> QED BY <1>1, <1>2, <1>3

-----------------------------------------------------------------------------
(* What PiecesAgree says of two answers, s of the pieces and w of the      *)
(* whole: the same data, and the same answer but for a body without size.  *)
Alike(s, w) ==
  /\ s.d = w.d
  /\ s.r = w.r \/ (s.d.requisite = -1 /\ ~s.d.header /\ s.r # "bad" /\ w.r # "bad")
(* What it excepts: the body of f outlives the header when the size is 0.  *)
Outlives(f, e) == f.header /\ f.body # <<>> /\ ~e.header /\ e.requisite = 0

(* The piece that has the end of the header, and one after it. *)
LEMMA BodyInPieces ==
  ASSUME NEW h, Good(h), ~h.header, NEW c, NEW p \in Seq(Token), NEW q \in Seq(Token),
         BodyBegins(h, p, c).r # "bad"
  PROVE  LET s == BodyBegins(h, p, c) IN
         \/ Alike(BodyGoesOn(s.d, q), BodyBegins(h, p \o q, c))
         \/ h.body # <<>> /\ s.d.requisite = 0
<1> DEFINE s == BodyBegins(h, p, c)
           w == BodyBegins(h, p \o q, c)
<1>0. p \o q \in Seq(Token)
  BY ConcatFacts
<1>1. \A x, r : Says(x, r).d = x /\ Says(x, r).r = r
  BY DEF Says
<1>2. \/ s = Says(h, "bad")
      \/ /\ s = Says(BodyGoesOn(Awaits(h, -1), p).d, "true")
         /\ w = Says(BodyGoesOn(Awaits(h, -1), p \o q).d, "true")
      \/ \E n \in Nat : s = BodyGoesOn(Awaits(h, n), p) /\ w = BodyGoesOn(Awaits(h, n), p \o q)
      \/ h.body # <<>> /\ s = Says([h EXCEPT !.requisite = 0], "true")
  BY <1>0, BodyBeginsIs
<1>3. \A n \in Nat \cup {-1} : BodyGoesOn(BodyGoesOn(Awaits(h, n), p).d, q) = BodyGoesOn(Awaits(h, n), p \o q)
  <2> TAKE n \in Nat \cup {-1}
  <2> DEFINE g == Awaits(h, n)
  <2>1. Good(g)
    BY AwaitsType
  <2> HIDE DEF g
  <2>2. BodyGoesOn(BodyGoesOn(g, p).d, q) = BodyGoesOn(g, p \o q)
    BY <2>1, BodyTwice
  <2> QED BY <2>2 DEF g
<1>4. [h EXCEPT !.requisite = 0].requisite = 0
  BY DEF Good, IsData, Fields
<1>5. s.r # "bad"
  OBVIOUS
<1> HIDE DEF s, w
<1>6. ASSUME s = Says(BodyGoesOn(Awaits(h, -1), p).d, "true"),
             w = Says(BodyGoesOn(Awaits(h, -1), p \o q).d, "true")
      PROVE  Alike(BodyGoesOn(s.d, q), w)
  <2> DEFINE v == BodyGoesOn(s.d, q)
             y == BodyGoesOn(Awaits(h, -1), p \o q)
  <2>1. -1 \in Nat \cup {-1}
    OBVIOUS
  <2>2. s.d = BodyGoesOn(Awaits(h, -1), p).d /\ w.d = y.d /\ w.r = "true"
    BY <1>1, <1>6
  <2>3. v = y
    BY <1>3, <2>1, <2>2
  <2>4. Good(Awaits(h, -1)) /\ Awaits(h, -1).requisite = -1 /\ ~Awaits(h, -1).header
    BY <2>1, AwaitsType, ZenonT(60)
  <2>5. y.r \in {"true", "false"} /\ y.d.requisite = -1 /\ ~y.d.header
    <3> DEFINE g == Awaits(h, -1)
               t == p \o q
               z == BodyGoesOn(g, t)
    <3>1. Good(g) /\ g.requisite = -1 /\ ~g.header /\ t \in Seq(Token)
      BY <1>0, <2>4
    <3> HIDE DEF g, t
    <3>2. z.r \in {"true", "false"} /\ z.d.header = g.header /\ z.d.requisite = g.requisite
      BY <3>1, BodyGoesOnKeeps
    <3> HIDE DEF z
    <3>3. z.r \in {"true", "false"} /\ z.d.requisite = -1 /\ ~z.d.header
      BY <3>1, <3>2
    <3> QED BY <3>3 DEF z, g, t
  <2> HIDE DEF v, y
  <2>6. Alike(v, w)
    BY <2>2, <2>3, <2>5 DEF Alike
  <2> QED BY <2>6 DEF v
<1>7. ASSUME NEW n \in Nat, s = BodyGoesOn(Awaits(h, n), p), w = BodyGoesOn(Awaits(h, n), p \o q)
      PROVE  Alike(BodyGoesOn(s.d, q), w)
  <2>1. n \in Nat \cup {-1}
    OBVIOUS
  <2>2. BodyGoesOn(s.d, q) = w
    BY <1>3, <1>7, <2>1
  <2> QED BY <2>2 DEF Alike
<1>8. ASSUME h.body # <<>>, s = Says([h EXCEPT !.requisite = 0], "true")
      PROVE  h.body # <<>> /\ s.d.requisite = 0
  <2>1. s.d = [h EXCEPT !.requisite = 0]
    BY <1>1, <1>8
  <2> QED BY <1>4, <1>8, <2>1
<1>9. s # Says(h, "bad")
  BY <1>1, <1>5
<1>10. Alike(BodyGoesOn(s.d, q), w) \/ (h.body # <<>> /\ s.d.requisite = 0)
  <2>1. CASE \E n \in Nat : s = BodyGoesOn(Awaits(h, n), p) /\ w = BodyGoesOn(Awaits(h, n), p \o q)
    BY <1>7, <2>1
  <2>2. CASE /\ s = Says(BodyGoesOn(Awaits(h, -1), p).d, "true")
             /\ w = Says(BodyGoesOn(Awaits(h, -1), p \o q).d, "true")
    BY <1>6, <2>2
  <2>3. CASE h.body # <<>> /\ s = Says([h EXCEPT !.requisite = 0], "true")
    BY <1>8, <2>3
  <2> QED BY <1>2, <1>9, <2>1, <2>2, <2>3
<1> QED BY <1>10 DEF s, w

(* The first of two pieces is read as the beginning of the whole. *)
LEMMA WholeBegins ==
  ASSUME NEW d, NEW p \in Seq(Token), NEW q \in Seq(Token), NEW c
  PROVE  \A k \in 0..Len(p) : Scan(d, p \o q, c)[k] = Scan(d, p, c)[k]
<1>1. Scan(d, p \o q, c)[0] = Scan(d, p, c)[0]
  BY ScanDefined
<1>2. \A k \in 1..Len(p) : (p \o q)[0 + k] = p[k]
  BY ConcatFacts
<1>3. Len(p) \in Nat /\ 0 \in Nat
  OBVIOUS
<1>4. \A k \in 0..Len(p) : Scan(d, p \o q, c)[0 + k] = Scan(d, p, c)[k]
  <2> DEFINE t == p \o q
             n == Len(p)
             i == 0
  <2>1. /\ i \in Nat /\ n \in Nat /\ Scan(d, t, c)[i] = Scan(d, p, c)[0]
        /\ From(t, i, p, n)
    BY <1>1, <1>2, <1>3 DEF From
  <2> HIDE DEF t, n, i
  <2>2. \A k \in 0..n : Scan(d, t, c)[i + k] = Scan(d, p, c)[k]
    BY <2>1, ScanFollows
  <2> QED BY <2>2 DEF t, n, i
<1>5. \A k \in 0..Len(p) : 0 + k = k
  OBVIOUS
<1> QED BY <1>4, <1>5

(* After p the header goes on, from the data e. *)
GoesOn(d, p, c, e) == Scan(d, p, c)[Len(p)] = Says(e, "more")
(* After p the whole of p and q is read as q is from e. *)
Resumes(d, p, q, c, e) == \A k \in 0..Len(q) : Scan(d, p \o q, c)[Len(p) + k] = Scan(e, q, c)[k]

(* While the header goes on, the second is read as its end. *)
LEMMA WholeGoesOn ==
  ASSUME NEW d, NEW p \in Seq(Token), NEW q \in Seq(Token), NEW c, NEW e,
         GoesOn(d, p, c, e)
  PROVE  Resumes(d, p, q, c, e)
<1>1. Len(p) \in Nat /\ Len(q) \in Nat /\ Len(p) \in 0..Len(p)
  OBVIOUS
<1>2. Scan(d, p \o q, c)[Len(p)] = Scan(d, p, c)[Len(p)]
  BY <1>1, WholeBegins
<1>3. Scan(d, p \o q, c)[Len(p)] = Scan(e, q, c)[0]
  BY <1>2, ScanDefined DEF GoesOn
<1>4. \A k \in 1..Len(q) : (p \o q)[Len(p) + k] = q[k]
  BY ConcatFacts
<1>5. \A k \in 0..Len(q) : Scan(d, p \o q, c)[Len(p) + k] = Scan(e, q, c)[k]
  <2> DEFINE t == p \o q
             n == Len(q)
             i == Len(p)
  <2>1. /\ i \in Nat /\ n \in Nat /\ Scan(d, t, c)[i] = Scan(e, q, c)[0]
        /\ From(t, i, q, n)
    BY <1>1, <1>3, <1>4 DEF From
  <2> HIDE DEF t, n, i
  <2>2. \A k \in 0..n : Scan(d, t, c)[i + k] = Scan(e, q, c)[k]
    BY <2>1, ScanFollows
  <2> QED BY <2>2 DEF t, n, i
<1> QED BY <1>5 DEF Resumes

-----------------------------------------------------------------------------
(* What is left of a whole, behind its first piece and within it. *)
LEMMA RestFacts ==
  ASSUME NEW T, NEW s \in Seq(T), NEW n \in Nat, n <= Len(s)
  PROVE  /\ Rest(s, n) \in Seq(T) /\ Len(Rest(s, n)) = Len(s) - n
         /\ \A i \in 1..(Len(s) - n) : Rest(s, n)[i] = s[n + i]
<1>1. Len(s) \in Nat /\ n + 1 \in 1..(Len(s) + 1) /\ Len(s) - n \in Nat
  OBVIOUS
<1>2. \A i \in (n + 1)..Len(s) : s[i] \in T
  OBVIOUS
<1> DEFINE r == SubSeq(s, n + 1, Len(s))
<1>3. r = [i \in 1..(Len(s) - n) |-> s[n + i]]
  OBVIOUS
<1>4. \A i \in 1..(Len(s) - n) : s[n + i] \in T
  BY <1>1, <1>2
<1>5. r \in Seq(T) /\ Len(r) = Len(s) - n
  <2> HIDE DEF r
  <2> QED BY <1>1, <1>3, <1>4
<1> QED BY <1>3, <1>5 DEF Rest

(* In a whole of two pieces, what is left behind a place of either. *)
LEMMA RestOfWhole ==
  ASSUME NEW T, NEW p \in Seq(T), NEW q \in Seq(T), NEW m \in Nat
  PROVE  /\ m <= Len(p) => Rest(p \o q, m) = Rest(p, m) \o q
         /\ m <= Len(q) => Rest(p \o q, Len(p) + m) = Rest(q, m)
<1> DEFINE t == p \o q
<1>1. /\ t \in Seq(T) /\ Len(t) = Len(p) + Len(q)
      /\ \A i \in 1..Len(p) : t[i] = p[i]
      /\ \A i \in 1..Len(q) : t[Len(p) + i] = q[i]
  BY ConcatFacts
<1>2. Len(p) \in Nat /\ Len(q) \in Nat
  OBVIOUS
<1> HIDE DEF t
<1>3. ASSUME m <= Len(p) PROVE Rest(t, m) = Rest(p, m) \o q
  <2> DEFINE a == Rest(t, m)
             r == Rest(p, m)
             b == r \o q
  <2>1. /\ a \in Seq(T) /\ Len(a) = Len(t) - m
        /\ \A i \in 1..(Len(t) - m) : a[i] = t[m + i]
    <3>1. m <= Len(t)
      BY <1>1, <1>2, <1>3
    <3>2. t \in Seq(T)
      BY <1>1
    <3> QED BY <3>1, <3>2, RestFacts
  <2>2. /\ r \in Seq(T) /\ Len(r) = Len(p) - m
        /\ \A i \in 1..(Len(p) - m) : r[i] = p[m + i]
    BY <1>2, <1>3, RestFacts
  <2> HIDE DEF a, r
  <2>3. /\ b \in Seq(T) /\ Len(b) = Len(r) + Len(q)
        /\ \A i \in 1..Len(r) : b[i] = r[i]
        /\ \A i \in 1..Len(q) : b[Len(r) + i] = q[i]
    <3>1. r \in Seq(T)
      BY <2>2
    <3> QED BY <3>1, ConcatFacts
  <2> HIDE DEF b
  <2>4. ASSUME NEW i \in 1..Len(a) PROVE a[i] = b[i]
    <3>1. i \in 1..(Len(t) - m) /\ a[i] = t[m + i]
      BY <2>1
    <3>2. CASE i <= Len(r)
      <4>1. i \in 1..(Len(p) - m) /\ i \in 1..Len(r) /\ m + i \in 1..Len(p)
        BY <1>2, <2>2, <3>2
      <4> QED BY <1>1, <2>2, <2>3, <3>1, <4>1
    <3>3. CASE ~(i <= Len(r))
      <4>1. i - Len(r) \in 1..Len(q) /\ Len(r) + (i - Len(r)) = i /\ Len(p) + (i - Len(r)) = m + i
        <5>1. PICK x \in Nat, y \in Nat, l \in Nat : x = Len(p) /\ y = Len(q) /\ l = Len(r)
          BY <1>2, <1>3, <2>2
        <5>2. l = x - m /\ Len(t) = x + y
          BY <1>1, <2>2, <5>1
        <5>3. i \in 1..(x + y - m) /\ ~(i <= l)
          BY <3>1, <3>3, <5>1, <5>2
        <5>4. i - l \in 1..y /\ l + (i - l) = i /\ x + (i - l) = m + i
          BY <5>2, <5>3
        <5> QED BY <5>1, <5>4
      <4>2. b[i] = q[i - Len(r)] /\ t[m + i] = q[i - Len(r)]
        BY <1>1, <2>3, <4>1
      <4> QED BY <3>1, <4>2
    <3> QED BY <3>2, <3>3
  <2>5. Len(a) = Len(b)
    BY <1>1, <1>2, <1>3, <2>1, <2>2, <2>3
  <2>6. a = b
    BY <2>1, <2>3, <2>4, <2>5, SeqEqual
  <2> QED BY <2>6 DEF a, b, r
<1>4. ASSUME m <= Len(q) PROVE Rest(t, Len(p) + m) = Rest(q, m)
  <2> DEFINE n == Len(p) + m
             a == Rest(t, n)
             b == Rest(q, m)
  <2>0. n \in Nat /\ n <= Len(t) /\ Len(t) - n = Len(q) - m
    BY <1>1, <1>2, <1>4
  <2>1. /\ a \in Seq(T) /\ Len(a) = Len(t) - n
        /\ \A i \in 1..(Len(t) - n) : a[i] = t[n + i]
    <3> HIDE DEF n
    <3> QED BY <1>1, <2>0, RestFacts
  <2>2. /\ b \in Seq(T) /\ Len(b) = Len(q) - m
        /\ \A i \in 1..(Len(q) - m) : b[i] = q[m + i]
    BY <1>2, <1>4, RestFacts
  <2> HIDE DEF a, b
  <2>4. ASSUME NEW i \in 1..Len(a) PROVE a[i] = b[i]
    <3>1. i \in 1..(Len(q) - m) /\ a[i] = t[n + i] /\ b[i] = q[m + i]
      BY <2>0, <2>1, <2>2
    <3>2. m + i \in 1..Len(q) /\ n + i = Len(p) + (m + i)
      BY <1>2, <1>4, <3>1
    <3>3. t[Len(p) + (m + i)] = q[m + i]
      BY <1>1, <3>2
    <3> HIDE DEF n
    <3> QED BY <3>1, <3>2, <3>3
  <2>5. Len(a) = Len(b)
    BY <2>0, <2>1, <2>2
  <2>6. a = b
    BY <2>1, <2>2, <2>4, <2>5, SeqEqual
  <2> QED BY <2>6 DEF a, b
<1> QED BY <1>3, <1>4 DEF t

-----------------------------------------------------------------------------
(* The places where the header ends, in a whole and in its pieces. *)
LEMMA EndsBehind ==
  ASSUME NEW d, NEW p \in Seq(Token), NEW q \in Seq(Token), NEW c, NEW e,
         GoesOn(d, p, c, e), Scan(e, q, c)[Len(q)].r = "end"
  PROVE  Min(EndPlaces(d, p \o q, c)) = Len(p) + Min(EndPlaces(e, q, c))
<1> DEFINE t == p \o q
           f == Scan(d, t, c)
           g == Scan(e, q, c)
           D == EndPlaces(d, t, c)
           E == EndPlaces(e, q, c)
<1>1. Len(p) \in Nat /\ Len(q) \in Nat /\ t \in Seq(Token) /\ Len(t) = Len(p) + Len(q)
  BY ConcatFacts
<1>2. \A k \in 0..Len(q) : f[Len(p) + k] = g[k]
  <2>1. Resumes(d, p, q, c, e)
    BY WholeGoesOn
  <2> QED BY <2>1 DEF Resumes
<1>4. f[Len(p)].r = "more"
  <2>1. f[Len(p) + 0] = g[0] /\ Len(p) + 0 = Len(p)
    BY <1>1, <1>2
  <2>2. g[0] = Says(e, "more")
    BY ScanDefined
  <2> QED BY <2>1, <2>2 DEF Says
<1>5. f[Len(t)].r = "end"
  BY <1>1, <1>2
<1>6. Min(D) \in 1..Len(t) /\ f[Min(D)].r = "end" /\ \A k \in D : Min(D) <= k
  BY <1>1, <1>5, EndsSomewhere
<1>7. Min(E) \in 1..Len(q) /\ g[Min(E)].r = "end" /\ \A k \in E : Min(E) <= k
  BY EndsSomewhere
<1>8. D = {k \in 1..Len(t) : f[k].r = "end"} /\ E = {k \in 1..Len(q) : g[k].r = "end"}
  BY DEF EndPlaces
<1>9. ASSUME NEW k \in 1..Len(p), f[k].r = "end" PROVE FALSE
  <2>1. k \in Nat /\ Len(p) >= k
    BY <1>1
  <2>2. f[Len(p)] = f[k]
    BY <1>1, <1>9, <2>1, ScanStays
  <2> QED BY <1>4, <1>9, <2>2
<1> HIDE DEF t, f, g, D, E
<1> DEFINE n == Min(D)
           m == Min(E)
<1>10. n \in 1..Len(t) /\ f[n].r = "end" /\ \A k \in D : n <= k
  BY <1>6
<1>11. m \in 1..Len(q) /\ g[m].r = "end" /\ \A k \in E : m <= k
  BY <1>7
<1> HIDE DEF n, m
<1>12. n > Len(p)
  BY <1>1, <1>9, <1>10
<1>13. n - Len(p) \in 1..Len(q) /\ n - Len(p) \in 0..Len(q) /\ Len(p) + (n - Len(p)) = n
  BY <1>1, <1>10, <1>12
<1>14. n - Len(p) \in E
  <2>1. f[n] = g[n - Len(p)]
    BY <1>2, <1>13
  <2> QED BY <1>8, <1>10, <1>13, <2>1
<1>15. Len(p) + m \in D
  <2>1. Len(p) + m \in 1..Len(t) /\ m \in 0..Len(q)
    BY <1>1, <1>11
  <2>2. f[Len(p) + m] = g[m]
    BY <1>2, <2>1
  <2> QED BY <1>8, <1>11, <2>1, <2>2
<1>16. n <= Len(p) + m /\ m <= n - Len(p)
  BY <1>10, <1>11, <1>14, <1>15
<1>17. n = Len(p) + m
  <2>1. PICK x \in Nat : x = Len(p)
    BY <1>1
  <2>2. n \in Nat /\ m \in Nat /\ n <= x + m /\ m <= n - x
    BY <1>1, <1>10, <1>11, <1>16, <2>1
  <2>3. n = x + m
    BY <2>2
  <2> QED BY <2>1, <2>3
<1> QED BY <1>17 DEF n, m, D, E, t

(* A header that ends within the first piece ends there in the whole. *)
LEMMA EndsWithin ==
  ASSUME NEW d, NEW p \in Seq(Token), NEW q \in Seq(Token), NEW c, Scan(d, p, c)[Len(p)].r = "end"
  PROVE  /\ Scan(d, p \o q, c)[Len(p \o q)] = Scan(d, p, c)[Len(p)]
         /\ Min(EndPlaces(d, p \o q, c)) = Min(EndPlaces(d, p, c))
<1> DEFINE t == p \o q
           f == Scan(d, t, c)
           g == Scan(d, p, c)
           D == EndPlaces(d, t, c)
           E == EndPlaces(d, p, c)
<1>1. Len(p) \in Nat /\ Len(q) \in Nat /\ t \in Seq(Token) /\ Len(t) = Len(p) + Len(q)
  BY ConcatFacts
<1>2. \A k \in 0..Len(p) : f[k] = g[k]
  BY WholeBegins
<1>3. f[Len(p)] = g[Len(p)] /\ f[Len(p)].r = "end"
  BY <1>1, <1>2
<1>4. f[Len(t)] = f[Len(p)]
  <2>1. Len(t) \in Nat /\ Len(t) >= Len(p) /\ f[Len(p)].r # "more"
    BY <1>1, <1>3
  <2> QED BY <1>1, <2>1, ScanStays
<1>5. f[Len(t)].r = "end"
  BY <1>3, <1>4
<1>6. Min(D) \in 1..Len(t) /\ f[Min(D)].r = "end" /\ \A k \in D : Min(D) <= k
  BY <1>1, <1>5, EndsSomewhere
<1>7. Min(E) \in 1..Len(p) /\ g[Min(E)].r = "end" /\ \A k \in E : Min(E) <= k
  BY EndsSomewhere
<1>8. D = {k \in 1..Len(t) : f[k].r = "end"} /\ E = {k \in 1..Len(p) : g[k].r = "end"}
  BY DEF EndPlaces
<1> HIDE DEF t, f, g, D, E
<1> DEFINE n == Min(D)
           m == Min(E)
<1>10. n \in 1..Len(t) /\ f[n].r = "end" /\ \A k \in D : n <= k
  BY <1>6
<1>11. m \in 1..Len(p) /\ g[m].r = "end" /\ \A k \in E : m <= k
  BY <1>7
<1> HIDE DEF n, m
<1>12. m \in D
  <2>1. m \in 1..Len(t) /\ m \in 0..Len(p)
    BY <1>1, <1>11
  <2> QED BY <1>2, <1>8, <1>11, <2>1
<1>13. n <= m
  BY <1>10, <1>12
<1>14. n \in E
  <2>1. n \in 1..Len(p) /\ n \in 0..Len(p)
    BY <1>1, <1>10, <1>11, <1>13
  <2> QED BY <1>2, <1>8, <1>10, <2>1
<1>15. n = m
  BY <1>10, <1>11, <1>13, <1>14
<1>16. f[Len(t)] = g[Len(p)]
  BY <1>3, <1>4
<1> QED BY <1>15, <1>16 DEF n, m, D, E, t, f, g

-----------------------------------------------------------------------------
(* Two pieces are parsed as their whole. *)
LEMMA HeaderInPieces ==
  ASSUME NEW d, d.header, NEW e, e.header, NEW p \in Seq(Token), NEW q \in Seq(Token), NEW c,
         GoesOn(d, p, c, e), Scan(e, q, c)[Len(q)].r \in {"more", "end", "bad"}
  PROVE  Parse(d, p \o q, c) = Parse(e, q, c)
<1> DEFINE t == p \o q
           z == Scan(d, t, c)[Len(t)]
           x == Scan(e, q, c)[Len(q)]
<1>1. Len(p) \in Nat /\ Len(q) \in Nat /\ t \in Seq(Token) /\ Len(t) = Len(p) + Len(q)
  BY ConcatFacts
<1>2. z = x
  <2>1. Resumes(d, p, q, c, e)
    BY WholeGoesOn
  <2> QED BY <1>1, <2>1 DEF Resumes
<1>3. Parse(d, t, c) = CASE z.r = "more" -> Says(z.d, "false")
                         [] z.r = "bad"  -> z
                         [] z.r = "end"  -> BodyBegins(z.d, Rest(t, Min(EndPlaces(d, t, c))), c)
  BY <1>1, ParseIs
<1>4. Parse(e, q, c) = CASE x.r = "more" -> Says(x.d, "false")
                         [] x.r = "bad"  -> x
                         [] x.r = "end"  -> BodyBegins(x.d, Rest(q, Min(EndPlaces(e, q, c))), c)
  BY ParseIs
<1>5. x.r \in {"more", "end", "bad"}
  OBVIOUS
<1>6. CASE x.r = "end"
  <2>1. Min(EndPlaces(d, t, c)) = Len(p) + Min(EndPlaces(e, q, c))
    BY <1>6, EndsBehind
  <2>2. Min(EndPlaces(e, q, c)) \in 1..Len(q)
    BY <1>6, EndsSomewhere
  <2>3. Min(EndPlaces(e, q, c)) \in Nat /\ Min(EndPlaces(e, q, c)) <= Len(q)
    BY <1>1, <2>2
  <2>4. Rest(t, Len(p) + Min(EndPlaces(e, q, c))) = Rest(q, Min(EndPlaces(e, q, c)))
    BY <2>3, RestOfWhole
  <2>5. Rest(t, Min(EndPlaces(d, t, c))) = Rest(q, Min(EndPlaces(e, q, c)))
    BY <2>1, <2>4
  <2> HIDE DEF z, x, t
  <2>6. Parse(d, t, c) = BodyBegins(z.d, Rest(t, Min(EndPlaces(d, t, c))), c)
    BY <1>2, <1>3, <1>6
  <2>7. Parse(e, q, c) = BodyBegins(x.d, Rest(q, Min(EndPlaces(e, q, c))), c)
    BY <1>4, <1>6
  <2>8. Parse(d, t, c) = Parse(e, q, c)
    BY <1>2, <2>5, <2>6, <2>7
  <2> QED BY <2>8 DEF t
<1>7. CASE x.r \in {"more", "bad"}
  <2> HIDE DEF z, x, t
  <2>1. Parse(d, t, c) = Parse(e, q, c)
    BY <1>2, <1>3, <1>4, <1>7
  <2> QED BY <2>1 DEF t
<1> QED BY <1>5, <1>6, <1>7

(* Parsing two pieces one after the other is parsing the whole, unless the *)
(* first throws, or ends a header of size 0 that leaves an earlier body.    *)
LEMMA ParsePieces ==
  ASSUME NEW d, Good(d), NEW p \in Seq(Token), NEW q \in Seq(Token), NEW c, Parse(d, p, c).r # "bad"
  PROVE  \/ Alike(Parse(Parse(d, p, c).d, q, c), Parse(d, p \o q, c))
         \/ Outlives(d, Parse(d, p, c).d)
<1> DEFINE s == Parse(d, p, c)
           t == p \o q
<1>1. d.header \in BOOLEAN /\ IsData(d)
  BY DEF Good
<1>2. Len(p) \in Nat /\ Len(q) \in Nat /\ t \in Seq(Token) /\ Len(t) = Len(p) + Len(q)
  BY ConcatFacts
<1>3. CASE ~d.header
  <2>1. s = BodyGoesOn(d, p) /\ Parse(d, t, c) = BodyGoesOn(d, t)
    BY <1>2, <1>3, ParseIs
  <2>2. s.d.header = d.header
    BY <2>1, BodyGoesOnKeeps, ZenonT(60)
  <2>3. Parse(s.d, q, c) = BodyGoesOn(s.d, q)
    <3> HIDE DEF s
    <3> QED BY <1>3, <2>2, ParseIs
  <2>4. BodyGoesOn(s.d, q) = BodyGoesOn(d, t)
    BY <2>1, BodyTwice
  <2> QED BY <2>1, <2>3, <2>4 DEF Alike
<1>4. CASE d.header
  <2> DEFINE h == Scan(d, p, c)[Len(p)]
  <2>1. d.header = TRUE
    BY <1>1, <1>4
  <2>2. Read(h, d)
    BY <1>1, <1>2, <2>1, ScanKeeps
  <2>3. s = CASE h.r = "more" -> Says(h.d, "false")
              [] h.r = "bad"  -> h
              [] h.r = "end"  -> BodyBegins(h.d, Rest(p, Min(EndPlaces(d, p, c))), c)
    BY <1>4, ParseIs
  <2>4. Good(h.d) /\ h.r \in {"more", "end", "bad"} /\ h.d.body = d.body /\ h = Says(h.d, h.r)
    <3> HIDE DEF h
    <3> QED BY <2>2 DEF Read, Good
  <2>5. s.r # "bad"
    OBVIOUS
  <2>6. CASE h.r = "bad"
    <3> HIDE DEF s, h
    <3> QED BY <2>3, <2>5, <2>6
  <2>7. CASE h.r = "more"
    <3>1. h.d.header = TRUE
      <4> HIDE DEF h
      <4> QED BY <2>2, <2>7 DEF Read
    <3>2. GoesOn(d, p, c, h.d)
      <4>1. h = Says(h.d, "more")
        BY <2>4, <2>7
      <4> QED BY <4>1 DEF GoesOn
    <3>3. s = Says(h.d, "false")
      <4> HIDE DEF s, h
      <4> QED BY <2>3, <2>7
    <3>4. s.d = h.d
      BY <3>3 DEF Says
    <3> DEFINE e == h.d
    <3>5. Good(e) /\ e.header = TRUE /\ GoesOn(d, p, c, e)
      BY <2>4, <3>1, <3>2
    <3> HIDE DEF e, h, s
    <3>6. Read(Scan(e, q, c)[Len(q)], e)
      BY <1>2, <3>5, ScanKeeps DEF Good
    <3>7. Scan(e, q, c)[Len(q)].r \in {"more", "end", "bad"}
      BY <3>6 DEF Read
    <3>8. Parse(d, t, c) = Parse(e, q, c)
      BY <1>4, <3>5, <3>7, HeaderInPieces
    <3>9. Alike(Parse(s.d, q, c), Parse(d, t, c))
      BY <3>4, <3>8 DEF Alike, e
    <3> QED BY <3>9 DEF s
  <2>8. CASE h.r = "end"
    <3> DEFINE m == Min(EndPlaces(d, p, c))
               r == Rest(p, m)
    <3>1. m \in 1..Len(p) /\ r \in Seq(Token)
      BY <2>8, EndsSomewhere
    <3>2. Scan(d, t, c)[Len(t)] = h /\ Min(EndPlaces(d, t, c)) = m
      BY <2>8, EndsWithin
    <3>3. Rest(t, m) = r \o q
      <4>1. m \in Nat /\ m <= Len(p)
        BY <1>2, <3>1
      <4> HIDE DEF m
      <4> QED BY <4>1, RestOfWhole
    <3>4. Parse(d, t, c) = CASE h.r = "more" -> Says(h.d, "false")
                             [] h.r = "bad"  -> h
                             [] h.r = "end"  -> BodyBegins(h.d, Rest(t, m), c)
      BY <1>2, <1>4, <3>2, ParseIs
    <3>5. ~h.d.header
      <4> HIDE DEF h
      <4> QED BY <2>2, <2>8 DEF Read
    <3> HIDE DEF s, h, t, r, m
    <3>6. s = BodyBegins(h.d, r, c)
      BY <2>3, <2>8 DEF r, m
    <3>7. Parse(d, t, c) = BodyBegins(h.d, r \o q, c)
      BY <2>8, <3>3, <3>4
    <3>8. s.d.header = h.d.header
      BY <2>4, <3>1, <3>6, BodyBeginsKeeps
    <3>9. Parse(s.d, q, c) = BodyGoesOn(s.d, q)
      BY <3>5, <3>8, ParseIs
    <3>10. \/ Alike(BodyGoesOn(s.d, q), BodyBegins(h.d, r \o q, c))
           \/ h.d.body # <<>> /\ s.d.requisite = 0
      BY <2>4, <2>5, <3>1, <3>5, <3>6, BodyInPieces
    <3>11. Alike(Parse(s.d, q, c), Parse(d, t, c)) \/ Outlives(d, s.d)
      BY <1>4, <2>4, <3>5, <3>7, <3>8, <3>9, <3>10 DEF Outlives
    <3> QED BY <3>11 DEF s, t
  <2> QED BY <2>4, <2>6, <2>7, <2>8
<1> QED BY <1>1, <1>3, <1>4

-----------------------------------------------------------------------------
(* The invariant.  Of what a message has been fed it says what PiecesAgree *)
(* says, but that a body without size is on its way where the answers      *)
(* differ, and that no header is where a body has outlived it: these are   *)
(* what the next piece is read by.                                         *)
InvFed(f, e, i) ==
  /\ Good(f.from) /\ f.taken \in Seq(Token)
  /\ f.at \in Nat /\ f.at <= Len(i.text)
  /\ f.taken = <<>> => f.from = e
  /\ f.taken # <<>> => \/ Alike(Says(e, f.said), Parse(f.from, f.taken, i.noCase))
                       \/ Outlives(f.from, e)

(* A handle has data, and the data are sound. *)
InvHandles ==
  /\ msg \in [Messages -> 1..Cardinality(Messages)]
  /\ \A g \in Messages : msg[g] \in DOMAIN data
  /\ DOMAIN fed = DOMAIN data
  /\ input \in Inputs
InvData == \A id \in DOMAIN data : Good(data[id]) /\ InvFed(fed[id], data[id], input)
HttpInv == InvHandles /\ InvData

(* What arrives is a text. *)
LEMMA TextType ==
  ASSUME NEW i \in Inputs
  PROVE  i.text \in Seq(Token)
<1>1. ToSet(i.text) \subseteq Token
  BY DEF Token
<1>2. i.text \in Seq(ToSet(i.text))
  BY HttpAssumption
<1>3. \A S, T : S \subseteq T => Seq(S) \subseteq Seq(T)
  OBVIOUS
<1> QED BY <1>1, <1>2, <1>3

(* A setter's data. *)
LEMMA GoodUpdate ==
  ASSUME NEW e, Good(e), NEW n \in Fields \ {"header", "requisite"}, NEW x,
         n = "body" => x \in Seq(Token)
  PROVE  Good([e EXCEPT ![n] = x])
<1> DEFINE g == [e EXCEPT ![n] = x]
<1>1. g = [f \in Fields |-> IF f = n THEN x ELSE e[f]]
  BY DEF Good, IsData
<1>2. IsData(g)
  BY <1>1 DEF IsData
<1>3. g.body = (IF "body" = n THEN x ELSE e.body) /\ g.requisite = e.requisite /\ g.header = e.header
  BY <1>1 DEF Fields
<1> HIDE DEF g
<1>4. g.body \in Seq(Token)
  BY <1>3 DEF Good
<1>5. Good(g)
  BY <1>2, <1>3, <1>4 DEF Good
<1> QED BY <1>5 DEF g

(* The messages at the start. *)
LEMMA FreshGood ==
  /\ Good(Fresh) /\ Good([Fresh EXCEPT !.method = <<"POST">>]) /\ Good([Fresh EXCEPT !.code = "200"])
<1>1. Fresh = [f \in Fields |-> Fresh[f]]
  BY DEF Fresh, Fields
<1>2. Fresh.body \in Seq(Token) /\ Fresh.header \in BOOLEAN /\ Fresh.requisite \in Nat \cup {-1}
  BY DEF Fresh
<1>3. Good(Fresh)
  BY <1>1, <1>2 DEF Good, IsData
<1>4. \A x : Good([Fresh EXCEPT !.method = x]) /\ Good([Fresh EXCEPT !.code = x])
  <2>1. {"method", "code"} \subseteq Fields \ {"header", "requisite"} /\ "method" # "body" /\ "code" # "body"
    BY DEF Fields
  <2> QED BY <1>3, <2>1, GoodUpdate
<1> QED BY <1>3, <1>4

(* A message that has not been fed since. *)
LEMMA UnfedType ==
  ASSUME NEW d, Good(d), NEW i, NEW n \in Nat, n <= Len(i.text), NEW b
  PROVE  /\ InvFed([Unfed(d) EXCEPT !.at = n], d, i)
         /\ InvFed([Unfed(d) EXCEPT !.at = n, !.behind = b], d, i)
<1>1. <<>> \in Seq(Token)
  OBVIOUS
<1>2. ASSUME NEW f, f.from = d, f.taken = <<>>, f.at = n PROVE InvFed(f, d, i)
  BY <1>1, <1>2 DEF InvFed
<1> DEFINE u == [Unfed(d) EXCEPT !.at = n]
           v == [Unfed(d) EXCEPT !.at = n, !.behind = b]
<1>3. u.from = d /\ u.taken = <<>> /\ u.at = n
  BY DEF Unfed
<1>4. v.from = d /\ v.taken = <<>> /\ v.at = n
  BY DEF Unfed
<1> HIDE DEF u, v
<1>5. InvFed(u, d, i) /\ InvFed(v, d, i)
  BY <1>2, <1>3, <1>4
<1> QED BY <1>5 DEF u, v

(* What Store leaves. *)
LEMMA Stored ==
  ASSUME NEW ids, NEW id, NEW d, NEW f, Store(ids, id, d, f)
  PROVE  /\ msg' = ids /\ input' = input
         /\ DOMAIN data' = {ids[g] : g \in Messages} /\ DOMAIN fed' = {ids[g] : g \in Messages}
         /\ \A i \in DOMAIN data' : data'[i] = (IF i = id THEN d ELSE data[i]) /\ fed'[i] = (IF i = id THEN f ELSE fed[i])
  BY DEF Store

(* A call that stores sound data keeps the invariant. *)
LEMMA StoreKeeps ==
  ASSUME HttpInv, NEW ids \in [Messages -> 1..Cardinality(Messages)], NEW id, NEW d, NEW f, Store(ids, id, d, f),
         \A g \in Messages : ids[g] = id \/ ids[g] \in DOMAIN data,
         id \in {ids[g] : g \in Messages} => Good(d) /\ InvFed(f, d, input)
  PROVE  HttpInv'
<1>1. /\ msg' = ids /\ input' = input
      /\ DOMAIN data' = {ids[g] : g \in Messages} /\ DOMAIN fed' = {ids[g] : g \in Messages}
      /\ \A i \in DOMAIN data' : data'[i] = (IF i = id THEN d ELSE data[i]) /\ fed'[i] = (IF i = id THEN f ELSE fed[i])
  BY Stored
<1>2. InvHandles'
  BY <1>1 DEF HttpInv, InvHandles
<1>3. ASSUME NEW i \in DOMAIN data' PROVE Good(data'[i]) /\ InvFed(fed'[i], data'[i], input')
  <2>1. CASE i = id
    <3>1. Good(d) /\ InvFed(f, d, input) /\ data'[i] = d /\ fed'[i] = f
      BY <1>1, <1>3, <2>1
    <3> QED BY <1>1, <3>1
  <2>2. CASE i # id
    <3>1. i \in DOMAIN data
      BY <1>1, <1>3, <2>2
    <3>2. data'[i] = data[i] /\ fed'[i] = fed[i]
      BY <1>1, <1>3, <2>2
    <3>3. Good(data[i]) /\ InvFed(fed[i], data[i], input)
      BY <3>1 DEF HttpInv, InvData
    <3> QED BY <1>1, <3>2, <3>3
  <2> QED BY <2>1, <2>2
<1>4. InvData'
  BY <1>3 DEF InvData
<1> QED BY <1>2, <1>4 DEF HttpInv

-----------------------------------------------------------------------------
(* When a message shares its data, modify() finds an id that no message    *)
(* has: there are as many ids as messages.                                 *)
LEMMA ModifiedApart ==
  ASSUME InvHandles, NEW h \in Messages
  PROVE  /\ Modified(h) \in 1..Cardinality(Messages)
         /\ \A g \in Messages \ {h} : msg[g] # Modified(h)
<1> DEFINE N == 1..Cardinality(Messages)
           F == N \ {msg[g] : g \in Messages}
<1>1. Cardinality(Messages) \in Nat /\ IsFiniteSet(Messages)
  BY HttpAssumption, FS_CardinalityType
<1>2. msg \in [Messages -> N] /\ msg[h] \in N
  BY DEF InvHandles
<1>3. CASE Sharers(h) = {h}
  BY <1>2, <1>3 DEF Modified, Sharers
<1>4. CASE Sharers(h) # {h}
  <2>1. PICK g \in Messages \ {h} : msg[g] = msg[h]
    BY <1>4 DEF Sharers
  <2>2. F # {}
    <3> SUFFICES ASSUME N \subseteq {msg[k] : k \in Messages} PROVE FALSE
      OBVIOUS
    <3>1. msg \in Surjection(Messages, N)
      BY <1>2 DEF Surjection
    <3>2. Cardinality(N) = Cardinality(Messages)
      <4>1. Cardinality(N) = IF 1 > Cardinality(Messages) THEN 0 ELSE Cardinality(Messages) - 1 + 1
        BY <1>1, FS_Interval, SMTT(30)
      <4> QED BY <1>1, <4>1
    <3> HIDE DEF N
    <3>3. msg \in Injection(Messages, N)
      BY <1>1, <3>1, <3>2, FS_SurjSameCardinalityImpliesInj
    <3> QED BY <2>1, <3>3 DEF Injection, IsInjective
  <2>3. F \in SUBSET Nat
    BY <1>1
  <2>4. Min(F) \in F
    <3> HIDE DEF F
    <3> QED BY <2>2, <2>3, MinLeast
  <2>5. Modified(h) = Min(F)
    BY <1>4 DEF Modified, FreeId
  <2> QED BY <2>4, <2>5
<1> QED BY <1>3, <1>4

(* All messages but those that a call of op on h may change look as before. *)
Apart(h, op) ==
  \A g \in Messages : Seen(g)' # Seen(g) => h = g \/ (msg[g] = msg[h] /\ op \in {"body", "parse"})

(* A call that modifies keeps the invariant, and everybody else's message. *)
LEMMA ModifyKeeps ==
  ASSUME HttpInv, NEW h \in Messages, NEW d, NEW f, Good(d), InvFed(f, d, input),
         Store([msg EXCEPT ![h] = Modified(h)], Modified(h), d, f)
  PROVE  HttpInv' /\ \A op : Apart(h, op)
<1> DEFINE m == Modified(h)
           ids == [msg EXCEPT ![h] = m]
<1>1. m \in 1..Cardinality(Messages) /\ \A g \in Messages \ {h} : msg[g] # m
  BY ModifiedApart DEF HttpInv
<1>2. msg \in [Messages -> 1..Cardinality(Messages)] /\ \A g \in Messages : msg[g] \in DOMAIN data
  BY DEF HttpInv, InvHandles
<1>3. Store(ids, m, d, f)
  OBVIOUS
<1> HIDE DEF m
<1>4. ids \in [Messages -> 1..Cardinality(Messages)] /\ ids[h] = m /\ \A g \in Messages \ {h} : ids[g] = msg[g]
  BY <1>1, <1>2
<1> HIDE DEF ids
<1>5. HttpInv'
  BY <1>2, <1>3, <1>4, StoreKeeps
<1>6. ASSUME NEW g \in Messages \ {h} PROVE Seen(g)' = Seen(g)
  <2>1. msg' = ids /\ data' = [i \in {ids[k] : k \in Messages} |-> IF i = m THEN d ELSE data[i]]
    BY <1>3, ZenonT(40) DEF Store
  <2>2. ids[g] \in {ids[k] : k \in Messages} /\ ids[g] = msg[g] /\ ids[g] # m
    BY <1>1, <1>4
  <2>3. data'[ids[g]] = data[ids[g]]
    BY <2>1, <2>2
  <2>4. msg'[g] = msg[g] /\ data'[msg[g]] = data[msg[g]]
    BY <2>1, <2>2, <2>3
  <2> QED BY <2>4 DEF Seen
<1> QED BY <1>5, <1>6 DEF Apart

(* body(), str() and parse() stay with the data they find. *)
LEMMA InPlaceKeeps ==
  ASSUME HttpInv, NEW h \in Messages, NEW d, NEW f, Good(d), InvFed(f, d, input), Store(msg, msg[h], d, f)
  PROVE  /\ HttpInv'
         /\ \A op \in {"body", "parse"} : Apart(h, op)
         /\ [d EXCEPT !.cache = <<>>, !.url.cache = <<>>] = [data[msg[h]] EXCEPT !.cache = <<>>, !.url.cache = <<>>]
              => \A op : Apart(h, op)
<1>1. msg \in [Messages -> 1..Cardinality(Messages)] /\ \A g \in Messages : msg[g] \in DOMAIN data
  BY DEF HttpInv, InvHandles
<1>2. HttpInv'
  BY <1>1, StoreKeeps
<1>3. /\ msg' = msg /\ \A g \in Messages : msg[g] \in DOMAIN data'
      /\ \A i \in DOMAIN data' : data'[i] = IF i = msg[h] THEN d ELSE data[i]
  <2>1. msg' = msg /\ data' = [i \in {msg[k] : k \in Messages} |-> IF i = msg[h] THEN d ELSE data[i]]
    BY ZenonT(40) DEF Store
  <2> QED BY <2>1
<1>4. ASSUME NEW g \in Messages, msg[g] # msg[h] PROVE Seen(g)' = Seen(g)
  BY <1>3, <1>4 DEF Seen
<1>5. ASSUME NEW g \in Messages, msg[g] = msg[h] PROVE Seen(g)' = [d EXCEPT !.cache = <<>>, !.url.cache = <<>>]
  BY <1>3, <1>5 DEF Seen
<1>6. \A op \in {"body", "parse"} : Apart(h, op)
  BY <1>4 DEF Apart
<1>7. ASSUME [d EXCEPT !.cache = <<>>, !.url.cache = <<>>] = [data[msg[h]] EXCEPT !.cache = <<>>, !.url.cache = <<>>],
             NEW g \in Messages
      PROVE  Seen(g)' = Seen(g)
  <2>1. CASE msg[g] = msg[h]
    <3>1. Seen(g) = [data[msg[h]] EXCEPT !.cache = <<>>, !.url.cache = <<>>]
      BY <2>1 DEF Seen
    <3> QED BY <1>5, <1>7, <2>1, <3>1
  <2> QED BY <1>4, <2>1
<1>8. [d EXCEPT !.cache = <<>>, !.url.cache = <<>>] = [data[msg[h]] EXCEPT !.cache = <<>>, !.url.cache = <<>>]
        => \A op : Apart(h, op)
  BY <1>7 DEF Apart
<1> QED BY <1>2, <1>6, <1>8

-----------------------------------------------------------------------------
(* What MessagesApart says of a step. *)
Separate ==
  \A g \in Messages : Seen(g)' # Seen(g) =>
    \/ httpCall'.h = g
    \/ msg[g] = msg[httpCall'.h] /\ httpCall'.op \in {"body", "parse"}

(* A call on h that changes nothing apart from h. *)
LEMMA CallSeparates ==
  ASSUME NEW h \in Messages, NEW op, Calls(h, op), Apart(h, op)
  PROVE  Separate
<1>1. httpCall'.h = h /\ httpCall'.op = op
  BY DEF Calls
<1> QED BY <1>1 DEF Apart, Separate

(* What the invariant says of one message. *)
LEMMA MessageType ==
  ASSUME HttpInv, NEW h \in Messages
  PROVE  /\ Good(data[msg[h]]) /\ InvFed(fed[msg[h]], data[msg[h]], input)
         /\ fed[msg[h]].at \in Nat /\ fed[msg[h]].at <= Len(input.text)
         /\ Good(Mine(h))
<1>1. Good(data[msg[h]]) /\ InvFed(fed[msg[h]], data[msg[h]], input)
  BY DEF HttpInv, InvHandles, InvData
<1>2. Good(Mine(h))
  BY <1>1, GoodUpdate DEF Mine, Fields
<1> QED BY <1>1, <1>2 DEF InvFed

(* A call that starts with modify(). *)
LEMMA SetterKeeps ==
  ASSUME HttpInv, NEW h \in Messages, NEW op, NEW d, Good(d), Modify(h, op, d)
  PROVE  HttpInv' /\ Separate
<1> DEFINE f == [Unfed(d) EXCEPT !.at = fed[msg[h]].at]
<1>1. InvFed(f, d, input)
  BY MessageType, UnfedType
<1>2. Calls(h, op) /\ Store([msg EXCEPT ![h] = Modified(h)], Modified(h), d, f)
  BY DEF Modify
<1> HIDE DEF f
<1>3. HttpInv' /\ Apart(h, op)
  BY <1>1, <1>2, ModifyKeeps
<1> QED BY <1>2, <1>3, CallSeparates

(* The setters change parts that are no part of a body. *)
LEMMA SettersKeep ==
  ASSUME HttpInv, NEW h \in Messages,
         SetHost(h) \/ SetVersion(h) \/ SetCode(h) \/ SetMethod(h) \/ SetUrl(h) \/ SetParam(h)
  PROVE  HttpInv' /\ Separate
<1> DEFINE e == Mine(h)
<1>1. Good(e)
  BY MessageType
<1> HIDE DEF e
<1>2. \A y : Good(y) => \A x : /\ Good([y EXCEPT !.host = x]) /\ Good([y EXCEPT !.version = x]) /\ Good([y EXCEPT !.url = x])
                              /\ Good([y EXCEPT !.code = x]) /\ Good([y EXCEPT !.method = x]) /\ Good([y EXCEPT !.params = x])
  <2> SUFFICES ASSUME NEW y, Good(y), NEW x
               PROVE  /\ Good([y EXCEPT !.host = x]) /\ Good([y EXCEPT !.version = x]) /\ Good([y EXCEPT !.url = x])
                      /\ Good([y EXCEPT !.code = x]) /\ Good([y EXCEPT !.method = x]) /\ Good([y EXCEPT !.params = x])
    OBVIOUS
  <2>1. {"host", "version", "url", "code", "method", "params"} \subseteq Fields \ {"header", "requisite", "body"}
    BY DEF Fields
  <2> QED BY <2>1, GoodUpdate
<1>3. CASE SetHost(h)
  BY <1>1, <1>2, <1>3, SetterKeeps DEF SetHost, e
<1>4. CASE SetVersion(h)
  BY <1>1, <1>2, <1>4, SetterKeeps DEF SetVersion, e
<1>5. CASE SetCode(h)
  <2> DEFINE y == [e EXCEPT !.code = "200"]
             z == [y EXCEPT !.method = <<>>]
  <2>1. Good(y)
    BY <1>1, <1>2
  <2> HIDE DEF y
  <2>2. Good(z)
    BY <1>2, <2>1
  <2>3. Modify(h, "code", z)
    BY <1>5 DEF SetCode, e, y
  <2> HIDE DEF z
  <2> QED BY <2>2, <2>3, SetterKeeps
<1>6. CASE SetMethod(h)
  <2> DEFINE y == [e EXCEPT !.method = <<"PUT">>]
             z == [y EXCEPT !.code = ""]
  <2>1. Good(y)
    BY <1>1, <1>2
  <2> HIDE DEF y
  <2>2. Good(z)
    BY <1>2, <2>1
  <2>3. Modify(h, "method", z)
    BY <1>6 DEF SetMethod, e, y
  <2> HIDE DEF z
  <2> QED BY <2>2, <2>3, SetterKeeps
<1>7. CASE SetUrl(h)
  <2>1. PICK t \in UrlTexts : Modify(h, "url", IF PortThrows(t) THEN e ELSE [e EXCEPT !.url = SetText(Blank, t)])
    BY <1>7 DEF SetUrl, e
  <2>2. PICK y : y = IF PortThrows(t) THEN e ELSE [e EXCEPT !.url = SetText(Blank, t)]
    OBVIOUS
  <2>3. Good(y)
    BY <1>1, <1>2, <2>2
  <2>4. Modify(h, "url", y)
    BY <2>1, <2>2
  <2> QED BY <2>3, <2>4, SetterKeeps
<1>8. CASE SetParam(h)
  <2>1. PICK name \in {<<"A">>, <<"Content-Length">>} :
          Modify(h, "param", [e EXCEPT !.params = (name :> <<"1">>) @@ @])
    BY <1>8 DEF SetParam, e
  <2> DEFINE z == [e EXCEPT !.params = (name :> <<"1">>) @@ @]
  <2>2. z = [e EXCEPT !.params = (name :> <<"1">>) @@ e.params]
    OBVIOUS
  <2>3. Good(z)
    BY <1>1, <1>2, <2>2
  <2> HIDE DEF z
  <2>4. Modify(h, "param", z)
    BY <2>1 DEF z
  <2> QED BY <2>3, <2>4, SetterKeeps
<1> QED BY <1>3, <1>4, <1>5, <1>6, <1>7, <1>8

(* reset: a message like a new one. *)
LEMMA ResetKeeps ==
  ASSUME HttpInv, NEW h \in Messages, ResetMessage(h)
  PROVE  HttpInv' /\ Separate
<1>1. /\ Calls(h, "reset")
      /\ Store([msg EXCEPT ![h] = Modified(h)], Modified(h), Fresh, Unfed(Fresh))
  BY DEF ResetMessage
<1>2. InvFed(Unfed(Fresh), Fresh, input)
  <2>1. input.text \in Seq(Token)
    BY TextType DEF HttpInv, InvHandles
  <2>2. Good(Fresh) /\ <<>> \in Seq(Token) /\ 0 <= Len(input.text)
    BY <2>1, FreshGood
  <2>3. Unfed(Fresh).from = Fresh /\ Unfed(Fresh).taken = <<>> /\ Unfed(Fresh).at = 0
    BY DEF Unfed
  <2> QED BY <2>2, <2>3 DEF InvFed
<1>3. HttpInv' /\ Apart(h, "reset")
  BY <1>1, <1>2, FreshGood, ModifyKeeps
<1> QED BY <1>1, <1>3, CallSeparates

(* A copy lets go of its data for another's. *)
LEMMA CopyKeeps ==
  ASSUME HttpInv, NEW h \in Messages, NEW k \in Messages, CopyMessage(h, k)
  PROVE  HttpInv' /\ Separate
<1> DEFINE ids == [msg EXCEPT ![h] = msg[k]]
<1>1. Calls(h, "copy") /\ Store(ids, 0, Fresh, Unfed(Fresh))
  BY DEF CopyMessage
<1>2. msg \in [Messages -> 1..Cardinality(Messages)] /\ \A g \in Messages : msg[g] \in DOMAIN data
  BY DEF HttpInv, InvHandles
<1>3. /\ ids \in [Messages -> 1..Cardinality(Messages)] /\ \A g \in Messages : ids[g] \in DOMAIN data
      /\ \A g \in Messages \ {h} : ids[g] = msg[g]
  BY <1>2
<1> HIDE DEF ids
<1>4. \A g \in Messages : ids[g] # 0
  BY <1>3
<1>5. HttpInv'
  BY <1>1, <1>3, <1>4, StoreKeeps
<1>6. ASSUME NEW g \in Messages \ {h} PROVE Seen(g)' = Seen(g)
  <2>1. msg' = ids /\ data' = [i \in {ids[j] : j \in Messages} |-> IF i = 0 THEN Fresh ELSE data[i]]
    BY <1>1, ZenonT(40) DEF Store
  <2>2. ids[g] \in {ids[j] : j \in Messages} /\ ids[g] = msg[g] /\ ids[g] # 0
    BY <1>3, <1>4
  <2>3. data'[ids[g]] = data[ids[g]]
    BY <2>1, <2>2
  <2>4. msg'[g] = msg[g] /\ data'[msg[g]] = data[msg[g]]
    BY <2>1, <2>2, <2>3
<2> QED BY <2>4 DEF Seen
<1>7. Apart(h, "copy")
  BY <1>6 DEF Apart
<1> QED BY <1>1, <1>5, <1>7, CallSeparates

(* body: the data that are shared. *)
LEMMA BodyKeeps ==
  ASSUME HttpInv, NEW h \in Messages, SetBody(h)
  PROVE  HttpInv' /\ Separate
<1> DEFINE e == Mine(h)
           d == [e EXCEPT !.body = <<"x", "LF">>]
           f == [Unfed(d) EXCEPT !.at = fed[msg[h]].at]
<1>1. Good(e)
  BY MessageType
<1>2. Good(d)
  <2> HIDE DEF e
  <2>1. <<"x", "LF">> \in Seq(Token)
    BY DEF Token
  <2> QED BY <1>1, <2>1, GoodUpdate DEF Fields
<1>3. Calls(h, "body") /\ Store(msg, msg[h], d, f)
  BY DEF SetBody
<1> HIDE DEF d
<1>4. InvFed(f, d, input)
  BY <1>2, MessageType, UnfedType
<1> HIDE DEF f
<1>5. HttpInv' /\ Apart(h, "body")
  BY <1>2, <1>3, <1>4, InPlaceKeeps
<1> QED BY <1>3, <1>5, CallSeparates

(* str: the caches only. *)
LEMMA StrKeeps ==
  ASSUME HttpInv, NEW h \in Messages, Str(h)
  PROVE  HttpInv' /\ Separate
<1> DEFINE d == data[msg[h]]
           t == Text(d)
           u == IF d.cache = <<>> /\ d.method # <<>> THEN StrOf(d.url) ELSE d.url.cache
           e == [d EXCEPT !.cache = t, !.url.cache = u]
           f == [Unfed(e) EXCEPT !.at = fed[msg[h]].at, !.behind = fed[msg[h]].behind]
<1>1. Good(d)
  BY MessageType
<1>2. Calls(h, "str") /\ Store(msg, msg[h], e, f)
  BY DEF Str
<1>3. /\ Good(e)
      /\ [e EXCEPT !.cache = <<>>, !.url.cache = <<>>] = [d EXCEPT !.cache = <<>>, !.url.cache = <<>>]
  <2> HIDE DEF d, t, u
  <2>1. d = [n \in Fields |-> d[n]]
    BY <1>1 DEF Good, IsData
  <2> DEFINE y == [d EXCEPT !.cache = t]
             z == [d.url EXCEPT !.cache = u]
  <2>2. e = [y EXCEPT !.url = z]
    BY <2>1 DEF Fields
  <2>3. Good(y)
    BY <1>1, GoodUpdate DEF Fields
  <2>4. Good(e)
    <3> HIDE DEF y, z, e
    <3> QED BY <2>2, <2>3, GoodUpdate DEF Fields
  <2>5. [z EXCEPT !.cache = <<>>] = [d.url EXCEPT !.cache = <<>>]
    OBVIOUS
  <2>6. [e EXCEPT !.cache = <<>>, !.url.cache = <<>>] = [d EXCEPT !.cache = <<>>, !.url.cache = <<>>]
    BY <2>1, <2>5 DEF Fields
  <2> QED BY <2>4, <2>6
<1> HIDE DEF e
<1>4. InvFed(f, e, input)
  BY <1>3, MessageType, UnfedType
<1> HIDE DEF f
<1>5. HttpInv' /\ Apart(h, "str")
  BY <1>2, <1>3, <1>4, InPlaceKeeps
<1> QED BY <1>2, <1>5, CallSeparates

-----------------------------------------------------------------------------
(* parse: what the message is now fed is what the invariant says. *)
LEMMA FedKeeps ==
  ASSUME NEW f, NEW e, NEW i, Good(e), InvFed(f, e, i), f.said # "bad",
         NEW piece \in Seq(Token), NEW n \in Nat, f.at + n <= Len(i.text), piece # <<>>,
         NEW p, p = Parse(e, piece, i.noCase), NEW b
  PROVE  /\ Good(p.d)
         /\ InvFed([from |-> f.from, taken |-> f.taken \o piece, at |-> f.at + n, said |-> p.r, behind |-> b], p.d, i)
<1> DEFINE c == i.noCase
           w == Parse(f.from, f.taken, c)
           v == Parse(f.from, f.taken \o piece, c)
           g == [from |-> f.from, taken |-> f.taken \o piece, at |-> f.at + n, said |-> p.r, behind |-> b]
<1>1. /\ Good(f.from) /\ f.taken \in Seq(Token) /\ f.at \in Nat
      /\ f.taken = <<>> => f.from = e
      /\ f.taken # <<>> => Alike(Says(e, f.said), w) \/ Outlives(f.from, e)
  BY DEF InvFed
<1>2. Good(p.d) /\ (~e.header => ~p.d.header /\ p.d.requisite = e.requisite)
  BY ParseKeeps
<1>3. f.taken \o piece \in Seq(Token)
  BY <1>1, ConcatFacts
<1>4. ASSUME Outlives(f.from, e) PROVE Outlives(f.from, p.d)
  BY <1>2, <1>4 DEF Outlives
<1>5. Alike(p, v) \/ Outlives(f.from, p.d)
  <2>1. CASE f.taken = <<>>
    <3>1. f.taken \o piece = piece
      BY <2>1
    <3>2. v = p
      BY <1>1, <2>1, <3>1
    <3> QED BY <3>2 DEF Alike
  <2>2. CASE f.taken # <<>> /\ Outlives(f.from, e)
    BY <1>4, <2>2
  <2>3. CASE f.taken # <<>> /\ Alike(Says(e, f.said), w)
    <3>1. w.d = e /\ w.r # "bad"
      BY <2>3 DEF Alike, Says
    <3>2. Alike(Parse(w.d, piece, c), v) \/ Outlives(f.from, w.d)
      BY <1>1, <3>1, ParsePieces
    <3> QED BY <1>4, <3>1, <3>2
  <2> QED BY <1>1, <2>1, <2>2, <2>3
<1>6. g.from = f.from /\ g.taken = f.taken \o piece /\ g.at = f.at + n /\ g.said = p.r
  OBVIOUS
<1>7. f.taken \o piece # <<>>
  <2>1. Len(f.taken) \in Nat /\ Len(piece) \in Nat /\ Len(piece) # 0
    OBVIOUS
  <2>2. Len(f.taken \o piece) = Len(f.taken) + Len(piece)
    BY <1>1, ConcatFacts
  <2>3. Len(f.taken \o piece) # 0
    BY <2>1, <2>2
  <2> QED BY <2>3
<1>8. Alike(Says(p.d, p.r), v) <=> Alike(p, v)
  BY DEF Alike, Says
<1> HIDE DEF g, v, w
<1>9. InvFed(g, p.d, i)
  BY <1>1, <1>3, <1>5, <1>6, <1>7, <1>8 DEF InvFed, v
<1> QED BY <1>2, <1>9 DEF g

(* A piece of a text. *)
LEMMA PieceType ==
  ASSUME NEW T, NEW s \in Seq(T), NEW at \in Nat, NEW n \in Nat, n > 0, at + n <= Len(s)
  PROVE  SubSeq(s, at + 1, at + n) \in Seq(T) /\ SubSeq(s, at + 1, at + n) # <<>>
<1> DEFINE a == at + 1
           b == at + n
<1>1. a \in Int /\ b \in Int /\ a <= b /\ b - a + 1 = n /\ a..b \subseteq 1..Len(s)
  OBVIOUS
<1> HIDE DEF a, b
<1>2. \A k \in a..b : s[k] \in T
  BY <1>1
<1>3. SubSeq(s, a, b) \in Seq(T) /\ Len(SubSeq(s, a, b)) = n
  BY <1>1, <1>2, SubSeqProperties
<1>4. SubSeq(s, a, b) # <<>>
  <2> DEFINE u == SubSeq(s, a, b)
  <2>1. Len(u) # 0
    BY <1>3
  <2> HIDE DEF u
  <2>2. u # <<>>
    BY <2>1
  <2> QED BY <2>2 DEF u
<1> QED BY <1>3, <1>4 DEF a, b

(* parse: on the data that are shared, if they are. *)
LEMMA ParseNextKeeps ==
  ASSUME HttpInv, NEW h \in Messages, ParseNext(h)
  PROVE  HttpInv' /\ Separate
<1> DEFINE id == msg[h]
           f == fed[id]
           e == data[id]
<1>1. PICK n \in 1..Len(input.text) - f.at :
        \E p \in {Parse(e, SubSeq(input.text, f.at + 1, f.at + n), input.noCase)} :
          Store(msg, id, p.d, [from |-> f.from, taken |-> f.taken \o SubSeq(input.text, f.at + 1, f.at + n),
                               at |-> f.at + n, said |-> p.r, behind |-> p.d.cache # <<>>])
  BY ZenonT(40) DEF ParseNext
<1> DEFINE piece == SubSeq(input.text, f.at + 1, f.at + n)
           p == Parse(e, piece, input.noCase)
           g == [from |-> f.from, taken |-> f.taken \o piece, at |-> f.at + n, said |-> p.r, behind |-> p.d.cache # <<>>]
<1>2. Calls(h, "parse") /\ f.said # "bad"
  BY SMTT(40) DEF ParseNext
<1>3. Store(msg, id, p.d, g)
  BY <1>1, ZenonT(40)
<1>4. input.text \in Seq(Token)
  BY TextType DEF HttpInv, InvHandles
<1>5. Good(e) /\ InvFed(f, e, input) /\ f.at \in Nat /\ f.at <= Len(input.text)
  BY MessageType
<1> HIDE DEF f, e
<1>6. n \in Nat /\ n > 0 /\ f.at + n <= Len(input.text)
  <2>1. Len(input.text) \in Nat
    BY <1>4
  <2> QED BY <1>5, <2>1
<1>7. piece \in Seq(Token) /\ piece # <<>>
  BY <1>4, <1>5, <1>6, PieceType
<1> HIDE DEF piece, p
<1>8. Good(p.d) /\ InvFed(g, p.d, input)
  BY <1>2, <1>5, <1>6, <1>7, FedKeeps DEF p
<1> HIDE DEF g
<1>9. HttpInv' /\ Apart(h, "parse")
  BY <1>3, <1>8, InPlaceKeeps
<1> QED BY <1>2, <1>9, CallSeparates, SMTT(40)

-----------------------------------------------------------------------------
(* The invariant holds at the start, and whatever is called. *)
LEMMA InvariantStarts == HttpInit => HttpInv
<1> SUFFICES ASSUME HttpInit PROVE HttpInv
  OBVIOUS
<1>1. PICK d \in {Fresh, [Fresh EXCEPT !.method = <<"POST">>], [Fresh EXCEPT !.code = "200"]} :
        data = [id \in {1} |-> d] /\ fed = [id \in {1} |-> Unfed(d)]
  BY DEF HttpInit
<1>2. input \in Inputs /\ msg \in [Messages -> {1}]
  BY DEF HttpInit
<1>3. InvHandles
  <2>1. ASSUME NEW g \in Messages PROVE msg[g] \in 1..Cardinality(Messages)
    <3>1. Cardinality(Messages) \in Nat /\ Cardinality(Messages) # 0
      BY HttpAssumption, FS_CardinalityType, FS_EmptySet
    <3> QED BY <1>2, <3>1
  <2>2. DOMAIN data = {1} /\ DOMAIN fed = {1}
    BY <1>1
  <2> QED BY <1>2, <2>1, <2>2 DEF InvHandles
<1>4. Good(d)
  BY FreshGood
<1>5. InvFed(Unfed(d), d, input)
  <2>1. <<>> \in Seq(Token) /\ 0 <= Len(input.text)
    BY <1>2, TextType
  <2>2. Unfed(d).from = d /\ Unfed(d).taken = <<>> /\ Unfed(d).at = 0
    BY DEF Unfed
  <2> QED BY <1>4, <2>1, <2>2 DEF InvFed
<1>6. InvData
  <2>1. DOMAIN data = {1} /\ data[1] = d /\ fed[1] = Unfed(d)
    BY <1>1
  <2> QED BY <1>4, <1>5, <2>1 DEF InvData
<1> QED BY <1>3, <1>6 DEF HttpInv

(* Every call, and every step that is none. *)
LEMMA StepKeeps == HttpInv /\ [HttpNext]_httpVars => HttpInv' /\ (Separate \/ UNCHANGED httpVars)
<1> SUFFICES ASSUME HttpInv, [HttpNext]_httpVars PROVE HttpInv' /\ (Separate \/ UNCHANGED httpVars)
  OBVIOUS
<1>1. CASE HttpNext
  <2>1. PICK h \in Messages :
          \/ SetHost(h) \/ SetVersion(h) \/ SetCode(h) \/ SetMethod(h) \/ SetUrl(h) \/ SetParam(h) \/ SetBody(h)
          \/ Str(h) \/ StrAborts(h) \/ ResetMessage(h) \/ ParseNext(h)
          \/ \E g \in Messages : CopyMessage(h, g)
    BY <1>1 DEF HttpNext
  <2>2. CASE SetHost(h) \/ SetVersion(h) \/ SetCode(h) \/ SetMethod(h) \/ SetUrl(h) \/ SetParam(h)
    BY <2>2, SettersKeep
  <2>3. CASE SetBody(h)
    BY <2>3, BodyKeeps
  <2>4. CASE Str(h)
    BY <2>4, StrKeeps
  <2>5. CASE ResetMessage(h)
    BY <2>5, ResetKeeps
  <2>6. CASE ParseNext(h)
    BY <2>6, ParseNextKeeps
  <2>7. CASE \E g \in Messages : CopyMessage(h, g)
    BY <2>7, CopyKeeps
  <2>8. CASE StrAborts(h)
    <3>1. UNCHANGED <<data, msg, input, fed>>
      BY <2>8 DEF StrAborts
    <3>2. HttpInv'
      BY <3>1 DEF HttpInv, InvHandles, InvData
    <3>3. Separate
      BY <3>1 DEF Separate, Seen
    <3> QED BY <3>2, <3>3
  <2> QED BY <2>1, <2>2, <2>3, <2>4, <2>5, <2>6, <2>7, <2>8
<1>2. CASE UNCHANGED httpVars
  BY <1>2 DEF httpVars, HttpInv, InvHandles, InvData
<1> QED BY <1>1, <1>2

(* What the invariant says of what a message was fed is that the pieces    *)
(* agree.                                                                  *)
LEMMA InvariantAgrees == HttpInv => PiecesAgree
<1> SUFFICES ASSUME HttpInv, NEW id \in DOMAIN fed, fed[id].taken # <<>>
             PROVE  LET p == Parse(fed[id].from, fed[id].taken, input.noCase) IN
                    \/ p.d = data[id] /\ (p.r = fed[id].said \/ data[id].requisite = -1)
                    \/ fed[id].from.header /\ fed[id].from.body # <<>> /\ data[id].requisite = 0
  BY DEF PiecesAgree
<1>1. InvFed(fed[id], data[id], input)
  BY DEF HttpInv, InvHandles, InvData
<1>2. \/ Alike(Says(data[id], fed[id].said), Parse(fed[id].from, fed[id].taken, input.noCase))
      \/ Outlives(fed[id].from, data[id])
  BY <1>1 DEF InvFed
<1> QED BY <1>2 DEF Alike, Outlives, Says

(* Whatever is called, every message's data are what a reader of pieces    *)
(* can go on from.                                                         *)
THEOREM HttpInvariant == HttpSpec => []HttpInv
<1>1. HttpInv /\ [HttpNext]_httpVars => HttpInv'
  BY StepKeeps
<1> QED BY <1>1, InvariantStarts, PTL DEF HttpSpec

(* However a text is cut, parse makes the same of its pieces as of the     *)
(* whole (http.hpp:150-210): for every text, every message and every cut.  *)
THEOREM PiecesParseAlike == HttpSpec => []PiecesAgree
  BY HttpInvariant, InvariantAgrees, PTL

(* A call on one message shows in another only if the two share their data *)
(* and the call is body() or parse() (http.hpp:103, 158).                  *)
THEOREM MessagesStayApart == HttpSpec => MessagesApart
<1>1. HttpInv /\ [HttpNext]_httpVars =>
        [\A g \in Messages : Seen(g)' # Seen(g) =>
           \/ httpCall'.h = g
           \/ msg[g] = msg[httpCall'.h] /\ httpCall'.op \in {"body", "parse"}]_httpVars
  BY StepKeeps DEF Separate
<1> QED BY <1>1, HttpInvariant, PTL DEF HttpSpec, MessagesApart

-----------------------------------------------------------------------------
(* What holds of a natural if it holds of every smaller one holds of all.  *)
LEMMA StrongInduct ==
  ASSUME NEW S \in SUBSET Nat, \A n \in Nat : (\A k \in Nat : k < n => k \in S) => n \in S
  PROVE  S = Nat
<1> SUFFICES ASSUME Nat \ S # {} PROVE FALSE
  OBVIOUS
<1>1. PICK k \in Nat \ S : \A l \in Nat \ S : k <= l
  BY LeastNatural
<1>2. \A l \in Nat : l < k => l \in S
  BY <1>1
<1> QED BY <1>1, <1>2

(* A function that calls itself for the next argument, which measures      *)
(* less, until the argument is in B.                                       *)
Follows(f, x, next, B, b, c) == f[x] = IF x \in B THEN b[x] ELSE c[x][f[next[x]]]
(* A definition by recursion is one of a function that is there, if each   *)
(* argument that is not a base case needs one with a smaller measure.      *)
LEMMA RecursionDefines ==
  ASSUME NEW D, NEW V, NEW m \in [D -> Nat], NEW next \in [D -> D], NEW B \in SUBSET D,
         NEW b \in [D -> V], NEW c \in [D -> [V -> V]],
         \A x \in D \ B : m[next[x]] < m[x]
  PROVE  \E f \in [D -> V] : \A x \in D : Follows(f, x, next, B, b, c)
<1> DEFINE Upto(g, n) == g \in [D -> V] /\ \A x \in D : m[x] < n => Follows(g, x, next, B, b, c)
<1>1. \A n \in Nat : \E g : Upto(g, n)
  <2> DEFINE S == {n \in Nat : \E g : Upto(g, n)}
  <2>1. 0 \in S
    <3>1. Upto(b, 0)
      OBVIOUS
    <3> QED BY <3>1
  <2>2. ASSUME NEW n \in S PROVE n + 1 \in S
    <3>1. PICK g : Upto(g, n)
      OBVIOUS
    <3> DEFINE h == [x \in D |-> IF m[x] < n THEN g[x] ELSE IF x \in B THEN b[x] ELSE c[x][g[next[x]]]]
    <3>2. h \in [D -> V]
      BY <3>1
    <3>3. ASSUME NEW x \in D, m[x] < n + 1 PROVE Follows(h, x, next, B, b, c)
      <4>1. next[x] \in D /\ m[x] \in Nat /\ n \in Nat /\ m[next[x]] \in Nat
        OBVIOUS
      <4>2. g[x] \in V /\ g[next[x]] \in V
        BY <3>1, <4>1
      <4>3. x \notin B => m[next[x]] < n /\ h[next[x]] = g[next[x]]
        BY <3>3, <4>1
      <4>4. m[x] < n => g[x] = IF x \in B THEN b[x] ELSE c[x][g[next[x]]]
        BY <3>1 DEF Follows
      <4>5. h[x] = IF x \in B THEN b[x] ELSE c[x][g[next[x]]]
        BY <4>4
      <4> HIDE DEF h
      <4> QED BY <4>3, <4>5 DEF Follows
    <3>4. Upto(h, n + 1)
      BY <3>2, <3>3
    <3>5. n + 1 \in Nat
      OBVIOUS
    <3> HIDE DEF h, Upto
    <3> QED BY <3>4, <3>5
  <2>3. S = Nat
    <3> HIDE DEF S
    <3>1. S \in SUBSET Nat
      BY DEF S
    <3> QED BY <2>1, <2>2, <3>1, Induct
  <2> QED BY <2>3
<1>2. ASSUME NEW g, NEW h, NEW n \in Nat, NEW k \in Nat, Upto(g, n), Upto(h, k)
      PROVE  \A i \in Nat : \A x \in D : m[x] = i /\ i < n /\ i < k => g[x] = h[x]
  <2> DEFINE S == {i \in Nat : \A x \in D : m[x] = i /\ i < n /\ i < k => g[x] = h[x]}
  <2>1. ASSUME NEW i \in Nat, \A l \in Nat : l < i => l \in S PROVE i \in S
    <3> SUFFICES ASSUME NEW x \in D, m[x] = i, i < n, i < k PROVE g[x] = h[x]
      OBVIOUS
    <3>1. Follows(g, x, next, B, b, c) /\ Follows(h, x, next, B, b, c)
      BY <1>2
    <3>2. CASE x \in B
      BY <3>1, <3>2 DEF Follows
    <3>3. CASE x \notin B
      <4>1. next[x] \in D /\ m[next[x]] \in Nat /\ m[next[x]] < i /\ m[next[x]] < n /\ m[next[x]] < k
        BY <3>3
      <4>2. m[next[x]] \in S
        BY <2>1, <4>1
      <4>3. g[next[x]] = h[next[x]]
        BY <4>1, <4>2
      <4> QED BY <3>1, <3>3, <4>3 DEF Follows
    <3> QED BY <3>2, <3>3
  <2>2. S = Nat
    <3> HIDE DEF S
    <3>1. S \in SUBSET Nat
      BY DEF S
    <3> QED BY <2>1, <3>1, StrongInduct
  <2> QED BY <2>2
<1> DEFINE part(n) == CHOOSE g : Upto(g, n)
           f == [x \in D |-> part(m[x] + 1)[x]]
<1>3. \A n \in Nat : Upto(part(n), n)
  BY <1>1
<1>4. \A x \in D : m[x] \in Nat /\ m[x] + 1 \in Nat /\ m[x] < m[x] + 1
  OBVIOUS
<1>5. f \in [D -> V]
  <2>1. ASSUME NEW x \in D PROVE part(m[x] + 1)[x] \in V
    <3>1. Upto(part(m[x] + 1), m[x] + 1)
      BY <1>3, <1>4
    <3> HIDE DEF part
    <3> QED BY <3>1
  <2> QED BY <2>1
<1>6. ASSUME NEW x \in D PROVE Follows(f, x, next, B, b, c)
  <2> DEFINE g == part(m[x] + 1)
  <2>1. Follows(g, x, next, B, b, c) /\ f[x] = g[x]
    BY <1>3, <1>4
  <2>2. CASE x \in B
    <3> HIDE DEF f, g
    <3> QED BY <2>1, <2>2 DEF Follows
  <2>3. CASE x \notin B
    <3>1. /\ next[x] \in D /\ m[next[x]] \in Nat /\ m[next[x]] < m[x] + 1
          /\ m[next[x]] < m[next[x]] + 1 /\ m[next[x]] + 1 \in Nat /\ m[x] + 1 \in Nat
      BY <1>4, <2>3
    <3>2. Upto(g, m[x] + 1) /\ Upto(part(m[next[x]] + 1), m[next[x]] + 1)
      BY <1>3, <3>1
    <3>3. f[next[x]] = part(m[next[x]] + 1)[next[x]]
      BY <3>1
    <3>4. g[next[x]] = part(m[next[x]] + 1)[next[x]]
      <4> HIDE DEF g, part, Upto
      <4> QED BY <1>2, <3>1, <3>2
    <3> HIDE DEF f, g, part
    <3> QED BY <2>1, <2>3, <3>3, <3>4 DEF Follows
  <2> QED BY <2>2, <2>3
<1> HIDE DEF f
<1> QED BY <1>5, <1>6
-----------------------------------------------------------------------------
(* Urls, with every call that a user may make on one. *)
UrlSpec == UrlInit /\ [][UrlNext]_urlVars

(* Every token there is. *)
UrlToken ==
  (UNION {ToSet(t) : t \in UrlTexts}) \cup {Lower[w] : w \in DOMAIN Lower} \cup ToSet(NameOrder) \cup ToSet(Numeral)
    \cup Marks \cup {"", "me", "pw", "ftp", "http", "h2", "2"}
Texts == Seq(UrlToken)
Without(t, marks) == \A i \in 1..Len(t) : t[i] \notin marks
ParamTexts == {v \in Texts : Without(v, ParamMarks)}
ParamsOf(names) == UNION {[D -> ParamTexts] : D \in SUBSET names}

(* What the parts of a url are made of.                                    *)
UrlParts(u) ==
  /\ u \in [scheme : UrlToken, user : UrlToken, passwd : Texts, host : UrlToken, port : UrlToken, path : Texts,
            params : ParamsOf(ToSet(NameOrder)), fragment : UrlToken, cache : Texts]
  /\ \A w \in {u.scheme, u.host} : IsWord(w) /\ ToLower(w) = w
  /\ IsWord(u.user) /\ ~IsNumeral(u.user) /\ IsWord(u.fragment)
  /\ u.port = "" \/ IsNumeral(u.port)
  /\ Without(u.passwd, {"@"}) /\ Without(u.path, {"?", "#"})
(* What is in the cache.                                                   *)
UrlCache ==
  /\ behind => url.cache # <<>>
  /\ ~behind /\ url.cache # <<>> => url.cache = Assemble(url)
UrlPort == url.port \notin TooBig
UrlInv == UrlParts(url) /\ UrlPort /\ UrlCache

-----------------------------------------------------------------------------
(* A word in lower case is one, and stays it. *)
LEMMA Lowered ==
  ASSUME NEW w, IsWord(w)
  PROVE  /\ IsWord(ToLower(w)) /\ ToLower(ToLower(w)) = ToLower(w)
         /\ w \in UrlToken => ToLower(w) \in UrlToken
<1>1. CASE w \in DOMAIN Lower
  <2>1. ToLower(w) = Lower[w] /\ IsWord(Lower[w]) /\ Lower[w] \notin DOMAIN Lower
    BY <1>1, UrlAssumption, Zenon DEF ToLower
  <2>2. Lower[w] \in {Lower[x] : x \in DOMAIN Lower}
    BY <1>1
  <2>3. Lower[w] \in UrlToken
    BY <2>2 DEF UrlToken
  <2>4. ToLower(Lower[w]) = Lower[w]
    BY <2>1 DEF ToLower
  <2> QED BY <2>1, <2>3, <2>4
<1>2. CASE w \notin DOMAIN Lower
  BY <1>2 DEF ToLower
<1> QED BY <1>1, <1>2

(* Text after text, and a part of a text.                                  *)
LEMMA ConcatText ==
  ASSUME NEW a \in Texts, NEW b \in Texts
  PROVE  /\ a \o b \in Texts /\ Len(a \o b) = Len(a) + Len(b) /\ Len(a) \in Nat /\ Len(b) \in Nat
         /\ \A i \in 1..Len(a) + Len(b) : (a \o b)[i] = IF i <= Len(a) THEN a[i] ELSE b[i - Len(a)]
  BY ConcatProperties DEF Texts

(* A part of a text is a text. *)
LEMMA PartOfText ==
  ASSUME NEW t \in Texts, NEW i \in Nat \ {0}, NEW k \in Nat, k <= Len(t)
  PROVE  /\ SubSeq(t, i, k) \in Texts /\ Len(SubSeq(t, i, k)) = IF i <= k THEN k - i + 1 ELSE 0
         /\ \A j \in 1..k - i + 1 : SubSeq(t, i, k)[j] = t[i + j - 1]
<1>1. \A j \in i..k : t[j] \in UrlToken
  BY DEF Texts
<1> QED BY <1>1, SubSeqProperties DEF Texts

-----------------------------------------------------------------------------
(* What parse_param finds from a place on. *)
Named(q, i) == {j \in i..Len(q) - 1 : IsWord(q[j]) /\ q[j + 1] = "="}
StopOf(q, name) == Min({k \in name + 2..Len(q) : q[k] \in ParamMarks} \cup {Len(q) + 1})
Found(q, name) == [n \in {ToLower(q[name])} |-> SubSeq(q, name + 2, StopOf(q, name) - 1)]
ParsedFrom(q) ==
  CHOOSE f : f = [i \in Nat \ {0} |->
    LET names == {j \in i..Len(q) - 1 : IsWord(q[j]) /\ q[j + 1] = "="}
        name == Min(names)
        stop == Min({k \in name + 2..Len(q) : q[k] \in ParamMarks} \cup {Len(q) + 1})
    IN  IF names = {} THEN NoParams
        ELSE Over(f[stop + 1], [n \in {ToLower(q[name])} |-> SubSeq(q, name + 2, stop - 1)])]

(* parse_param reads from the first token on. *)
LEMMA ParseParamIs == ASSUME NEW q PROVE ParseParam(q) = ParsedFrom(q)[1]
  BY DEF ParseParam, ParsedFrom

(* A value ends in front of the first mark.                                *)
LEMMA StopIs ==
  ASSUME NEW q \in Texts, NEW name \in 1..(Len(q) - 1)
  PROVE  /\ StopOf(q, name) \in (name + 2)..(Len(q) + 1)
         /\ StopOf(q, name) # Len(q) + 1 => q[StopOf(q, name)] \in ParamMarks
         /\ \A k \in (name + 2)..(StopOf(q, name) - 1) : q[k] \notin ParamMarks
<1> DEFINE S == {k \in name + 2..Len(q) : q[k] \in ParamMarks} \cup {Len(q) + 1}
<1>1. Len(q) \in Nat
  BY DEF Texts
<1>2. S \in SUBSET Nat /\ S # {}
  <2>1. Len(q) + 1 \in S /\ \A k \in S : k \in Nat
    BY <1>1
  <2> HIDE DEF S
  <2> QED BY <2>1
<1>3. Min(S) \in S /\ \A l \in S : Min(S) <= l
  <2> HIDE DEF S
  <2> QED BY <1>2, MinLeast
<1>4. StopOf(q, name) = Min(S)
  BY DEF StopOf
<1> DEFINE m == Min(S)
<1>5. m \in S /\ (\A l \in S : m <= l) /\ StopOf(q, name) = m
  BY <1>3, <1>4
<1> HIDE DEF m
<1>6. ASSUME NEW k \in (name + 2)..(m - 1) PROVE q[k] \notin ParamMarks
  <2>1. m \in Nat /\ m <= Len(q) + 1
    BY <1>1, <1>5
  <2>2. k \in name + 2..Len(q) /\ ~(m <= k)
    BY <1>1, <2>1
  <2>3. k \notin S
    BY <1>5, <2>2
  <2> QED BY <2>2, <2>3
<1>7. m \in (name + 2)..(Len(q) + 1) /\ (m # Len(q) + 1 => q[m] \in ParamMarks)
  BY <1>1, <1>5
<1> HIDE DEF S
<1> QED BY <1>5, <1>6, <1>7

(* The value that is found behind a name is one. *)
LEMMA FoundIs ==
  ASSUME NEW q \in Texts, NEW name \in 1..(Len(q) - 1)
  PROVE  SubSeq(q, name + 2, StopOf(q, name) - 1) \in ParamTexts
<1>1. Len(q) \in Nat
  BY DEF Texts
<1> DEFINE stop == StopOf(q, name)
           v == SubSeq(q, name + 2, stop - 1)
<1>2. stop \in (name + 2)..(Len(q) + 1) /\ \A k \in (name + 2)..(stop - 1) : q[k] \notin ParamMarks
  BY StopIs
<1> HIDE DEF stop
<1>3. name + 2 \in Nat \ {0} /\ stop - 1 \in Nat /\ stop - 1 <= Len(q)
  BY <1>1, <1>2
<1>4. /\ v \in Texts /\ Len(v) = IF name + 2 <= stop - 1 THEN (stop - 1) - (name + 2) + 1 ELSE 0
      /\ \A j \in 1..((stop - 1) - (name + 2) + 1) : v[j] = q[(name + 2) + j - 1]
  BY <1>3, PartOfText
<1> HIDE DEF v
<1>5. ASSUME NEW j \in 1..Len(v) PROVE v[j] \notin ParamMarks
  <2>1. j \in 1..((stop - 1) - (name + 2) + 1) /\ (name + 2) + j - 1 \in (name + 2)..(stop - 1)
    BY <1>3, <1>4
  <2> QED BY <1>2, <1>4, <2>1
<1>6. v \in ParamTexts
  BY <1>4, <1>5 DEF ParamTexts, Without
<1> QED BY <1>6 DEF v, stop

(* Parameters over parameters.                                             *)
LEMMA OverIs ==
  ASSUME NEW N, NEW f \in ParamsOf(N), NEW g \in ParamsOf(N)
  PROVE  Over(f, g) \in ParamsOf(N)
<1>1. PICK D \in SUBSET N : f \in [D -> ParamTexts]
  BY DEF ParamsOf
<1>2. PICK E \in SUBSET N : g \in [E -> ParamTexts]
  BY DEF ParamsOf
<1>3. Over(f, g) \in [D \cup E -> ParamTexts]
  BY <1>1, <1>2 DEF Over
<1> QED BY <1>3 DEF ParamsOf

(* One parameter of a good name and value. *)
LEMMA OneParam ==
  ASSUME NEW N, NEW n \in N, NEW v \in ParamTexts
  PROVE  [m \in {n} |-> v] \in ParamsOf(N)
<1>1. [m \in {n} |-> v] \in [{n} -> ParamTexts] /\ {n} \in SUBSET N
  OBVIOUS
<1> QED BY <1>1 DEF ParamsOf

(* No parameters at all. *)
LEMMA NoneOf == ASSUME NEW N PROVE NoParams \in ParamsOf(N)
<1>1. NoParams \in [{} -> ParamTexts] /\ {} \in SUBSET N
  BY DEF NoParams
<1> QED BY <1>1 DEF ParamsOf

(* The first name that is found, its value, and where the next is sought.  *)
LEMMA NamedIs ==
  ASSUME NEW q \in Texts, NEW i \in Nat \ {0}, Named(q, i) # {}
  PROVE  /\ Min(Named(q, i)) \in Named(q, i) /\ \A j \in Named(q, i) : Min(Named(q, i)) <= j
         /\ Min(Named(q, i)) \in 1..(Len(q) - 1) /\ i <= Min(Named(q, i)) /\ i <= Len(q)
<1>1. Len(q) \in Nat
  BY DEF Texts
<1>2. Named(q, i) \in SUBSET Nat
  BY <1>1 DEF Named
<1>3. Min(Named(q, i)) \in Named(q, i) /\ \A j \in Named(q, i) : Min(Named(q, i)) <= j
  BY <1>2, MinLeast
<1>4. \A j \in Named(q, i) : j \in 1..(Len(q) - 1) /\ i <= j /\ i <= Len(q)
  BY <1>1 DEF Named
<1> QED BY <1>3, <1>4

(* Names that a query has, and so what is found.                           *)
Names(q, N) == \A j \in 1..(Len(q) - 1) : IsWord(q[j]) /\ q[j + 1] = "=" => ToLower(q[j]) \in N

(* What is found at the next name is a parameter. *)
LEMMA FoundParams ==
  ASSUME NEW N, NEW q \in Texts, Names(q, N), NEW i \in Nat \ {0}, Named(q, i) # {}
  PROVE  Found(q, Min(Named(q, i))) \in ParamsOf(N)
<1> DEFINE name == Min(Named(q, i))
<1>1. name \in 1..(Len(q) - 1) /\ name \in Named(q, i)
  BY NamedIs
<1>2. IsWord(q[name]) /\ q[name + 1] = "="
  BY <1>1 DEF Named
<1> HIDE DEF name
<1>3. ToLower(q[name]) \in N /\ SubSeq(q, name + 2, StopOf(q, name) - 1) \in ParamTexts
  BY <1>1, <1>2, FoundIs DEF Names
<1>4. Found(q, name) \in ParamsOf(N)
  BY <1>3, OneParam DEF Found
<1> QED BY <1>4 DEF name

(* The recursive definition of parse_param defines it. *)
LEMMA FromDefined ==
  ASSUME NEW N, NEW q \in Texts, Names(q, N)
  PROVE  \A i \in Nat \ {0} :
           ParsedFrom(q)[i] = IF Named(q, i) = {} THEN NoParams
                        ELSE Over(ParsedFrom(q)[StopOf(q, Min(Named(q, i))) + 1], Found(q, Min(Named(q, i))))
<1> DEFINE D == Nat \ {0}
           V == ParamsOf(N)
           at(i) == Min(Named(q, i))
           m == [i \in D |-> IF i > Len(q) THEN 0 ELSE Len(q) + 1 - i]
           B == {i \in D : Named(q, i) = {}}
           next == [i \in D |-> IF i \in B THEN i ELSE StopOf(q, at(i)) + 1]
           b == [i \in D |-> NoParams]
           c == [i \in D |-> [p \in V |-> IF i \in B THEN p ELSE Over(p, Found(q, at(i)))]]
           P(f) == f = [i \in D |-> IF Named(q, i) = {} THEN NoParams ELSE Over(f[StopOf(q, at(i)) + 1], Found(q, at(i)))]
<1>0. Len(q) \in Nat
  BY DEF Texts
<1>1. ASSUME NEW i \in D, i \notin B
      PROVE  /\ at(i) \in 1..(Len(q) - 1) /\ i <= at(i) /\ i <= Len(q)
             /\ StopOf(q, at(i)) \in (at(i) + 2)..(Len(q) + 1)
             /\ Found(q, at(i)) \in V
  <2>1. Named(q, i) # {}
    BY <1>1
  <2>2. at(i) \in 1..(Len(q) - 1) /\ i <= at(i) /\ i <= Len(q)
    BY <2>1, NamedIs
  <2> HIDE DEF at
  <2>3. StopOf(q, at(i)) \in (at(i) + 2)..(Len(q) + 1)
    BY <2>2, StopIs
  <2> USE DEF at
  <2>4. Found(q, at(i)) \in V
    BY <2>1, FoundParams
  <2> QED BY <2>2, <2>3, <2>4
<1>2. m \in [D -> Nat] /\ B \in SUBSET D
  BY <1>0
<1>3. next \in [D -> D]
  <2>1. ASSUME NEW i \in D PROVE (IF i \in B THEN i ELSE StopOf(q, at(i)) + 1) \in D
    <3>1. i \notin B => StopOf(q, at(i)) \in (at(i) + 2)..(Len(q) + 1) /\ at(i) \in 1..(Len(q) - 1)
      BY <1>1
    <3> HIDE DEF at, B
    <3> QED BY <1>0, <3>1
  <2> HIDE DEF at, B
  <2> QED BY <2>1
<1>4. b \in [D -> V]
  <2>1. NoParams \in V
    BY NoneOf
  <2> HIDE DEF V
  <2> QED BY <2>1
<1>5. c \in [D -> [V -> V]]
  <2>1. ASSUME NEW i \in D, NEW p \in V PROVE (IF i \in B THEN p ELSE Over(p, Found(q, at(i)))) \in V
    <3>1. i \notin B => Over(p, Found(q, at(i))) \in V
      BY <1>1, OverIs
    <3> HIDE DEF at, B, V
    <3> QED BY <3>1
  <2> HIDE DEF at, B, V
  <2> QED BY <2>1
<1>6. \A i \in D \ B : m[next[i]] < m[i]
  <2> SUFFICES ASSUME NEW i \in D, i \notin B PROVE m[next[i]] < m[i]
    OBVIOUS
  <2>1. StopOf(q, at(i)) \in (at(i) + 2)..(Len(q) + 1) /\ at(i) \in 1..(Len(q) - 1) /\ i <= at(i) /\ i <= Len(q)
    BY <1>1
  <2>2. next[i] = StopOf(q, at(i)) + 1
    OBVIOUS
  <2> HIDE DEF at, B, next
  <2>3. next[i] \in D /\ next[i] > i
    BY <1>0, <2>1, <2>2
  <2> QED BY <1>0, <2>1, <2>3
<1>7. \E f \in [D -> V] : \A i \in D : Follows(f, i, next, B, b, c)
  <2> HIDE DEF D, V, m, B, next, b, c
  <2> QED BY <1>2, <1>3, <1>4, <1>5, <1>6, RecursionDefines
<1>8. PICK f \in [D -> V] : \A i \in D : Follows(f, i, next, B, b, c)
  BY <1>7
<1>9. ASSUME NEW i \in D
      PROVE f[i] = IF Named(q, i) = {} THEN NoParams ELSE Over(f[StopOf(q, at(i)) + 1], Found(q, at(i)))
  <2>1. f[i] = IF i \in B THEN b[i] ELSE c[i][f[next[i]]]
    <3> HIDE DEF b, c, B, next
    <3> QED BY <1>8 DEF Follows
  <2>2. (i \in B <=> Named(q, i) = {}) /\ b[i] = NoParams
    OBVIOUS
  <2>3. CASE i \in B
    <3> HIDE DEF b, c, B, next
    <3> QED BY <2>1, <2>2, <2>3
  <2>4. CASE i \notin B
    <3>1. next[i] = StopOf(q, at(i)) + 1 /\ next[i] \in D
      BY <1>3, <2>4
    <3>2. f[next[i]] \in V
      <4> HIDE DEF next, D
      <4> QED BY <1>8, <3>1
    <3>3. c[i][f[next[i]]] = Over(f[next[i]], Found(q, at(i)))
      <4> HIDE DEF next, V, at
      <4> QED BY <2>4, <3>2
    <3> HIDE DEF b, c, B, next, at
    <3> QED BY <2>1, <2>2, <2>4, <3>1, <3>3
  <2> QED BY <2>3, <2>4
<1>10. P(f)
  <2> DEFINE h == [i \in D |-> IF Named(q, i) = {} THEN NoParams ELSE Over(f[StopOf(q, at(i)) + 1], Found(q, at(i)))]
  <2>1. f = [i \in D |-> f[i]] /\ h = [i \in D |-> h[i]]
    BY <1>8
  <2>2. \A i \in D : f[i] = h[i]
    <3> HIDE DEF at
    <3> QED BY <1>9
  <2> HIDE DEF h
  <2>3. f = h
    BY <2>1, <2>2
  <2> QED BY <2>3 DEF h
<1>11. ParsedFrom(q) = CHOOSE g : P(g)
  BY Zenon DEF ParsedFrom, Named, StopOf, Found
<1>12. P(ParsedFrom(q))
  <2> HIDE DEF P
  <2> QED BY <1>10, <1>11
<1> DEFINE g == ParsedFrom(q)
<1>13. g = [i \in D |-> IF Named(q, i) = {} THEN NoParams ELSE Over(g[StopOf(q, at(i)) + 1], Found(q, at(i)))]
  BY <1>12
<1> HIDE DEF g, at
<1>14. \A i \in D : g[i] = IF Named(q, i) = {} THEN NoParams ELSE Over(g[StopOf(q, at(i)) + 1], Found(q, at(i)))
  BY <1>13
<1> QED BY <1>14 DEF g, at

(* What parse_param finds are parameters.                                  *)
LEMMA FromParams ==
  ASSUME NEW N, NEW q \in Texts, Names(q, N)
  PROVE  \A i \in Nat \ {0} : ParsedFrom(q)[i] \in ParamsOf(N)
<1> DEFINE S == {n \in Nat : \A i \in Nat \ {0} : i + n > Len(q) => ParsedFrom(q)[i] \in ParamsOf(N)}
<1>0. Len(q) \in Nat
  BY DEF Texts
<1>1. ASSUME NEW n \in Nat, \A k \in Nat : k < n => k \in S PROVE n \in S
  <2> SUFFICES ASSUME NEW i \in Nat \ {0}, i + n > Len(q) PROVE ParsedFrom(q)[i] \in ParamsOf(N)
    OBVIOUS
  <2> DEFINE name == Min(Named(q, i))
             stop == StopOf(q, name)
  <2>1. ParsedFrom(q)[i] = IF Named(q, i) = {} THEN NoParams ELSE Over(ParsedFrom(q)[stop + 1], Found(q, name))
    BY FromDefined
  <2>2. CASE Named(q, i) = {}
    BY <2>1, <2>2, NoneOf
  <2>3. CASE Named(q, i) # {}
    <3>1. name \in 1..(Len(q) - 1) /\ i <= name /\ i <= Len(q) /\ Found(q, name) \in ParamsOf(N)
      BY <2>3, NamedIs, FoundParams
    <3> HIDE DEF name
    <3>2. stop \in (name + 2)..(Len(q) + 1)
      BY <3>1, StopIs
    <3> HIDE DEF stop
    <3>3. n # 0 /\ n - 1 \in Nat /\ n - 1 < n /\ stop + 1 \in Nat \ {0} /\ (stop + 1) + (n - 1) > Len(q)
      BY <1>0, <3>1, <3>2
    <3>4. n - 1 \in S
      BY <1>1, <3>3
    <3>5. ParsedFrom(q)[stop + 1] \in ParamsOf(N)
      BY <3>3, <3>4
    <3> HIDE DEF S
    <3> QED BY <2>1, <2>3, <3>1, <3>5, OverIs
  <2> QED BY <2>2, <2>3
<1>2. S = Nat
  <2> HIDE DEF S
  <2>1. S \in SUBSET Nat
    BY DEF S
  <2> QED BY <1>1, <2>1, StrongInduct
<1> QED
  <2> SUFFICES ASSUME NEW i \in Nat \ {0} PROVE ParsedFrom(q)[i] \in ParamsOf(N)
    OBVIOUS
  <2>1. Len(q) + 1 \in S /\ i + (Len(q) + 1) > Len(q)
    BY <1>0, <1>2
  <2> QED BY <2>1

-----------------------------------------------------------------------------
(* The text of the parameters, up to the i-th name.                        *)
UpTo(p) ==
  CHOOSE f : f = [i \in 0..Len(NameOrder) |->
    IF i = 0 THEN <<>>
    ELSE LET n == NameOrder[i]
         IN  f[i - 1] \o Opt(n \in DOMAIN p, <<n, "=">> \o p[n] \o <<"&">>)]
PairOf(p, i) ==
  LET n == NameOrder[i] IN Opt(n \in DOMAIN p, <<n, "=">> \o p[n] \o <<"&">>)
UrlParamSet == ParamsOf(ToSet(NameOrder))

(* str writes the pairs of all names. *)
LEMMA PairsIs == ASSUME NEW p PROVE Pairs(p) = UpTo(p)[Len(NameOrder)]
  BY DEF Pairs, UpTo

(* Some tokens there are.                                                  *)
LEMMA TokensAre ==
  /\ Marks \subseteq UrlToken /\ ToSet(NameOrder) \subseteq UrlToken /\ ToSet(Numeral) \subseteq UrlToken
  /\ {"", "me", "pw", "ftp", "http", "h2", "2"} \subseteq UrlToken
  /\ Len(NameOrder) \in Nat /\ \A i \in 1..Len(NameOrder) : NameOrder[i] \in ToSet(NameOrder)
<1>1. Len(NameOrder) \in Nat /\ \A i \in 1..Len(NameOrder) : NameOrder[i] \in ToSet(NameOrder)
  <2>1. NameOrder \in Seq(ToSet(NameOrder))
    BY UrlAssumption, Zenon
  <2>2. PICK S : S = ToSet(NameOrder)
    OBVIOUS
  <2>3. NameOrder \in Seq(S)
    BY <2>1, <2>2
  <2> QED BY <2>2, <2>3
<1> QED BY <1>1, Zenon DEF UrlToken

(* The tokens that are marks, and those that end a value. *)
LEMMA MarksAre ==
  /\ "=" \in Marks /\ "&" \in Marks /\ "#" \in Marks /\ "?" \in Marks /\ "/" \in Marks
  /\ ":" \in Marks /\ "@" \in Marks /\ "://" \in Marks /\ ParamMarks \subseteq Marks
  /\ "=" \notin ParamMarks /\ "&" \in ParamMarks /\ "#" \in ParamMarks
BY Zenon DEF Marks, ParamMarks

(* One, two and three tokens in a row.                                     *)
LEMMA ShortTexts ==
  ASSUME NEW a \in UrlToken, NEW b \in UrlToken
  PROVE  /\ <<>> \in Texts /\ <<a>> \in Texts /\ <<a, b>> \in Texts
         /\ Len(<<>>) = 0 /\ Len(<<a>>) = 1 /\ Len(<<a, b>>) = 2
         /\ <<a>>[1] = a /\ <<a, b>>[1] = a /\ <<a, b>>[2] = b
BY DEF Texts

(* A parameter has a name of NameOrder and a value without marks that end it. *)
LEMMA ValueIs ==
  ASSUME NEW p \in UrlParamSet, NEW n \in DOMAIN p
  PROVE  n \in ToSet(NameOrder) /\ p[n] \in ParamTexts /\ p[n] \in Texts
<1>1. PICK D \in SUBSET ToSet(NameOrder) : p \in [D -> ParamTexts]
  BY DEF UrlParamSet, ParamsOf
<1> QED BY <1>1 DEF ParamTexts

(* A pair is a name, "=", a value, "&".                                    *)
LEMMA PairText ==
  ASSUME NEW p \in UrlParamSet, NEW i \in 1..Len(NameOrder)
  PROVE  /\ PairOf(p, i) \in Texts
         /\ NameOrder[i] \notin DOMAIN p => PairOf(p, i) = <<>>
         /\ NameOrder[i] \in DOMAIN p =>
              LET n == NameOrder[i]  v == p[n] IN
              /\ Len(PairOf(p, i)) = Len(v) + 3 /\ Len(v) \in Nat
              /\ PairOf(p, i)[1] = n /\ PairOf(p, i)[2] = "=" /\ PairOf(p, i)[Len(v) + 3] = "&"
              /\ \A k \in 1..Len(v) : PairOf(p, i)[k + 2] = v[k]
<1>1. CASE NameOrder[i] \notin DOMAIN p
  <2>1. PairOf(p, i) = <<>>
    BY <1>1 DEF PairOf, Opt
  <2> QED BY <1>1, <2>1 DEF Texts
<1>2. CASE NameOrder[i] \in DOMAIN p
  <2> DEFINE n == NameOrder[i]
             v == p[n]
             a == <<n, "=">> \o v
             s == a \o <<"&">>
  <2>1. n \in UrlToken /\ "=" \in UrlToken /\ "&" \in UrlToken
    BY TokensAre, MarksAre
  <2>2. v \in Texts
    BY <1>2, ValueIs
  <2>3. PairOf(p, i) = s
    BY <1>2 DEF PairOf, Opt
  <2>4. /\ <<n, "=">> \in Texts /\ <<"&">> \in Texts /\ Len(<<n, "=">>) = 2 /\ Len(<<"&">>) = 1
        /\ <<n, "=">>[1] = n /\ <<n, "=">>[2] = "=" /\ <<"&">>[1] = "&"
    BY <2>1, ShortTexts
  <2> HIDE DEF v
  <2>5. PICK h : h = <<n, "=">>
    OBVIOUS
  <2>6. PICK e : e = <<"&">>
    OBVIOUS
  <2>7. /\ a \in Texts /\ Len(a) = 2 + Len(v) /\ Len(v) \in Nat
        /\ \A k \in 1..2 + Len(v) : a[k] = IF k <= 2 THEN h[k] ELSE v[k - 2]
    <3>1. /\ h \o v \in Texts /\ Len(h \o v) = Len(h) + Len(v) /\ Len(v) \in Nat
          /\ \A k \in 1..Len(h) + Len(v) : (h \o v)[k] = IF k <= Len(h) THEN h[k] ELSE v[k - Len(h)]
      BY <2>2, <2>4, <2>5, ConcatText
    <3>2. Len(h) = 2 /\ a = h \o v
      BY <2>4, <2>5
    <3> HIDE DEF a
    <3> QED BY <3>1, <3>2
  <2> HIDE DEF a
  <2>8. /\ s \in Texts /\ Len(s) = Len(a) + 1
        /\ \A k \in 1..Len(a) + 1 : s[k] = IF k <= Len(a) THEN a[k] ELSE e[k - Len(a)]
    <3>1. /\ a \o e \in Texts /\ Len(a \o e) = Len(a) + Len(e)
          /\ \A k \in 1..Len(a) + Len(e) : (a \o e)[k] = IF k <= Len(a) THEN a[k] ELSE e[k - Len(a)]
      BY <2>4, <2>6, <2>7, ConcatText
    <3>2. Len(e) = 1 /\ s = a \o e
      BY <2>4, <2>6
    <3> HIDE DEF s
    <3> QED BY <3>1, <3>2
  <2>9. h[1] = n /\ h[2] = "=" /\ e[1] = "&"
    BY <2>4, <2>5, <2>6
  <2> HIDE DEF s, n
  <2>10. Len(s) = Len(v) + 3
    BY <2>7, <2>8
  <2>11. s[1] = n /\ s[2] = "="
    BY <2>7, <2>8, <2>9
  <2>12. s[Len(v) + 3] = "&"
    <3>1. Len(v) + 3 \in 1..Len(a) + 1 /\ ~(Len(v) + 3 <= Len(a)) /\ (Len(v) + 3) - Len(a) = 1
      BY <2>7
    <3> QED BY <2>8, <2>9, <3>1
  <2>13. ASSUME NEW k \in 1..Len(v) PROVE s[k + 2] = v[k]
    <3>1. k + 2 \in 1..Len(a) + 1 /\ k + 2 <= Len(a) /\ k + 2 \in 1..2 + Len(v) /\ ~(k + 2 <= 2) /\ (k + 2) - 2 = k
      BY <2>7
    <3> QED BY <2>7, <2>8, <3>1
  <2> QED BY <1>2, <2>3, <2>7, <2>8, <2>10, <2>11, <2>12, <2>13 DEF n, v
<1> QED BY <1>1, <1>2

(* The recursive definition of the text of the parameters defines it.      *)
LEMMA UpToDefined ==
  ASSUME NEW p \in UrlParamSet
  PROVE  /\ \A i \in 0..Len(NameOrder) : UpTo(p)[i] \in Texts
         /\ UpTo(p)[0] = <<>>
         /\ \A i \in 1..Len(NameOrder) : UpTo(p)[i] = UpTo(p)[i - 1] \o PairOf(p, i)
<1> DEFINE D == 0..Len(NameOrder)
           V == Texts
           m == [i \in D |-> i]
           B == {0}
           next == [i \in D |-> IF i = 0 THEN 0 ELSE i - 1]
           b == [i \in D |-> <<>>]
           c == [i \in D |-> [t \in V |-> IF i = 0 THEN t ELSE t \o PairOf(p, i)]]
           P(f) == f = [i \in D |-> IF i = 0 THEN <<>> ELSE f[i - 1] \o PairOf(p, i)]
<1>0. Len(NameOrder) \in Nat
  BY TokensAre
<1>1. m \in [D -> Nat] /\ B \in SUBSET D /\ next \in [D -> D] /\ \A i \in D \ B : m[next[i]] < m[i]
  BY <1>0
<1>2. b \in [D -> V]
  BY DEF Texts
<1>3. c \in [D -> [V -> V]]
  <2>1. ASSUME NEW i \in D, NEW t \in V PROVE (IF i = 0 THEN t ELSE t \o PairOf(p, i)) \in V
    <3>1. i # 0 => i \in 1..Len(NameOrder)
      BY <1>0
    <3>2. i # 0 => PairOf(p, i) \in Texts
      BY <3>1, PairText
    <3> QED BY <3>2, ConcatText
  <2> HIDE DEF V
  <2> QED BY <2>1
<1>4. \E f \in [D -> V] : \A i \in D : Follows(f, i, next, B, b, c)
  <2> HIDE DEF D, V, m, B, next, b, c
  <2> QED BY <1>1, <1>2, <1>3, RecursionDefines
<1>5. PICK f \in [D -> V] : \A i \in D : Follows(f, i, next, B, b, c)
  BY <1>4
<1>6. ASSUME NEW i \in D PROVE f[i] = IF i = 0 THEN <<>> ELSE f[i - 1] \o PairOf(p, i)
  <2>1. f[i] = IF i \in B THEN b[i] ELSE c[i][f[next[i]]]
    <3> HIDE DEF b, c, B, next, D, V
    <3> QED BY <1>5 DEF Follows
  <2>2. b[i] = <<>> /\ (i \in B <=> i = 0) /\ (i # 0 => next[i] = i - 1 /\ i - 1 \in D)
    BY <1>0
  <2>3. CASE i = 0
    <3> HIDE DEF b, c, B, next, D
    <3> QED BY <2>1, <2>2, <2>3
  <2>4. CASE i # 0
    <3>1. f[i - 1] \in V
      <4> HIDE DEF D, V
      <4> QED BY <1>5, <2>2, <2>4
    <3>2. c[i][f[i - 1]] = f[i - 1] \o PairOf(p, i)
      <4> HIDE DEF V
      <4> QED BY <2>4, <3>1
    <3> HIDE DEF b, c, B, next, D
    <3> QED BY <2>1, <2>2, <2>4, <3>2
  <2> QED BY <2>3, <2>4
<1>7. P(f)
  <2> DEFINE h == [i \in D |-> IF i = 0 THEN <<>> ELSE f[i - 1] \o PairOf(p, i)]
  <2>1. f = [i \in D |-> f[i]] /\ h = [i \in D |-> h[i]]
    BY <1>5
  <2>2. \A i \in D : f[i] = h[i]
    BY <1>6
  <2> HIDE DEF h, D
  <2>3. f = h
    BY <2>1, <2>2
  <2> QED BY <2>3 DEF h, D
<1>8. UpTo(p) = CHOOSE g : P(g)
  BY Zenon DEF UpTo, PairOf
<1>9. P(UpTo(p))
  <2> HIDE DEF P
  <2> QED BY <1>7, <1>8
<1> DEFINE g == UpTo(p)
<1>10. g = [i \in D |-> IF i = 0 THEN <<>> ELSE g[i - 1] \o PairOf(p, i)]
  BY <1>9
<1> HIDE DEF g
<1>11. \A i \in D : g[i] = IF i = 0 THEN <<>> ELSE g[i - 1] \o PairOf(p, i)
  <2> HIDE DEF D
  <2> QED BY <1>10
<1>12. g[0] = <<>> /\ \A i \in 1..Len(NameOrder) : g[i] = g[i - 1] \o PairOf(p, i)
  <2>1. 0 \in D /\ \A i \in 1..Len(NameOrder) : i \in D /\ i # 0
    BY <1>0
  <2> HIDE DEF D
  <2> QED BY <1>11, <2>1, Zenon
<1>13. \A i \in D : g[i] \in Texts
  <2> DEFINE S == {i \in Nat : i \in D => g[i] \in Texts}
  <2>1. 0 \in S
    <3>1. g[0] = <<>> /\ <<>> \in Texts
      BY <1>12 DEF Texts
    <3>2. g[0] \in Texts
      BY <3>1, Zenon
    <3> QED BY <3>2
  <2>2. ASSUME NEW i \in S PROVE i + 1 \in S
    <3> SUFFICES ASSUME i + 1 \in D PROVE g[i + 1] \in Texts
      OBVIOUS
    <3>1. i \in D /\ i + 1 \in 1..Len(NameOrder) /\ (i + 1) - 1 = i
      BY <1>0
    <3>2. g[i + 1] = g[i] \o PairOf(p, i + 1) /\ PairOf(p, i + 1) \in Texts /\ g[i] \in Texts
      BY <1>12, <3>1, PairText
    <3> QED BY <3>2, ConcatText
  <2>3. S \in SUBSET Nat
    OBVIOUS
  <2>4. S = Nat
    <3> HIDE DEF S
    <3> QED BY <2>1, <2>2, <2>3, Induct
  <2> QED BY <2>4, <1>0
<1> QED BY <1>12, <1>13 DEF g

(* One step of it. *)
Joins(p, i) ==
  LET t == UpTo(p)[i - 1]  w == UpTo(p)[i]  v == p[NameOrder[i]] IN
  /\ t \in Texts /\ w \in Texts /\ Len(t) \in Nat /\ Len(w) \in Nat
  /\ \A k \in 1..Len(t) : w[k] = t[k]
  /\ NameOrder[i] \notin DOMAIN p => w = t
  /\ NameOrder[i] \in DOMAIN p =>
       /\ v \in ParamTexts /\ v \in Texts /\ Len(v) \in Nat /\ Len(w) = Len(t) + Len(v) + 3
       /\ w[Len(t) + 1] = NameOrder[i] /\ w[Len(t) + 2] = "=" /\ w[Len(w)] = "&"
       /\ \A k \in 1..Len(v) : w[Len(t) + 2 + k] = v[k]
(* The pairs up to a name are those up to the one before, then its own. *)
LEMMA UpToStep ==
  ASSUME NEW p \in UrlParamSet, NEW i \in 1..Len(NameOrder)
  PROVE  Joins(p, i)
<1> DEFINE t == UpTo(p)[i - 1]
           w == UpTo(p)[i]
           n == NameOrder[i]
           v == p[n]
           r == PairOf(p, i)
<1>0. Len(NameOrder) \in Nat /\ i - 1 \in 0..Len(NameOrder) /\ i \in 0..Len(NameOrder)
  <2>1. Len(NameOrder) \in Nat
    BY TokensAre
  <2> QED BY <2>1
<1>1. t \in Texts /\ w \in Texts /\ w = t \o r
  BY <1>0, UpToDefined
<1>2. /\ r \in Texts
      /\ n \notin DOMAIN p => r = <<>>
      /\ n \in DOMAIN p =>
           /\ Len(r) = Len(v) + 3 /\ Len(v) \in Nat
           /\ r[1] = n /\ r[2] = "=" /\ r[Len(v) + 3] = "&"
           /\ \A k \in 1..Len(v) : r[k + 2] = v[k]
  BY PairText
<1>3. n \in DOMAIN p => v \in ParamTexts /\ v \in Texts
  BY ValueIs
<1> HIDE DEF t, w, n, v, r
<1>4. /\ Len(w) = Len(t) + Len(r) /\ Len(t) \in Nat /\ Len(r) \in Nat
      /\ \A k \in 1..Len(t) + Len(r) : w[k] = IF k <= Len(t) THEN t[k] ELSE r[k - Len(t)]
  BY <1>1, <1>2, ConcatText
<1>5. \A k \in 1..Len(t) : w[k] = t[k]
  BY <1>4
<1>6. n \notin DOMAIN p => w = t
  <2>1. t \o <<>> = t
    BY <1>1, ConcatEmptySeq DEF Texts
  <2> QED BY <1>1, <1>2, <2>1
<1>7. ASSUME n \in DOMAIN p
      PROVE  /\ Len(w) = Len(t) + Len(v) + 3
             /\ w[Len(t) + 1] = n /\ w[Len(t) + 2] = "=" /\ w[Len(w)] = "&"
             /\ \A k \in 1..Len(v) : w[Len(t) + 2 + k] = v[k]
  <2>1. Len(r) = Len(v) + 3 /\ Len(v) \in Nat
    BY <1>2, <1>7
  <2>2. \A k \in 1..Len(v) + 3 : w[Len(t) + k] = r[k]
    <3> SUFFICES ASSUME NEW k \in 1..Len(v) + 3 PROVE w[Len(t) + k] = r[k]
      OBVIOUS
    <3>1. Len(t) + k \in 1..Len(t) + Len(r) /\ ~(Len(t) + k <= Len(t)) /\ (Len(t) + k) - Len(t) = k
      BY <1>4, <2>1
    <3> QED BY <1>4, <3>1
  <2>3. w[Len(t) + 1] = r[1] /\ w[Len(t) + 2] = r[2] /\ w[Len(t) + (Len(v) + 3)] = r[Len(v) + 3]
    BY <2>1, <2>2
  <2>4. ASSUME NEW k \in 1..Len(v) PROVE w[Len(t) + 2 + k] = v[k]
    <3>1. k + 2 \in 1..Len(v) + 3 /\ Len(t) + 2 + k = Len(t) + (k + 2)
      BY <1>4, <2>1
    <3>2. w[Len(t) + (k + 2)] = r[k + 2]
      BY <2>2, <3>1
    <3> QED BY <1>2, <1>7, <3>1, <3>2
  <2>5. Len(w) = Len(t) + (Len(v) + 3) /\ Len(t) + (Len(v) + 3) = Len(t) + Len(v) + 3
    BY <1>4, <2>1
  <2> QED BY <1>2, <1>7, <2>3, <2>4, <2>5
<1>8. n \in DOMAIN p => Len(v) \in Nat
  BY <1>2
<1>9. Len(w) \in Nat
  BY <1>4
<1> QED BY <1>1, <1>3, <1>4, <1>5, <1>6, <1>7, <1>8, <1>9, Zenon DEF t, w, n, v, Joins

(* The text up to a name is where the whole begins. *)
LEMMA UpToPrefix ==
  ASSUME NEW p \in UrlParamSet
  PROVE  \A i \in 0..Len(NameOrder) :
           /\ Len(UpTo(p)[i]) \in Nat /\ Len(UpTo(p)[i]) <= Len(Pairs(p)) /\ Len(Pairs(p)) \in Nat
           /\ \A k \in 1..Len(UpTo(p)[i]) : Pairs(p)[k] = UpTo(p)[i][k]
<1> DEFINE L == Len(NameOrder)
           U(i) == UpTo(p)[i]
           w == Pairs(p)
           Begins(i) == /\ Len(U(i)) \in Nat /\ Len(U(i)) <= Len(w) /\ Len(w) \in Nat
                        /\ \A k \in 1..Len(U(i)) : w[k] = U(i)[k]
           S == {d \in Nat : d <= L => Begins(L - d)}
<1>0. L \in Nat
  BY TokensAre
<1>1. w = U(L) /\ w \in Texts
  BY <1>0, PairsIs, UpToDefined
<1>2. ASSUME NEW i \in 1..L
      PROVE /\ Len(U(i - 1)) \in Nat /\ Len(U(i)) \in Nat /\ Len(U(i - 1)) <= Len(U(i))
            /\ \A k \in 1..Len(U(i - 1)) : U(i)[k] = U(i - 1)[k]
  <2>0. Joins(p, i)
    BY UpToStep
  <2>1. /\ Len(U(i - 1)) \in Nat /\ Len(U(i)) \in Nat
        /\ \A k \in 1..Len(U(i - 1)) : U(i)[k] = U(i - 1)[k]
        /\ NameOrder[i] \notin DOMAIN p => U(i) = U(i - 1)
        /\ NameOrder[i] \in DOMAIN p =>
             Len(p[NameOrder[i]]) \in Nat /\ Len(U(i)) = Len(U(i - 1)) + Len(p[NameOrder[i]]) + 3
    BY <2>0 DEF Joins
  <2> DEFINE n == Len(p[NameOrder[i]])
  <2> HIDE DEF U, n
  <2>2. U(i) = U(i - 1) \/ (n \in Nat /\ Len(U(i)) = Len(U(i - 1)) + n + 3)
    BY <2>1 DEF n
  <2> QED BY <2>1, <2>2
<1> HIDE DEF L, U, w
<1>3. 0 \in S
  <2>1. L - 0 = L /\ Len(w) \in Nat
    BY <1>0, <1>1 DEF Texts
  <2> QED BY <1>1, <2>1
<1>4. ASSUME NEW d \in S PROVE d + 1 \in S
  <2> SUFFICES ASSUME d + 1 <= L PROVE Begins(L - (d + 1))
    OBVIOUS
  <2>1. d <= L /\ L - d \in 1..L /\ L - (d + 1) = (L - d) - 1 /\ Begins(L - d)
    BY <1>0
  <2> DEFINE i == L - d
  <2> HIDE DEF i
  <2>2. i \in 1..L /\ Begins(i) /\ L - (d + 1) = i - 1
    BY <2>1 DEF i
  <2>3. /\ Len(U(i - 1)) \in Nat /\ Len(U(i)) \in Nat /\ Len(U(i - 1)) <= Len(U(i))
        /\ \A k \in 1..Len(U(i - 1)) : U(i)[k] = U(i - 1)[k]
    BY <1>2, <2>2
  <2>4. Begins(i - 1)
    BY <2>2, <2>3
  <2> QED BY <2>2, <2>4
<1>5. S = Nat
  <2> HIDE DEF S
  <2>1. S \in SUBSET Nat
    BY DEF S
  <2> QED BY <1>3, <1>4, <2>1, Induct
<1>6. ASSUME NEW i \in 0..L PROVE Begins(i)
  <2>1. L - i \in Nat /\ L - i <= L /\ L - (L - i) = i
    BY <1>0
  <2> HIDE DEF Begins
  <2>2. \A d \in Nat : d <= L => Begins(L - d)
    BY <1>5
  <2>3. Begins(L - (L - i))
    BY <2>1, <2>2
  <2> QED BY <2>1, <2>3
<1> QED BY <1>6 DEF L, U, w

(* The text of parameters has no "#", and some tokens if there are any.    *)
LEMMA PairsAre ==
  ASSUME NEW p \in UrlParamSet
  PROVE  /\ Pairs(p) \in Texts /\ Len(Pairs(p)) \in Nat
         /\ DOMAIN p # {} => Len(Pairs(p)) >= 3
         /\ \A k \in 1..Len(Pairs(p)) : Pairs(p)[k] # "#"
<1> DEFINE L == Len(NameOrder)
           U(i) == UpTo(p)[i]
<1>0. L \in Nat
  BY TokensAre
<1>1. Pairs(p) = U(L) /\ Pairs(p) \in Texts
  BY <1>0, PairsIs, UpToDefined
<1>2. ASSUME DOMAIN p # {} PROVE Len(Pairs(p)) >= 3
  <2>1. PICK n : n \in DOMAIN p
    BY <1>2
  <2>2. n \in ToSet(NameOrder)
    BY <2>1, ValueIs
  <2>3. PICK i \in 1..L : NameOrder[i] = n
    BY <2>2 DEF ToSet
  <2>4. /\ Len(p[n]) \in Nat /\ Len(U(i)) = Len(U(i - 1)) + Len(p[n]) + 3 /\ Len(U(i - 1)) \in Nat /\ Len(U(i)) \in Nat
    BY <2>1, <2>3, UpToStep DEF Joins
  <2>5. i \in 0..L
    BY <1>0
  <2>6. Len(U(i)) <= Len(Pairs(p)) /\ Len(Pairs(p)) \in Nat
    BY <2>5, UpToPrefix
  <2> QED
    <3> DEFINE a == Len(U(i))  b == Len(U(i - 1))  c == Len(p[n])  d == Len(Pairs(p))
    <3>1. a \in Nat /\ b \in Nat /\ c \in Nat /\ d \in Nat /\ a = b + c + 3 /\ a <= d
      BY <2>4, <2>6
    <3> HIDE DEF a, b, c, d
    <3>2. d >= 3
      BY <3>1
    <3> QED BY <3>2 DEF d
<1>3. ASSUME NEW i \in 1..L, \A k \in 1..Len(U(i - 1)) : U(i - 1)[k] # "#", NEW k \in 1..Len(U(i)) PROVE U(i)[k] # "#"
  <2> DEFINE n == NameOrder[i]
             v == p[n]
             t == U(i - 1)
             w == U(i)
  <2>0. Joins(p, i)
    BY UpToStep
  <2>1. /\ Len(t) \in Nat /\ Len(w) \in Nat
        /\ \A j \in 1..Len(t) : w[j] = t[j]
        /\ n \notin DOMAIN p => w = t
        /\ n \in DOMAIN p =>
             /\ v \in ParamTexts /\ Len(v) \in Nat /\ Len(w) = Len(t) + Len(v) + 3
             /\ w[Len(t) + 1] = n /\ w[Len(t) + 2] = "=" /\ w[Len(w)] = "&"
             /\ \A j \in 1..Len(v) : w[Len(t) + 2 + j] = v[j]
    BY <2>0, Zenon DEF Joins
  <2>2. \A j \in 1..Len(t) : t[j] # "#"
    BY <1>3
  <2>3. IsWord(n)
    <3>1. n \in ToSet(NameOrder)
      BY TokensAre
    <3> QED BY <3>1, UrlAssumption, Zenon
  <2>4. n # "#"
    BY <2>3, MarksAre DEF IsWord
  <2> HIDE DEF n, v, t, w
  <2>5. CASE n \notin DOMAIN p
    <3>1. w = t /\ k \in 1..Len(w)
      BY <2>1, <2>5 DEF w
    <3> QED BY <2>2, <3>1 DEF w
  <2>6. CASE n \in DOMAIN p
    <3>1. \A j \in 1..Len(v) : v[j] # "#"
      BY <2>1, <2>6, MarksAre DEF ParamTexts, Without
    <3>2. k \in 1..Len(t) \/ k = Len(t) + 1 \/ k = Len(t) + 2 \/ k = Len(w) \/ (k - Len(t) - 2 \in 1..Len(v) /\ k = Len(t) + 2 + (k - Len(t) - 2))
      <4> DEFINE a == Len(t)  b == Len(v)  c == Len(w)
      <4>1. k \in 1..c /\ c = a + b + 3 /\ a \in Nat /\ b \in Nat
        BY <2>1, <2>6 DEF w
      <4> HIDE DEF a, b, c
      <4>2. k \in 1..a \/ k = a + 1 \/ k = a + 2 \/ k = c \/ (k - a - 2 \in 1..b /\ k = a + 2 + (k - a - 2))
        BY <4>1
      <4> QED BY <4>2 DEF a, b, c
    <3>3. CASE k \in 1..Len(t)
      BY <2>1, <2>2, <3>3 DEF w
    <3>4. CASE k - Len(t) - 2 \in 1..Len(v) /\ k = Len(t) + 2 + (k - Len(t) - 2)
      <4>1. w[k] = v[k - Len(t) - 2]
        BY <2>1, <2>6, <3>4
      <4> QED BY <3>1, <3>4, <4>1 DEF w
    <3>5. w[Len(t) + 1] # "#" /\ w[Len(t) + 2] # "#" /\ w[Len(w)] # "#"
      BY <2>1, <2>4, <2>6
    <3> QED BY <3>2, <3>3, <3>4, <3>5 DEF w
  <2> QED BY <2>5, <2>6
<1> DEFINE Clean(i) == \A k \in 1..Len(U(i)) : U(i)[k] # "#"
           S == {i \in Nat : i <= L => Clean(i)}
<1>4. 0 \in S
  <2>1. U(0) = <<>>
    BY UpToDefined
  <2>2. \A k \in 1..Len(<<>>) : FALSE
    OBVIOUS
  <2> QED BY <2>1, <2>2
<1>7. ASSUME NEW i \in S PROVE i + 1 \in S
  <2> SUFFICES ASSUME i + 1 <= L PROVE Clean(i + 1)
    OBVIOUS
  <2>1. i + 1 \in 1..L /\ (i + 1) - 1 = i /\ Clean(i)
    BY <1>0
  <2> DEFINE j == i + 1
  <2>2. j \in 1..L /\ Clean(j - 1)
    BY <2>1
  <2> HIDE DEF j
  <2>3. Clean(j)
    BY <1>3, <2>2
  <2> QED BY <2>3 DEF j
<1>5. S = Nat
  <2> HIDE DEF S
  <2>1. S \in SUBSET Nat
    BY DEF S
  <2> QED BY <1>4, <1>7, <2>1, Induct
<1>6. L \in S
  BY <1>0, <1>5
<1> QED BY <1>0, <1>1, <1>2, <1>6 DEF Texts

-----------------------------------------------------------------------------
(* The query of parameters, and those of them from a name on.              *)
QueryText(p) == Front(Pairs(p))
Later(p, i) == [n \in {NameOrder[j] : j \in i + 1..Len(NameOrder)} \cap DOMAIN p |-> p[n]]

(* The query is the pairs but for the last "&", and has no "#". *)
LEMMA QueryIs ==
  ASSUME NEW p \in UrlParamSet, DOMAIN p # {}
  PROVE  /\ QueryText(p) \in Texts /\ Len(QueryText(p)) = Len(Pairs(p)) - 1 /\ Len(Pairs(p)) \in Nat
         /\ Len(QueryText(p)) \in Nat /\ Len(QueryText(p)) >= 2
         /\ \A k \in 1..Len(QueryText(p)) : QueryText(p)[k] = Pairs(p)[k] /\ QueryText(p)[k] # "#"
<1> DEFINE w == Pairs(p)
           q == QueryText(p)
<1>1. w \in Texts /\ Len(w) \in Nat /\ Len(w) >= 3 /\ \A k \in 1..Len(w) : w[k] # "#"
  BY PairsAre
<1>2. q = SubSeq(w, 1, Len(w) - 1)
  BY DEF QueryText, Front
<1> HIDE DEF w, q
<1>3. 1 \in Nat \ {0} /\ Len(w) - 1 \in Nat /\ Len(w) - 1 <= Len(w) /\ 1 <= Len(w) - 1
  BY <1>1
<1>4. /\ q \in Texts /\ Len(q) = (Len(w) - 1) - 1 + 1
      /\ \A j \in 1..(Len(w) - 1) - 1 + 1 : q[j] = w[1 + j - 1]
  BY <1>1, <1>2, <1>3, PartOfText
<1>5. \A j \in 1..Len(q) : q[j] = w[j] /\ j \in 1..Len(w)
  BY <1>1, <1>4
<1>6. Len(q) = Len(w) - 1 /\ Len(q) \in Nat /\ Len(q) >= 2
  BY <1>1, <1>4
<1> QED BY <1>1, <1>4, <1>5, <1>6 DEF w, q

(* Where a name begins the rest, parse_param finds it, and its value.      *)
LEMMA FindsName ==
  ASSUME NEW p \in UrlParamSet, NEW i \in 1..Len(NameOrder), NameOrder[i] \in DOMAIN p
  PROVE  LET q == QueryText(p)  s == Len(UpTo(p)[i - 1]) + 1 IN
         /\ Named(q, s) # {} /\ Min(Named(q, s)) = s /\ StopOf(q, s) = Len(UpTo(p)[i])
         /\ Found(q, s) = [n \in {NameOrder[i]} |-> p[NameOrder[i]]]
<1> DEFINE q == QueryText(p)
           t == UpTo(p)[i - 1]
           w == UpTo(p)[i]
           n == NameOrder[i]
           v == p[n]
           s == Len(t) + 1
<1>0. Len(NameOrder) \in Nat /\ i \in 0..Len(NameOrder)
  <2>1. Len(NameOrder) \in Nat
    BY TokensAre
  <2> QED BY <2>1
<1>1. Joins(p, i)
  BY UpToStep
<1>2. /\ Len(t) \in Nat /\ Len(w) \in Nat /\ v \in ParamTexts /\ v \in Texts /\ Len(v) \in Nat
      /\ Len(w) = Len(t) + Len(v) + 3
      /\ w[Len(t) + 1] = n /\ w[Len(t) + 2] = "=" /\ w[Len(w)] = "&"
      /\ \A k \in 1..Len(v) : w[Len(t) + 2 + k] = v[k]
  BY <1>1, Zenon DEF Joins
<1>3. /\ Len(w) <= Len(Pairs(p)) /\ Len(Pairs(p)) \in Nat
      /\ \A k \in 1..Len(w) : Pairs(p)[k] = w[k]
  BY <1>0, UpToPrefix
<1>4. /\ q \in Texts /\ Len(q) = Len(Pairs(p)) - 1 /\ Len(q) \in Nat
      /\ \A k \in 1..Len(q) : q[k] = Pairs(p)[k]
  BY QueryIs
<1>5. IsWord(n) /\ ToLower(n) = n
  <2>1. n \in ToSet(NameOrder)
    BY TokensAre
  <2> QED BY <2>1, UrlAssumption, Zenon
<1> DEFINE a == Len(t)  b == Len(v)  c == Len(w)  d == Len(q)
<1>6. /\ a \in Nat /\ b \in Nat /\ c \in Nat /\ d \in Nat /\ c = a + b + 3 /\ c <= d + 1 /\ s = a + 1
      /\ Len(q) = d /\ Len(w) = c /\ Len(v) = b /\ Len(t) = a
  <2> DEFINE e == Len(Pairs(p))
  <2>1. /\ a \in Nat /\ b \in Nat /\ c \in Nat /\ d \in Nat /\ e \in Nat
        /\ c = a + b + 3 /\ c <= e /\ d = e - 1
    BY <1>2, <1>3, <1>4, Zenon
  <2>2. s = a + 1 /\ Len(q) = d /\ Len(w) = c /\ Len(v) = b /\ Len(t) = a
    BY Zenon
  <2> HIDE DEF a, b, c, d, e, q, t, w, v, s
  <2> QED BY <2>1, <2>2
<1>7. \A k \in 1..c : k <= d => q[k] = w[k]
  BY <1>3, <1>4
<1> HIDE DEF q, t, w, n, v, s, a, b, c, d
<1>8. s \in 1..(d - 1) /\ q[s] = n /\ q[s + 1] = "="
  <2>1. s \in 1..c /\ s <= d /\ s + 1 \in 1..c /\ s + 1 <= d /\ s = a + 1 /\ s + 1 = a + 2
    BY <1>6
  <2>2. q[s] = w[a + 1] /\ q[s + 1] = w[a + 2]
    BY <1>7, <2>1
  <2> QED BY <1>2, <1>6, <2>1, <2>2
<1>9. s \in Named(q, s)
  <2>1. s \in s..Len(q) - 1
    BY <1>6, <1>8
  <2> QED BY <1>5, <1>8, <2>1 DEF Named
<1>10. Min(Named(q, s)) = s
  <2>1. s \in Nat \ {0} /\ Named(q, s) # {}
    BY <1>8, <1>9, <1>6
  <2>2. s <= Min(Named(q, s)) /\ Min(Named(q, s)) <= s /\ Min(Named(q, s)) \in 1..(Len(q) - 1)
    BY <1>4, <1>9, <2>1, NamedIs
  <2> DEFINE m == Min(Named(q, s))
  <2>3. s <= m /\ m <= s /\ m \in Int /\ s \in Int
    BY <1>6, <2>1, <2>2
  <2> HIDE DEF m
  <2>4. m = s
    BY <2>3
  <2> QED BY <2>4 DEF m
<1>11. StopOf(q, s) = c
  <2> DEFINE x == StopOf(q, s)
  <2>0. s \in 1..(Len(q) - 1)
    BY <1>6, <1>8
  <2>1. /\ x \in (s + 2)..(d + 1)
        /\ x # d + 1 => q[x] \in ParamMarks
        /\ \A k \in (s + 2)..(x - 1) : q[k] \notin ParamMarks
    BY <1>4, <1>6, <2>0, StopIs
  <2> HIDE DEF x
  <2>2. \A k \in 1..b : v[k] \notin ParamMarks
    BY <1>2, <1>6 DEF ParamTexts, Without
  <2>3. ASSUME x < c PROVE FALSE
    <3> DEFINE k == x - a - 2
    <3>1. k \in 1..b /\ x = a + 2 + k /\ x # d + 1 /\ x \in 1..c /\ x <= d
      BY <1>6, <2>1, <2>3
    <3> HIDE DEF k
    <3>2. w[a + 2 + k] = v[k]
      BY <1>2, <1>6, <3>1
    <3>3. q[x] = v[k]
      BY <1>7, <3>1, <3>2
    <3> QED BY <2>1, <2>2, <3>1, <3>3
  <2>4. ASSUME c < x PROVE FALSE
    <3>1. c \in (s + 2)..(x - 1) /\ c \in 1..c /\ c <= d
      BY <1>6, <2>1, <2>4
    <3>2. q[c] = "&"
      BY <1>2, <1>6, <1>7, <3>1
    <3> QED BY <2>1, <3>1, <3>2, MarksAre
  <2>5. x = c
    BY <1>6, <2>1, <2>3, <2>4
  <2> QED BY <2>5 DEF x
<1>12. SubSeq(q, s + 2, c - 1) = v
  <2> DEFINE y == SubSeq(q, s + 2, c - 1)
  <2>1. s + 2 \in Nat \ {0} /\ c - 1 \in Nat /\ c - 1 <= Len(q) /\ (c - 1) - (s + 2) + 1 = b
        /\ (s + 2 <= c - 1 <=> b # 0)
    BY <1>6
  <2>2. /\ y \in Texts /\ Len(y) = b
        /\ \A j \in 1..b : y[j] = q[(s + 2) + j - 1]
    BY <1>4, <1>6, <2>1, PartOfText
  <2> HIDE DEF y
  <2>3. ASSUME NEW j \in 1..b PROVE y[j] = v[j]
    <3>1. (s + 2) + j - 1 = a + 2 + j /\ a + 2 + j \in 1..c /\ a + 2 + j <= d
      BY <1>6
    <3>2. q[a + 2 + j] = w[a + 2 + j] /\ w[a + 2 + j] = v[j]
      BY <1>2, <1>6, <1>7, <3>1
    <3> QED BY <2>2, <3>1, <3>2
  <2>4. v \in Texts /\ Len(v) = b
    BY <1>2, <1>6
  <2>5. y = v
    BY <2>2, <2>3, <2>4, SeqEqual DEF Texts
  <2> QED BY <2>5 DEF y
<1>13. Found(q, s) = [m \in {n} |-> v]
  <2>1. ToLower(q[s]) = n
    BY <1>5, <1>8
  <2> QED BY <1>11, <1>12, <2>1 DEF Found
<1> QED BY <1>6, <1>9, <1>10, <1>11, <1>13 DEF q, t, w, n, v, s, c

(* From a name on, parse_param finds the parameters from that name on.     *)
LEMMA FindsLater ==
  ASSUME NEW p \in UrlParamSet, DOMAIN p # {}
  PROVE  \A i \in 0..Len(NameOrder) : ParsedFrom(QueryText(p))[Len(UpTo(p)[i]) + 1] = Later(p, i)
<1> DEFINE q == QueryText(p)
           L == Len(NameOrder)
           U(i) == UpTo(p)[i]
           Reads(i) == ParsedFrom(q)[Len(U(i)) + 1] = Later(p, i)
           N == {ToLower(q[j]) : j \in 1..Len(q)}
<1>0. L \in Nat /\ q \in Texts /\ Len(q) = Len(Pairs(p)) - 1 /\ Len(Pairs(p)) \in Nat
  BY TokensAre, QueryIs
<1>1. \A i \in 0..L : Len(U(i)) \in Nat
  BY UpToPrefix
<1>2. Names(q, N)
  <2>1. \A j \in 1..(Len(q) - 1) : j \in 1..Len(q)
    BY <1>0
  <2> QED BY <2>1 DEF Names
<1> HIDE DEF N
<1>3. ASSUME NEW s \in Nat \ {0}
      PROVE  ParsedFrom(q)[s] = IF Named(q, s) = {} THEN NoParams
                          ELSE Over(ParsedFrom(q)[StopOf(q, Min(Named(q, s))) + 1], Found(q, Min(Named(q, s))))
  BY <1>0, <1>2, FromDefined
<1>4. Reads(L)
  <2> DEFINE s == Len(U(L)) + 1
  <2>1. U(L) = Pairs(p)
    BY PairsIs
  <2>2. s = Len(Pairs(p)) + 1
    BY <2>1
  <2> HIDE DEF s
  <2>3. s \in Nat \ {0} /\ s..Len(q) - 1 = {}
    BY <1>0, <2>2
  <2>4. Named(q, s) = {}
    BY <2>3 DEF Named
  <2>5. ParsedFrom(q)[s] = NoParams
    BY <1>3, <2>3, <2>4
  <2>6. {NameOrder[j] : j \in L + 1..L} = {}
    <3>1. L + 1..L = {}
      BY <1>0
    <3> HIDE DEF L
    <3> QED BY <3>1
  <2>7. Later(p, L) = NoParams
    BY <2>6 DEF Later, NoParams
  <2> QED BY <2>5, <2>7 DEF s
<1>5. ASSUME NEW i \in 1..L, Reads(i) PROVE Reads(i - 1)
  <2> DEFINE n == NameOrder[i]
             s == Len(U(i - 1)) + 1
  <2>1. Joins(p, i) /\ i - 1 \in 0..L /\ i \in 0..L
    <3>1. i - 1 \in 0..L /\ i \in 0..L
      BY <1>0
    <3> QED BY <3>1, UpToStep
  <2>2. {NameOrder[j] : j \in (i - 1) + 1..L} = {n} \cup {NameOrder[j] : j \in i + 1..L}
    <3>1. (i - 1) + 1..L = {i} \cup (i + 1..L)
      BY <1>0
    <3> HIDE DEF L
    <3> QED BY <3>1
  <2> DEFINE A == {NameOrder[j] : j \in (i - 1) + 1..L}
             C == {NameOrder[j] : j \in i + 1..L}
  <2>3. Later(p, i - 1) = [m \in A \cap DOMAIN p |-> p[m]] /\ Later(p, i) = [m \in C \cap DOMAIN p |-> p[m]]
        /\ A = {n} \cup C
    BY <2>2, Zenon DEF Later
  <2> HIDE DEF A, C
  <2>4. CASE n \notin DOMAIN p
    <3>1. U(i) = U(i - 1)
      BY <2>1, <2>4, Zenon DEF Joins
    <3>2. A \cap DOMAIN p = C \cap DOMAIN p
      BY <2>3, <2>4
    <3>3. Later(p, i - 1) = Later(p, i)
      BY <2>3, <3>2
    <3> HIDE DEF U
    <3> QED BY <1>5, <3>1, <3>3
  <2>5. CASE n \in DOMAIN p
    <3>1. /\ Named(q, s) # {} /\ Min(Named(q, s)) = s /\ StopOf(q, s) = Len(U(i))
          /\ Found(q, s) = [m \in {n} |-> p[n]]
      BY <2>5, FindsName
    <3>2. s \in Nat \ {0}
      BY <1>1, <2>1
    <3>3. ParsedFrom(q)[s] = Over(ParsedFrom(q)[Len(U(i)) + 1], [m \in {n} |-> p[n]])
      <4> HIDE DEF s, q, U, n
      <4> QED BY <1>3, <3>1, <3>2
    <3>4. ParsedFrom(q)[s] = Over(Later(p, i), [m \in {n} |-> p[n]])
      BY <1>5, <3>3
    <3>5. Over([m \in C \cap DOMAIN p |-> p[m]], [m \in {n} |-> p[n]]) = [m \in A \cap DOMAIN p |-> p[m]]
      <4> HIDE DEF n
      <4>1. (C \cap DOMAIN p) \cup {n} = A \cap DOMAIN p
        BY <2>3, <2>5
      <4>2. Over([m \in C \cap DOMAIN p |-> p[m]], [m \in {n} |-> p[n]])
              = [m \in (C \cap DOMAIN p) \cup {n} |-> p[m]]
        BY DEF Over
      <4> QED BY <4>1, <4>2
    <3> QED BY <2>3, <3>4, <3>5
  <2> QED BY <2>4, <2>5
<1> DEFINE S == {d \in Nat : d <= L => Reads(L - d)}
<1> HIDE DEF Reads, L
<1>6. 0 \in S
  <2>1. L - 0 = L
    BY <1>0
  <2> QED BY <1>4, <2>1
<1>7. ASSUME NEW d \in S PROVE d + 1 \in S
  <2> SUFFICES ASSUME d + 1 <= L PROVE Reads(L - (d + 1))
    OBVIOUS
  <2> DEFINE i == L - d
  <2>1. i \in 1..L /\ L - (d + 1) = i - 1 /\ Reads(i)
    BY <1>0
  <2> HIDE DEF i
  <2>2. Reads(i - 1)
    BY <1>5, <2>1
  <2> QED BY <2>1, <2>2
<1>8. S = Nat
  <2> HIDE DEF S
  <2>1. S \in SUBSET Nat
    BY DEF S
  <2> QED BY <1>6, <1>7, <2>1, Induct
<1>9. ASSUME NEW i \in 0..L PROVE Reads(i)
  <2>1. L - i \in Nat /\ L - i <= L /\ L - (L - i) = i
    BY <1>0
  <2>2. \A d \in Nat : d <= L => Reads(L - d)
    BY <1>8
  <2>3. Reads(L - (L - i))
    BY <2>1, <2>2
  <2> QED BY <2>1, <2>3
<1> QED BY <1>9 DEF Reads, L

(* What str writes of the parameters parse_param reads. *)
LEMMA ParamsReadBack ==
  ASSUME NEW p \in UrlParamSet, DOMAIN p # {}
  PROVE  ParseParam(QueryText(p)) = p
<1>0. Len(NameOrder) \in Nat /\ 0 \in 0..Len(NameOrder)
  <2>1. Len(NameOrder) \in Nat
    BY TokensAre
  <2> QED BY <2>1
<1>1. UpTo(p)[0] = <<>> /\ Len(<<>>) = 0
  BY UpToDefined
<1>2. ParsedFrom(QueryText(p))[Len(UpTo(p)[0]) + 1] = Later(p, 0)
  BY <1>0, FindsLater
<1>3. Len(UpTo(p)[0]) + 1 = 1
  BY <1>1
<1>4. ParseParam(QueryText(p)) = Later(p, 0)
  BY <1>2, <1>3, ParseParamIs
<1>5. \A n \in DOMAIN p : n \in {NameOrder[j] : j \in 0 + 1..Len(NameOrder)}
  <2> SUFFICES ASSUME NEW n \in DOMAIN p PROVE n \in {NameOrder[j] : j \in 0 + 1..Len(NameOrder)}
    OBVIOUS
  <2>1. n \in ToSet(NameOrder)
    BY ValueIs
  <2>2. PICK i \in 1..Len(NameOrder) : NameOrder[i] = n
    BY <2>1 DEF ToSet
  <2>3. i \in 0 + 1..Len(NameOrder)
    OBVIOUS
  <2> QED BY <2>2, <2>3
<1>6. {NameOrder[j] : j \in 0 + 1..Len(NameOrder)} \cap DOMAIN p = DOMAIN p
  BY <1>5
<1>7. PICK D \in SUBSET ToSet(NameOrder) : p \in [D -> ParamTexts]
  BY DEF UrlParamSet, ParamsOf
<1>8. p = [n \in DOMAIN p |-> p[n]]
  BY <1>7
<1>9. Later(p, 0) = [n \in DOMAIN p |-> p[n]]
  BY <1>6, Zenon DEF Later
<1> QED BY <1>4, <1>8, <1>9

-----------------------------------------------------------------------------
(* Each group takes what it takes from the front of what is left.          *)
LEMMA TakenIs ==
  ASSUME NEW t
  PROVE  /\ Taken(Groups[1], t) = SchemeOf(t) /\ Taken(Groups[2], t) = UserInfoOf(t)
         /\ Taken(Groups[3], t) = HostOf(t) /\ Taken(Groups[4], t) = PathOf(t) /\ Taken(Groups[5], t) = QueryOf(t)
<1>1. /\ Groups[1] = "scheme" /\ Groups[2] = "user" /\ Groups[3] = "host" /\ Groups[4] = "path"
      /\ Groups[5] = "query"
  BY DEF Groups
<1>2. /\ Taken("scheme", t) = SchemeOf(t) /\ Taken("user", t) = UserInfoOf(t) /\ Taken("host", t) = HostOf(t)
      /\ Taken("path", t) = PathOf(t) /\ Taken("query", t) = QueryOf(t)
  BY DEF Taken
<1> QED BY <1>1, <1>2, Zenon

(* What Cut leaves before each group. *)
LEMMA CutIs ==
  ASSUME NEW text
  PROVE  LET c == Cut(text) IN
         /\ c[1] = text /\ c[2] = Rest(c[1], SchemeOf(c[1])) /\ c[3] = Rest(c[2], UserInfoOf(c[2]))
         /\ c[4] = Rest(c[3], HostOf(c[3])) /\ c[5] = Rest(c[4], PathOf(c[4])) /\ c[6] = Rest(c[5], QueryOf(c[5]))
<1> DEFINE RestAfter(g, t) == Rest(t, Taken(Groups[g], t))
           P(f) == f = [g \in 1..6 |-> IF g = 1 THEN text ELSE RestAfter(g - 1, f[g - 1])]
           t2 == RestAfter(1, text)
           t3 == RestAfter(2, t2)
           t4 == RestAfter(3, t3)
           t5 == RestAfter(4, t4)
           t6 == RestAfter(5, t5)
           w == [g \in 1..6 |-> IF g = 1 THEN text ELSE IF g = 2 THEN t2 ELSE IF g = 3 THEN t3
                                ELSE IF g = 4 THEN t4 ELSE IF g = 5 THEN t5 ELSE t6]
<1>1. P(w)
  <2> HIDE DEF RestAfter
  <2>1. w[1] = text /\ w[2] = t2 /\ w[3] = t3 /\ w[4] = t4 /\ w[5] = t5 /\ w[6] = t6
    OBVIOUS
  <2> DEFINE h == [g \in 1..6 |-> IF g = 1 THEN text ELSE RestAfter(g - 1, w[g - 1])]
  <2> HIDE DEF w
  <2>2. /\ h[1] = text /\ h[2] = RestAfter(1, w[1]) /\ h[3] = RestAfter(2, w[2]) /\ h[4] = RestAfter(3, w[3])
        /\ h[5] = RestAfter(4, w[4]) /\ h[6] = RestAfter(5, w[5])
    OBVIOUS
  <2>3. w = [g \in 1..6 |-> w[g]] /\ h = [g \in 1..6 |-> h[g]]
    BY DEF w
  <2> HIDE DEF h
  <2>4. h[1] = w[1] /\ h[2] = w[2] /\ h[3] = w[3] /\ h[4] = w[4] /\ h[5] = w[5] /\ h[6] = w[6]
    BY <2>1, <2>2, Zenon
  <2>5. \A g \in 1..6 : g \in {1, 2, 3, 4, 5, 6}
    OBVIOUS
  <2>6. \A g \in 1..6 : h[g] = w[g]
    BY <2>4, <2>5
  <2>7. h = w
    BY <2>3, <2>6
  <2> QED BY <2>7 DEF h
<1>2. Cut(text) = CHOOSE f : P(f)
  BY Zenon DEF Cut
<1>3. P(Cut(text))
  <2> HIDE DEF P
  <2> QED BY <1>1, <1>2
<1> DEFINE c == Cut(text)
<1>4. c = [g \in 1..6 |-> IF g = 1 THEN text ELSE RestAfter(g - 1, c[g - 1])]
  BY <1>3
<1> HIDE DEF c, RestAfter
<1>5. /\ c[1] = text /\ c[2] = RestAfter(1, c[1]) /\ c[3] = RestAfter(2, c[2]) /\ c[4] = RestAfter(3, c[3])
      /\ c[5] = RestAfter(4, c[4]) /\ c[6] = RestAfter(5, c[5])
  <2> DEFINE d == c
             h == [g \in 1..6 |-> IF g = 1 THEN text ELSE RestAfter(g - 1, d[g - 1])]
  <2> HIDE DEF d
  <2>1. /\ h[1] = text /\ h[2] = RestAfter(1, d[1]) /\ h[3] = RestAfter(2, d[2]) /\ h[4] = RestAfter(3, d[3])
        /\ h[5] = RestAfter(4, d[4]) /\ h[6] = RestAfter(5, d[5])
    OBVIOUS
  <2>2. h = d
    BY <1>4 DEF d
  <2> HIDE DEF h
  <2> QED BY <2>1, <2>2, Zenon DEF d
<1>6. \A t : /\ RestAfter(1, t) = Rest(t, SchemeOf(t)) /\ RestAfter(2, t) = Rest(t, UserInfoOf(t))
             /\ RestAfter(3, t) = Rest(t, HostOf(t)) /\ RestAfter(4, t) = Rest(t, PathOf(t)) /\ RestAfter(5, t) = Rest(t, QueryOf(t))
  BY TakenIs DEF RestAfter
<1>7. c = Cut(text)
  BY DEF c
<1> QED BY <1>5, <1>6, <1>7, Zenon

(* set takes the groups of the text. *)
LEMMA SetTextIs == ASSUME NEW u, NEW text PROVE SetText(u, text) = SetParts(u, Cut(text))
<1>1. {SetParts(u, t) : t \in {Cut(text)}} = {SetParts(u, Cut(text))}
  OBVIOUS
<1> QED BY <1>1 DEF SetText

-----------------------------------------------------------------------------
(* What is left behind n tokens. *)
LEMMA RestIs ==
  ASSUME NEW t \in Texts, NEW n \in Nat, n <= Len(t)
  PROVE  /\ Rest(t, n) \in Texts /\ Len(Rest(t, n)) = Len(t) - n /\ Len(t) \in Nat
         /\ \A j \in 1..Len(t) - n : Rest(t, n)[j] = t[n + j]
<1>1. Len(t) \in Nat
  BY DEF Texts
<1>2. n + 1 \in Nat \ {0} /\ Len(t) <= Len(t)
  BY <1>1
<1>3. /\ Rest(t, n) \in Texts /\ Len(Rest(t, n)) = IF n + 1 <= Len(t) THEN Len(t) - (n + 1) + 1 ELSE 0
      /\ \A j \in 1..Len(t) - (n + 1) + 1 : Rest(t, n)[j] = t[(n + 1) + j - 1]
  BY <1>1, <1>2, PartOfText DEF Rest
<1> DEFINE r == Rest(t, n)
<1> HIDE DEF r
<1>4. /\ Len(r) = IF n + 1 <= Len(t) THEN Len(t) - (n + 1) + 1 ELSE 0
      /\ \A j \in 1..Len(t) - (n + 1) + 1 : r[j] = t[(n + 1) + j - 1]
  BY <1>3 DEF r
<1>5. Len(r) = Len(t) - n
  BY <1>1, <1>4
<1>6. \A j \in 1..Len(t) - n : r[j] = t[n + j]
  <2> SUFFICES ASSUME NEW j \in 1..Len(t) - n PROVE r[j] = t[n + j]
    OBVIOUS
  <2>1. j \in 1..Len(t) - (n + 1) + 1 /\ (n + 1) + j - 1 = n + j
    BY <1>1
  <2> QED BY <1>4, <2>1
<1> QED BY <1>1, <1>3, <1>5, <1>6 DEF r

(* What is left of a after it, put in front of b, was taken, is b.         *)
LEMMA RestOfConcat ==
  ASSUME NEW a \in Texts, NEW b \in Texts
  PROVE  Rest(a \o b, Len(a)) = b
<1> DEFINE t == a \o b
           r == Rest(t, Len(a))
<1>1. /\ t \in Texts /\ Len(t) = Len(a) + Len(b) /\ Len(a) \in Nat /\ Len(b) \in Nat
      /\ \A i \in 1..Len(a) + Len(b) : t[i] = IF i <= Len(a) THEN a[i] ELSE b[i - Len(a)]
  BY ConcatText
<1> HIDE DEF t
<1>2. Len(a) <= Len(t)
  BY <1>1
<1>3. r \in Texts /\ Len(r) = Len(t) - Len(a) /\ \A j \in 1..Len(t) - Len(a) : r[j] = t[Len(a) + j]
  BY <1>1, <1>2, RestIs
<1> HIDE DEF r
<1>4. ASSUME NEW j \in 1..Len(b) PROVE r[j] = b[j]
  <2>1. j \in 1..Len(t) - Len(a) /\ Len(a) + j \in 1..Len(a) + Len(b) /\ ~(Len(a) + j <= Len(a)) /\ (Len(a) + j) - Len(a) = j
    BY <1>1
  <2> QED BY <1>1, <1>3, <2>1
<1>5. Len(r) = Len(b)
  BY <1>1, <1>3
<1>6. r = b
  BY <1>3, <1>4, <1>5, SeqEqual DEF Texts
<1> QED BY <1>6 DEF r, t

(* And what was taken is a. *)
LEMMA FrontOfConcat ==
  ASSUME NEW a \in Texts, NEW b \in Texts
  PROVE  SubSeq(a \o b, 1, Len(a)) = a
<1> DEFINE t == a \o b
           r == SubSeq(t, 1, Len(a))
<1>1. /\ t \in Texts /\ Len(t) = Len(a) + Len(b) /\ Len(a) \in Nat /\ Len(b) \in Nat
      /\ \A i \in 1..Len(a) + Len(b) : t[i] = IF i <= Len(a) THEN a[i] ELSE b[i - Len(a)]
  BY ConcatText
<1> HIDE DEF t
<1>2. 1 \in Nat \ {0} /\ Len(a) <= Len(t)
  BY <1>1
<1>3. /\ r \in Texts /\ Len(r) = IF 1 <= Len(a) THEN Len(a) - 1 + 1 ELSE 0
      /\ \A j \in 1..Len(a) - 1 + 1 : r[j] = t[1 + j - 1]
  BY <1>1, <1>2, PartOfText
<1> HIDE DEF r
<1>4. ASSUME NEW j \in 1..Len(a) PROVE r[j] = a[j]
  <2>1. j \in 1..Len(a) - 1 + 1 /\ 1 + j - 1 = j /\ j \in 1..Len(a) + Len(b) /\ j <= Len(a)
    BY <1>1
  <2> QED BY <1>1, <1>3, <2>1
<1>5. Len(r) = Len(a)
  BY <1>1, <1>3
<1>6. r = a
  BY <1>3, <1>4, <1>5, SeqEqual DEF Texts
<1> QED BY <1>6 DEF r, t

(* A text with one or two tokens in front. *)
LEMMA OneThen ==
  ASSUME NEW a \in UrlToken, NEW r \in Texts
  PROVE  /\ <<a>> \o r \in Texts /\ Len(<<a>> \o r) = Len(r) + 1 /\ Len(r) \in Nat
         /\ (<<a>> \o r)[1] = a /\ \A k \in 1..Len(r) : (<<a>> \o r)[k + 1] = r[k]
<1>1. PICK h : h = <<a>>
  OBVIOUS
<1>2. h \in Texts /\ Len(h) = 1 /\ h[1] = a
  BY <1>1, ShortTexts
<1>3. PICK t : t = h \o r
  OBVIOUS
<1>4. /\ t \in Texts /\ Len(t) = 1 + Len(r) /\ Len(r) \in Nat
      /\ \A i \in 1..1 + Len(r) : t[i] = IF i <= 1 THEN h[i] ELSE r[i - 1]
  <2>1. /\ t \in Texts /\ Len(t) = Len(h) + Len(r) /\ Len(r) \in Nat
        /\ \A i \in 1..Len(h) + Len(r) : t[i] = IF i <= Len(h) THEN h[i] ELSE r[i - Len(h)]
    BY <1>2, <1>3, ConcatText, Zenon
  <2> QED BY <1>2, <2>1
<1>5. t[1] = a
  BY <1>2, <1>4
<1>6. ASSUME NEW k \in 1..Len(r) PROVE t[k + 1] = r[k]
  <2>1. k + 1 \in 1..1 + Len(r) /\ ~(k + 1 <= 1) /\ (k + 1) - 1 = k
    BY <1>4
  <2> QED BY <1>4, <2>1
<1>7. Len(t) = Len(r) + 1
  BY <1>4
<1>8. t = <<a>> \o r
  BY <1>1, <1>3
<1> QED BY <1>4, <1>5, <1>6, <1>7, <1>8

(* Two tokens in front of a text. *)
LEMMA TwoThen ==
  ASSUME NEW a \in UrlToken, NEW b \in UrlToken, NEW r \in Texts
  PROVE  /\ <<a, b>> \o r \in Texts /\ Len(<<a, b>> \o r) = Len(r) + 2 /\ Len(r) \in Nat
         /\ (<<a, b>> \o r)[1] = a /\ (<<a, b>> \o r)[2] = b
         /\ \A k \in 1..Len(r) : (<<a, b>> \o r)[k + 2] = r[k]
<1>1. PICK h : h = <<a, b>>
  OBVIOUS
<1>2. h \in Texts /\ Len(h) = 2 /\ h[1] = a /\ h[2] = b
  BY <1>1, ShortTexts
<1>3. PICK t : t = h \o r
  OBVIOUS
<1>4. /\ t \in Texts /\ Len(t) = 2 + Len(r) /\ Len(r) \in Nat
      /\ \A i \in 1..2 + Len(r) : t[i] = IF i <= 2 THEN h[i] ELSE r[i - 2]
  <2>1. /\ t \in Texts /\ Len(t) = Len(h) + Len(r) /\ Len(r) \in Nat
        /\ \A i \in 1..Len(h) + Len(r) : t[i] = IF i <= Len(h) THEN h[i] ELSE r[i - Len(h)]
    BY <1>2, <1>3, ConcatText, Zenon
  <2> QED BY <1>2, <2>1
<1>5. t[1] = a /\ t[2] = b
  BY <1>2, <1>4
<1>6. ASSUME NEW k \in 1..Len(r) PROVE t[k + 2] = r[k]
  <2>1. k + 2 \in 1..2 + Len(r) /\ ~(k + 2 <= 2) /\ (k + 2) - 2 = k
    BY <1>4
  <2> QED BY <1>4, <2>1
<1>7. Len(t) = Len(r) + 2
  BY <1>4
<1>8. t = <<a, b>> \o r
  BY <1>1, <1>3
<1> QED BY <1>4, <1>5, <1>6, <1>7, <1>8

(* The pieces that str puts together, and the text from each on.           *)
SchemeText(u) == Opt(u.scheme # "", <<u.scheme, "://">>)
PasswdText(u) == Opt(u.passwd # <<>>, <<":">> \o u.passwd)
UserText(u) == Opt(u.user # "", <<u.user>> \o PasswdText(u) \o <<"@">>)
HostText(u) == Opt(u.host # "", <<u.host>>)
PortText(u) == Opt(u.port # "", <<":", u.port>>)
PathText(u) == Opt(u.path # <<>>, Opt(u.path[1] # "/", <<"/">>) \o u.path)
ParamsText(u) == Opt(DOMAIN u.params # {}, <<"?">> \o QueryText(u.params))
FragmentText(u) == Opt(u.fragment # "", <<"#", u.fragment>>)
FromParamsOn(u) == ParamsText(u) \o FragmentText(u)
FromPath(u) == PathText(u) \o FromParamsOn(u)
FromPort(u) == PortText(u) \o FromPath(u)
FromHost(u) == HostText(u) \o FromPort(u)
FromUser(u) == UserText(u) \o FromHost(u)

(* What an entry of a url is. *)
LEMMA PartsAre ==
  ASSUME NEW u, UrlParts(u)
  PROVE  /\ u.scheme \in UrlToken /\ u.user \in UrlToken /\ u.passwd \in Texts /\ u.host \in UrlToken
         /\ u.port \in UrlToken /\ u.path \in Texts /\ u.params \in UrlParamSet /\ u.fragment \in UrlToken
         /\ u.cache \in Texts
         /\ IsWord(u.scheme) /\ ToLower(u.scheme) = u.scheme /\ IsWord(u.host) /\ ToLower(u.host) = u.host
         /\ IsWord(u.user) /\ ~IsNumeral(u.user) /\ IsWord(u.fragment)
         /\ u.port = "" \/ IsNumeral(u.port)
         /\ Without(u.passwd, {"@"}) /\ Without(u.path, {"?", "#"})
<1>1. u \in [scheme : UrlToken, user : UrlToken, passwd : Texts, host : UrlToken, port : UrlToken, path : Texts,
             params : UrlParamSet, fragment : UrlToken, cache : Texts]
  BY DEF UrlParts, UrlParamSet
<1>2. u.scheme \in {u.scheme, u.host} /\ u.host \in {u.scheme, u.host}
  OBVIOUS
<1>3. /\ IsWord(u.scheme) /\ ToLower(u.scheme) = u.scheme /\ IsWord(u.host) /\ ToLower(u.host) = u.host
      /\ IsWord(u.user) /\ ~IsNumeral(u.user) /\ IsWord(u.fragment)
      /\ u.port = "" \/ IsNumeral(u.port)
      /\ Without(u.passwd, {"@"}) /\ Without(u.path, {"?", "#"})
  BY <1>2, Zenon DEF UrlParts
<1> QED BY <1>1, <1>3

(* They are texts. *)
LEMMA PiecesAre ==
  ASSUME NEW u, UrlParts(u)
  PROVE  /\ SchemeText(u) \in Texts /\ UserText(u) \in Texts /\ HostText(u) \in Texts /\ PortText(u) \in Texts
         /\ PathText(u) \in Texts /\ ParamsText(u) \in Texts /\ FragmentText(u) \in Texts
         /\ FromParamsOn(u) \in Texts /\ FromPath(u) \in Texts /\ FromPort(u) \in Texts
         /\ FromHost(u) \in Texts /\ FromUser(u) \in Texts
<1>0. <<>> \in Texts
  BY DEF Texts
<1>1. /\ u.scheme \in UrlToken /\ u.user \in UrlToken /\ u.passwd \in Texts /\ u.host \in UrlToken
      /\ u.port \in UrlToken /\ u.path \in Texts /\ u.params \in UrlParamSet /\ u.fragment \in UrlToken
  BY PartsAre
<1>2. "://" \in UrlToken /\ ":" \in UrlToken /\ "@" \in UrlToken /\ "/" \in UrlToken /\ "?" \in UrlToken
      /\ "#" \in UrlToken
  BY TokensAre, MarksAre
<1>3. SchemeText(u) \in Texts /\ PortText(u) \in Texts /\ FragmentText(u) \in Texts /\ HostText(u) \in Texts
  <2>1. /\ <<u.scheme, "://">> \in Texts /\ <<":", u.port>> \in Texts /\ <<"#", u.fragment>> \in Texts
        /\ <<u.host>> \in Texts
    BY <1>1, <1>2, ShortTexts
  <2> QED BY <1>0, <2>1, Zenon DEF SchemeText, PortText, FragmentText, HostText, Opt
<1>4. UserText(u) \in Texts
  <2>1. PasswdText(u) \in Texts
    <3>1. <<":">> \o u.passwd \in Texts
      BY <1>1, <1>2, OneThen
    <3> QED BY <1>0, <3>1, Zenon DEF PasswdText, Opt
  <2>2. <<u.user>> \o PasswdText(u) \in Texts
    BY <1>1, <2>1, OneThen
  <2>3. <<"@">> \in Texts
    BY <1>2, ShortTexts
  <2>4. <<u.user>> \o PasswdText(u) \o <<"@">> \in Texts
    BY <2>2, <2>3, ConcatText
  <2> QED BY <1>0, <2>4, Zenon DEF UserText, Opt
<1>5. PathText(u) \in Texts
  <2>1. <<"/">> \in Texts
    BY <1>2, ShortTexts
  <2>2. Opt(u.path[1] # "/", <<"/">>) \in Texts
    BY <1>0, <2>1, Zenon DEF Opt
  <2>3. Opt(u.path[1] # "/", <<"/">>) \o u.path \in Texts
    BY <1>1, <2>2, ConcatText
  <2> QED BY <1>0, <2>3, Zenon DEF PathText, Opt
<1>6. ParamsText(u) \in Texts
  <2>1. CASE DOMAIN u.params = {}
    BY <1>0, <2>1, Zenon DEF ParamsText, Opt
  <2>2. CASE DOMAIN u.params # {}
    <3>1. QueryText(u.params) \in Texts
      BY <1>1, <2>2, QueryIs
    <3>2. <<"?">> \o QueryText(u.params) \in Texts
      BY <1>2, <3>1, OneThen
    <3> QED BY <2>2, <3>2, Zenon DEF ParamsText, Opt
  <2> QED BY <2>1, <2>2
<1>7. FromParamsOn(u) \in Texts
  BY <1>3, <1>6, ConcatText DEF FromParamsOn
<1>8. FromPath(u) \in Texts
  BY <1>5, <1>7, ConcatText DEF FromPath
<1>9. FromPort(u) \in Texts
  BY <1>3, <1>8, ConcatText DEF FromPort
<1>10. FromHost(u) \in Texts
  BY <1>3, <1>9, ConcatText DEF FromHost
<1>11. FromUser(u) \in Texts
  BY <1>4, <1>10, ConcatText DEF FromUser
<1> QED BY <1>3, <1>4, <1>5, <1>6, <1>7, <1>8, <1>9, <1>10, <1>11

(* Texts are put together from the left or from the right.                 *)
Same3(a, b, c) == (a \o b) \o c = a \o (b \o c)
Same4(a, b, c, d) == ((a \o b) \o c) \o d = a \o (b \o (c \o d))
Same5(a, b, c, d, e) == (((a \o b) \o c) \o d) \o e = a \o (b \o (c \o (d \o e)))
Same6(a, b, c, d, e, f) == ((((a \o b) \o c) \o d) \o e) \o f = a \o (b \o (c \o (d \o (e \o f))))
Same7(a, b, c, d, e, f, g) == (((((a \o b) \o c) \o d) \o e) \o f) \o g = a \o (b \o (c \o (d \o (e \o (f \o g)))))
(* Three texts one after the other. *)
LEMMA Regroup3 ==
  ASSUME NEW a \in Texts, NEW b \in Texts, NEW c \in Texts
  PROVE  Same3(a, b, c)
BY ConcatAssociative DEF Texts, Same3
(* The first of four texts, and the rest. *)
LEMMA Regroup4 ==
  ASSUME NEW a \in Texts, NEW b \in Texts, NEW c \in Texts, NEW d \in Texts
  PROVE  Same4(a, b, c, d)
<1>1. PICK x \in Texts : x = a \o b
  BY ConcatText
<1>2. Same3(x, c, d)
  BY Regroup3
<1>3. PICK y \in Texts : y = c \o d
  BY ConcatText
<1>4. Same3(a, b, y)
  BY Regroup3
<1> QED BY <1>1, <1>2, <1>3, <1>4, Zenon DEF Same3, Same4
(* The first of five texts, and the rest. *)
LEMMA Regroup5 ==
  ASSUME NEW a \in Texts, NEW b \in Texts, NEW c \in Texts, NEW d \in Texts, NEW e \in Texts
  PROVE  Same5(a, b, c, d, e)
<1>1. PICK x \in Texts : x = a \o b
  BY ConcatText
<1>2. Same4(x, c, d, e)
  BY Regroup4
<1>3. PICK y \in Texts : y = c \o (d \o e)
  <2>1. d \o e \in Texts
    BY ConcatText
  <2>2. c \o (d \o e) \in Texts
    BY ConcatText, <2>1
  <2> QED BY <2>2
<1>4. Same3(a, b, y)
  BY Regroup3
<1> QED BY <1>1, <1>2, <1>3, <1>4, Zenon DEF Same3, Same4, Same5
(* The first of six texts, and the rest. *)
LEMMA Regroup6 ==
  ASSUME NEW a \in Texts, NEW b \in Texts, NEW c \in Texts, NEW d \in Texts, NEW e \in Texts, NEW f \in Texts
  PROVE  Same6(a, b, c, d, e, f)
<1>1. PICK x \in Texts : x = a \o b
  BY ConcatText
<1>2. Same5(x, c, d, e, f)
  BY Regroup5
<1>3. PICK y \in Texts : y = c \o (d \o (e \o f))
  <2>1. e \o f \in Texts
    BY ConcatText
  <2>2. d \o (e \o f) \in Texts
    BY ConcatText, <2>1
  <2>3. c \o (d \o (e \o f)) \in Texts
    BY ConcatText, <2>2
  <2> QED BY <2>3
<1>4. Same3(a, b, y)
  BY Regroup3
<1> QED BY <1>1, <1>2, <1>3, <1>4, Zenon DEF Same3, Same5, Same6
(* The first of seven texts, and the rest. *)
LEMMA Regroup7 ==
  ASSUME NEW a \in Texts, NEW b \in Texts, NEW c \in Texts, NEW d \in Texts, NEW e \in Texts, NEW f \in Texts, NEW g \in Texts
  PROVE  Same7(a, b, c, d, e, f, g)
<1>1. PICK x \in Texts : x = a \o b
  BY ConcatText
<1>2. Same6(x, c, d, e, f, g)
  BY Regroup6
<1>3. PICK y \in Texts : y = c \o (d \o (e \o (f \o g)))
  <2>1. f \o g \in Texts
    BY ConcatText
  <2>2. e \o (f \o g) \in Texts
    BY ConcatText, <2>1
  <2>3. d \o (e \o (f \o g)) \in Texts
    BY ConcatText, <2>2
  <2>4. c \o (d \o (e \o (f \o g))) \in Texts
    BY ConcatText, <2>3
  <2> QED BY <2>4
<1>4. Same3(a, b, y)
  BY Regroup3
<1> QED BY <1>1, <1>2, <1>3, <1>4, Zenon DEF Same3, Same6, Same7

(* str puts them together. *)
LEMMA AssembleIs ==
  ASSUME NEW u, UrlParts(u)
  PROVE  Assemble(u) = SchemeText(u) \o FromUser(u) /\ Assemble(u) \in Texts
<1>1. PICK a : a = SchemeText(u)
  OBVIOUS
<1>2. PICK b : b = UserText(u)
  OBVIOUS
<1>3. PICK c : c = HostText(u)
  OBVIOUS
<1>4. PICK d : d = PortText(u)
  OBVIOUS
<1>5. PICK e : e = PathText(u)
  OBVIOUS
<1>6. PICK f : f = ParamsText(u)
  OBVIOUS
<1>7. PICK g : g = FragmentText(u)
  OBVIOUS
<1>8. a \in Texts /\ b \in Texts /\ c \in Texts /\ d \in Texts /\ e \in Texts /\ f \in Texts /\ g \in Texts
  BY PiecesAre, <1>1, <1>2, <1>3, <1>4, <1>5, <1>6, <1>7
<1>10. ((((((a \o b) \o c) \o d) \o e) \o f) \o g) = a \o (b \o (c \o (d \o (e \o (f \o g)))))
  <2>1. Same7(a, b, c, d, e, f, g)
    BY <1>8, Regroup7
  <2> QED BY <2>1, Zenon DEF Same7
<1>11. Assemble(u) = ((((((a \o b) \o c) \o d) \o e) \o f) \o g)
  <2>1. Assemble(u) = SchemeText(u) \o UserText(u) \o HostText(u) \o PortText(u) \o PathText(u) \o ParamsText(u) \o FragmentText(u)
    BY Zenon DEF Assemble, SchemeText, UserText, PasswdText, HostText, PortText, PathText, ParamsText, FragmentText, QueryText
  <2> QED BY <2>1, <1>1, <1>2, <1>3, <1>4, <1>5, <1>6, <1>7, Zenon
<1>12. FromUser(u) = b \o (c \o (d \o (e \o (f \o g))))
  BY <1>2, <1>3, <1>4, <1>5, <1>6, <1>7, Zenon DEF FromUser, FromHost, FromPort, FromPath, FromParamsOn
<1>13. Assemble(u) = SchemeText(u) \o FromUser(u)
  BY <1>1, <1>10, <1>11, <1>12, Zenon
<1>14. SchemeText(u) \o FromUser(u) \in Texts
  BY PiecesAre, ConcatText
<1> QED BY <1>13, <1>14

-----------------------------------------------------------------------------
(* How many tokens of what str wrote each group takes. *)
LEMMA MinIs ==
  ASSUME NEW S \in SUBSET Nat, NEW m \in S, \A l \in S : m <= l
  PROVE  Min(S) = m
<1> DEFINE x == Min(S)
<1>1. x \in S /\ \A l \in S : x <= l
  BY MinLeast
<1> HIDE DEF x
<1>2. x <= m /\ m <= x /\ x \in Nat /\ m \in Nat
  BY <1>1
<1>3. x = m
  BY <1>2
<1> QED BY <1>3 DEF x

(* Nothing in front of a text. *)
LEMMA NothingInFront == ASSUME NEW t \in Texts PROVE <<>> \o t = t
  BY ConcatEmptySeq DEF Texts

(* The rest when nothing is taken. *)
LEMMA RestNone == ASSUME NEW t \in Texts PROVE Rest(t, 0) = t
<1>1. <<>> \in Texts /\ Len(<<>>) = 0 /\ <<>> \o t = t
  BY NothingInFront DEF Texts
<1>2. Rest(<<>> \o t, Len(<<>>)) = t
  BY <1>1, RestOfConcat
<1> QED BY <1>1, <1>2, Zenon

(* The fragment is all that is left. *)
LEMMA FragmentTakes ==
  ASSUME NEW u, UrlParts(u)
  PROVE  LET t == FragmentText(u) IN
         /\ u.fragment = "" => t = <<>>
         /\ u.fragment # "" => Len(t) = 2 /\ t[1] = "#" /\ t[2] = u.fragment /\ t # <<>>
         /\ t = <<>> \/ t[1] = "#"
<1>1. CASE u.fragment = ""
  BY <1>1, Zenon DEF FragmentText, Opt
<1>2. CASE u.fragment # ""
  <2>1. FragmentText(u) = <<"#", u.fragment>>
    BY <1>2, Zenon DEF FragmentText, Opt
  <2>2. "#" \in UrlToken /\ u.fragment \in UrlToken
    BY TokensAre, MarksAre, PartsAre
  <2>3. PICK t : t = <<"#", u.fragment>>
    OBVIOUS
  <2>4. Len(t) = 2 /\ t[1] = "#" /\ t[2] = u.fragment /\ Len(<<>>) = 0
    BY <2>2, <2>3, ShortTexts
  <2>5. t # <<>>
    BY <2>4
  <2> QED BY <1>2, <2>1, <2>3, <2>4, <2>5, Zenon
<1> QED BY <1>1, <1>2

(* The parameters are up to the fragment. *)
LEMMA QueryTakes ==
  ASSUME NEW u, UrlParts(u)
  PROVE  LET t == FromParamsOn(u)  n == QueryOf(t) IN
         /\ n \in Nat /\ n <= Len(t) /\ Rest(t, n) = FragmentText(u)
         /\ n > 0 <=> DOMAIN u.params # {}
         /\ n > 0 => SubSeq(t, 2, n) = QueryText(u.params)
         /\ t = <<>> \/ t[1] \in {"?", "#"}
<1> DEFINE p == ParamsText(u)
           f == FragmentText(u)
           t == FromParamsOn(u)
           n == QueryOf(t)
           q == QueryText(u.params)
<1>1. p \in Texts /\ f \in Texts /\ t \in Texts /\ t = p \o f
  BY PiecesAre DEF FromParamsOn
<1>2. f = <<>> \/ f[1] = "#"
  BY FragmentTakes
<1>3. /\ Len(t) = Len(p) + Len(f) /\ Len(p) \in Nat /\ Len(f) \in Nat
      /\ \A i \in 1..Len(p) + Len(f) : t[i] = IF i <= Len(p) THEN p[i] ELSE f[i - Len(p)]
  BY <1>1, ConcatText
<1>4. CASE DOMAIN u.params = {}
  <2>1. p = <<>>
    BY <1>4, Zenon DEF ParamsText, Opt
  <2>2. t = f
    BY <1>1, <2>1, NothingInFront
  <2> HIDE DEF t, f, p
  <2>3. n = 0
    BY <1>2, <2>2 DEF QueryOf
  <2>4. Len(t) \in Nat
    BY <1>1 DEF Texts
  <2>5. Rest(t, 0) = f
    BY <1>1, <2>2, RestNone
  <2>6. n \in Nat /\ n <= Len(t) /\ ~(n > 0) /\ Rest(t, n) = f /\ (t = <<>> \/ t[1] \in {"?", "#"})
    BY <1>2, <2>2, <2>3, <2>4, <2>5
  <2> HIDE DEF n
  <2> QED BY <1>4, <2>6 DEF n, t, f
<1>5. CASE DOMAIN u.params # {}
  <2>1. u.params \in UrlParamSet
    BY PartsAre
  <2>2. q \in Texts /\ Len(q) \in Nat /\ Len(q) >= 2 /\ \A k \in 1..Len(q) : q[k] # "#"
    BY <1>5, <2>1, QueryIs
  <2>3. p = <<"?">> \o q /\ "?" \in UrlToken
    BY <1>5, TokensAre, MarksAre, Zenon DEF ParamsText, Opt
  <2> HIDE DEF q
  <2>4. Len(p) = Len(q) + 1 /\ p[1] = "?" /\ \A k \in 1..Len(q) : p[k + 1] = q[k]
    <3>1. /\ Len(<<"?">> \o q) = Len(q) + 1 /\ (<<"?">> \o q)[1] = "?"
          /\ \A k \in 1..Len(q) : (<<"?">> \o q)[k + 1] = q[k]
      BY <2>2, <2>3, OneThen
    <3> HIDE DEF p
    <3> QED BY <2>3, <3>1, Zenon
  <2> HIDE DEF p, f, t
  <2> DEFINE a == Len(q)  b == Len(p)  c == Len(f)  d == Len(t)
  <2>5. a \in Nat /\ b \in Nat /\ c \in Nat /\ d \in Nat /\ a >= 2 /\ b = a + 1 /\ d = b + c
    <3> HIDE DEF a, b, c, d
    <3>1. a \in Nat /\ b \in Nat /\ c \in Nat /\ a >= 2 /\ b = a + 1 /\ d = b + c
      BY <1>3, <2>2, <2>4, Zenon DEF a, b, c, d
    <3> QED BY <3>1
  <2> DEFINE S == {i \in 2..Len(t) : t[i] = "#"} \cup {Len(t) + 1}
  <2>6. \A k \in 1..a : t[k + 1] = q[k]
    <3> SUFFICES ASSUME NEW k \in 1..a PROVE t[k + 1] = q[k]
      OBVIOUS
    <3> HIDE DEF a, b, c, d
    <3>1. k + 1 \in 1..b + c /\ k + 1 <= b
      BY <2>5
    <3>2. t[k + 1] = p[k + 1]
      BY <1>3, <3>1 DEF b, c
    <3> QED BY <2>4, <3>2 DEF a
  <2>7. c # 0 => t[b + 1] = "#"
    <3> HIDE DEF a, d
    <3>1. ASSUME c # 0 PROVE b + 1 \in 1..b + c /\ ~(b + 1 <= b) /\ (b + 1) - b = 1
      <4> HIDE DEF b, c
      <4> QED BY <2>5, <3>1
    <3>2. c # 0 => f[1] = "#"
      <4>1. Len(<<>>) = 0
        OBVIOUS
      <4> QED BY <1>2, <4>1
    <3> QED BY <1>3, <3>1, <3>2
  <2>8. t[1] = "?"
    <3>1. 1 \in 1..b + c /\ 1 <= b
      <4> HIDE DEF a, b, c, d
      <4> QED BY <2>5
    <3> QED BY <1>3, <2>4, <3>1
  <2>9. Min(S) = b + 1
    <3>1. S \in SUBSET Nat
      <4>1. \A i \in 2..d : i \in Nat
        <5> HIDE DEF a, b, c, d
        <5> QED BY <2>5
      <4> QED BY <2>5, <4>1
    <3>2. b + 1 \in S
      <4>1. CASE c = 0
        BY <2>5, <4>1
      <4>2. CASE c # 0
        <5>1. b + 1 \in 2..d
          <6> HIDE DEF a, b, c, d
          <6> QED BY <2>5, <4>2
        <5> QED BY <2>7, <4>2, <5>1
      <4> QED BY <4>1, <4>2
    <3>3. ASSUME NEW l \in S PROVE b + 1 <= l
      <4>1. CASE l = d + 1
        <5> HIDE DEF a, b, c, d
        <5> QED BY <2>5, <4>1
      <4>2. CASE l \in 2..d /\ t[l] = "#"
        <5>1. ASSUME l <= b PROVE FALSE
          <6>1. l - 1 \in 1..a /\ (l - 1) + 1 = l
            <7> HIDE DEF a, b, c, d
            <7> QED BY <2>5, <4>2, <5>1
          <6>2. t[l] = q[l - 1]
            BY <2>6, <6>1
          <6> QED BY <2>2, <4>2, <6>1, <6>2
        <5> HIDE DEF a, b, c, d
        <5> QED BY <2>5, <4>2, <5>1
      <4> QED BY <4>1, <4>2
    <3> HIDE DEF S, a, b, c, d
    <3> QED BY <3>1, <3>2, <3>3, MinIs
  <2>10. n = b
    <3>1. t # <<>>
      <4>1. d # 0
        <5> HIDE DEF a, b, c, d
        <5> QED BY <2>5
      <4> QED BY <4>1
    <3>2. n = IF t # <<>> /\ t[1] = "?" /\ Min(S) > 2 THEN Min(S) - 1 ELSE 0
      BY DEF QueryOf
    <3> HIDE DEF n, S, a, b, c, d
    <3>3. b + 1 > 2 /\ (b + 1) - 1 = b
      BY <2>5
    <3> QED BY <2>8, <2>9, <3>1, <3>2, <3>3
  <2>11. Rest(t, b) = f
    BY <1>1, RestOfConcat
  <2>12. SubSeq(t, 2, b) = q
    <3> DEFINE r == SubSeq(t, 2, b)
    <3>0. 2 \in Nat \ {0} /\ b <= d /\ 2 <= b /\ b - 2 + 1 = a
      <4> HIDE DEF a, b, c, d
      <4> QED BY <2>5
    <3>1. /\ r \in Texts /\ Len(r) = (IF 2 <= b THEN b - 2 + 1 ELSE 0)
          /\ \A j \in 1..b - 2 + 1 : r[j] = t[2 + j - 1]
      BY <1>1, <2>5, <3>0, PartOfText
    <3> HIDE DEF r
    <3>2. Len(r) = a /\ \A j \in 1..a : r[j] = t[2 + j - 1]
      BY <3>0, <3>1
    <3>3. ASSUME NEW j \in 1..a PROVE r[j] = q[j]
      <4>1. 2 + j - 1 = j + 1
        OBVIOUS
      <4> QED BY <2>6, <3>2, <4>1
    <3>4. r = q
      BY <2>2, <3>1, <3>2, <3>3, SeqEqual DEF Texts
    <3> QED BY <3>4 DEF r
  <2>13. b \in Nat /\ b <= d /\ b > 0
    <3> HIDE DEF a, b, c, d
    <3> QED BY <2>5
  <2> HIDE DEF n, a
  <2> QED BY <1>5, <2>8, <2>10, <2>11, <2>12, <2>13 DEF n, t, f, q
<1> QED BY <1>4, <1>5

(* The path is up to the parameters. *)
LEMMA PathTakes ==
  ASSUME NEW u, UrlParts(u), u.path # <<>> => u.path[1] = "/"
  PROVE  LET t == FromPath(u)  n == PathOf(t) IN
         /\ n \in Nat /\ n <= Len(t) /\ SubSeq(t, 1, n) = u.path /\ Rest(t, n) = FromParamsOn(u)
         /\ t = <<>> \/ t[1] \in {"/", "?", "#"}
<1> DEFINE p == u.path
           r == FromParamsOn(u)
           t == FromPath(u)
           n == PathOf(t)
<1>1. p \in Texts /\ r \in Texts /\ t \in Texts /\ Without(p, {"?", "#"}) /\ (r = <<>> \/ r[1] \in {"?", "#"})
  BY PartsAre, PiecesAre, QueryTakes
<1>2. PathText(u) = p
  <2>1. CASE p = <<>>
    BY <2>1, Zenon DEF PathText, Opt
  <2>2. CASE p # <<>>
    <3>1. PathText(u) = <<>> \o p
      BY <2>2, Zenon DEF PathText, Opt
    <3> QED BY <1>1, <3>1, NothingInFront, Zenon
  <2> QED BY <2>1, <2>2
<1>3. t = p \o r
  BY <1>2, Zenon DEF FromPath
<1> HIDE DEF p, r, t
<1>4. /\ Len(t) = Len(p) + Len(r) /\ Len(p) \in Nat /\ Len(r) \in Nat
      /\ \A i \in 1..Len(p) + Len(r) : t[i] = IF i <= Len(p) THEN p[i] ELSE r[i - Len(p)]
  BY <1>1, <1>3, ConcatText
<1> DEFINE a == Len(p)  c == Len(r)  d == Len(t)
           S == {i \in 1..Len(t) : t[i] \in {"?", "#"}} \cup {Len(t) + 1}
<1>5. a \in Nat /\ c \in Nat /\ d \in Nat /\ d = a + c /\ a <= d
  <2> HIDE DEF a, c, d
  <2>1. a \in Nat /\ c \in Nat /\ d = a + c
    BY <1>4, Zenon DEF a, c, d
  <2> QED BY <2>1
<1>6. c # 0 => r # <<>> /\ r[1] \in {"?", "#"} /\ t[a + 1] = r[1] /\ a + 1 \in 1..d
  <2> SUFFICES ASSUME c # 0 PROVE r # <<>> /\ r[1] \in {"?", "#"} /\ t[a + 1] = r[1] /\ a + 1 \in 1..d
    OBVIOUS
  <2>1. Len(<<>>) = 0
    OBVIOUS
  <2>2. r # <<>> /\ r[1] \in {"?", "#"}
    BY <1>1, <2>1
  <2>3. a + 1 \in 1..a + c /\ ~(a + 1 <= a) /\ (a + 1) - a = 1 /\ a + 1 \in 1..d
    <3> HIDE DEF a, c, d
    <3> QED BY <1>5
  <2> QED BY <1>4, <2>2, <2>3
<1>7. ASSUME NEW i \in 1..d, i <= a PROVE t[i] = p[i] /\ i \in 1..a
  <2>1. i \in 1..a + c /\ i \in 1..a
    <3> HIDE DEF a, c, d
    <3> QED BY <1>5, <1>7
  <2> QED BY <1>4, <1>7, <2>1
<1>8. Min(S) = a + 1
  <2>1. S \in SUBSET Nat
    <3>1. \A i \in 1..d : i \in Nat
      OBVIOUS
    <3> QED BY <1>5, <3>1
  <2>2. a + 1 \in S
    <3>1. c = 0 => a + 1 = d + 1
      <4> HIDE DEF a, c, d
      <4> QED BY <1>5
    <3> QED BY <1>6, <3>1
  <2>3. ASSUME NEW l \in S PROVE a + 1 <= l
    <3>1. CASE l = d + 1
      <4> HIDE DEF a, c, d
      <4> QED BY <1>5, <3>1
    <3>2. CASE l \in 1..d /\ t[l] \in {"?", "#"}
      <4>1. ~(l <= a)
        BY <1>1, <1>7, <3>2 DEF Without
      <4> HIDE DEF a, c, d
      <4> QED BY <1>5, <3>2, <4>1
    <3> QED BY <3>1, <3>2
  <2> HIDE DEF S, a, c, d
  <2> QED BY <2>1, <2>2, <2>3, MinIs
<1>9. n = a
  <2>1. n = Min(S) - 1
    BY DEF PathOf
  <2> HIDE DEF n, S, a, c, d
  <2> QED BY <1>5, <1>8, <2>1
<1>10. SubSeq(t, 1, a) = p /\ Rest(t, a) = r
  BY <1>1, <1>3, RestOfConcat, FrontOfConcat
<1>11. t = <<>> \/ t[1] \in {"/", "?", "#"}
  <2>1. CASE a = 0
    <3>1. CASE c = 0
      <4>1. Len(t) = 0
        BY <1>5, <2>1, <3>1
      <4>2. t = <<>>
        BY <1>1, <4>1, EmptySeq DEF Texts
      <4> QED BY <4>2
    <3>2. CASE c # 0
      <4>1. a + 1 = 1
        BY <2>1
      <4> HIDE DEF a, c, d
      <4> QED BY <1>6, <3>2, <4>1
    <3> QED BY <3>1, <3>2
  <2>2. CASE a # 0
    <3>1. p # <<>>
      <4>1. Len(<<>>) = 0
        OBVIOUS
      <4> QED BY <2>2, <4>1
    <3>2. p[1] = "/"
      BY <3>1 DEF p
    <3>3. 1 \in 1..d /\ 1 <= a
      <4> HIDE DEF a, c, d
      <4> QED BY <1>5, <2>2
    <3> QED BY <1>7, <3>2, <3>3
  <2> QED BY <2>1, <2>2
<1> HIDE DEF n
<1> QED BY <1>5, <1>9, <1>10, <1>11 DEF n, t, p, r

(* The host, with its port, is up to the path. *)
PortOfHost(u) == u.port # "" => u.host # ""
(* The group of host and port takes what str wrote of them. *)
LEMMA HostTakes ==
  ASSUME NEW u, UrlParts(u), u.path # <<>> => u.path[1] = "/", PortOfHost(u)
  PROVE  LET t == FromHost(u)  n == HostOf(t) IN
         /\ n \in Nat /\ n <= Len(t) /\ Rest(t, n) = FromPath(u)
         /\ n > 0 <=> u.host # ""
         /\ n > 0 => t[1] = u.host
         /\ n < 3 <=> u.port = ""
         /\ u.port # "" => t[3] = u.port
         /\ SchemeOf(t) = 0
<1> DEFINE t == FromHost(u)
           r == FromPath(u)
           n == HostOf(t)
           h == u.host
           o == u.port
<1>1. r \in Texts /\ t \in Texts /\ h \in UrlToken /\ o \in UrlToken /\ Len(r) \in Nat
  <2>1. r \in Texts /\ t \in Texts
    BY PiecesAre
  <2>2. Len(r) \in Nat
    <3> HIDE DEF r
    <3> QED BY <2>1 DEF Texts
  <2> QED BY <2>1, <2>2, PartsAre, Zenon
<1>8. IsWord(h) /\ (o = "" \/ IsNumeral(o)) /\ (r = <<>> \/ r[1] \in {"/", "?", "#"})
  BY PartsAre, PathTakes, Zenon
<1>2. t = HostText(u) \o (PortText(u) \o r)
  BY DEF FromHost, FromPort
<1>3. ~IsWord("/") /\ ~IsWord("?") /\ ~IsWord("#")
  BY MarksAre, TokensAre, Zenon DEF IsWord
<1>4. Len(<<>>) = 0 /\ Rest(r, 0) = r
  BY <1>1, RestNone
<1>9. ":" \in UrlToken
  BY MarksAre, TokensAre, Zenon
<1>5. CASE h = ""
  <2>1. o = ""
    BY <1>5, Zenon DEF PortOfHost
  <2>2. HostText(u) = <<>> /\ PortText(u) = <<>>
    BY <1>5, <2>1, Zenon DEF HostText, PortText, Opt
  <2>3. t = r
    <3>1. <<>> \o r = r
      BY <1>1, NothingInFront
    <3> QED BY <1>2, <2>2, <3>1, Zenon
  <2> HIDE DEF t, r
  <2>4. n = 0
    BY <1>8, <1>3, <2>3, Zenon DEF HostOf
  <2>5. SchemeOf(t) = 0
    <3>1. CASE t = <<>>
      <4>1. ~(Len(t) > 1)
        BY <1>4, <3>1
      <4> QED BY <4>1, Zenon DEF SchemeOf
    <3>2. CASE t # <<>>
      <4>1. ~IsWord(t[1])
        BY <1>8, <1>3, <2>3, <3>2
      <4> QED BY <4>1 DEF SchemeOf
    <3> QED BY <3>1, <3>2
  <2>6. Rest(t, n) = r
    BY <1>4, <2>3, <2>4
  <2> HIDE DEF n
  <2>7. n \in Nat /\ n <= Len(t) /\ ~(n > 0) /\ n < 3
    BY <1>1, <2>3, <2>4
  <2> QED BY <1>5, <2>1, <2>5, <2>6, <2>7, Zenon DEF n, t, r
<1>6. CASE h # "" /\ o = ""
  <2>1. HostText(u) = <<h>> /\ PortText(u) = <<>>
    BY <1>6, Zenon DEF HostText, PortText, Opt
  <2>2. t = <<h>> \o r
    <3>1. <<>> \o r = r
      BY <1>1, NothingInFront
    <3> QED BY <1>2, <2>1, <3>1, Zenon
  <2>3. Len(t) = Len(r) + 1 /\ t[1] = h /\ \A k \in 1..Len(r) : t[k + 1] = r[k]
    <3>1. /\ Len(<<h>> \o r) = Len(r) + 1 /\ (<<h>> \o r)[1] = h
          /\ \A k \in 1..Len(r) : (<<h>> \o r)[k + 1] = r[k]
      BY <1>1, OneThen
    <3> HIDE DEF t, r, h
    <3> QED BY <2>2, <3>1, Zenon
  <2> HIDE DEF t, r, h, o
  <2>4. Len(t) > 1 => t[2] \in {"/", "?", "#"}
    <3> SUFFICES ASSUME Len(t) > 1 PROVE t[2] \in {"/", "?", "#"}
      OBVIOUS
    <3>1. 1 \in 1..Len(r) /\ Len(r) # 0
      BY <1>1, <2>3
    <3>2. r # <<>>
      BY <1>4, <3>1
    <3>3. t[1 + 1] = r[1]
      BY <2>3, <3>1
    <3>4. r[1] \in {"/", "?", "#"}
      BY <1>8, <3>2, Zenon
    <3> QED BY <3>3, <3>4
  <2>5. t # <<>> /\ Len(t) > 0
    BY <1>1, <1>4, <2>3
  <2>6. n = 1
    <3>1. Len(t) > 2 => Len(t) > 1
      BY <1>1, <2>3
    <3>2. ~(Len(t) > 2 /\ t[2] = ":" /\ IsNumeral(t[3]))
      BY <2>4, <3>1
    <3> QED BY <1>8, <2>3, <2>5, <3>2, Zenon DEF HostOf
  <2>7. SchemeOf(t) = 0
    BY <2>4 DEF SchemeOf
  <2>8. Rest(t, 1) = r
    <3>1. PICK x : x = <<h>>
      OBVIOUS
    <3>2. x \in Texts /\ Len(x) = 1
      BY <1>1, <3>1, ShortTexts
    <3>3. Rest(x \o r, Len(x)) = r
      BY <1>1, <3>2, RestOfConcat
    <3> QED BY <2>2, <3>1, <3>2, <3>3
  <2> HIDE DEF n
  <2>9. n \in Nat /\ n <= Len(t) /\ n > 0 /\ n < 3
    BY <1>1, <2>3, <2>6
  <2> QED BY <1>6, <2>3, <2>6, <2>7, <2>8, <2>9, Zenon DEF n, t, r, h, o
<1>7. CASE h # "" /\ o # ""
  <2>1. HostText(u) = <<h>> /\ PortText(u) = <<":", o>>
    BY <1>7, Zenon DEF HostText, PortText, Opt
  <2>2. PICK s : s = <<":", o>> \o r
    OBVIOUS
  <2>3. s \in Texts /\ Len(s) = Len(r) + 2 /\ s[1] = ":" /\ s[2] = o
    <3>1. /\ <<":", o>> \o r \in Texts /\ Len(<<":", o>> \o r) = Len(r) + 2
          /\ (<<":", o>> \o r)[1] = ":" /\ (<<":", o>> \o r)[2] = o
      BY <1>1, <1>9, TwoThen
    <3> QED BY <2>2, <3>1, Zenon
  <2>4. t = <<h>> \o s
    BY <1>2, <2>1, <2>2, Zenon
  <2>5. Len(t) = Len(s) + 1 /\ t[1] = h /\ \A k \in 1..Len(s) : t[k + 1] = s[k]
    <3>1. /\ Len(<<h>> \o s) = Len(s) + 1 /\ (<<h>> \o s)[1] = h
          /\ \A k \in 1..Len(s) : (<<h>> \o s)[k + 1] = s[k]
      BY <1>1, <2>3, OneThen
    <3> HIDE DEF t, h
    <3> QED BY <2>4, <3>1, Zenon
  <2> HIDE DEF t, r, h, o
  <2>6. t[2] = ":" /\ t[3] = o /\ Len(t) > 2 /\ Len(t) \in Nat
    <3>1. 1 \in 1..Len(s) /\ 2 \in 1..Len(s)
      BY <1>1, <2>3
    <3>2. t[1 + 1] = s[1] /\ t[2 + 1] = s[2]
      BY <2>5, <3>1
    <3>3. Len(t) > 2 /\ Len(t) \in Nat
      BY <1>1, <2>3, <2>5
    <3> QED BY <2>3, <3>2, <3>3
  <2>7. t # <<>>
    BY <1>4, <2>6
  <2>8. n = 3
    BY <1>8, <1>7, <2>5, <2>6, <2>7, Zenon DEF HostOf
  <2>9. SchemeOf(t) = 0
    BY <2>6 DEF SchemeOf
  <2>10. Rest(t, 3) = r
    <3>1. PICK x : x = <<h>> \o <<":", o>>
      OBVIOUS
    <3>2. <<":", o>> \in Texts /\ Len(<<":", o>>) = 2 /\ <<h>> \in Texts
      BY <1>1, <1>9, ShortTexts
    <3>3. x \in Texts /\ Len(x) = 3
      <4>1. <<h>> \o <<":", o>> \in Texts /\ Len(<<h>> \o <<":", o>>) = Len(<<":", o>>) + 1
        BY <1>1, <3>2, OneThen
      <4> HIDE DEF h, o
      <4>2. Len(x) = Len(<<":", o>>) + 1 /\ x \in Texts
        BY <3>1, <4>1
      <4>3. Len(<<":", o>>) + 1 = 3
        BY <3>2
      <4> QED BY <4>2, <4>3
    <3>4. x \o r = t
      <4>1. Same3(<<h>>, <<":", o>>, r)
        BY <1>1, <3>2, Regroup3
      <4> QED BY <2>2, <2>4, <3>1, <4>1, Zenon DEF Same3
    <3>5. Rest(x \o r, Len(x)) = r
      BY <1>1, <3>3, RestOfConcat
    <3> QED BY <3>3, <3>4, <3>5
  <2> HIDE DEF n
  <2>11. n \in Nat /\ n <= Len(t) /\ n > 0 /\ ~(n < 3)
    BY <2>6, <2>8
  <2> QED BY <1>7, <2>5, <2>6, <2>8, <2>9, <2>10, <2>11, Zenon DEF n, t, r, h, o
<1> QED BY <1>5, <1>6, <1>7, Zenon

(* The user, with the password, is up to the host. *)
UserOfPasswd(u) == u.passwd # <<>> => u.user # ""
NoStrayAt(u) == u.user = "" => "@" \notin ToSet(FromUser(u))
Hosted(u) == (u.path # <<>> => u.path[1] = "/") /\ PortOfHost(u)

HasUser(u) == u.user # ""
(* What str wrote of the user: the "@" is the last token, ":" before a password. *)
LEMMA UserPiece ==
  ASSUME NEW u, UrlParts(u), HasUser(u)
  PROVE  LET t == FromUser(u)  p == u.passwd  a == Len(UserText(u)) IN
         /\ p = <<>> => a = 2
         /\ p # <<>> => /\ a = Len(p) + 3 /\ Len(p) \in Nat /\ a > 3 /\ t[2] = ":"
                        /\ \A k \in 1..Len(p) : t[k + 2] = p[k]
         /\ a \in Nat /\ a <= Len(t) /\ Len(t) \in Nat /\ t[1] = u.user /\ t[a] = "@"
         /\ Rest(t, a) = FromHost(u)
<1> DEFINE n == u.user
           p == u.passwd
           r == FromHost(u)
           w == UserText(u)
           t == FromUser(u)
<1>1. n \in UrlToken /\ p \in Texts /\ r \in Texts /\ w \in Texts /\ t \in Texts
  BY PartsAre, PiecesAre
<1>2. ":" \in UrlToken /\ "@" \in UrlToken
  BY MarksAre, TokensAre, Zenon
<1>3. PICK e : e = <<"@">>
  OBVIOUS
<1>4. e \in Texts /\ Len(e) = 1 /\ e[1] = "@"
  BY <1>2, <1>3, ShortTexts
<1>5. PICK y : y = PasswdText(u)
  OBVIOUS
<1>6. PICK x : x = <<n>> \o y
  OBVIOUS
<1>7. w = x \o e /\ t = w \o r
  BY <1>3, <1>5, <1>6, Zenon DEF UserText, Opt, FromUser, HasUser
<1>8. CASE p = <<>>
  <2>1. y = <<>>
    BY <1>5, <1>8, Zenon DEF PasswdText, Opt
  <2> HIDE DEF n, p, r, w, t
  <2>2. <<>> \in Texts /\ Len(<<>>) = 0
    BY DEF Texts
  <2>3. x \in Texts /\ Len(x) = 1 /\ x[1] = n
    <3>1. <<n>> \o <<>> \in Texts /\ Len(<<n>> \o <<>>) = Len(<<>>) + 1 /\ (<<n>> \o <<>>)[1] = n
      BY <1>1, <2>2, OneThen
    <3>2. x = <<n>> \o <<>>
      BY <1>6, <2>1, Zenon
    <3> QED BY <2>2, <3>1, <3>2
  <2>4. /\ Len(w) = Len(x) + Len(e)
        /\ \A i \in 1..Len(x) + Len(e) : w[i] = IF i <= Len(x) THEN x[i] ELSE e[i - Len(x)]
    BY <1>4, <1>7, <2>3, ConcatText, Zenon
  <2>5. Len(w) = 2 /\ w[1] = n /\ w[2] = "@"
    BY <1>4, <2>3, <2>4
  <2>6. /\ Len(t) = Len(w) + Len(r) /\ Len(r) \in Nat
        /\ \A i \in 1..Len(w) + Len(r) : t[i] = IF i <= Len(w) THEN w[i] ELSE r[i - Len(w)]
    BY <1>1, <1>7, ConcatText, Zenon
  <2>7. t[1] = n /\ t[2] = "@" /\ 2 <= Len(t) /\ Len(t) \in Nat
    BY <2>5, <2>6
  <2>8. Rest(t, Len(w)) = r
    BY <1>1, <1>7, RestOfConcat, Zenon
  <2> QED BY <1>8, <2>5, <2>7, <2>8 DEF n, p, r, w, t
<1>9. CASE p # <<>>
  <2>1. y = <<":">> \o p
    BY <1>5, <1>9, Zenon DEF PasswdText, Opt
  <2>2. y \in Texts /\ Len(y) = Len(p) + 1 /\ Len(p) \in Nat /\ y[1] = ":" /\ \A k \in 1..Len(p) : y[k + 1] = p[k]
    <3>1. /\ <<":">> \o p \in Texts /\ Len(<<":">> \o p) = Len(p) + 1 /\ Len(p) \in Nat /\ (<<":">> \o p)[1] = ":"
          /\ \A k \in 1..Len(p) : (<<":">> \o p)[k + 1] = p[k]
      BY <1>1, <1>2, OneThen
    <3> QED BY <2>1, <3>1, Zenon
  <2>3. x \in Texts /\ Len(x) = Len(y) + 1 /\ x[1] = n /\ \A k \in 1..Len(y) : x[k + 1] = y[k]
    <3>1. /\ <<n>> \o y \in Texts /\ Len(<<n>> \o y) = Len(y) + 1 /\ (<<n>> \o y)[1] = n
          /\ \A k \in 1..Len(y) : (<<n>> \o y)[k + 1] = y[k]
      BY <1>1, <2>2, OneThen
    <3> QED BY <1>6, <3>1, Zenon
  <2> HIDE DEF n, p, r, w, t
  <2>4. /\ Len(w) = Len(x) + Len(e)
        /\ \A i \in 1..Len(x) + Len(e) : w[i] = IF i <= Len(x) THEN x[i] ELSE e[i - Len(x)]
    BY <1>4, <1>7, <2>3, ConcatText, Zenon
  <2>5. /\ Len(t) = Len(w) + Len(r) /\ Len(r) \in Nat
        /\ \A i \in 1..Len(w) + Len(r) : t[i] = IF i <= Len(w) THEN w[i] ELSE r[i - Len(w)]
    BY <1>1, <1>7, ConcatText, Zenon
  <2> DEFINE b == Len(p)
  <2>6. Len(p) = b /\ b \in Nat /\ Len(y) = b + 1 /\ Len(x) = b + 2 /\ Len(w) = b + 3 /\ b > 0
    <3>1. Len(p) # 0
      BY <1>1, <1>9, EmptySeq DEF Texts
    <3> HIDE DEF b
    <3> QED BY <1>4, <2>2, <2>3, <2>4, <3>1 DEF b
  <2> HIDE DEF b
  <2>7. w[1] = n /\ w[2] = ":" /\ w[b + 3] = "@" /\ \A k \in 1..b : w[k + 2] = p[k]
    <3>1. w[1] = n
      BY <1>4, <2>3, <2>4, <2>6
    <3>2. w[2] = ":"
      <4>1. 2 \in 1..Len(x) + Len(e) /\ 2 <= Len(x) /\ 1 \in 1..Len(y)
        BY <1>4, <2>6
      <4>2. w[2] = x[2] /\ x[1 + 1] = y[1]
        BY <2>3, <2>4, <4>1
      <4> QED BY <2>2, <4>2
    <3>3. w[b + 3] = "@"
      <4>1. b + 3 \in 1..Len(x) + Len(e) /\ ~(b + 3 <= Len(x)) /\ (b + 3) - Len(x) = 1
        BY <1>4, <2>6
      <4> QED BY <1>4, <2>4, <4>1
    <3>4. ASSUME NEW k \in 1..b PROVE w[k + 2] = p[k]
      <4>1. k + 2 \in 1..Len(x) + Len(e) /\ k + 2 <= Len(x) /\ k + 1 \in 1..Len(y) /\ (k + 1) + 1 = k + 2
        BY <1>4, <2>6
      <4>2. w[k + 2] = x[k + 2]
        BY <2>4, <4>1
      <4>3. x[(k + 1) + 1] = y[k + 1] /\ y[k + 1] = p[k]
        BY <2>2, <2>3, <2>6, <4>1
      <4> QED BY <4>1, <4>2, <4>3
    <3> QED BY <3>1, <3>2, <3>3, <3>4
  <2>8. ASSUME NEW i \in 1..b + 3 PROVE t[i] = w[i]
    <3>1. i \in 1..Len(w) + Len(r) /\ i <= Len(w)
      BY <2>5, <2>6
    <3> QED BY <2>5, <3>1
  <2>9. t[1] = n /\ t[2] = ":" /\ t[b + 3] = "@"
    <3>1. 1 \in 1..b + 3 /\ 2 \in 1..b + 3 /\ b + 3 \in 1..b + 3
      BY <2>6
    <3> QED BY <2>7, <2>8, <3>1
  <2>10. ASSUME NEW k \in 1..b PROVE t[k + 2] = p[k]
    <3>1. k + 2 \in 1..b + 3
      BY <2>6
    <3> QED BY <2>7, <2>8, <3>1
  <2>11. b + 3 > 3 /\ b + 3 <= Len(t) /\ Len(t) \in Nat /\ b + 3 \in Nat
    BY <2>5, <2>6
  <2>12. Rest(t, Len(w)) = r
    BY <1>1, <1>7, RestOfConcat, Zenon
  <2> QED BY <1>9, <2>6, <2>9, <2>10, <2>11, <2>12 DEF n, p, r, w, t
<1> QED BY <1>8, <1>9

(* The group of the user takes what str wrote of it, and nothing if there is none. *)
LEMMA UserTakes ==
  ASSUME NEW u, UrlParts(u), UserOfPasswd(u), NoStrayAt(u)
  PROVE  LET t == FromUser(u)  n == UserInfoOf(t) IN
         /\ n \in Nat /\ n <= Len(t) /\ Rest(t, n) = FromHost(u)
         /\ n > 0 <=> HasUser(u)
         /\ n > 0 => t[1] = u.user
         /\ n > 2 <=> u.passwd # <<>>
         /\ n > 2 => SubSeq(t, 3, n - 1) = u.passwd
<1> DEFINE t == FromUser(u)
           n == UserInfoOf(t)
           r == FromHost(u)
           p == u.passwd
           S == {i \in 1..Len(t) : t[i] = "@"}
<1>1. t \in Texts /\ r \in Texts /\ p \in Texts /\ IsWord(u.user) /\ ~IsNumeral(u.user) /\ Without(p, {"@"})
  BY PartsAre, PiecesAre, Zenon
<1>2. Len(t) \in Nat
  <2> HIDE DEF t
  <2> QED BY <1>1 DEF Texts
<1>3. n = IF S # {} /\ Min(S) > 1 /\ IsWord(t[1]) /\ ~IsNumeral(t[1]) /\ (Min(S) = 2 \/ (Min(S) > 3 /\ t[2] = ":"))
          THEN Min(S) ELSE 0
  BY Zenon DEF UserInfoOf
<1>4. CASE ~HasUser(u)
  <2>1. t = r
    <3>1. UserText(u) = <<>>
      BY <1>4, Zenon DEF HasUser, UserText, Opt
    <3>2. <<>> \o r = r
      BY <1>1, NothingInFront
    <3> QED BY <3>1, <3>2, Zenon DEF FromUser
  <2>2. p = <<>> /\ "@" \notin ToSet(t)
    BY <1>4, Zenon DEF HasUser, UserOfPasswd, NoStrayAt
  <2>3. Rest(r, 0) = r
    BY <1>1, RestNone
  <2> HIDE DEF t, r, n, p
  <2>4. S = {}
    BY <1>1, <2>2 DEF ToSet, Texts
  <2>5. n = 0
    BY <1>3, <2>4, Zenon
  <2>6. n \in Nat /\ n <= Len(t) /\ ~(n > 0) /\ ~(n > 2) /\ Rest(t, n) = r
    BY <1>2, <2>1, <2>3, <2>5
  <2> QED BY <1>4, <2>2, <2>6, Zenon DEF t, r, n, p
<1>5. CASE HasUser(u)
  <2> DEFINE a == Len(UserText(u))
  <2>1. /\ p = <<>> => a = 2
        /\ p # <<>> => /\ a = Len(p) + 3 /\ Len(p) \in Nat /\ a > 3 /\ t[2] = ":"
                       /\ \A k \in 1..Len(p) : t[k + 2] = p[k]
        /\ a \in Nat /\ a <= Len(t) /\ Len(t) \in Nat /\ t[1] = u.user /\ t[a] = "@"
        /\ Rest(t, a) = r
    BY <1>5, UserPiece
  <2>2. t[1] # "@" /\ IsWord(t[1]) /\ ~IsNumeral(t[1])
    BY <1>1, <2>1, MarksAre, Zenon DEF IsWord
  <2> HIDE DEF t, r, n, p, a
  <2>3. a \in Nat /\ a >= 2 /\ a <= Len(t)
    BY <2>1
  <2>4. a \in S /\ S \in SUBSET Nat
    BY <1>2, <2>1, <2>3
  <2>5. ASSUME NEW l \in S PROVE a <= l
    <3>0. l \in 1..Len(t) /\ l \in Nat /\ t[l] = "@"
      BY <1>2
    <3> HIDE DEF S
    <3>1. l # 1
      BY <2>2, <3>0
    <3>2. CASE p = <<>>
      BY <1>2, <2>1, <3>0, <3>1, <3>2
    <3>3. CASE p # <<>>
      <4>1. /\ a = Len(p) + 3 /\ Len(p) \in Nat /\ t[2] = ":" /\ \A k \in 1..Len(p) : t[k + 2] = p[k]
        BY <2>1, <3>3
      <4>2. l # 2
        BY <3>0, <4>1
      <4>3. ASSUME l < a PROVE FALSE
        <5>1. l - 2 \in 1..Len(p) /\ (l - 2) + 2 = l
          BY <1>2, <3>0, <3>1, <4>1, <4>2, <4>3
        <5>2. t[l] = p[l - 2]
          BY <4>1, <5>1
        <5> QED BY <1>1, <3>0, <5>1, <5>2 DEF Without
      <4> QED BY <2>3, <3>0, <4>3
    <3> QED BY <3>2, <3>3
  <2>6. Min(S) = a
    <3> HIDE DEF S
    <3> QED BY <2>4, <2>5, MinIs
  <2>7. S # {}
    BY <2>4
  <2>8. a > 1 /\ (a = 2 \/ (a > 3 /\ t[2] = ":"))
    BY <2>1, <2>3
  <2>9. n = a
    BY <1>3, <2>2, <2>6, <2>7, <2>8, Zenon
  <2>10. a > 0 /\ (a > 2 <=> p # <<>>)
    BY <2>1
  <2>11. ASSUME p # <<>> PROVE SubSeq(t, 3, a - 1) = p
    <3> DEFINE x == SubSeq(t, 3, a - 1)
    <3>1. /\ a = Len(p) + 3 /\ Len(p) \in Nat /\ \A k \in 1..Len(p) : t[k + 2] = p[k]
      BY <2>1, <2>11
    <3>2. 3 \in Nat \ {0} /\ a - 1 \in Nat /\ a - 1 <= Len(t)
      BY <1>2, <2>3
    <3>3. /\ x \in Texts /\ Len(x) = (IF 3 <= a - 1 THEN (a - 1) - 3 + 1 ELSE 0)
          /\ \A j \in 1..(a - 1) - 3 + 1 : x[j] = t[3 + j - 1]
      BY <1>1, <3>2, PartOfText
    <3> HIDE DEF x
    <3>4. Len(x) = Len(p)
      BY <3>1, <3>3
    <3>5. ASSUME NEW j \in 1..Len(p) PROVE x[j] = p[j]
      <4>1. j \in 1..(a - 1) - 3 + 1 /\ 3 + j - 1 = j + 2
        BY <3>1
      <4> QED BY <3>1, <3>3, <4>1
    <3>6. x = p
      BY <1>1, <3>3, <3>4, <3>5, SeqEqual DEF Texts
    <3> QED BY <3>6 DEF x
  <2> QED BY <1>5, <2>1, <2>3, <2>9, <2>10, <2>11, Zenon DEF t, r, n, p
<1> QED BY <1>4, <1>5

(* What is left behind a scheme begins with none. *)
LEMMA NoScheme ==
  ASSUME NEW u, UrlParts(u), Hosted(u)
  PROVE  SchemeOf(FromUser(u)) = 0
<1> DEFINE t == FromUser(u)
<1>1. CASE ~HasUser(u)
  <2>1. UserText(u) = <<>>
    BY <1>1, Zenon DEF HasUser, UserText, Opt
  <2>2. FromHost(u) \in Texts
    BY PiecesAre
  <2>3. <<>> \o FromHost(u) = FromHost(u)
    BY <2>2, NothingInFront
  <2>4. t = FromHost(u)
    BY <2>1, <2>3, Zenon DEF FromUser
  <2>5. SchemeOf(FromHost(u)) = 0
    BY HostTakes, Zenon DEF Hosted
  <2> QED BY <2>4, <2>5
<1>2. CASE HasUser(u)
  <2>1. t[2] \in {":", "@"}
    <3>1. CASE u.passwd = <<>>
      <4>1. Len(UserText(u)) = 2 /\ t[Len(UserText(u))] = "@"
        BY <1>2, <3>1, UserPiece
      <4> QED BY <4>1
    <3>2. CASE u.passwd # <<>>
      BY <1>2, <3>2, UserPiece
    <3> QED BY <3>1, <3>2
  <2> HIDE DEF t
  <2>2. t[2] # "://"
    BY <2>1
  <2>3. SchemeOf(t) = 0
    BY <2>2, Zenon DEF SchemeOf
  <2> QED BY <2>3 DEF t
<1> QED BY <1>1, <1>2

(* The scheme is up to the user. *)
LEMMA SchemeTakes ==
  ASSUME NEW u, UrlParts(u), Hosted(u)
  PROVE  LET t == Assemble(u)  n == SchemeOf(t) IN
         /\ n \in Nat /\ n <= Len(t) /\ Rest(t, n) = FromUser(u)
         /\ n > 0 <=> u.scheme # ""
         /\ n > 0 => t[1] = u.scheme
<1> DEFINE t == Assemble(u)
           n == SchemeOf(t)
           r == FromUser(u)
           s == u.scheme
<1>1. t = SchemeText(u) \o r /\ t \in Texts /\ r \in Texts /\ SchemeText(u) \in Texts
  BY AssembleIs, PiecesAre
<1>2. s \in UrlToken /\ "://" \in UrlToken
  BY PartsAre, TokensAre, MarksAre, Zenon
<1>3. IsWord(s)
  BY PartsAre
<1>4. Len(t) \in Nat /\ Len(r) \in Nat
  <2> HIDE DEF t, r
  <2> QED BY <1>1 DEF Texts
<1>5. CASE s = ""
  <2>1. SchemeText(u) = <<>>
    BY <1>5, Zenon DEF SchemeText, Opt
  <2>2. <<>> \o r = r /\ Rest(r, 0) = r
    BY <1>1, NothingInFront, RestNone
  <2>3. t = r
    BY <1>1, <2>1, <2>2, Zenon
  <2>4. SchemeOf(r) = 0
    BY NoScheme
  <2> HIDE DEF t, r, s
  <2>5. n = 0
    BY <2>3, <2>4
  <2> HIDE DEF n
  <2>6. n \in Nat /\ n <= Len(t) /\ ~(n > 0) /\ Rest(t, n) = r
    BY <1>4, <2>2, <2>3, <2>5
  <2> QED BY <1>5, <2>6, Zenon DEF t, r, n, s
<1>6. CASE s # ""
  <2>1. SchemeText(u) = <<s, "://">>
    BY <1>6, Zenon DEF SchemeText, Opt
  <2>2. PICK h : h = <<s, "://">>
    OBVIOUS
  <2>3. h \in Texts /\ Len(h) = 2
    BY <1>2, <2>2, ShortTexts
  <2>4. /\ Len(<<s, "://">> \o r) = Len(r) + 2 /\ (<<s, "://">> \o r)[1] = s /\ (<<s, "://">> \o r)[2] = "://"
    BY <1>1, <1>2, TwoThen
  <2>5. t = h \o r
    BY <1>1, <2>1, <2>2, Zenon
  <2> HIDE DEF t, r, s
  <2>6. Len(t) = Len(r) + 2 /\ t[1] = s /\ t[2] = "://"
    BY <2>2, <2>4, <2>5, Zenon
  <2>7. Len(t) > 1
    BY <1>4, <2>6
  <2>8. n = 2
    BY <1>3, <2>6, <2>7, Zenon DEF SchemeOf
  <2>9. Rest(h \o r, Len(h)) = r
    BY <1>1, <2>3, RestOfConcat
  <2>10. Rest(t, 2) = r
    BY <2>3, <2>5, <2>9, Zenon
  <2> HIDE DEF n
  <2>11. n \in Nat /\ n <= Len(t) /\ n > 0
    BY <1>4, <2>6, <2>8
  <2> QED BY <1>6, <2>6, <2>8, <2>10, <2>11, Zenon DEF t, r, n, s
<1> QED BY <1>5, <1>6, Zenon

-----------------------------------------------------------------------------
(* What is left of what str wrote, in front of each group. *)
Readable(u) == Hosted(u) /\ UserOfPasswd(u) /\ NoStrayAt(u) /\ ~DefaultPort(u.scheme, u.port)

(* Each group of the text that str puts together is the part that it wrote. *)
LEMMA CutsAssembled ==
  ASSUME NEW u, UrlParts(u), Readable(u)
  PROVE  LET c == Cut(Assemble(u)) IN
         /\ c[1] = Assemble(u) /\ c[2] = FromUser(u) /\ c[3] = FromHost(u) /\ c[4] = FromPath(u)
         /\ c[5] = FromParamsOn(u) /\ c[6] = FragmentText(u)
<1> DEFINE c == Cut(Assemble(u))
<1>1. /\ c[1] = Assemble(u) /\ c[2] = Rest(c[1], SchemeOf(c[1])) /\ c[3] = Rest(c[2], UserInfoOf(c[2]))
      /\ c[4] = Rest(c[3], HostOf(c[3])) /\ c[5] = Rest(c[4], PathOf(c[4])) /\ c[6] = Rest(c[5], QueryOf(c[5]))
  BY CutIs
<1>2. Hosted(u) /\ UserOfPasswd(u) /\ NoStrayAt(u)
  BY Zenon DEF Readable
<1>3. Rest(Assemble(u), SchemeOf(Assemble(u))) = FromUser(u)
  BY <1>2, SchemeTakes, Zenon
<1>4. Rest(FromUser(u), UserInfoOf(FromUser(u))) = FromHost(u)
  BY <1>2, UserTakes, Zenon
<1>5. Rest(FromHost(u), HostOf(FromHost(u))) = FromPath(u)
  BY <1>2, HostTakes, Zenon DEF Hosted
<1>6. Rest(FromPath(u), PathOf(FromPath(u))) = FromParamsOn(u)
  BY <1>2, PathTakes, Zenon DEF Hosted
<1>7. Rest(FromParamsOn(u), QueryOf(FromParamsOn(u))) = FragmentText(u)
  BY QueryTakes, Zenon
<1> HIDE DEF c
<1>8. c[2] = FromUser(u)
  BY <1>1, <1>3, Zenon
<1>9. c[3] = FromHost(u)
  BY <1>1, <1>4, <1>8, Zenon
<1>10. c[4] = FromPath(u)
  BY <1>1, <1>5, <1>9, Zenon
<1>11. c[5] = FromParamsOn(u)
  BY <1>1, <1>6, <1>10, Zenon
<1>12. c[6] = FragmentText(u)
  BY <1>1, <1>7, <1>11, Zenon
<1> QED BY <1>1, <1>8, <1>9, <1>10, <1>11, <1>12, Zenon DEF c

(* The length of what a group takes. *)
LEMMA TookIs ==
  ASSUME NEW t \in Texts, NEW n \in Nat, n <= Len(t), NEW r, Rest(t, n) = r
  PROVE  Len(t) - Len(r) = n
<1>1. Len(Rest(t, n)) = Len(t) - n /\ Len(t) \in Nat
  BY RestIs
<1> QED BY <1>1

(* The parts that set makes of a text that is cut in pieces. *)
LEMMA SetPartsIs ==
  ASSUME NEW u, NEW t, t[6] = <<>> \/ (Len(t[6]) = 2 /\ t[6][1] = "#" /\ IsWord(t[6][2]))
  PROVE  LET took(i) == Len(t[i]) - Len(t[i + 1])
             scheme == IF took(1) > 0 THEN ToLower(t[1][1]) ELSE u.scheme
         IN  SetParts(u, t) =
               [scheme |-> scheme,
                user |-> IF took(2) > 0 THEN t[2][1] ELSE u.user,
                passwd |-> IF took(2) > 2 THEN SubSeq(t[2], 3, took(2) - 1) ELSE u.passwd,
                host |-> IF took(3) > 0 THEN ToLower(t[3][1]) ELSE u.host,
                port |-> IF took(3) < 3 THEN u.port ELSE IF DefaultPort(scheme, t[3][3]) THEN "" ELSE t[3][3],
                path |-> SubSeq(t[4], 1, took(4)),
                params |-> IF took(5) > 0 THEN Over(ParseParam(SubSeq(t[5], 2, took(5))), u.params) ELSE u.params,
                fragment |-> IF t[6] # <<>> THEN t[6][2] ELSE u.fragment,
                cache |-> u.cache]
BY Zenon DEF SetParts, Matches

(* A url whose text is read as it was meant is what is read from it.       *)
LEMMA ReadsAssembled ==
  ASSUME NEW u, UrlParts(u), Readable(u)
  PROVE  SetText(Blank, Assemble(u)) = [u EXCEPT !.cache = <<>>]
<1> DEFINE c == Cut(Assemble(u))
           took(i) == Len(c[i]) - Len(c[i + 1])
<1>1. SetText(Blank, Assemble(u)) = SetParts(Blank, c)
  BY SetTextIs
<1>2. /\ c[1] = Assemble(u) /\ c[2] = FromUser(u) /\ c[3] = FromHost(u) /\ c[4] = FromPath(u)
      /\ c[5] = FromParamsOn(u) /\ c[6] = FragmentText(u)
  BY CutsAssembled
<1>3. Hosted(u) /\ UserOfPasswd(u) /\ NoStrayAt(u) /\ ~DefaultPort(u.scheme, u.port)
  BY Zenon DEF Readable
<1>4. (u.path # <<>> => u.path[1] = "/") /\ PortOfHost(u)
  BY <1>3, Zenon DEF Hosted
<1> DEFINE n1 == SchemeOf(c[1])  n2 == UserInfoOf(c[2])  n3 == HostOf(c[3])  n4 == PathOf(c[4])  n5 == QueryOf(c[5])
<1>5. /\ n1 \in Nat /\ n1 <= Len(c[1]) /\ Rest(c[1], n1) = c[2]
      /\ n1 > 0 <=> u.scheme # ""
      /\ n1 > 0 => c[1][1] = u.scheme
  BY <1>2, <1>3, SchemeTakes, Zenon
<1>6. /\ n2 \in Nat /\ n2 <= Len(c[2]) /\ Rest(c[2], n2) = c[3]
      /\ n2 > 0 <=> HasUser(u)
      /\ n2 > 0 => c[2][1] = u.user
      /\ n2 > 2 <=> u.passwd # <<>>
      /\ n2 > 2 => SubSeq(c[2], 3, n2 - 1) = u.passwd
  BY <1>2, <1>3, UserTakes, Zenon
<1>7. /\ n3 \in Nat /\ n3 <= Len(c[3]) /\ Rest(c[3], n3) = c[4]
      /\ n3 > 0 <=> u.host # ""
      /\ n3 > 0 => c[3][1] = u.host
      /\ n3 < 3 <=> u.port = ""
      /\ u.port # "" => c[3][3] = u.port
  BY <1>2, <1>4, HostTakes, Zenon
<1>8. n4 \in Nat /\ n4 <= Len(c[4]) /\ SubSeq(c[4], 1, n4) = u.path /\ Rest(c[4], n4) = c[5]
  BY <1>2, <1>4, PathTakes, Zenon
<1>9. /\ n5 \in Nat /\ n5 <= Len(c[5]) /\ Rest(c[5], n5) = c[6]
      /\ n5 > 0 <=> DOMAIN u.params # {}
      /\ n5 > 0 => SubSeq(c[5], 2, n5) = QueryText(u.params)
  BY <1>2, QueryTakes, Zenon
<1>10. /\ u.fragment = "" => c[6] = <<>>
       /\ u.fragment # "" => Len(c[6]) = 2 /\ c[6][1] = "#" /\ c[6][2] = u.fragment /\ c[6] # <<>>
  BY <1>2, FragmentTakes, Zenon
<1>11. /\ c[1] \in Texts /\ c[2] \in Texts /\ c[3] \in Texts /\ c[4] \in Texts /\ c[5] \in Texts
  BY <1>2, PiecesAre, AssembleIs, Zenon
<1>12. /\ ToLower(u.scheme) = u.scheme /\ ToLower(u.host) = u.host /\ IsWord(u.fragment) /\ u.params \in UrlParamSet
  BY PartsAre
<1> HIDE DEF c, n1, n2, n3, n4, n5
<1>13. took(1) = n1 /\ took(2) = n2 /\ took(3) = n3 /\ took(4) = n4 /\ took(5) = n5
  <2>1. /\ Len(c[1]) - Len(c[2]) = n1 /\ Len(c[2]) - Len(c[3]) = n2 /\ Len(c[3]) - Len(c[4]) = n3
        /\ Len(c[4]) - Len(c[5]) = n4 /\ Len(c[5]) - Len(c[6]) = n5
    BY <1>5, <1>6, <1>7, <1>8, <1>9, <1>11, TookIs, Zenon
  <2>2. 1 + 1 = 2 /\ 2 + 1 = 3 /\ 3 + 1 = 4 /\ 4 + 1 = 5 /\ 5 + 1 = 6
    OBVIOUS
  <2> QED BY <2>1, <2>2, Zenon
<1>14. c[6] = <<>> \/ (Len(c[6]) = 2 /\ c[6][1] = "#" /\ IsWord(c[6][2]))
  BY <1>10, <1>12, Zenon
<1> DEFINE scheme == IF took(1) > 0 THEN ToLower(c[1][1]) ELSE Blank.scheme
           user == IF took(2) > 0 THEN c[2][1] ELSE Blank.user
           passwd == IF took(2) > 2 THEN SubSeq(c[2], 3, took(2) - 1) ELSE Blank.passwd
           host == IF took(3) > 0 THEN ToLower(c[3][1]) ELSE Blank.host
           port == IF took(3) < 3 THEN Blank.port ELSE IF DefaultPort(scheme, c[3][3]) THEN "" ELSE c[3][3]
           path == SubSeq(c[4], 1, took(4))
           params == IF took(5) > 0 THEN Over(ParseParam(SubSeq(c[5], 2, took(5))), Blank.params) ELSE Blank.params
           fragment == IF c[6] # <<>> THEN c[6][2] ELSE Blank.fragment
           cache == Blank.cache
<1>15. SetParts(Blank, c) =
         [scheme |-> scheme, user |-> user, passwd |-> passwd, host |-> host, port |-> port, path |-> path,
          params |-> params, fragment |-> fragment, cache |-> cache]
  BY <1>14, SetPartsIs, Zenon
<1>16. /\ Blank.scheme = "" /\ Blank.user = "" /\ Blank.passwd = <<>> /\ Blank.host = "" /\ Blank.port = ""
       /\ Blank.params = NoParams /\ Blank.fragment = "" /\ Blank.cache = <<>>
  BY Zenon DEF Blank
<1> HIDE DEF took
<1>17. scheme = u.scheme
  BY <1>5, <1>12, <1>13, <1>16, Zenon
<1>18. user = u.user
  BY <1>6, <1>13, <1>16, Zenon DEF HasUser
<1>19. passwd = u.passwd
  BY <1>6, <1>13, <1>16, Zenon
<1>20. host = u.host
  BY <1>7, <1>12, <1>13, <1>16, Zenon
<1>21. port = u.port
  <2> HIDE DEF scheme
  <2>1. CASE u.port = ""
    BY <1>7, <1>13, <1>16, <2>1, Zenon
  <2>2. CASE u.port # ""
    <3>1. ~(took(3) < 3) /\ c[3][3] = u.port
      BY <1>7, <1>13, <2>2, Zenon
    <3>2. ~DefaultPort(scheme, c[3][3])
      BY <1>3, <1>17, <3>1, Zenon
    <3> QED BY <3>1, <3>2, Zenon
  <2> QED BY <2>1, <2>2, Zenon
<1>22. path = u.path
  BY <1>8, <1>13, Zenon
<1>23. params = u.params
  <2>1. PICK D \in SUBSET ToSet(NameOrder) : u.params \in [D -> ParamTexts]
    BY <1>12 DEF UrlParamSet, ParamsOf
  <2>2. u.params = [n \in DOMAIN u.params |-> u.params[n]]
    BY <2>1
  <2>3. CASE DOMAIN u.params = {}
    <3>1. params = NoParams
      BY <1>9, <1>13, <1>16, <2>3, Zenon
    <3>2. u.params = [n \in {} |-> u.params[n]]
      BY <2>2, <2>3, Zenon
    <3>3. [n \in {} |-> u.params[n]] = [n \in {} |-> <<>>]
      OBVIOUS
    <3> QED BY <3>1, <3>2, <3>3, Zenon DEF NoParams
  <2>4. CASE DOMAIN u.params # {}
    <3>1. params = Over(ParseParam(QueryText(u.params)), NoParams)
      BY <1>9, <1>13, <1>16, <2>4, Zenon
    <3>2. ParseParam(QueryText(u.params)) = u.params
      BY <1>12, <2>4, ParamsReadBack
    <3> HIDE DEF params
    <3>3. params = Over(u.params, NoParams)
      BY <3>1, <3>2, Zenon
    <3>4. DOMAIN NoParams = {}
      BY DEF NoParams
    <3>5. \A p : Over(p, NoParams) = [n \in DOMAIN p |-> p[n]]
      BY <3>4 DEF Over
    <3> QED BY <2>2, <3>3, <3>5, Zenon
  <2> QED BY <2>3, <2>4
<1>24. fragment = u.fragment
  BY <1>10, <1>16, Zenon
<1>25. cache = <<>>
  BY <1>16, Zenon
<1> HIDE DEF scheme, user, passwd, host, port, path, params, fragment, cache
<1>26. [scheme |-> scheme, user |-> user, passwd |-> passwd, host |-> host, port |-> port, path |-> path,
          params |-> params, fragment |-> fragment, cache |-> cache] = [u EXCEPT !.cache = <<>>]
  <2>1. u \in [scheme : UrlToken, user : UrlToken, passwd : Texts, host : UrlToken, port : UrlToken, path : Texts,
               params : UrlParamSet, fragment : UrlToken, cache : Texts]
    BY DEF UrlParts, UrlParamSet
  <2> QED BY <1>17, <1>18, <1>19, <1>20, <1>21, <1>22, <1>23, <1>24, <1>25, <2>1
<1> QED BY <1>1, <1>15, <1>26, Zenon

(* set takes the port of such a text, if any, to be in its range.          *)
LEMMA AssembledNotThrows ==
  ASSUME NEW u, UrlParts(u), Readable(u), u.port \notin TooBig
  PROVE  ~PortThrows(Assemble(u))
<1>1. PICK t : t = Cut(Assemble(u))
  OBVIOUS
<1>2. t[3] = FromHost(u)
  BY <1>1, CutsAssembled, Zenon
<1>3. (u.path # <<>> => u.path[1] = "/") /\ PortOfHost(u)
  BY Zenon DEF Readable, Hosted
<1>4. HostOf(t[3]) < 3 <=> u.port = ""
  BY <1>2, <1>3, HostTakes, Zenon
<1>5. u.port # "" => t[3][3] = u.port
  BY <1>2, <1>3, HostTakes, Zenon
<1>6. ~(3 < 3)
  OBVIOUS
<1>7. ~(HostOf(t[3]) = 3 /\ t[3][3] \in TooBig)
  BY <1>4, <1>5, <1>6, Zenon
<1> QED BY <1>1, <1>7, Zenon DEF PortThrows

-----------------------------------------------------------------------------
(* What the groups take of any text.                                       *)
LEMMA SchemeOfAny ==
  ASSUME NEW t \in Texts
  PROVE  LET n == SchemeOf(t) IN n \in Nat /\ n <= Len(t) /\ (n > 0 => Len(t) > 0 /\ IsWord(t[1]))
<1>1. Len(t) \in Nat
  BY DEF Texts
<1> QED BY <1>1 DEF SchemeOf

(* What the group of the user takes of any text. *)
LEMMA UserInfoOfAny ==
  ASSUME NEW t \in Texts
  PROVE  LET n == UserInfoOf(t) IN
         /\ n \in Nat /\ n <= Len(t)
         /\ n > 0 => Len(t) > 0 /\ IsWord(t[1]) /\ ~IsNumeral(t[1])
         /\ \A k \in 1..n - 1 : t[k] # "@"
<1> DEFINE S == {i \in 1..Len(t) : t[i] = "@"}
           m == Min(S)
           n == UserInfoOf(t)
<1>1. Len(t) \in Nat
  BY DEF Texts
<1>2. S # {} => m \in S /\ \A l \in S : m <= l
  <2>1. S \in SUBSET Nat
    BY <1>1
  <2> HIDE DEF S
  <2> QED BY <2>1, MinLeast
<1> HIDE DEF m
<1>3. n = IF S # {} /\ m > 1 /\ IsWord(t[1]) /\ ~IsNumeral(t[1]) /\ (m = 2 \/ (m > 3 /\ t[2] = ":")) THEN m ELSE 0
  BY Zenon DEF UserInfoOf, m
<1> HIDE DEF n
<1>4. CASE S # {} /\ IsWord(t[1]) /\ ~IsNumeral(t[1]) /\ n = m
  <2>1. m \in 1..Len(t)
    BY <1>2, <1>4
  <2>2. ASSUME NEW k \in 1..m - 1 PROVE t[k] # "@"
    <3>1. k \in 1..Len(t) /\ ~(m <= k)
      BY <1>1, <2>1
    <3>2. k \notin S
      BY <1>2, <1>4, <3>1
    <3> QED BY <3>1, <3>2
  <2> HIDE DEF S
  <2> QED BY <1>1, <1>4, <2>1, <2>2 DEF n
<1>5. CASE n = 0
  BY <1>1, <1>5 DEF n
<1> HIDE DEF S
<1> QED BY <1>3, <1>4, <1>5

(* What the group of host and port takes of any text. *)
LEMMA HostOfAny ==
  ASSUME NEW t \in Texts
  PROVE  LET n == HostOf(t) IN
         /\ n \in Nat /\ n <= Len(t) /\ (n > 0 => Len(t) > 0 /\ IsWord(t[1]))
         /\ ~(n < 3) => n = 3 /\ Len(t) > 2 /\ IsNumeral(t[3])
<1>1. Len(t) \in Nat /\ (t # <<>> => Len(t) > 0)
  BY EmptySeq DEF Texts
<1> QED BY <1>1 DEF HostOf

(* What the group of the path takes of any text. *)
LEMMA PathOfAny ==
  ASSUME NEW t \in Texts
  PROVE  LET n == PathOf(t) IN n \in Nat /\ n <= Len(t) /\ \A k \in 1..n : t[k] \notin {"?", "#"}
<1> DEFINE S == {i \in 1..Len(t) : t[i] \in {"?", "#"}} \cup {Len(t) + 1}
           m == Min(S)
           n == PathOf(t)
<1>1. Len(t) \in Nat
  BY DEF Texts
<1>2. m \in S /\ \A l \in S : m <= l
  <2>1. S \in SUBSET Nat /\ S # {}
    <3>1. \A i \in S : i \in Nat
      BY <1>1
    <3> QED BY <3>1
  <2> HIDE DEF S
  <2> QED BY <2>1, MinLeast
<1> HIDE DEF m
<1>3. n = m - 1
  BY DEF PathOf, m
<1> HIDE DEF n
<1>4. m \in 1..Len(t) + 1
  BY <1>1, <1>2
<1>5. ASSUME NEW k \in 1..m - 1 PROVE t[k] \notin {"?", "#"}
  <2>1. k \in 1..Len(t) /\ ~(m <= k)
    BY <1>1, <1>4
  <2>2. k \notin S
    BY <1>2, <2>1
  <2> QED BY <2>1, <2>2
<1> HIDE DEF S
<1>6. n \in Nat /\ n <= Len(t)
  BY <1>1, <1>3, <1>4
<1> QED BY <1>3, <1>5, <1>6 DEF n

(* What the group of the query takes of any text. *)
LEMMA QueryOfAny ==
  ASSUME NEW t \in Texts
  PROVE  LET n == QueryOf(t) IN n \in Nat /\ n <= Len(t)
<1> DEFINE S == {i \in 2..Len(t) : t[i] = "#"} \cup {Len(t) + 1}
           m == Min(S)
           n == QueryOf(t)
<1>1. Len(t) \in Nat
  BY DEF Texts
<1>2. m \in S
  <2>1. S \in SUBSET Nat /\ S # {}
    <3>1. \A i \in S : i \in Nat
      BY <1>1
    <3> QED BY <3>1
  <2> HIDE DEF S
  <2> QED BY <2>1, MinLeast
<1> HIDE DEF m
<1>3. n = IF t # <<>> /\ t[1] = "?" /\ m > 2 THEN m - 1 ELSE 0
  BY Zenon DEF QueryOf, m
<1> HIDE DEF n
<1>4. m \in 1..Len(t) + 1
  BY <1>1, <1>2
<1> HIDE DEF S
<1>5. n = m - 1 \/ n = 0
  BY <1>3
<1>6. n \in Nat /\ n <= Len(t)
  BY <1>1, <1>4, <1>5
<1> QED BY <1>6 DEF n

(* A part of a text has names of the text only.                            *)
LEMMA NamesOfPart ==
  ASSUME NEW N, NEW t \in Texts, Names(t, N), NEW i \in Nat \ {0}, NEW k \in Nat, k <= Len(t)
  PROVE  Names(SubSeq(t, i, k), N)
<1> DEFINE s == SubSeq(t, i, k)
<1>1. Len(t) \in Nat
  BY DEF Texts
<1>2. Len(s) = (IF i <= k THEN k - i + 1 ELSE 0) /\ \A j \in 1..k - i + 1 : s[j] = t[i + j - 1]
  BY PartOfText
<1> HIDE DEF s
<1>3. ASSUME NEW j \in 1..(Len(s) - 1), IsWord(s[j]), s[j + 1] = "=" PROVE ToLower(s[j]) \in N
  <2>1. j \in 1..k - i + 1 /\ j + 1 \in 1..k - i + 1 /\ i + j - 1 \in 1..(Len(t) - 1) /\ i + (j + 1) - 1 = (i + j - 1) + 1
    BY <1>1, <1>2
  <2>2. s[j] = t[i + j - 1] /\ s[j + 1] = t[i + (j + 1) - 1]
    BY <1>2, <2>1
  <2> QED BY <1>3, <2>1, <2>2 DEF Names
<1>4. Names(s, N)
  BY <1>3 DEF Names
<1> QED BY <1>4 DEF s

(* The names in the rest of a text are names of the text. *)
LEMMA NamesOfRest ==
  ASSUME NEW N, NEW t \in Texts, Names(t, N), NEW n \in Nat, n <= Len(t), NEW r, r = Rest(t, n)
  PROVE  Names(r, N) /\ r \in Texts /\ Len(t) - Len(r) = n
<1>1. Len(t) \in Nat
  BY DEF Texts
<1>2. n + 1 \in Nat \ {0} /\ Len(t) <= Len(t)
  BY <1>1
<1>3. Names(SubSeq(t, n + 1, Len(t)), N)
  BY <1>1, <1>2, NamesOfPart
<1>4. Rest(t, n) \in Texts
  BY RestIs
<1>5. Len(t) - Len(r) = n
  BY TookIs
<1> QED BY <1>3, <1>4, <1>5, Zenon DEF Rest

(* Values that make good parts of a url.                                   *)
LEMMA MadeOf ==
  ASSUME NEW scheme \in UrlToken, NEW user \in UrlToken, NEW passwd \in Texts, NEW host \in UrlToken,
         NEW port \in UrlToken, NEW path \in Texts, NEW params \in UrlParamSet, NEW fragment \in UrlToken,
         NEW cache \in Texts,
         IsWord(scheme), ToLower(scheme) = scheme, IsWord(host), ToLower(host) = host,
         IsWord(user), ~IsNumeral(user), IsWord(fragment), port \in {""} \cup ToSet(Numeral),
         Without(passwd, {"@"}), Without(path, {"?", "#"})
  PROVE  UrlParts([scheme |-> scheme, user |-> user, passwd |-> passwd, host |-> host, port |-> port,
                   path |-> path, params |-> params, fragment |-> fragment, cache |-> cache])
<1>1. PICK v : v = [scheme |-> scheme, user |-> user, passwd |-> passwd, host |-> host, port |-> port,
                    path |-> path, params |-> params, fragment |-> fragment, cache |-> cache]
  OBVIOUS
<1>2. v \in [scheme : UrlToken, user : UrlToken, passwd : Texts, host : UrlToken, port : UrlToken, path : Texts,
             params : UrlParamSet, fragment : UrlToken, cache : Texts]
  BY <1>1, Zenon
<1>3. /\ v.scheme = scheme /\ v.user = user /\ v.passwd = passwd /\ v.host = host /\ v.port = port
      /\ v.path = path /\ v.fragment = fragment
  BY <1>1, Zenon
<1>4. \A w \in {v.scheme, v.host} : IsWord(w) /\ ToLower(w) = w
  BY <1>3, Zenon
<1>5. v.port = "" \/ IsNumeral(v.port)
  BY <1>3, Zenon DEF IsNumeral
<1>6. UrlParts(v)
  BY <1>2, <1>3, <1>4, <1>5, Zenon DEF UrlParts, UrlParamSet
<1> QED BY <1>1, <1>6, Zenon

(* No port is not too big. *)
LEMMA NoPortFits == "" \notin TooBig
<1>1. "" \notin ToSet(Numeral) /\ TooBig \subseteq ToSet(Numeral)
  BY UrlAssumption, Zenon
<1> QED BY <1>1, Zenon

(* What set makes of the texts that it is called with are good parts, and  *)
(* of their ports those that it does not throw at.                         *)
LEMMA SetPartsOfText ==
  ASSUME NEW u, UrlParts(u), NEW text \in UrlTexts
  PROVE  /\ UrlParts(SetParts(u, Cut(text))) /\ SetParts(u, Cut(text)).cache = u.cache
         /\ u.port \notin TooBig /\ ~PortThrows(text) => SetParts(u, Cut(text)).port \notin TooBig
<1> DEFINE c == Cut(text)
           N == ToSet(NameOrder)
           took(i) == Len(c[i]) - Len(c[i + 1])
           n1 == SchemeOf(c[1])
           n2 == UserInfoOf(c[2])
           n3 == HostOf(c[3])
           n4 == PathOf(c[4])
           n5 == QueryOf(c[5])
<1>1. text \in Texts /\ Names(text, N)
  <2>1. text \in Seq(ToSet(text)) /\ \A i \in 1..Len(text) - 1 : IsWord(text[i]) /\ text[i + 1] = "=" => ToLower(text[i]) \in N
    BY UrlAssumption, Zenon
  <2>2. Len(text) \in Nat /\ \A i \in 1..Len(text) : text[i] \in ToSet(text)
    <3>1. PICK S : S = ToSet(text)
      OBVIOUS
    <3>2. text \in Seq(S)
      BY <2>1, <3>1
    <3>3. Len(text) \in Nat /\ \A i \in 1..Len(text) : text[i] \in S
      BY <3>2
    <3> QED BY <3>1, <3>3
  <2>3. ToSet(text) \subseteq UrlToken
    BY Zenon DEF UrlToken
  <2>4. text \in Texts
    <3>1. PICK S : S = ToSet(text)
      OBVIOUS
    <3>2. text \in Seq(S) /\ S \subseteq UrlToken
      BY <2>1, <2>3, <3>1
    <3> QED BY <3>2 DEF Texts
  <2> QED BY <2>1, <2>4 DEF Names
<1>2. /\ c[1] = text /\ c[2] = Rest(c[1], n1) /\ c[3] = Rest(c[2], n2) /\ c[4] = Rest(c[3], n3)
      /\ c[5] = Rest(c[4], n4) /\ c[6] = Rest(c[5], n5)
  BY CutIs
<1>3. c[1] \in Texts /\ Names(c[1], N)
  BY <1>1, <1>2, Zenon
<1>4. n1 \in Nat /\ n1 <= Len(c[1]) /\ (n1 > 0 => Len(c[1]) > 0 /\ IsWord(c[1][1]))
  BY <1>3, SchemeOfAny
<1> HIDE DEF n1
<1>5. c[2] \in Texts /\ Names(c[2], N) /\ Len(c[1]) - Len(c[2]) = n1
  <2> HIDE DEF c, N
  <2> QED BY <1>2, <1>3, <1>4, NamesOfRest
<1>6. /\ n2 \in Nat /\ n2 <= Len(c[2])
      /\ n2 > 0 => Len(c[2]) > 0 /\ IsWord(c[2][1]) /\ ~IsNumeral(c[2][1])
      /\ \A k \in 1..n2 - 1 : c[2][k] # "@"
  BY <1>5, UserInfoOfAny
<1> HIDE DEF n2
<1>7. c[3] \in Texts /\ Names(c[3], N) /\ Len(c[2]) - Len(c[3]) = n2
  <2>1. n2 \in Nat /\ n2 <= Len(c[2])
    BY <1>6
  <2> HIDE DEF c, N
  <2> QED BY <1>2, <1>5, <2>1, NamesOfRest
<1>8. /\ n3 \in Nat /\ n3 <= Len(c[3]) /\ (n3 > 0 => Len(c[3]) > 0 /\ IsWord(c[3][1]))
      /\ ~(n3 < 3) => n3 = 3 /\ Len(c[3]) > 2 /\ IsNumeral(c[3][3])
  BY <1>7, HostOfAny
<1>18. ~PortThrows(text) /\ Matches(c) /\ n3 = 3 => c[3][3] \notin TooBig
  BY Zenon DEF PortThrows
<1> HIDE DEF n3
<1>9. c[4] \in Texts /\ Names(c[4], N) /\ Len(c[3]) - Len(c[4]) = n3
  <2>1. n3 \in Nat /\ n3 <= Len(c[3])
    BY <1>8
  <2> HIDE DEF c, N
  <2> QED BY <1>2, <1>7, <2>1, NamesOfRest
<1>10. n4 \in Nat /\ n4 <= Len(c[4]) /\ \A k \in 1..n4 : c[4][k] \notin {"?", "#"}
  BY <1>9, PathOfAny
<1> HIDE DEF n4
<1>11. c[5] \in Texts /\ Names(c[5], N) /\ Len(c[4]) - Len(c[5]) = n4
  <2>1. n4 \in Nat /\ n4 <= Len(c[4])
    BY <1>10
  <2> HIDE DEF c, N
  <2> QED BY <1>2, <1>9, <2>1, NamesOfRest
<1>12. n5 \in Nat /\ n5 <= Len(c[5])
  BY <1>11, QueryOfAny
<1> HIDE DEF n5
<1>13. c[6] \in Texts /\ Len(c[5]) - Len(c[6]) = n5
  <2> HIDE DEF c, N
  <2> QED BY <1>2, <1>11, <1>12, NamesOfRest
<1> HIDE DEF c, N
<1>14. took(1) = n1 /\ took(2) = n2 /\ took(3) = n3 /\ took(4) = n4 /\ took(5) = n5
  <2>1. 1 + 1 = 2 /\ 2 + 1 = 3 /\ 3 + 1 = 4 /\ 4 + 1 = 5 /\ 5 + 1 = 6
    OBVIOUS
  <2> QED BY <1>5, <1>7, <1>9, <1>11, <1>13, <2>1, Zenon
<1>15. /\ u.scheme \in UrlToken /\ u.user \in UrlToken /\ u.passwd \in Texts /\ u.host \in UrlToken
       /\ u.port \in UrlToken /\ u.path \in Texts /\ u.params \in UrlParamSet /\ u.fragment \in UrlToken
       /\ u.cache \in Texts
       /\ IsWord(u.scheme) /\ ToLower(u.scheme) = u.scheme /\ IsWord(u.host) /\ ToLower(u.host) = u.host
       /\ IsWord(u.user) /\ ~IsNumeral(u.user) /\ IsWord(u.fragment)
       /\ u.port = "" \/ IsNumeral(u.port)
       /\ Without(u.passwd, {"@"}) /\ Without(u.path, {"?", "#"})
  BY PartsAre
<1> DEFINE fits == c[6] = <<>> \/ (Len(c[6]) = 2 /\ c[6][1] = "#" /\ IsWord(c[6][2]))
<1>16. CASE ~fits
  <2>1. SetParts(u, c) = u
    BY <1>16, Zenon DEF SetParts, Matches
  <2> QED BY <2>1, Zenon DEF c
<1>17. CASE fits
  <2> DEFINE scheme == IF took(1) > 0 THEN ToLower(c[1][1]) ELSE u.scheme
             user == IF took(2) > 0 THEN c[2][1] ELSE u.user
             passwd == IF took(2) > 2 THEN SubSeq(c[2], 3, took(2) - 1) ELSE u.passwd
             host == IF took(3) > 0 THEN ToLower(c[3][1]) ELSE u.host
             port == IF took(3) < 3 THEN u.port ELSE IF DefaultPort(scheme, c[3][3]) THEN "" ELSE c[3][3]
             path == SubSeq(c[4], 1, took(4))
             params == IF took(5) > 0 THEN Over(ParseParam(SubSeq(c[5], 2, took(5))), u.params) ELSE u.params
             fragment == IF c[6] # <<>> THEN c[6][2] ELSE u.fragment
  <2>1. SetParts(u, c) =
          [scheme |-> scheme, user |-> user, passwd |-> passwd, host |-> host, port |-> port, path |-> path,
           params |-> params, fragment |-> fragment, cache |-> u.cache]
    BY <1>17, SetPartsIs, Zenon
  <2> HIDE DEF took
  <2>2. scheme \in UrlToken /\ IsWord(scheme) /\ ToLower(scheme) = scheme
    <3>1. CASE n1 > 0
      <4>1. 1 \in 1..Len(c[1]) /\ IsWord(c[1][1])
        BY <1>4, <3>1
      <4>2. c[1][1] \in UrlToken
        BY <1>3, <4>1 DEF Texts
      <4>3. scheme = ToLower(c[1][1])
        BY <1>14, <3>1, Zenon
      <4> HIDE DEF scheme
      <4> QED BY <4>1, <4>2, <4>3, Lowered
    <3>2. CASE ~(n1 > 0)
      BY <1>14, <1>15, <3>2, Zenon
    <3> QED BY <3>1, <3>2
  <2>3. user \in UrlToken /\ IsWord(user) /\ ~IsNumeral(user)
    <3>1. CASE n2 > 0
      <4>1. 1 \in 1..Len(c[2]) /\ IsWord(c[2][1]) /\ ~IsNumeral(c[2][1])
        BY <1>6, <3>1
      <4>2. c[2][1] \in UrlToken
        BY <1>5, <4>1 DEF Texts
      <4> QED BY <1>14, <3>1, <4>1, <4>2, Zenon
    <3>2. CASE ~(n2 > 0)
      BY <1>14, <1>15, <3>2, Zenon
    <3> QED BY <3>1, <3>2
  <2>4. passwd \in Texts /\ Without(passwd, {"@"})
    <3>1. CASE n2 > 2
      <4> DEFINE s == SubSeq(c[2], 3, n2 - 1)
      <4>1. 3 \in Nat \ {0} /\ n2 - 1 \in Nat /\ n2 - 1 <= Len(c[2]) /\ Len(c[2]) \in Nat
        BY <1>5, <1>6, <3>1 DEF Texts
      <4>2. /\ s \in Texts /\ Len(s) = (IF 3 <= n2 - 1 THEN (n2 - 1) - 3 + 1 ELSE 0)
            /\ \A j \in 1..(n2 - 1) - 3 + 1 : s[j] = c[2][3 + j - 1]
        BY <1>5, <4>1, PartOfText
      <4> HIDE DEF s
      <4>3. ASSUME NEW j \in 1..Len(s) PROVE s[j] # "@"
        <5>1. j \in 1..(n2 - 1) - 3 + 1 /\ 3 + j - 1 \in 1..n2 - 1
          BY <1>6, <4>1, <4>2
        <5> QED BY <1>6, <4>2, <5>1
      <4>4. Without(s, {"@"})
        BY <4>3 DEF Without
      <4>5. passwd = s
        BY <1>14, <3>1, Zenon DEF s
      <4> HIDE DEF passwd
      <4> QED BY <4>2, <4>4, <4>5
    <3>2. CASE ~(n2 > 2)
      BY <1>14, <1>15, <3>2, Zenon
    <3> QED BY <3>1, <3>2
  <2>5. host \in UrlToken /\ IsWord(host) /\ ToLower(host) = host
    <3>1. CASE n3 > 0
      <4>1. 1 \in 1..Len(c[3]) /\ IsWord(c[3][1])
        BY <1>8, <3>1
      <4>2. c[3][1] \in UrlToken
        BY <1>7, <4>1 DEF Texts
      <4>3. host = ToLower(c[3][1])
        BY <1>14, <3>1, Zenon
      <4> HIDE DEF host
      <4> QED BY <4>1, <4>2, <4>3, Lowered
    <3>2. CASE ~(n3 > 0)
      BY <1>14, <1>15, <3>2, Zenon
    <3> QED BY <3>1, <3>2
  <2>6. port \in UrlToken /\ port \in {""} \cup ToSet(Numeral)
    <3> HIDE DEF scheme
    <3>1. CASE n3 < 3
      BY <1>14, <1>15, <3>1, Zenon DEF IsNumeral
    <3>2. CASE ~(n3 < 3)
      <4>1. 3 \in 1..Len(c[3]) /\ IsNumeral(c[3][3])
        BY <1>8, <3>2
      <4>2. c[3][3] \in UrlToken
        BY <1>7, <4>1 DEF Texts
      <4>3. "" \in UrlToken
        BY TokensAre, Zenon
      <4> QED BY <1>14, <3>2, <4>1, <4>2, <4>3, Zenon DEF IsNumeral
    <3> QED BY <3>1, <3>2
  <2>7. path \in Texts /\ Without(path, {"?", "#"})
    <3> DEFINE s == SubSeq(c[4], 1, n4)
    <3>1. 1 \in Nat \ {0}
      OBVIOUS
    <3>2. /\ s \in Texts /\ Len(s) = (IF 1 <= n4 THEN n4 - 1 + 1 ELSE 0)
          /\ \A j \in 1..n4 - 1 + 1 : s[j] = c[4][1 + j - 1]
      BY <1>9, <1>10, <3>1, PartOfText
    <3> HIDE DEF s
    <3>3. ASSUME NEW j \in 1..Len(s) PROVE s[j] \notin {"?", "#"}
      <4>1. j \in 1..n4 - 1 + 1 /\ 1 + j - 1 = j /\ j \in 1..n4
        BY <1>10, <3>2
      <4> QED BY <1>10, <3>2, <4>1
    <3>4. Without(s, {"?", "#"})
      BY <3>3 DEF Without
    <3>5. path = s
      BY <1>14, Zenon DEF s
    <3> HIDE DEF path
    <3> QED BY <3>2, <3>4, <3>5
  <2>8. params \in UrlParamSet
    <3>1. CASE n5 > 0
      <4> DEFINE q == SubSeq(c[5], 2, n5)
      <4>1. 2 \in Nat \ {0}
        OBVIOUS
      <4>2. q \in Texts /\ Names(q, N)
        BY <1>11, <1>12, <4>1, PartOfText, NamesOfPart
      <4> HIDE DEF q
      <4>3. ParsedFrom(q)[1] \in ParamsOf(N)
        BY <4>2, FromParams
      <4>4. ParseParam(q) \in ParamsOf(N)
        BY <4>3, ParseParamIs
      <4>5. Over(ParseParam(q), u.params) \in ParamsOf(N)
        BY <1>15, <4>4, OverIs DEF UrlParamSet, N
      <4>6. params = Over(ParseParam(q), u.params)
        BY <1>14, <3>1, Zenon DEF q
      <4> HIDE DEF params
      <4> QED BY <4>5, <4>6 DEF UrlParamSet, N
    <3>2. CASE ~(n5 > 0)
      BY <1>14, <1>15, <3>2, Zenon
    <3> QED BY <3>1, <3>2
  <2>9. fragment \in UrlToken /\ IsWord(fragment)
    <3>1. CASE c[6] = <<>>
      BY <1>15, <3>1, Zenon
    <3>2. CASE c[6] # <<>>
      <4>1. Len(c[6]) = 2 /\ IsWord(c[6][2])
        BY <1>17, <3>2, Zenon
      <4>2. c[6][2] \in UrlToken
        BY <1>13, <4>1 DEF Texts
      <4> QED BY <3>2, <4>1, <4>2, Zenon
    <3> QED BY <3>1, <3>2
  <2>10. u.cache \in Texts
    BY <1>15
  <2>15. u.port \notin TooBig /\ ~PortThrows(text) => port \notin TooBig
    <3> HIDE DEF scheme
    <3>1. Matches(c)
      BY <1>17, Zenon DEF Matches
    <3>2. "" \notin TooBig
      BY NoPortFits
    <3>3. CASE n3 < 3
      BY <1>14, <3>3, Zenon
    <3>4. CASE ~(n3 < 3)
      BY <1>8, <1>14, <1>18, <3>1, <3>2, <3>4, Zenon
    <3> QED BY <3>3, <3>4
  <2> HIDE DEF scheme, user, passwd, host, port, path, params, fragment
  <2>11. PICK r : r = [scheme |-> scheme, user |-> user, passwd |-> passwd, host |-> host, port |-> port,
                       path |-> path, params |-> params, fragment |-> fragment, cache |-> u.cache]
    OBVIOUS
  <2>12. UrlParts(r)
    BY <2>2, <2>3, <2>4, <2>5, <2>6, <2>7, <2>8, <2>9, <2>10, <2>11, MadeOf, Zenon
  <2>13. r.cache = u.cache /\ (u.port \notin TooBig /\ ~PortThrows(text) => r.port \notin TooBig)
    BY <2>11, <2>15, Zenon
  <2>14. SetParts(u, c) = r
    BY <2>1, <2>11, Zenon
  <2> QED BY <2>12, <2>13, <2>14, Zenon DEF c
<1> QED BY <1>16, <1>17

-----------------------------------------------------------------------------
(* A url with some parts changed for good ones. *)
Changed(u, scheme, user, passwd, host, port, params, cache) ==
  [scheme |-> scheme, user |-> user, passwd |-> passwd, host |-> host, port |-> port, path |-> u.path,
   params |-> params, fragment |-> u.fragment, cache |-> cache]
Fitting(scheme, user, passwd, host, port, params, cache) ==
  /\ scheme \in UrlToken /\ IsWord(scheme) /\ ToLower(scheme) = scheme
  /\ user \in UrlToken /\ IsWord(user) /\ ~IsNumeral(user)
  /\ passwd \in Texts /\ Without(passwd, {"@"})
  /\ host \in UrlToken /\ IsWord(host) /\ ToLower(host) = host
  /\ port \in UrlToken /\ port \in {""} \cup ToSet(Numeral)
  /\ params \in UrlParamSet /\ cache \in Texts
(* The parts of such a url are good. *)
LEMMA ChangedParts ==
  ASSUME NEW u, UrlParts(u),
         NEW scheme, NEW user, NEW passwd, NEW host, NEW port, NEW params, NEW cache,
         Fitting(scheme, user, passwd, host, port, params, cache)
  PROVE  /\ UrlParts(Changed(u, scheme, user, passwd, host, port, params, cache))
         /\ Changed(u, scheme, user, passwd, host, port, params, cache).cache = cache
         /\ Changed(u, scheme, user, passwd, host, port, params, cache).port = port
<1>1. u.path \in Texts /\ u.fragment \in UrlToken /\ IsWord(u.fragment) /\ Without(u.path, {"?", "#"})
  BY PartsAre
<1> QED BY <1>1, MadeOf, Zenon DEF Fitting, Changed

(* An EXCEPT is such a change. *)
AnyUrl == [scheme : UrlToken, user : UrlToken, passwd : Texts, host : UrlToken, port : UrlToken, path : Texts,
           params : UrlParamSet, fragment : UrlToken, cache : Texts]
(* A user. *)
LEMMA UserEdit ==
  ASSUME NEW u \in AnyUrl, NEW b, NEW c
  PROVE  [u EXCEPT !.user = "me", !.passwd = b, !.cache = c]
           = Changed(u, u.scheme, "me", b, u.host, u.port, u.params, c)
<1>1. PICK w1 : w1 = [u EXCEPT !.user = "me"]
  OBVIOUS
<1>2. w1 = Changed(u, u.scheme, "me", u.passwd, u.host, u.port, u.params, u.cache)
  BY <1>1 DEF AnyUrl, Changed
<1>3. PICK w2 : w2 = [w1 EXCEPT !.passwd = b]
  OBVIOUS
<1>4. w2 = Changed(u, u.scheme, "me", b, u.host, u.port, u.params, u.cache)
  BY <1>3, <1>2 DEF Changed
<1>5. PICK w3 : w3 = [w2 EXCEPT !.cache = c]
  OBVIOUS
<1>6. w3 = Changed(u, u.scheme, "me", b, u.host, u.port, u.params, c)
  BY <1>5, <1>4 DEF Changed
<1>7. w3 = [u EXCEPT !.user = "me", !.passwd = b, !.cache = c]
  BY <1>1, <1>3, <1>5, Zenon
<1> QED BY <1>6, <1>7
(* A password. *)
LEMMA PasswdEdit ==
  ASSUME NEW u \in AnyUrl, NEW a, NEW c
  PROVE  [u EXCEPT !.passwd = a, !.cache = c]
           = Changed(u, u.scheme, u.user, a, u.host, u.port, u.params, c)
<1>1. PICK w1 : w1 = [u EXCEPT !.passwd = a]
  OBVIOUS
<1>2. w1 = Changed(u, u.scheme, u.user, a, u.host, u.port, u.params, u.cache)
  BY <1>1 DEF AnyUrl, Changed
<1>3. PICK w2 : w2 = [w1 EXCEPT !.cache = c]
  OBVIOUS
<1>4. w2 = Changed(u, u.scheme, u.user, a, u.host, u.port, u.params, c)
  BY <1>3, <1>2 DEF Changed
<1>5. w2 = [u EXCEPT !.passwd = a, !.cache = c]
  BY <1>1, <1>3, Zenon
<1> QED BY <1>4, <1>5
(* A scheme. *)
LEMMA SchemeEdit ==
  ASSUME NEW u \in AnyUrl, NEW a, NEW c
  PROVE  [u EXCEPT !.scheme = a, !.cache = c]
           = Changed(u, a, u.user, u.passwd, u.host, u.port, u.params, c)
<1>1. PICK w1 : w1 = [u EXCEPT !.scheme = a]
  OBVIOUS
<1>2. w1 = Changed(u, a, u.user, u.passwd, u.host, u.port, u.params, u.cache)
  BY <1>1 DEF AnyUrl, Changed
<1>3. PICK w2 : w2 = [w1 EXCEPT !.cache = c]
  OBVIOUS
<1>4. w2 = Changed(u, a, u.user, u.passwd, u.host, u.port, u.params, c)
  BY <1>3, <1>2 DEF Changed
<1>5. w2 = [u EXCEPT !.scheme = a, !.cache = c]
  BY <1>1, <1>3, Zenon
<1> QED BY <1>4, <1>5
(* A host. *)
LEMMA HostEdit ==
  ASSUME NEW u \in AnyUrl, NEW b, NEW d
  PROVE  [u EXCEPT !.host = "h2", !.port = b, !.scheme = d, !.cache = <<>>]
           = Changed(u, d, u.user, u.passwd, "h2", b, u.params, <<>>)
<1>1. PICK w1 : w1 = [u EXCEPT !.host = "h2"]
  OBVIOUS
<1>2. w1 = Changed(u, u.scheme, u.user, u.passwd, "h2", u.port, u.params, u.cache)
  BY <1>1 DEF AnyUrl, Changed
<1>3. PICK w2 : w2 = [w1 EXCEPT !.port = b]
  OBVIOUS
<1>4. w2 = Changed(u, u.scheme, u.user, u.passwd, "h2", b, u.params, u.cache)
  BY <1>3, <1>2 DEF Changed
<1>5. PICK w3 : w3 = [w2 EXCEPT !.scheme = d]
  OBVIOUS
<1>6. w3 = Changed(u, d, u.user, u.passwd, "h2", b, u.params, u.cache)
  BY <1>5, <1>4 DEF Changed
<1>7. PICK w4 : w4 = [w3 EXCEPT !.cache = <<>>]
  OBVIOUS
<1>8. w4 = Changed(u, d, u.user, u.passwd, "h2", b, u.params, <<>>)
  BY <1>7, <1>6 DEF Changed
<1>9. w4 = [u EXCEPT !.host = "h2", !.port = b, !.scheme = d, !.cache = <<>>]
  BY <1>1, <1>3, <1>5, <1>7, Zenon
<1> QED BY <1>8, <1>9

(* What set changes before it throws. *)
LEMMA SetUpToPortEdit ==
  ASSUME NEW u \in AnyUrl, NEW a, NEW b, NEW c, NEW d
  PROVE  [u EXCEPT !.scheme = a, !.user = b, !.passwd = c, !.host = d]
           = Changed(u, a, b, c, d, u.port, u.params, u.cache)
<1>1. PICK w1 : w1 = [u EXCEPT !.scheme = a]
  OBVIOUS
<1>2. w1 = Changed(u, a, u.user, u.passwd, u.host, u.port, u.params, u.cache)
  BY <1>1 DEF AnyUrl, Changed
<1>3. PICK w2 : w2 = [w1 EXCEPT !.user = b]
  OBVIOUS
<1>4. w2 = Changed(u, a, b, u.passwd, u.host, u.port, u.params, u.cache)
  BY <1>3, <1>2 DEF Changed
<1>5. PICK w3 : w3 = [w2 EXCEPT !.passwd = c]
  OBVIOUS
<1>6. w3 = Changed(u, a, b, c, u.host, u.port, u.params, u.cache)
  BY <1>5, <1>4 DEF Changed
<1>7. PICK w4 : w4 = [w3 EXCEPT !.host = d]
  OBVIOUS
<1>8. w4 = Changed(u, a, b, c, d, u.port, u.params, u.cache)
  BY <1>7, <1>6 DEF Changed
<1>9. w4 = [u EXCEPT !.scheme = a, !.user = b, !.passwd = c, !.host = d]
  BY <1>1, <1>3, <1>5, <1>7, Zenon
<1> QED BY <1>8, <1>9

(* What a part is changed for. *)
LEMMA WordsAre ==
  /\ \A w \in {"", "ftp", "http", "h2"} : IsWord(w) /\ ToLower(w) = w /\ w \in UrlToken
  /\ IsWord("me") /\ ~IsNumeral("me") /\ "me" \in UrlToken /\ ~IsNumeral("") /\ IsWord("")
  /\ \A p \in {"", "80", "8080"} : p \in {""} \cup ToSet(Numeral) /\ p \in UrlToken /\ p \notin TooBig
  /\ <<"pw">> \in Texts /\ Without(<<"pw">>, {"@"}) /\ <<>> \in Texts
<1>1. IsWord("") /\ IsWord("ftp") /\ IsWord("http") /\ IsWord("h2") /\ IsWord("me")
  BY Zenon DEF IsWord, Marks
<1>2. /\ "" \notin DOMAIN Lower /\ "ftp" \notin DOMAIN Lower /\ "http" \notin DOMAIN Lower /\ "h2" \notin DOMAIN Lower
      /\ "" \notin ToSet(Numeral) /\ "me" \notin ToSet(Numeral)
      /\ "80" \in ToSet(Numeral) /\ "8080" \in ToSet(Numeral) /\ "80" \notin TooBig /\ "8080" \notin TooBig
  BY UrlAssumption, Zenon
<1>3. "pw" \in UrlToken
  BY TokensAre, Zenon
<1>4. /\ <<"pw">> \in Texts /\ Len(<<"pw">>) = 1 /\ <<"pw">>[1] = "pw" /\ <<>> \in Texts
  BY <1>3, ShortTexts
<1>5. Without(<<"pw">>, {"@"})
  BY <1>4 DEF Without
<1>6. \A w \in {"", "ftp", "http", "h2"} : IsWord(w) /\ ToLower(w) = w /\ w \in UrlToken
  BY <1>1, <1>2, TokensAre, Zenon DEF ToLower
<1>7. \A p \in {"", "80", "8080"} : p \in {""} \cup ToSet(Numeral) /\ p \in UrlToken /\ p \notin TooBig
  BY <1>2, TokensAre, NoPortFits, Zenon
<1> QED BY <1>1, <1>2, <1>4, <1>5, <1>6, <1>7, TokensAre, Zenon DEF IsNumeral

(* The parts of a new url are good. *)
LEMMA BlankParts == UrlParts(Blank) /\ Blank.port \notin TooBig
<1>1. "" \in UrlToken /\ "" \in {""} \cup ToSet(Numeral) /\ IsWord("") /\ ToLower("") = "" /\ ~IsNumeral("")
  BY WordsAre, Zenon
<1>2. <<>> \in Texts /\ Without(<<>>, {"@"}) /\ Without(<<>>, {"?", "#"})
  BY DEF Texts, Without
<1>3. NoParams \in UrlParamSet
  BY NoneOf DEF UrlParamSet
<1>4. UrlParts(Blank)
  BY <1>1, <1>2, <1>3, MadeOf, Zenon DEF Blank
<1>5. Blank.port = ""
  BY Zenon DEF Blank
<1> QED BY <1>4, <1>5, NoPortFits, Zenon

(* A text does not depend on what is in the cache. *)
AssembleOf(scheme, user, passwd, host, port, path, params, fragment) ==
  Opt(scheme # "", <<scheme, "://">>)
  \o Opt(user # "", <<user>> \o Opt(passwd # <<>>, <<":">> \o passwd) \o <<"@">>)
  \o Opt(host # "", <<host>>)
  \o Opt(port # "", <<":", port>>)
  \o Opt(path # <<>>, Opt(path[1] # "/", <<"/">>) \o path)
  \o Opt(DOMAIN params # {}, <<"?">> \o Front(Pairs(params)))
  \o Opt(fragment # "", <<"#", fragment>>)
(* What str puts together does not depend on the cache. *)
LEMMA CacheApart ==
  ASSUME NEW u, UrlParts(u), NEW x
  PROVE  Assemble([u EXCEPT !.cache = x]) = Assemble(u)
<1>1. u \in [scheme : UrlToken, user : UrlToken, passwd : Texts, host : UrlToken, port : UrlToken, path : Texts,
             params : UrlParamSet, fragment : UrlToken, cache : Texts]
  BY Zenon DEF UrlParts, UrlParamSet
<1>2. PICK v : v = [u EXCEPT !.cache = x]
  OBVIOUS
<1>3. /\ v.scheme = u.scheme /\ v.user = u.user /\ v.passwd = u.passwd /\ v.host = u.host /\ v.port = u.port
      /\ v.path = u.path /\ v.params = u.params /\ v.fragment = u.fragment
  BY <1>1, <1>2
<1>4. \A w : Assemble(w) = AssembleOf(w.scheme, w.user, w.passwd, w.host, w.port, w.path, w.params, w.fragment)
  BY Zenon DEF Assemble, AssembleOf
<1> QED BY <1>2, <1>3, <1>4, Zenon

-----------------------------------------------------------------------------
(* A call that forgets the cache, and one that knows nothing of it.        *)
LEMMA BecomesInv ==
  ASSUME NEW v, UrlParts(v), v.port \notin TooBig, v.cache = <<>>, UrlBecomes(v)
  PROVE  UrlInv'
<1>1. url' = v /\ behind' = (behind /\ v.cache # <<>>)
  BY Zenon DEF UrlBecomes
<1>2. UrlParts(url') /\ UrlPort'
  BY <1>1, Zenon DEF UrlPort
<1>3. ~behind' /\ url'.cache = <<>>
  BY <1>1, Zenon
<1> QED BY <1>2, <1>3, Zenon DEF UrlInv, UrlCache

(* A call that knows nothing of the cache leaves it, behind if a part changed. *)
LEMMA KeepsCacheInv ==
  ASSUME NEW v, UrlInv, UrlParts(v), v.port \notin TooBig, v.cache = url.cache, UrlKeepsCache(v)
  PROVE  UrlInv'
<1>1. url' = v /\ behind' = (v.cache # <<>> /\ (behind \/ v # url))
  BY Zenon DEF UrlKeepsCache
<1>2. UrlParts(url') /\ UrlPort'
  BY <1>1, Zenon DEF UrlPort
<1>3. behind' => url'.cache # <<>>
  BY <1>1, Zenon
<1>4. ASSUME ~behind', url'.cache # <<>> PROVE url'.cache = Assemble(url')
  <2>1. ~behind /\ v = url /\ url.cache # <<>>
    BY <1>1, <1>4, Zenon
  <2>2. url.cache = Assemble(url)
    BY <2>1, Zenon DEF UrlInv, UrlCache
  <2> QED BY <1>1, <2>1, <2>2, Zenon
<1> QED BY <1>2, <1>3, <1>4, Zenon DEF UrlInv, UrlCache

(* Every call keeps the invariant. *)
LEMMA UrlStep == UrlInv /\ [UrlNext]_urlVars => UrlInv'
<1> SUFFICES ASSUME UrlInv, [UrlNext]_urlVars PROVE UrlInv'
  OBVIOUS
<1>1. UrlParts(url)
  BY Zenon DEF UrlInv
<1>2. /\ url.scheme \in UrlToken /\ url.user \in UrlToken /\ url.passwd \in Texts /\ url.host \in UrlToken
      /\ url.port \in UrlToken /\ url.path \in Texts /\ url.params \in UrlParamSet /\ url.fragment \in UrlToken
      /\ url.cache \in Texts
      /\ IsWord(url.scheme) /\ ToLower(url.scheme) = url.scheme /\ IsWord(url.host) /\ ToLower(url.host) = url.host
      /\ IsWord(url.user) /\ ~IsNumeral(url.user) /\ IsWord(url.fragment)
      /\ url.port \in {""} \cup ToSet(Numeral)
      /\ Without(url.passwd, {"@"}) /\ Without(url.path, {"?", "#"})
  <2>1. url.port = "" \/ IsNumeral(url.port)
    BY <1>1, PartsAre
  <2>2. url.port \in {""} \cup ToSet(Numeral)
    BY <2>1, Zenon DEF IsNumeral
  <2> QED BY <1>1, <2>2, PartsAre, Zenon
<1>3. url \in AnyUrl
  BY <1>1, Zenon DEF UrlParts, UrlParamSet, AnyUrl
<1>14. url.port \notin TooBig
  BY Zenon DEF UrlInv, UrlPort
<1>4. CASE UNCHANGED urlVars
  BY <1>4, Zenon DEF urlVars, UrlInv, UrlPort, UrlCache
<1>5. CASE UrlSet
  <2>1. PICK t \in UrlTexts : UrlKeepsCache(IF PortThrows(t) THEN SetUpToPort(url, t) ELSE SetText(url, t))
    BY <1>5, Zenon DEF UrlSet
  <2>2. PICK v : v = SetParts(url, Cut(t))
    OBVIOUS
  <2>3. UrlParts(v) /\ v.cache = url.cache /\ (~PortThrows(t) => v.port \notin TooBig)
    BY <1>1, <1>14, <2>2, SetPartsOfText, Zenon
  <2>4. SetText(url, t) = v
    BY <2>2, SetTextIs, Zenon
  <2>5. CASE ~PortThrows(t)
    <3>1. UrlKeepsCache(v)
      BY <2>1, <2>4, <2>5, Zenon
    <3> QED BY <2>3, <2>5, <3>1, KeepsCacheInv, Zenon
  <2>6. CASE PortThrows(t)
    <3>1. UrlKeepsCache([url EXCEPT !.scheme = v.scheme, !.user = v.user, !.passwd = v.passwd, !.host = v.host])
      BY <2>1, <2>4, <2>6, Zenon DEF SetUpToPort
    <3>2. [url EXCEPT !.scheme = v.scheme, !.user = v.user, !.passwd = v.passwd, !.host = v.host]
            = Changed(url, v.scheme, v.user, v.passwd, v.host, url.port, url.params, url.cache)
      BY <1>3, SetUpToPortEdit, Zenon
    <3>3. /\ UrlParts(Changed(url, v.scheme, v.user, v.passwd, v.host, url.port, url.params, url.cache))
          /\ Changed(url, v.scheme, v.user, v.passwd, v.host, url.port, url.params, url.cache).cache = url.cache
          /\ Changed(url, v.scheme, v.user, v.passwd, v.host, url.port, url.params, url.cache).port = url.port
      <4>1. /\ v.scheme \in UrlToken /\ v.user \in UrlToken /\ v.passwd \in Texts /\ v.host \in UrlToken
            /\ IsWord(v.scheme) /\ ToLower(v.scheme) = v.scheme /\ IsWord(v.host) /\ ToLower(v.host) = v.host
            /\ IsWord(v.user) /\ ~IsNumeral(v.user) /\ Without(v.passwd, {"@"})
        BY <2>3, PartsAre
      <4>2. Fitting(v.scheme, v.user, v.passwd, v.host, url.port, url.params, url.cache)
        BY <1>2, <4>1, Zenon DEF Fitting
      <4> QED BY <1>1, <4>2, ChangedParts
    <3>4. PICK w : w = Changed(url, v.scheme, v.user, v.passwd, v.host, url.port, url.params, url.cache)
      OBVIOUS
    <3>5. UrlKeepsCache(w) /\ UrlParts(w) /\ w.cache = url.cache /\ w.port \notin TooBig
      BY <1>14, <3>1, <3>2, <3>3, <3>4, Zenon
    <3> QED BY <3>5, KeepsCacheInv, Zenon
  <2> QED BY <2>5, <2>6
<1>6. CASE UrlSetUser
  <2>1. PICK pw \in {<<>>, <<"pw">>} : UrlBecomes(SetUser(url, "me", pw))
    BY <1>6, Zenon DEF UrlSetUser
  <2>2. PICK passwd : passwd = IF pw # <<>> THEN pw ELSE url.passwd
    OBVIOUS
  <2>3. passwd \in Texts /\ Without(passwd, {"@"})
    BY <1>2, <2>1, <2>2, WordsAre, Zenon
  <2>4. SetUser(url, "me", pw) = Changed(url, url.scheme, "me", passwd, url.host, url.port, url.params, <<>>)
    <3>1. SetUser(url, "me", pw) = [url EXCEPT !.user = "me", !.passwd = passwd, !.cache = <<>>]
      BY <2>2, Zenon DEF SetUser
    <3> QED BY <1>3, <3>1, UserEdit, Zenon
  <2>5. /\ UrlParts(Changed(url, url.scheme, "me", passwd, url.host, url.port, url.params, <<>>))
        /\ Changed(url, url.scheme, "me", passwd, url.host, url.port, url.params, <<>>).cache = <<>>
        /\ Changed(url, url.scheme, "me", passwd, url.host, url.port, url.params, <<>>).port = url.port
    <3>1. Fitting(url.scheme, "me", passwd, url.host, url.port, url.params, <<>>)
      BY <1>2, <2>3, WordsAre, Zenon DEF Fitting
    <3> QED BY <1>1, <3>1, ChangedParts
  <2> QED BY <1>14, <2>1, <2>4, <2>5, BecomesInv, Zenon
<1>7. CASE UrlSetPassword
  <2>1. UrlBecomes([url EXCEPT !.passwd = <<"pw">>, !.cache = <<>>])
    BY <1>7, Zenon DEF UrlSetPassword
  <2>2. [url EXCEPT !.passwd = <<"pw">>, !.cache = <<>>]
          = Changed(url, url.scheme, url.user, <<"pw">>, url.host, url.port, url.params, <<>>)
    BY <1>3, PasswdEdit, Zenon
  <2>3. /\ UrlParts(Changed(url, url.scheme, url.user, <<"pw">>, url.host, url.port, url.params, <<>>))
        /\ Changed(url, url.scheme, url.user, <<"pw">>, url.host, url.port, url.params, <<>>).cache = <<>>
        /\ Changed(url, url.scheme, url.user, <<"pw">>, url.host, url.port, url.params, <<>>).port = url.port
    <3>1. Fitting(url.scheme, url.user, <<"pw">>, url.host, url.port, url.params, <<>>)
      BY <1>2, WordsAre, Zenon DEF Fitting
    <3> QED BY <1>1, <3>1, ChangedParts
  <2> QED BY <1>14, <2>1, <2>2, <2>3, BecomesInv, Zenon
<1>8. CASE UrlSetScheme
  <2>1. UrlBecomes([url EXCEPT !.scheme = "ftp", !.cache = <<>>])
    BY <1>8, Zenon DEF UrlSetScheme
  <2>2. [url EXCEPT !.scheme = "ftp", !.cache = <<>>]
          = Changed(url, "ftp", url.user, url.passwd, url.host, url.port, url.params, <<>>)
    BY <1>3, SchemeEdit, Zenon
  <2>3. /\ UrlParts(Changed(url, "ftp", url.user, url.passwd, url.host, url.port, url.params, <<>>))
        /\ Changed(url, "ftp", url.user, url.passwd, url.host, url.port, url.params, <<>>).cache = <<>>
        /\ Changed(url, "ftp", url.user, url.passwd, url.host, url.port, url.params, <<>>).port = url.port
    <3>1. Fitting("ftp", url.user, url.passwd, url.host, url.port, url.params, <<>>)
      BY <1>2, WordsAre, Zenon DEF Fitting
    <3> QED BY <1>1, <3>1, ChangedParts
  <2> QED BY <1>14, <2>1, <2>2, <2>3, BecomesInv, Zenon
<1>9. CASE UrlSetHost
  <2>1. PICK p :
          /\ p \in {"", "8080"}
          /\ UrlBecomes([url EXCEPT !.host = "h2", !.port = IF @ # "" THEN p ELSE @,
                                    !.scheme = IF @ = "" THEN "http" ELSE @, !.cache = <<>>])
    BY <1>9, Zenon DEF UrlSetHost
  <2>2. PICK port : port = IF url.port # "" THEN p ELSE url.port
    OBVIOUS
  <2>3. PICK scheme : scheme = IF url.scheme = "" THEN "http" ELSE url.scheme
    OBVIOUS
  <2>4. port \in UrlToken /\ port \in {""} \cup ToSet(Numeral) /\ port \notin TooBig
    BY <1>2, <1>14, <2>1, <2>2, WordsAre, Zenon
  <2>5. scheme \in UrlToken /\ IsWord(scheme) /\ ToLower(scheme) = scheme
    BY <1>2, <2>3, WordsAre, Zenon
  <2>6. [url EXCEPT !.host = "h2", !.port = port, !.scheme = scheme, !.cache = <<>>]
          = Changed(url, scheme, url.user, url.passwd, "h2", port, url.params, <<>>)
    BY <1>3, HostEdit, Zenon
  <2>7. /\ UrlParts(Changed(url, scheme, url.user, url.passwd, "h2", port, url.params, <<>>))
        /\ Changed(url, scheme, url.user, url.passwd, "h2", port, url.params, <<>>).cache = <<>>
        /\ Changed(url, scheme, url.user, url.passwd, "h2", port, url.params, <<>>).port = port
    <3>1. Fitting(scheme, url.user, url.passwd, "h2", port, url.params, <<>>)
      BY <1>2, <2>4, <2>5, WordsAre, Zenon DEF Fitting
    <3> QED BY <1>1, <3>1, ChangedParts
  <2>8. UrlBecomes([url EXCEPT !.host = "h2", !.port = port, !.scheme = scheme, !.cache = <<>>])
    BY <2>1, <2>2, <2>3, Zenon
  <2> QED BY <2>4, <2>6, <2>7, <2>8, BecomesInv, Zenon
<1>10. CASE UrlSetPort
  <2>1. PICK p \in {"80", "8080"} : UrlKeepsCache([url EXCEPT !.port = p])
    BY <1>10, Zenon DEF UrlSetPort
  <2>2. [url EXCEPT !.port = p] = Changed(url, url.scheme, url.user, url.passwd, url.host, p, url.params, url.cache)
    BY <1>3 DEF AnyUrl, Changed
  <2>3. /\ UrlParts(Changed(url, url.scheme, url.user, url.passwd, url.host, p, url.params, url.cache))
        /\ Changed(url, url.scheme, url.user, url.passwd, url.host, p, url.params, url.cache).cache = url.cache
        /\ Changed(url, url.scheme, url.user, url.passwd, url.host, p, url.params, url.cache).port = p
    <3>1. Fitting(url.scheme, url.user, url.passwd, url.host, p, url.params, url.cache)
      BY <1>2, <2>1, WordsAre, Zenon DEF Fitting
    <3> QED BY <1>1, <3>1, ChangedParts
  <2>4. p \notin TooBig
    BY <2>1, WordsAre, Zenon
  <2> QED BY <2>1, <2>2, <2>3, <2>4, KeepsCacheInv, Zenon
<1>11. CASE UrlParams
  <2>1. PICK a : a = [n \in {"a"} |-> <<"2">>]
    OBVIOUS
  <2>2. UrlKeepsCache([url EXCEPT !.params = Over(a, url.params)])
    BY <1>11, <2>1, Zenon DEF UrlParams
  <2>3. Over(a, url.params) \in UrlParamSet
    <3>1. "a" \in ToSet(NameOrder)
      BY UrlAssumption, Zenon
    <3>2. "2" \in UrlToken
      BY TokensAre, Zenon
    <3>3. "2" \notin ParamMarks
      BY Zenon DEF ParamMarks
    <3>4. <<"2">> \in Texts /\ Len(<<"2">>) = 1 /\ <<"2">>[1] = "2"
      BY <3>2, ShortTexts
    <3>5. <<"2">> \in ParamTexts
      BY <3>3, <3>4 DEF ParamTexts, Without
    <3>6. a \in ParamsOf(ToSet(NameOrder))
      BY <2>1, <3>1, <3>5, OneParam
    <3> QED BY <1>2, <3>6, OverIs DEF UrlParamSet
  <2>4. [url EXCEPT !.params = Over(a, url.params)]
          = Changed(url, url.scheme, url.user, url.passwd, url.host, url.port, Over(a, url.params), url.cache)
    BY <1>3 DEF AnyUrl, Changed
  <2>5. /\ UrlParts(Changed(url, url.scheme, url.user, url.passwd, url.host, url.port, Over(a, url.params), url.cache))
        /\ Changed(url, url.scheme, url.user, url.passwd, url.host, url.port, Over(a, url.params), url.cache).cache
             = url.cache
        /\ Changed(url, url.scheme, url.user, url.passwd, url.host, url.port, Over(a, url.params), url.cache).port
             = url.port
    <3>1. Fitting(url.scheme, url.user, url.passwd, url.host, url.port, Over(a, url.params), url.cache)
      BY <1>2, <2>3, Zenon DEF Fitting
    <3> QED BY <1>1, <3>1, ChangedParts
  <2> QED BY <1>14, <2>2, <2>4, <2>5, KeepsCacheInv, Zenon
<1>12. CASE UrlReset
  <2>1. UrlBecomes(Blank)
    BY <1>12, Zenon DEF UrlReset
  <2>2. Blank.cache = <<>>
    BY Zenon DEF Blank
  <2> QED BY <2>1, <2>2, BlankParts, BecomesInv, Zenon
<1>13. CASE UrlStr
  <2>1. PICK x : x = StrOf(url)
    OBVIOUS
  <2>2. PICK v : v = [url EXCEPT !.cache = x]
    OBVIOUS
  <2>3. url' = v /\ behind' = (behind /\ v.cache # <<>>)
    BY <1>13, <2>1, <2>2, Zenon DEF UrlStr, UrlBecomes
  <2>4. x \in Texts
    BY <1>1, <1>2, <2>1, AssembleIs, Zenon DEF StrOf
  <2>5. v = Changed(url, url.scheme, url.user, url.passwd, url.host, url.port, url.params, x)
    BY <1>3, <2>2 DEF AnyUrl, Changed
  <2>6. UrlParts(v) /\ v.cache = x /\ v.port = url.port
    <3>1. Fitting(url.scheme, url.user, url.passwd, url.host, url.port, url.params, x)
      BY <1>2, <2>4, Zenon DEF Fitting
    <3> QED BY <1>1, <2>5, <3>1, ChangedParts
  <2>7. Assemble(v) = Assemble(url)
    BY <1>1, <2>2, CacheApart, Zenon
  <2>8. ASSUME ~behind', v.cache # <<>> PROVE v.cache = Assemble(v)
    <3>1. ~behind
      BY <2>3, <2>8, Zenon
    <3>2. url.cache # <<>> => url.cache = Assemble(url)
      BY <3>1, Zenon DEF UrlInv, UrlCache
    <3>3. x = Assemble(url)
      BY <2>1, <3>2, Zenon DEF StrOf
    <3> QED BY <2>6, <2>7, <3>3, Zenon
  <2> QED BY <1>14, <2>3, <2>6, <2>8, Zenon DEF UrlInv, UrlPort, UrlCache
<1> QED BY <1>4, <1>5, <1>6, <1>7, <1>8, <1>9, <1>10, <1>11, <1>12, <1>13, Zenon DEF UrlNext

(* A new url has the invariant. *)
LEMMA UrlStart == UrlInit => UrlInv
<1> SUFFICES ASSUME UrlInit PROVE UrlInv
  OBVIOUS
<1>1. url = Blank /\ behind = FALSE
  BY Zenon DEF UrlInit
<1>2. Blank.cache = <<>>
  BY Zenon DEF Blank
<1> QED BY <1>1, <1>2, BlankParts, Zenon DEF UrlInv, UrlPort, UrlCache

(* A url whose text is read as it was meant, from where the parts are good. *)
LEMMA RegularReads ==
  ASSUME NEW u, UrlParts(u), Regular(u)
  PROVE  Readable(u)
<1>1. Hosted(u) /\ UserOfPasswd(u) /\ ~DefaultPort(u.scheme, u.port)
  BY Zenon DEF Regular, Hosted, PortOfHost, UserOfPasswd
<1>2. Rest(Assemble(u), SchemeOf(Assemble(u))) = FromUser(u)
  BY <1>1, SchemeTakes, Zenon
<1>3. NoStrayAt(u)
  BY <1>2, Zenon DEF Regular, NoStrayAt
<1> QED BY <1>1, <1>3, Zenon DEF Readable

(* The text of a regular url is read back, where the invariant holds. *)
LEMMA UrlReadsBackHolds == UrlInv => UrlReadsBack
<1> SUFFICES ASSUME UrlInv, Regular(url), ~behind
             PROVE  ~PortThrows(StrOf(url)) /\ SetText(Blank, StrOf(url)) = [url EXCEPT !.cache = <<>>]
  BY Zenon DEF UrlReadsBack
<1>1. UrlParts(url) /\ url.port \notin TooBig
  BY Zenon DEF UrlInv, UrlPort
<1>2. StrOf(url) = Assemble(url)
  BY Zenon DEF UrlInv, UrlCache, StrOf
<1>3. SetText(Blank, Assemble(url)) = [url EXCEPT !.cache = <<>>]
  BY <1>1, RegularReads, ReadsAssembled
<1>4. ~PortThrows(Assemble(url))
  BY <1>1, RegularReads, AssembledNotThrows
<1> QED BY <1>2, <1>3, <1>4, Zenon

(* The parts of a url stay what set can make of a text, its port one that  *)
(* set takes, and the cache holds the text of the parts, or one that is    *)
(* known to be behind them.                                                *)
THEOREM UrlInvariant == UrlSpec => []UrlInv
<1>1. UrlInit => UrlInv
  BY UrlStart
<1>2. UrlInv /\ [UrlNext]_urlVars => UrlInv'
  BY UrlStep
<1> QED BY <1>1, <1>2, PTL DEF UrlSpec

(* What str() returns, set() on a new url takes apart into the same parts, *)
(* and does not throw at its port, also after calls that did (line 182),   *)
(* for every set of texts, names and numerals (url.hpp:138, 170).          *)
THEOREM UrlsReadBack == UrlSpec => []UrlReadsBack
<1>1. UrlInv => UrlReadsBack
  BY UrlReadsBackHolds
<1> QED BY <1>1, UrlInvariant, PTL
=============================================================================
