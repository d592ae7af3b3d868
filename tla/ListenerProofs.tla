---------------------------- MODULE ListenerProofs ----------------------------
(***************************************************************************)
(* For any number of workers, sockets, events and function objects, and    *)
(* queues of any length: where a socket is, whose service its callbacks    *)
(* wait in, which completion a session meets, and when the listener can    *)
(* crash.                                                                  *)
(***************************************************************************)
EXTENDS Listener, FunctionTheorems, FiniteSetTheorems, SequenceTheorems, TLAPS

-----------------------------------------------------------------------------
(* The queues of the services, for which variables and terms stand: the    *)
(* handlers of one thread's queue, whether one of the kinds K waits for s, *)
(* and whether it does so in one place only.                               *)
Queues == [Thread -> Seq(Handlers)]

In(Q, t, h) == \E i \in DOMAIN Q[t] : Q[t][i] = h

Is(h, K, s) == h.k \in K /\ h.s = s

Has(Q, K, s) == \E t \in Thread : \E h \in Handlers : In(Q, t, h) /\ Is(h, K, s)

Once(Q, K, s) ==
  \A t, u \in Thread : \A i \in DOMAIN Q[t], j \in DOMAIN Q[u] :
    Is(Q[t][i], K, s) /\ Is(Q[u][j], K, s) => t = u /\ i = j

-----------------------------------------------------------------------------
(* The phases of the owner, and what a thread that has ended leaves.       *)
Owner ==
  /\ phase = "idle" => /\ heap = {} /\ accepting = <<>> /\ timers = {}
                       /\ \A t \in Thread : q[t] = <<>> /\ pc[t] = "none"
                       /\ \A s \in Socket : wait[s] = "none" /\ pending[s] = {}
  /\ phase \in {"idle", "running"} => flag = {} /\ gone = {}
  /\ phase = "destroyed" => \A e \in Event : shots[e] = NoFunc
  /\ \A t \in gone : t \in Worker /\ t \notin timers /\ q[t] = <<>> /\ pc[t] = "gone"

(* Where a socket is: with a session, with an async_accept, or passed on by *)
(* a handler; each excludes the others, and the socket exists.             *)
Accepts(s) == \E i \in DOMAIN accepting : accepting[i] = s

Passing ==
  /\ \A s \in Socket :
       /\ (wait[s] # "none" \/ Accepts(s) \/ Has(q, Passed, s)) => s \in heap
       /\ ~(wait[s] # "none" /\ Accepts(s))
       /\ ~(wait[s] # "none" /\ Has(q, Passed, s))
       /\ ~(Accepts(s) /\ Has(q, Passed, s))
       /\ Once(q, Passed, s)
       /\ phase = "running" /\ Subscribed("accept") /\ s \in heap =>
            wait[s] # "none" \/ Accepts(s) \/ Has(q, Passed, s)
  /\ \A i, j \in DOMAIN accepting : accepting[i] = accepting[j] => i = j

(* An accept is aborted by close() only. *)
Aborted ==
  phase \in {"idle", "running", "interrupting"} =>
    \A t \in Thread, h \in Handlers : In(q, t, h) /\ h.k = "accepted" => h.e # "aborted"

(* In whose queue a handler may wait, whatever users do. *)
AtHome(h, t) ==
  /\ h.k # "check" => h.s \in Socket
  /\ h.k = "check" => t \in Worker
  /\ h.k = "accepted" => t = Acc
  /\ h.k \in {"connected", "bad", "destroy"} => home[h.s] = t
  /\ h.k = "destroy" => wait[h.s] = "done"

Homes == \A t \in Thread, h \in Handlers : In(q, t, h) => AtHome(h, t)

DeletedOnce == \A s \in Socket : Once(q, {"destroy"}, s)

(* The completions while resume() ends pauses only. *)
Awaited(op, w) == (op = "resume" /\ w = "pause") \/ (op \in Ops /\ op = w)

Completing ==
  /\ \A t \in Thread, h \in Handlers :
       In(q, t, h) /\ h.k = "coro" => home[h.s] = t /\ Awaited(h.op, wait[h.s])
  /\ \A s \in Socket :
       /\ Once(q, {"coro"}, s)
       /\ pending[s] \subseteq {wait[s]}
       /\ ~(pending[s] # {} /\ Has(q, {"coro"}, s))
       /\ home[s] \notin gone /\ wait[s] \in Ops => pending[s] # {} \/ Has(q, {"coro"}, s)
       /\ home[s] \notin gone /\ wait[s] = "done" => Has(q, {"destroy"}, s)

IInv ==
  /\ TypeOK /\ Owner /\ FuncsInTable
  /\ Passing /\ Aborted /\ Homes /\ DeletedOnce
  /\ ~careless => Completing
  /\ CrashOnlyAfterClose

-----------------------------------------------------------------------------
(* What the operations on queues do to what is in them.  R is Q with the   *)
(* queues of M behind its own.                                             *)
Joined(Q, M, R) ==
  /\ R \in Queues
  /\ \A t \in Thread, h \in Handlers : In(R, t, h) <=> In(Q, t, h) \/ In(M, t, h)
  /\ \A K, s : Has(R, K, s) <=> Has(Q, K, s) \/ Has(M, K, s)
  /\ \A K, s : Once(Q, K, s) /\ Once(M, K, s) /\ ~(Has(Q, K, s) /\ Has(M, K, s)) => Once(R, K, s)

(* R is Q with h at the end of the queue of u. *)
Added(Q, R, u, h) ==
  /\ R \in Queues
  /\ \A t \in Thread, g \in Handlers : In(R, t, g) <=> In(Q, t, g) \/ (t = u /\ g = h)
  /\ \A K, s : Has(R, K, s) <=> Has(Q, K, s) \/ Is(h, K, s)
  /\ \A K, s : Once(Q, K, s) /\ ~(Has(Q, K, s) /\ Is(h, K, s)) => Once(R, K, s)

(* R is Q without h at the head of the queue of u. *)
Dropped(Q, R, u, h) ==
  /\ R \in Queues /\ h \in Handlers /\ In(Q, u, h)
  /\ \A t \in Thread, g \in Handlers : In(R, t, g) => In(Q, t, g)
  /\ \A t \in Thread, g \in Handlers : In(Q, t, g) => In(R, t, g) \/ (t = u /\ g = h)
  /\ \A K, s : Has(R, K, s) => Has(Q, K, s)
  /\ \A K, s : Has(Q, K, s) => Has(R, K, s) \/ Is(h, K, s)
  /\ \A K, s : Once(Q, K, s) => Once(R, K, s)
  /\ \A K, s : Once(Q, K, s) /\ Is(h, K, s) => ~Has(R, K, s)

(* Whatever is in a queue is a handler. *)
LEMMA InQueue ==
  ASSUME NEW Q \in Queues, NEW t \in Thread
  PROVE  /\ Q[t] \in Seq(Handlers)
         /\ DOMAIN Q[t] = 1..Len(Q[t]) /\ Len(Q[t]) \in Nat
         /\ \A i \in DOMAIN Q[t] : Q[t][i] \in Handlers /\ In(Q, t, Q[t][i])
<1>1. Q[t] \in Seq(Handlers)
  BY DEF Queues
<1>2. /\ Q[t] \in [1..Len(Q[t]) -> Handlers] /\ Len(Q[t]) \in Nat /\ DOMAIN Q[t] = 1..Len(Q[t])
  BY <1>1, LenProperties
<1> QED BY <1>1, <1>2 DEF In

(* Where the elements of c are in a, of length n, and in b behind it. *)
Follows(c, a, b, n) ==
  /\ \A i \in DOMAIN c :
       \/ (i \in DOMAIN a /\ a[i] = c[i])
       \/ (i \notin DOMAIN a /\ (i - n) \in DOMAIN b /\ b[i - n] = c[i])
  /\ \A i \in DOMAIN a : i \in DOMAIN c /\ c[i] = a[i]
  /\ \A i \in DOMAIN b : (n + i) \in DOMAIN c /\ c[n + i] = b[i]
  /\ \A i, j \in DOMAIN c : i - n = j - n => i = j

(* c has the n elements of a before the m of b. *)
LEMMA Behind ==
  ASSUME NEW n \in Nat, NEW m \in Nat, NEW a, NEW b, NEW c,
         DOMAIN a = 1..n, DOMAIN b = 1..m, DOMAIN c = 1..(n + m),
         \A i \in 1..(n + m) : c[i] = IF i <= n THEN a[i] ELSE b[i - n]
  PROVE  Follows(c, a, b, n)
<1>1. ASSUME NEW i \in DOMAIN c
      PROVE  \/ i \in DOMAIN a /\ a[i] = c[i]
             \/ i \notin DOMAIN a /\ (i - n) \in DOMAIN b /\ b[i - n] = c[i]
  <2>1. CASE i <= n
    BY <2>1
  <2>2. CASE ~(i <= n)
    <3>1. i \notin 1..n /\ (i - n) \in 1..m
      BY <2>2
    <3> QED BY <3>1, <2>2
  <2> QED BY <2>1, <2>2
<1>2. ASSUME NEW i \in DOMAIN a PROVE i \in DOMAIN c /\ c[i] = a[i]
  <2>1. i \in 1..(n + m) /\ i <= n
    OBVIOUS
  <2> QED BY <2>1
<1>3. ASSUME NEW i \in DOMAIN b PROVE (n + i) \in DOMAIN c /\ c[n + i] = b[i]
  <2>1. (n + i) \in 1..(n + m) /\ ~(n + i <= n) /\ (n + i) - n = i
    OBVIOUS
  <2> QED BY <2>1
<1>4. \A i, j \in DOMAIN c : i - n = j - n => i = j
  OBVIOUS
<1>5. \A i \in DOMAIN c :
        \/ (i \in DOMAIN a /\ a[i] = c[i])
        \/ (i \notin DOMAIN a /\ (i - n) \in DOMAIN b /\ b[i - n] = c[i])
  BY <1>1
<1> QED BY <1>5, <1>2, <1>3, <1>4, Zenon DEF Follows

(* The same of a concatenation of queues of handlers. *)
LEMMA ConcatElements ==
  ASSUME NEW a \in Seq(Handlers), NEW b \in Seq(Handlers)
  PROVE  a \o b \in Seq(Handlers) /\ Follows(a \o b, a, b, Len(a))
<1>1. PICK c : c = a \o b
  OBVIOUS
<1>2. c \in Seq(Handlers) /\ Len(c) = Len(a) + Len(b)
      /\ \A i \in 1..(Len(a) + Len(b)) : c[i] = IF i <= Len(a) THEN a[i] ELSE b[i - Len(a)]
  BY <1>1, ConcatProperties
<1>3. /\ DOMAIN a = 1..Len(a) /\ Len(a) \in Nat
      /\ DOMAIN b = 1..Len(b) /\ Len(b) \in Nat
      /\ DOMAIN c = 1..(Len(a) + Len(b))
  BY <1>2, LenProperties
<1>4. Follows(c, a, b, Len(a))
  BY <1>2, <1>3, Behind
<1> QED BY <1>1, <1>2, <1>4

(* The queues of M behind those of Q: the elements are those of both.      *)
LEMMA JoinsAll ==
  ASSUME NEW Q \in Queues, NEW M \in Queues, NEW R \in Queues, NEW n,
         \A t \in Thread : Follows(R[t], Q[t], M[t], n[t])
  PROVE  Joined(Q, M, R)
<1>1. ASSUME NEW t \in Thread
      PROVE  /\ \A i \in DOMAIN R[t] :
                  \/ i \in DOMAIN Q[t] /\ Q[t][i] = R[t][i]
                  \/ i \notin DOMAIN Q[t] /\ (i - n[t]) \in DOMAIN M[t] /\ M[t][i - n[t]] = R[t][i]
             /\ \A i \in DOMAIN Q[t] : i \in DOMAIN R[t] /\ R[t][i] = Q[t][i]
             /\ \A i \in DOMAIN M[t] : (n[t] + i) \in DOMAIN R[t] /\ R[t][n[t] + i] = M[t][i]
             /\ \A i, j \in DOMAIN R[t] : i - n[t] = j - n[t] => i = j
  BY DEF Follows
<1>3. ASSUME NEW t \in Thread, NEW h \in Handlers
      PROVE  In(R, t, h) <=> In(Q, t, h) \/ In(M, t, h)
  <2>1. In(R, t, h) => In(Q, t, h) \/ In(M, t, h)
    <3>1. ASSUME NEW i \in DOMAIN R[t], R[t][i] = h
          PROVE  (i \in DOMAIN Q[t] /\ Q[t][i] = h) \/ ((i - n[t]) \in DOMAIN M[t] /\ M[t][i - n[t]] = h)
      BY <3>1, <1>1, Zenon
    <3> QED BY <3>1, Zenon DEF In
  <2>2. In(Q, t, h) => In(R, t, h)
    BY <1>1, Zenon DEF In
  <2>3. In(M, t, h) => In(R, t, h)
    <3>1. ASSUME NEW i \in DOMAIN M[t], M[t][i] = h
          PROVE  (n[t] + i) \in DOMAIN R[t] /\ R[t][n[t] + i] = h
      BY <3>1, <1>1, Zenon
    <3> QED BY <3>1, Zenon DEF In
  <2> QED BY <2>1, <2>2, <2>3
<1>4. ASSUME NEW K, NEW s, Once(Q, K, s), Once(M, K, s), ~(Has(Q, K, s) /\ Has(M, K, s))
      PROVE  Once(R, K, s)
  <2>1. ASSUME NEW v \in Thread, NEW k \in DOMAIN R[v], Is(R[v][k], K, s)
        PROVE  \/ k \in DOMAIN Q[v] /\ Is(Q[v][k], K, s) /\ Has(Q, K, s)
               \/ (k - n[v]) \in DOMAIN M[v] /\ Is(M[v][k - n[v]], K, s) /\ Has(M, K, s)
    <3>1. CASE k \in DOMAIN Q[v] /\ Q[v][k] = R[v][k]
      <4>1. Q[v][k] \in Handlers /\ In(Q, v, Q[v][k])
        BY <3>1, InQueue
      <4> QED BY <4>1, <3>1, <2>1, Zenon DEF Has
    <3>2. CASE (k - n[v]) \in DOMAIN M[v] /\ M[v][k - n[v]] = R[v][k]
      <4>1. M[v][k - n[v]] \in Handlers /\ In(M, v, M[v][k - n[v]])
        BY <3>2, InQueue
      <4> QED BY <4>1, <3>2, <2>1, Zenon DEF Has
    <3> QED BY <3>1, <3>2, <1>1, Zenon
  <2>2. ASSUME NEW t \in Thread, NEW u \in Thread,
               NEW i \in DOMAIN R[t], NEW j \in DOMAIN R[u],
               Is(R[t][i], K, s), Is(R[u][j], K, s)
        PROVE  t = u /\ i = j
    <3>1. CASE i \in DOMAIN Q[t] /\ Is(Q[t][i], K, s) /\ j \in DOMAIN Q[u] /\ Is(Q[u][j], K, s)
      BY <3>1, <1>4, Zenon DEF Once
    <3>2. CASE /\ (i - n[t]) \in DOMAIN M[t] /\ Is(M[t][i - n[t]], K, s)
               /\ (j - n[u]) \in DOMAIN M[u] /\ Is(M[u][j - n[u]], K, s)
      <4>0. PICK x, y : x = i - n[t] /\ y = j - n[u]
        OBVIOUS
      <4>1. x \in DOMAIN M[t] /\ Is(M[t][x], K, s) /\ y \in DOMAIN M[u] /\ Is(M[u][y], K, s)
        BY <3>2, <4>0
      <4>3. t = u /\ x = y
        BY <4>1, <1>4, Zenon DEF Once
      <4>2. j \in DOMAIN R[t]
        BY <4>3
      <4> QED BY <4>0, <4>3, <4>2, <1>1
    <3>3. \/ i \in DOMAIN Q[t] /\ Is(Q[t][i], K, s) /\ Has(Q, K, s)
          \/ (i - n[t]) \in DOMAIN M[t] /\ Is(M[t][i - n[t]], K, s) /\ Has(M, K, s)
      BY <2>1, <2>2
    <3>4. \/ j \in DOMAIN Q[u] /\ Is(Q[u][j], K, s) /\ Has(Q, K, s)
          \/ (j - n[u]) \in DOMAIN M[u] /\ Is(M[u][j - n[u]], K, s) /\ Has(M, K, s)
      BY <2>1, <2>2
    <3>5. ~(Has(Q, K, s) /\ Has(M, K, s))
      BY <1>4
    <3> QED BY <3>1, <3>2, <3>3, <3>4, <3>5, Zenon
  <2> QED BY <2>2, Zenon DEF Once
<1>5. \A K, s : Has(R, K, s) <=> Has(Q, K, s) \/ Has(M, K, s)
  BY <1>3, Zenon DEF Has
<1> QED BY <1>3, <1>4, <1>5 DEF Joined

(* ... and so they are when every queue gets its own of M. *)
LEMMA Joins ==
  ASSUME NEW Q \in Queues, NEW M \in Queues
  PROVE  Joined(Q, M, [u \in Thread |-> Q[u] \o M[u]])
<1>1. \A t \in Thread : Q[t] \in Seq(Handlers) /\ M[t] \in Seq(Handlers)
  BY InQueue
<1>2. PICK R : R = [u \in Thread |-> Q[u] \o M[u]]
  OBVIOUS
<1>3. \A t \in Thread : R[t] \in Seq(Handlers) /\ Follows(R[t], Q[t], M[t], Len(Q[t]))
  BY <1>1, <1>2, ConcatElements
<1>4. R \in Queues
  BY <1>2, <1>3 DEF Queues
<1> DEFINE n == [t \in Thread |-> Len(Q[t])]
<1>5. \A t \in Thread : Follows(R[t], Q[t], M[t], n[t])
  BY <1>3
<1> HIDE DEF n
<1>6. Joined(Q, M, R)
  BY <1>4, <1>5, JoinsAll
<1> QED BY <1>2, <1>6

(* One handler in one queue. *)
Single(u, h) == [t \in Thread |-> IF t = u THEN <<h>> ELSE <<>>]

LEMMA SingleIn ==
  ASSUME NEW u \in Thread, NEW h \in Handlers
  PROVE  /\ Single(u, h) \in Queues
         /\ \A t \in Thread, g \in Handlers : In(Single(u, h), t, g) <=> t = u /\ g = h
         /\ \A K, s : Once(Single(u, h), K, s)
         /\ \A K, s : Has(Single(u, h), K, s) <=> Is(h, K, s)
<1>1. <<h>> \in Seq(Handlers) /\ <<>> \in Seq(Handlers)
  OBVIOUS
<1>2. Single(u, h) \in Queues
  BY <1>1 DEF Single, Queues
<1>3. \A t \in Thread : DOMAIN Single(u, h)[t] = IF t = u THEN {1} ELSE {}
  BY DEF Single
<1>4. Single(u, h)[u][1] = h
  BY DEF Single
<1>5. \A t \in Thread, g \in Handlers : In(Single(u, h), t, g) <=> t = u /\ g = h
  BY <1>3, <1>4 DEF In
<1>6. \A K, s : Once(Single(u, h), K, s)
  BY <1>3 DEF Once
<1>7. \A K, s : Has(Single(u, h), K, s) <=> Is(h, K, s)
  BY <1>5 DEF Has
<1> QED BY <1>2, <1>5, <1>6, <1>7

(* A handler that is behind the queue of u only has been added. *)
LEMMA SingleJoins ==
  ASSUME NEW Q, NEW R, NEW u \in Thread, NEW h \in Handlers, Joined(Q, Single(u, h), R)
  PROVE  Added(Q, R, u, h)
BY SingleIn DEF Joined, Added

(* A handler that is posted. *)
LEMMA Adds ==
  ASSUME NEW Q \in Queues, NEW u \in Thread, NEW h \in Handlers,
         NEW R, R = [Q EXCEPT ![u] = Append(@, h)]
  PROVE  Added(Q, R, u, h)
<1>1. \A t \in Thread : Q[t] \in Seq(Handlers)
  BY InQueue
<1>2. \A t \in Thread : Q[t] \o <<>> = Q[t]
  BY <1>1, ConcatEmptySeq
<1>3. Append(Q[u], h) = Q[u] \o <<h>>
  BY <1>1, AppendIsConcat
<1>4. \A t \in Thread : R[t] = Q[t] \o Single(u, h)[t]
  BY <1>2, <1>3 DEF Single, Queues
<1>5. R = [t \in Thread |-> Q[t] \o Single(u, h)[t]]
  BY <1>4 DEF Queues
<1>6. Single(u, h) \in Queues
  BY SingleIn
<1>7. Joined(Q, Single(u, h), R)
  BY <1>5, <1>6, Joins
<1> QED BY <1>7, SingleJoins

(* The handler that a thread takes. *)
LEMMA Drops ==
  ASSUME NEW Q \in Queues, NEW u \in Thread, Q[u] # <<>>,
         NEW R, R = [Q EXCEPT ![u] = Tail(@)]
  PROVE  Dropped(Q, R, u, Head(Q[u]))
<1> DEFINE n == Len(Q[u])
           h == Head(Q[u])
<1>1. /\ R[u] = Tail(Q[u]) /\ \A t \in Thread : t # u => R[t] = Q[t]
      /\ DOMAIN R = Thread
  BY DEF Queues
<1>2. Q[u] \in Seq(Handlers) /\ n \in Nat /\ DOMAIN Q[u] = 1..n /\ n # 0
  <2>1. Q[u] \in Seq(Handlers) /\ n \in Nat /\ DOMAIN Q[u] = 1..n
    BY InQueue
  <2>2. n # 0
    BY <2>1, EmptySeq
  <2> QED BY <2>1, <2>2
<1>3. /\ h \in Handlers /\ h = Q[u][1]
      /\ R[u] \in Seq(Handlers) /\ DOMAIN R[u] = 1..(n - 1)
      /\ \A i \in 1..(n - 1) : R[u][i] = Q[u][i + 1]
  <2>1. h \in Handlers /\ R[u] \in Seq(Handlers) /\ Len(R[u]) = n - 1
        /\ \A i \in 1..Len(R[u]) : R[u][i] = Q[u][i + 1]
    BY <1>1, <1>2, HeadTailProperties
  <2>2. h = Q[u][1]
    BY <1>2
  <2>3. DOMAIN R[u] = 1..Len(R[u])
    BY <2>1, LenProperties
  <2> QED BY <2>1, <2>2, <2>3
<1>4. R \in Queues
  BY <1>1, <1>3, InQueue DEF Queues
<1>5. In(Q, u, h)
  BY <1>2, <1>3 DEF In
<1>6. ASSUME NEW t \in Thread, NEW i \in DOMAIN R[t]
      PROVE  /\ t = u => (i + 1) \in DOMAIN Q[u] /\ i \in Nat /\ i + 1 # 1 /\ Q[u][i + 1] = R[t][i]
             /\ t # u => i \in DOMAIN Q[t] /\ Q[t][i] = R[t][i]
  BY <1>1, <1>2, <1>3
<1>7. ASSUME NEW t \in Thread, NEW g \in Handlers, In(R, t, g) PROVE In(Q, t, g)
  <2>1. PICK i \in DOMAIN R[t] : R[t][i] = g
    BY <1>7 DEF In
  <2> QED BY <2>1, <1>6 DEF In
<1>8. ASSUME NEW t \in Thread, NEW g \in Handlers, In(Q, t, g) PROVE In(R, t, g) \/ (t = u /\ g = h)
  <2>1. PICK i \in DOMAIN Q[t] : Q[t][i] = g
    BY <1>8 DEF In
  <2>2. CASE t # u
    BY <2>1, <2>2, <1>1 DEF In
  <2>3. CASE t = u /\ i # 1
    <3>1. (i - 1) \in 1..(n - 1) /\ (i - 1) + 1 = i
      BY <2>1, <2>3, <1>2
    <3>2. (i - 1) \in DOMAIN R[u] /\ R[u][i - 1] = g
      BY <3>1, <1>3, <2>1, <2>3
    <3> QED BY <3>2, <2>3 DEF In
  <2>4. CASE t = u /\ i = 1
    BY <2>1, <2>4, <1>3
  <2> QED BY <2>2, <2>3, <2>4
<1>9. ASSUME NEW K, NEW s, Once(Q, K, s) PROVE Once(R, K, s) /\ (Is(h, K, s) => ~Has(R, K, s))
  <2>1. ASSUME NEW t \in Thread, NEW v \in Thread, NEW i \in DOMAIN R[t], NEW j \in DOMAIN R[v],
               Is(R[t][i], K, s), Is(R[v][j], K, s)
        PROVE  t = v /\ i = j
    <3>1. CASE t = u /\ v = u
      <4>1. /\ (i + 1) \in DOMAIN Q[u] /\ Is(Q[u][i + 1], K, s) /\ i \in Nat
            /\ (j + 1) \in DOMAIN Q[u] /\ Is(Q[u][j + 1], K, s) /\ j \in Nat
        BY <3>1, <2>1, <1>6
      <4>2. i + 1 = j + 1
        BY <4>1, <1>9, Zenon DEF Once
      <4> QED BY <3>1, <4>1, <4>2
    <3>2. CASE t # u /\ v # u
      BY <3>2, <2>1, <1>6, <1>9 DEF Once
    <3>3. CASE t = u /\ v # u
      BY <3>3, <2>1, <1>6, <1>9 DEF Once
    <3>4. CASE t # u /\ v = u
      BY <3>4, <2>1, <1>6, <1>9 DEF Once
    <3> QED BY <3>1, <3>2, <3>3, <3>4
  <2>2. ASSUME Is(h, K, s), Has(R, K, s) PROVE FALSE
    <3>1. PICK t \in Thread, g \in Handlers : In(R, t, g) /\ Is(g, K, s)
      BY <2>2 DEF Has
    <3>2. PICK i \in DOMAIN R[t] : R[t][i] = g
      BY <3>1 DEF In
    <3>3. 1 \in DOMAIN Q[u] /\ Is(Q[u][1], K, s)
      BY <1>2, <1>3, <2>2
    <3>4. CASE t = u
      <4>1. (i + 1) \in DOMAIN Q[u] /\ Is(Q[u][i + 1], K, s) /\ i + 1 # 1
        BY <3>1, <3>2, <3>4, <1>6
      <4> QED BY <4>1, <3>3, <1>9, Zenon DEF Once
    <3>5. CASE t # u
      BY <3>1, <3>2, <3>3, <3>5, <1>6, <1>9 DEF Once
    <3> QED BY <3>4, <3>5
  <2> QED BY <2>1, <2>2 DEF Once
<1>10. \A K, s : Has(R, K, s) => Has(Q, K, s)
  BY <1>7, Zenon DEF Has
<1>11. \A K, s : Has(Q, K, s) => Has(R, K, s) \/ Is(h, K, s)
  BY <1>8, Zenon DEF Has
<1> QED BY <1>3, <1>4, <1>5, <1>7, <1>8, <1>9, <1>10, <1>11 DEF Dropped

(* The queue that goes with its thread. *)
LEMMA Clears ==
  ASSUME NEW Q \in Queues, NEW u \in Thread, NEW R, R = [Q EXCEPT ![u] = <<>>]
  PROVE  /\ R \in Queues
         /\ \A t \in Thread, g \in Handlers : In(R, t, g) <=> In(Q, t, g) /\ t # u
         /\ \A K, s : Once(Q, K, s) => Once(R, K, s)
<1>1. R \in Queues
  BY DEF Queues
<1>2. R[u] = <<>> /\ \A t \in Thread : t # u => R[t] = Q[t]
  BY DEF Queues
<1>3. \A t \in Thread, g \in Handlers : In(R, t, g) <=> In(Q, t, g) /\ t # u
  BY <1>2 DEF In
<1>4. \A K, s : Once(Q, K, s) => Once(R, K, s)
  BY <1>2 DEF Once
<1> QED BY <1>1, <1>3, <1>4

(* A set as a sequence: its elements, and none when it is empty. *)
LEMMA SetSequence ==
  ASSUME NEW S, IsFiniteSet(S), NEW T, S \subseteq T
  PROVE  /\ SetToSeq(S) \in Seq(T)
         /\ \A i \in DOMAIN SetToSeq(S) : SetToSeq(S)[i] \in S
         /\ S = {} => SetToSeq(S) = <<>>
<1> DEFINE n == Cardinality(S)
<1>1. n \in Nat /\ ExistsBijection(1..n, S)
  BY FS_CardinalityType
<1>2. PICK f \in Bijection(1..n, S) : TRUE
  BY <1>1 DEF ExistsBijection
<1>3. f \in [1..n -> S] /\ IsInjective(f)
  BY <1>2 DEF Bijection, Injection
<1>4. SetToSeq(S) \in [1..n -> S]
  BY <1>3 DEF SetToSeq
<1>5. SetToSeq(S) \in Seq(S)
  BY <1>1, <1>4
<1>6. SetToSeq(S) \in Seq(T)
  BY <1>1, <1>4
<1>7. S = {} => n = 0
  BY FS_EmptySet
<1>8. n = 0 => SetToSeq(S) = <<>>
  BY <1>4, <1>5, <1>1, EmptySeq, LenProperties
<1> QED BY <1>1, <1>4, <1>6, <1>7, <1>8

(* The values of the fields of a handler. *)
LEMMA HandlerFields ==
  ASSUME NEW h \in Handlers
  PROVE  /\ h.k \in {"accepted", "connected", "bad", "check", "coro", "destroy"}
         /\ h.s \in Socket \cup {NoSocket}
         /\ h.op \in Ops \cup {"", "resume"} /\ h.e \in {"ok", "aborted", "error"}
BY DEF Handlers

(* R is Q with the aborted operations of s, in the service of s. *)
Cancelled(Q, R, s) ==
  /\ R \in Queues
  /\ \A t \in Thread, g \in Handlers : In(Q, t, g) => In(R, t, g)
  /\ \A t \in Thread, g \in Handlers :
       In(R, t, g) => In(Q, t, g) \/ (t = home[s] /\ t \notin gone /\ g.k = "coro" /\ g.s = s)
  /\ \A K, x : "coro" \notin K => (Has(R, K, x) <=> Has(Q, K, x))
  /\ \A K, x : Once(Q, K, x) /\ "coro" \notin K => Once(R, K, x)
  /\ pending[s] = {} => R = Q

(* Cancel adds handlers of the coroutine of s, in its service, and nothing *)
(* when that is gone or no operation is under way.                         *)
LEMMA Cancels ==
  ASSUME NEW Q \in Queues, NEW s \in Socket, home \in [Socket -> Thread],
         pending \in [Socket -> SUBSET Ops]
  PROVE  Cancelled(Q, Cancel(s, Q), s)
<1> DEFINE S == {Handler("coro", s, op, "aborted") : op \in pending[s]}
           X == {Handler("coro", s, "read", "aborted"), Handler("coro", s, "write", "aborted"),
                 Handler("coro", s, "connect", "aborted")}
<1>1. CASE home[s] \in gone
  BY <1>1 DEF Cancel, Cancelled
<1>2. CASE home[s] \notin gone
  <2>1. PICK hs : hs = SetToSeq(S)
    OBVIOUS
  <2>2. IsFiniteSet(X)
    <3>1. IsFiniteSet({Handler("coro", s, "read", "aborted")})
      BY FS_Singleton
    <3>2. IsFiniteSet({Handler("coro", s, "read", "aborted")} \cup {Handler("coro", s, "write", "aborted")})
      BY <3>1, FS_AddElement
    <3>3. IsFiniteSet(({Handler("coro", s, "read", "aborted")} \cup {Handler("coro", s, "write", "aborted")})
                        \cup {Handler("coro", s, "connect", "aborted")})
      BY <3>2, FS_AddElement
    <3>4. X = ({Handler("coro", s, "read", "aborted")} \cup {Handler("coro", s, "write", "aborted")})
                        \cup {Handler("coro", s, "connect", "aborted")}
      OBVIOUS
    <3> QED BY <3>3, <3>4
  <2>3. \A op \in pending[s] : op \in Ops
    OBVIOUS
  <2>4. S \in SUBSET X
    BY <2>3 DEF Ops
  <2>5. IsFiniteSet(S)
    BY <2>2, <2>4, FS_Subset
  <2>6. \A h \in S : h \in Handlers /\ h.k = "coro" /\ h.s = s
    <3>1. ASSUME NEW op \in pending[s]
          PROVE  /\ Handler("coro", s, op, "aborted") \in Handlers
                 /\ Handler("coro", s, op, "aborted").k = "coro"
                 /\ Handler("coro", s, op, "aborted").s = s
      BY <2>3 DEF Handler, Handlers
    <3> QED BY <3>1
  <2>7. S \subseteq Handlers
    BY <2>6
  <2> HIDE DEF S, X
  <2>8. hs \in Seq(Handlers) /\ (\A i \in DOMAIN hs : hs[i] \in S) /\ (S = {} => hs = <<>>)
    BY <2>1, <2>5, <2>7, SetSequence
  <2>9. PICK M : M = [t \in Thread |-> IF t = home[s] THEN hs ELSE <<>>]
    OBVIOUS
  <2>10. <<>> \in Seq(Handlers)
    OBVIOUS
  <2>11. M \in Queues
    BY <2>8, <2>9, <2>10 DEF Queues
  <2>12. \A t \in Thread, g \in Handlers : In(M, t, g) => t = home[s] /\ g \in S
    BY <2>8, <2>9 DEF In
  <2>13. Joined(Q, M, [u \in Thread |-> Q[u] \o M[u]])
    BY <2>11, Joins
  <2>14. \A t \in Thread : Q[t] \in Seq(Handlers) /\ Q[t] \o <<>> = Q[t]
    BY InQueue, ConcatEmptySeq
  <2>15. PICK R : R = Cancel(s, Q)
    OBVIOUS
  <2>16. R = [Q EXCEPT ![home[s]] = @ \o hs]
    BY <2>1, <2>15, <1>2 DEF Cancel, S
  <2>17. R = [u \in Thread |-> Q[u] \o M[u]]
    <3>1. \A t \in Thread : R[t] = Q[t] \o M[t]
      BY <2>9, <2>14, <2>16 DEF Queues
    <3>2. DOMAIN R = Thread /\ R = [t \in DOMAIN R |-> R[t]]
      BY <2>16 DEF Queues
    <3> QED BY <3>1, <3>2
  <2>18. Joined(Q, M, R)
    BY <2>13, <2>17
  <2>19. \A K, x : "coro" \notin K => ~Has(M, K, x) /\ Once(M, K, x)
    <3> SUFFICES ASSUME NEW K, NEW x, "coro" \notin K PROVE ~Has(M, K, x) /\ Once(M, K, x)
      OBVIOUS
    <3>1. ~Has(M, K, x)
      BY <2>6, <2>12 DEF Has, Is
    <3>2. \A t \in Thread : \A i \in DOMAIN M[t] : ~Is(M[t][i], K, x)
      <4>1. \A t \in Thread : \A i \in DOMAIN M[t] : M[t][i] \in Handlers /\ In(M, t, M[t][i])
        BY <2>11, InQueue
      <4> QED BY <4>1, <3>1, Zenon DEF Has
    <3> QED BY <3>1, <3>2 DEF Once
  <2>20. pending[s] = {} => R = Q
    <3>1. ASSUME pending[s] = {} PROVE R = Q
      <4>1. S = {}
        BY <3>1 DEF S
      <4>2. hs = <<>>
        BY <4>1, <2>8
      <4>3. Q[home[s]] \o <<>> = Q[home[s]]
        BY <2>14
      <4> QED BY <4>2, <4>3, <2>16 DEF Queues
    <3> QED BY <3>1
  <2>21. \A t \in Thread, g \in Handlers :
           In(R, t, g) => In(Q, t, g) \/ (t = home[s] /\ t \notin gone /\ g.k = "coro" /\ g.s = s)
    BY <2>6, <2>12, <2>18, <1>2 DEF Joined
  <2>22. Cancelled(Q, R, s)
    BY <2>18, <2>19, <2>20, <2>21, Zenon DEF Joined, Cancelled
  <2> QED BY <2>15, <2>22
<1> QED BY <1>1, <1>2

-----------------------------------------------------------------------------
(* A socket object that new returns is a free one. *)
LEMMA Fresh ==
  ASSUME heap \subseteq Socket, heap # Socket
  PROVE  NewSocket \in Socket /\ NewSocket \notin heap
<1>1. \E s \in Socket : s \notin heap
  OBVIOUS
<1> QED BY <1>1 DEF NewSocket

(* TypeOK in a form that needs no definition. *)
LEMMA Types ==
  ASSUME TypeOK
  PROVE  /\ q \in Queues /\ gone \subseteq Thread
         /\ heap \subseteq Socket /\ home \in [Socket -> Thread]
         /\ wait \in [Socket -> Waits] /\ open \subseteq Socket /\ failed \subseteq Socket
         /\ pending \in [Socket -> SUBSET Ops] /\ crashed \in BOOLEAN /\ careless \in BOOLEAN
         /\ shots \in [Event -> Func \cup {NoFunc}] /\ funcs \subseteq Func
         /\ phase \in Phases /\ hold \in BOOLEAN
         /\ pc \in [Thread -> {"none", "begin", "loop", "run", "stopped", "gone"}]
         /\ flag \subseteq Thread /\ timers \subseteq Worker
         /\ accepting \in Seq(Socket) /\ DOMAIN accepting = 1..Len(accepting)
         /\ \A i \in DOMAIN accepting : accepting[i] \in Socket
         /\ Len(accepting) \in Nat
<1>1. accepting \in Seq(Socket)
  BY DEF TypeOK
<1>2. accepting \in [1..Len(accepting) -> Socket] /\ Len(accepting) \in Nat
  BY <1>1, LenProperties
<1> QED BY <1>1, <1>2 DEF TypeOK, SessionTypeOK, ObserverTypeOK, Queues

(* The acceptor's thread is never among those that have taken their        *)
(* service with them.                                                      *)
LEMMA AccStays == ASSUME Owner PROVE Acc \in Thread /\ Acc \notin gone
BY SessionAssumption DEF Owner, Thread

(* Owner, Passing, Aborted and the rest at the beginning. *)
LEMMA Initially == Init => IInv
<1> SUFFICES ASSUME Init PROVE IInv
  OBVIOUS
<1> USE DEF Init, SessionInit, ObserverInit
<1>1. \A t \in Thread : DOMAIN q[t] = {}
  OBVIOUS
<1>2. \A t \in Thread : \A h : ~In(q, t, h)
  BY <1>1 DEF In
<1>3. \A K, s : ~Has(q, K, s) /\ Once(q, K, s)
  BY <1>1, <1>2 DEF Has, Once
<1>4. TypeOK
  <2>1. Acc \in Thread /\ <<>> \in Seq(Handlers) /\ <<>> \in Seq(Socket)
    BY DEF Thread
  <2>2. SessionTypeOK
    BY <2>1 DEF SessionTypeOK, Waits
  <2>3. ObserverTypeOK
    BY DEF ObserverTypeOK
  <2> QED BY <2>1, <2>2, <2>3 DEF TypeOK, Phases
<1>5. Owner
  BY DEF Owner
<1>6. FuncsInTable
  BY DEF FuncsInTable, Subscribed
<1>7. Passing
  BY <1>3 DEF Passing, Accepts
<1>8. Aborted /\ Homes /\ DeletedOnce
  BY <1>2, <1>3 DEF Aborted, Homes, DeletedOnce
<1>9. Completing
  BY <1>2, <1>3 DEF Completing, Ops
<1>10. CrashOnlyAfterClose
  BY DEF CrashOnlyAfterClose
<1> QED BY <1>4, <1>5, <1>6, <1>7, <1>8, <1>9, <1>10 DEF IInv

-----------------------------------------------------------------------------
(* What is kept when nothing happens to the sessions and their handlers. *)
Untouched ==
  /\ q' \in Queues /\ wait' = wait /\ pending' = pending /\ gone' = gone /\ careless' = careless
  /\ \A x \in Socket : wait[x] # "none" => home'[x] = home[x]
  /\ \A t \in Thread, h \in Handlers :
       h.k \in {"coro", "destroy"} => (In(q', t, h) <=> In(q, t, h))
  /\ \A x : Once(q, {"coro"}, x) => Once(q', {"coro"}, x)
  /\ \A x : Once(q, {"destroy"}, x) => Once(q', {"destroy"}, x)

(* A step that concerns no session keeps what is said of completions. *)
LEMMA SessionsStay ==
  ASSUME IInv, Untouched
  PROVE  DeletedOnce' /\ (~careless' => Completing')
<1>1. DeletedOnce'
  BY DEF IInv, Untouched, DeletedOnce
<1>2. ASSUME ~careless' PROVE Completing'
  <2>1. Completing /\ Homes
    BY <1>2 DEF IInv, Untouched
  <2>2. \A x : Has(q', {"coro"}, x) <=> Has(q, {"coro"}, x)
    BY DEF Untouched, Has, Is
  <2>3. \A x : Has(q', {"destroy"}, x) <=> Has(q, {"destroy"}, x)
    BY DEF Untouched, Has, Is
  <2>4. ASSUME NEW t \in Thread, NEW h \in Handlers, In(q', t, h), h.k = "coro"
        PROVE  home'[h.s] = t /\ Awaited(h.op, wait'[h.s])
    <3>1. In(q, t, h)
      BY <2>4 DEF Untouched
    <3>2. home[h.s] = t /\ Awaited(h.op, wait[h.s]) /\ h.s \in Socket
      BY <2>1, <2>4, <3>1 DEF Completing, Homes, AtHome
    <3>3. wait[h.s] # "none"
      BY <3>2 DEF Awaited, Ops
    <3> QED BY <3>2, <3>3 DEF Untouched
  <2>5. ASSUME NEW s \in Socket
        PROVE  /\ Once(q', {"coro"}, s)
               /\ pending'[s] \subseteq {wait'[s]}
               /\ ~(pending'[s] # {} /\ Has(q', {"coro"}, s))
               /\ home'[s] \notin gone' /\ wait'[s] \in Ops => pending'[s] # {} \/ Has(q', {"coro"}, s)
               /\ home'[s] \notin gone' /\ wait'[s] = "done" => Has(q', {"destroy"}, s)
    <3>1. wait[s] \in Ops \/ wait[s] = "done" => home'[s] = home[s]
      BY DEF Untouched, Ops
    <3>2. /\ Once(q, {"coro"}, s)
          /\ pending[s] \subseteq {wait[s]}
          /\ ~(pending[s] # {} /\ Has(q, {"coro"}, s))
          /\ home[s] \notin gone /\ wait[s] \in Ops => pending[s] # {} \/ Has(q, {"coro"}, s)
          /\ home[s] \notin gone /\ wait[s] = "done" => Has(q, {"destroy"}, s)
      BY <2>1 DEF Completing
    <3> QED BY <2>2, <2>3, <3>1, <3>2 DEF Untouched
  <2> QED BY <2>4, <2>5 DEF Completing
<1> QED BY <1>1, <1>2

(* A step of the owner or of a thread that leaves queues and sockets alone. *)
Quiet ==
  /\ UNCHANGED <<q, gone, heap, home, wait, pending, careless, accepting>>
  /\ phase' = phase \/ phase' \notin {"idle", "running"}
  /\ phase' = "interrupting" => phase \in {"running", "interrupting"}
  /\ Subscribed("accept")' => Subscribed("accept") \/ heap = {}

(* A step that moves no socket and no handler keeps what is said of them. *)
LEMMA QuietStep ==
  ASSUME IInv, Quiet
  PROVE  Passing' /\ Aborted' /\ Homes' /\ DeletedOnce' /\ (~careless' => Completing')
<1>1. q' = q /\ accepting' = accepting /\ wait' = wait /\ heap' = heap /\ home' = home
      /\ (phase' = "running" => phase = "running")
  BY DEF Quiet
<1>2. Passing'
  <2>1. \A s \in Socket : Accepts(s)' <=> Accepts(s)
    BY <1>1 DEF Accepts
  <2>2. \A s : (Has(q, Passed, s)' <=> Has(q, Passed, s)) /\ (Once(q, Passed, s)' <=> Once(q, Passed, s))
    BY <1>1 DEF Has, Once, In, Passed
  <2>3. Passing
    BY DEF IInv
  <2> QED BY <1>1, <2>1, <2>2, <2>3 DEF Passing, Quiet
<1>3. Aborted'
  BY <1>1 DEF IInv, Aborted, Quiet, In
<1>4. Homes'
  BY <1>1 DEF IInv, Homes, AtHome, In
<1>5. Untouched
  <2>1. q \in Queues
    BY Types DEF IInv
  <2> QED BY <2>1, <1>1 DEF Untouched, Quiet
<1> QED BY <1>2, <1>3, <1>4, <1>5, SessionsStay

-----------------------------------------------------------------------------
(* The owner's steps. *)
LEMMA SubscribesStep == ASSUME IInv, Subscribes PROVE IInv'
<1>1. PICK e \in Event : Subscribe(e) \/ Unsubscribe(e)
  BY DEF Subscribes
<1>2. /\ phase = "idle"
      /\ UNCHANGED <<asio, sessions, careless, phase, hold, threads, accepting>>
  BY DEF Subscribes
<1> USE Types DEF IInv, asio, sessions, threads
<1>3. shots' \in [Event -> Func \cup {NoFunc}] /\ funcs' \subseteq Func
  BY <1>1 DEF Subscribe, Unsubscribe
<1>4. TypeOK'
  BY <1>2, <1>3 DEF TypeOK, SessionTypeOK, ObserverTypeOK
<1>5. Owner'
  BY <1>2 DEF Owner
<1>6. FuncsInTable'
  <2>1. funcs = {shots[f] : f \in Event} \ {NoFunc}
        /\ \A f, o \in Event : shots[f] = shots[o] /\ f # o => shots[f] = NoFunc
    BY <1>2 DEF FuncsInTable, Subscribed
  <2>2. CASE Subscribe(e)
    <3>1. PICK f \in Func \ funcs : /\ funcs' = (funcs \ {shots[e]}) \cup {f}
                                    /\ shots' = [shots EXCEPT ![e] = f]
      BY <2>2 DEF Subscribe
    <3>2. \A o \in Event : shots'[o] = IF o = e THEN f ELSE shots[o]
      BY <3>1
    <3>3. f # NoFunc /\ \A o \in Event : shots[o] # f
      BY <2>1, <3>1, ObserverAssumption
    <3>4. funcs' = {shots'[o] : o \in Event} \ {NoFunc}
      BY <2>1, <3>1, <3>2, <3>3
    <3>5. \A g, o \in Event : shots'[g] = shots'[o] /\ g # o => shots'[g] = NoFunc
      BY <2>1, <3>2, <3>3
    <3> QED BY <3>4, <3>5 DEF FuncsInTable, Subscribed
  <2>3. CASE Unsubscribe(e)
    <3>1. /\ funcs' = funcs \ {shots[e]} /\ shots[e] # NoFunc
          /\ shots' = [shots EXCEPT ![e] = NoFunc]
      BY <2>3 DEF Unsubscribe
    <3>2. \A o \in Event : shots'[o] = IF o = e THEN NoFunc ELSE shots[o]
      BY <3>1
    <3>4. funcs' = {shots'[o] : o \in Event} \ {NoFunc}
      BY <2>1, <3>1, <3>2
    <3>5. \A g, o \in Event : shots'[g] = shots'[o] /\ g # o => shots'[g] = NoFunc
      BY <2>1, <3>2
    <3> QED BY <3>4, <3>5 DEF FuncsInTable, Subscribed
  <2> QED BY <1>1, <2>2, <2>3
<1>7. Quiet
  BY <1>2 DEF Quiet, Owner
<1>8. CrashOnlyAfterClose'
  BY <1>2 DEF CrashOnlyAfterClose
<1> QED BY <1>4, <1>5, <1>6, <1>7, <1>8, QuietStep

(* close() interrupts. *)
LEMMA CloseInterruptsStep == ASSUME IInv, CloseInterrupts PROVE IInv'
<1> USE DEF CloseInterrupts
<1>1. Quiet
  BY DEF Quiet, asio, sessions, observer, threads, Subscribed
<1> USE Types DEF IInv, asio, sessions, observer
<1>2. flag' \subseteq Thread
  BY DEF Group
<1>3. TypeOK'
  BY <1>2 DEF TypeOK, SessionTypeOK, ObserverTypeOK, Phases
<1>4. Owner'
  BY DEF Owner
<1>5. FuncsInTable'
  BY DEF FuncsInTable, Subscribed
<1>6. CrashOnlyAfterClose'
  BY DEF CrashOnlyAfterClose
<1> QED BY <1>1, <1>3, <1>4, <1>5, <1>6, QuietStep

(* close() has joined. *)
LEMMA CloseJoinedStep == ASSUME IInv, CloseJoined PROVE IInv'
<1> USE DEF CloseJoined
<1>1. Quiet
  BY DEF Quiet, asio, sessions, observer, threads, Subscribed
<1> USE Types DEF IInv, asio, sessions, observer, threads
<1>3. TypeOK'
  BY DEF TypeOK, SessionTypeOK, ObserverTypeOK, Phases
<1>4. Owner'
  BY DEF Owner
<1>5. FuncsInTable'
  BY DEF FuncsInTable, Subscribed
<1>6. CrashOnlyAfterClose'
  BY DEF CrashOnlyAfterClose
<1> QED BY <1>1, <1>3, <1>4, <1>5, <1>6, QuietStep

(* The destructor deletes every function object. *)
LEMMA DestroysStep == ASSUME IInv, Destroys PROVE IInv'
<1> USE DEF Destroys, DestroyObserver
<1>0. "accept" \in Event
  BY ListenerAssumption
<1>1. Quiet
  BY <1>0 DEF Quiet, asio, sessions, threads, Subscribed
<1> USE Types DEF IInv, asio, sessions, threads
<1>3. TypeOK'
  BY DEF TypeOK, SessionTypeOK, ObserverTypeOK, Phases
<1>4. Owner'
  BY DEF Owner
<1>5. FuncsInTable'
  BY DEF FuncsInTable, Subscribed
<1>6. CrashOnlyAfterClose'
  BY DEF CrashOnlyAfterClose
<1> QED BY <1>1, <1>3, <1>4, <1>5, <1>6, QuietStep

(* run() begins with nothing; without workers its first accept is made.    *)
LEMMA RunStep ==
  ASSUME IInv, NEW ws \in SUBSET Worker, NEW h \in BOOLEAN, Run(ws, h)
  PROVE  IInv'
<1>1. /\ phase = "idle" /\ phase' = "running" /\ hold' = h
      /\ pc' = [t \in Thread |-> IF t = Acc THEN "loop" ELSE IF t \in ws THEN "begin" ELSE "none"]
      /\ UNCHANGED <<q, gone, crashed, wait, open, failed, pending, careless, shots, funcs, flag, timers>>
      /\ home' = home
  BY DEF Run, sessions, observer
<1>2. \/ heap' = heap /\ accepting' = accepting
      \/ heap' = {NewSocket} /\ accepting' = <<NewSocket>>
  BY DEF Run
<1> USE Types DEF IInv
<1>3. heap = {} /\ accepting = <<>> /\ flag = {} /\ gone = {} /\ \A t \in Thread : q[t] = <<>>
  BY <1>1 DEF Owner
<1>4. NewSocket \in Socket
  BY <1>3, Fresh, SessionAssumption
<1>5. TypeOK'
  <2>1. heap' \subseteq Socket /\ accepting' \in Seq(Socket)
    <3>1. <<NewSocket>> \in Seq(Socket) /\ {NewSocket} \subseteq Socket
      BY <1>4
    <3> QED BY <1>2, <3>1
  <2>2. pc' \in [Thread -> {"none", "begin", "loop", "run", "stopped", "gone"}]
    BY <1>1
  <2> QED BY <1>1, <2>1, <2>2 DEF TypeOK, SessionTypeOK, ObserverTypeOK, Phases
<1>6. Owner'
  BY <1>1, <1>3 DEF Owner
<1>7. FuncsInTable'
  BY <1>1 DEF FuncsInTable, Subscribed
<1>8. \A t \in Thread, g \in Handlers : ~In(q, t, g)
  BY <1>3 DEF In
<1>9. \A K, s : ~Has(q, K, s) /\ Once(q, K, s)
  BY <1>3, <1>8 DEF Has, Once
<1>10. Passing'
  <2>1. ASSUME NEW s \in Socket
        PROVE  /\ wait'[s] = "none"
               /\ ~Has(q', Passed, s) /\ Once(q', Passed, s)
               /\ Accepts(s)' <=> s \in heap'
    <3>1. wait'[s] = "none"
      BY <1>1 DEF Owner
    <3>2. ~Has(q', Passed, s) /\ Once(q', Passed, s)
      <4>1. q' = q
        BY <1>1
      <4> QED BY <4>1, <1>9
    <3>3. Accepts(s)' <=> s \in heap'
      BY <1>2, <1>3, <1>4 DEF Accepts
    <3> QED BY <3>1, <3>2, <3>3
  <2>2. \A i, j \in DOMAIN accepting' : accepting'[i] = accepting'[j] => i = j
    BY <1>2, <1>3
  <2>3. Passed' = Passed
    BY DEF Passed
  <2> QED BY <2>1, <2>2, <2>3 DEF Passing
<1>11. Aborted' /\ Homes'
  BY <1>1, <1>8 DEF Aborted, Homes, In
<1>12. Untouched
  BY <1>1 DEF Untouched
<1>13. CrashOnlyAfterClose'
  BY <1>1 DEF CrashOnlyAfterClose
<1> QED BY <1>5, <1>6, <1>7, <1>10, <1>11, <1>12, <1>13, SessionsStay

(* close() posts every accept that was under way, aborted. *)
LEMMA CloseAcceptorStep == ASSUME IInv, CloseAcceptor PROVE IInv'
<1>1. /\ phase = "interrupting" /\ phase' = "joining" /\ accepting' = <<>>
      /\ UNCHANGED <<gone, heap, home, crashed, wait, open, failed, pending, careless, shots, funcs,
                     hold, pc, flag, timers>>
      /\ q' = [q EXCEPT ![Acc] = @ \o [i \in DOMAIN accepting |-> Handler("accepted", accepting[i], "", "aborted")]]
  BY DEF CloseAcceptor, sessions, observer, threads
<1> USE Types DEF IInv
<1>2. Acc \in Thread /\ Acc \notin gone
  BY AccStays
<1>3. PICK hs : hs = [i \in DOMAIN accepting |-> Handler("accepted", accepting[i], "", "aborted")]
  OBVIOUS
<1>4. \A s \in Socket : /\ Handler("accepted", s, "", "aborted") \in Handlers
                        /\ Handler("accepted", s, "", "aborted").k = "accepted"
                        /\ Handler("accepted", s, "", "aborted").s = s
  BY DEF Handler, Handlers
<1>5. /\ hs \in Seq(Handlers) /\ DOMAIN hs = DOMAIN accepting
      /\ \A i \in DOMAIN hs : hs[i].k = "accepted" /\ hs[i].s = accepting[i]
  <2>1. \A i \in DOMAIN accepting : hs[i] = Handler("accepted", accepting[i], "", "aborted")
    BY <1>3
  <2>2. DOMAIN hs = DOMAIN accepting
    BY <1>3
  <2>3. \A i \in DOMAIN hs : hs[i] \in Handlers /\ hs[i].k = "accepted" /\ hs[i].s = accepting[i]
    <3>1. \A i \in DOMAIN accepting : accepting[i] \in Socket
      BY Types
    <3>2. ASSUME NEW i \in DOMAIN hs
          PROVE  hs[i] \in Handlers /\ hs[i].k = "accepted" /\ hs[i].s = accepting[i]
      <4>1. PICK s \in Socket : s = accepting[i]
        BY <2>2, <3>1
      <4>2. hs[i] = Handler("accepted", s, "", "aborted")
        BY <2>1, <2>2, <4>1
      <4> QED BY <1>4, <4>1, <4>2
    <3> QED BY <3>2
  <2>4. hs = [i \in 1..Len(accepting) |-> hs[i]]
    BY <1>3
  <2>5. hs \in [1..Len(accepting) -> Handlers]
    BY <2>2, <2>3, <2>4
  <2>6. hs \in Seq(Handlers)
    BY <2>5
  <2> QED BY <2>2, <2>3, <2>6
<1>6. PICK M : M = [t \in Thread |-> IF t = Acc THEN hs ELSE <<>>]
  OBVIOUS
<1>7. M \in Queues
  BY <1>5, <1>6 DEF Queues
<1>8. q' = [u \in Thread |-> q[u] \o M[u]]
  <2>1. \A t \in Thread : q[t] \in Seq(Handlers) /\ q[t] \o <<>> = q[t]
    BY InQueue, ConcatEmptySeq
  <2>2. q' = [q EXCEPT ![Acc] = @ \o hs]
    BY <1>1, <1>3
  <2>3. \A t \in Thread : q'[t] = q[t] \o M[t]
    BY <1>6, <2>1, <2>2 DEF Queues
  <2>4. DOMAIN q' = Thread /\ q' = [t \in DOMAIN q' |-> q'[t]]
    BY <2>2 DEF Queues
  <2> QED BY <2>3, <2>4
<1>9. Joined(q, M, q')
  BY <1>7, <1>8, Joins
<1>10. \A t \in Thread, h \in Handlers :
         In(M, t, h) => t = Acc /\ h.k = "accepted" /\ h.s \in Socket /\ Accepts(h.s)
  <2> SUFFICES ASSUME NEW t \in Thread, NEW h \in Handlers, In(M, t, h)
               PROVE  t = Acc /\ h.k = "accepted" /\ h.s \in Socket /\ Accepts(h.s)
    OBVIOUS
  <2>1. t = Acc /\ \E i \in DOMAIN hs : hs[i] = h
    BY <1>6 DEF In
  <2> QED BY <2>1, <1>5 DEF Accepts
<1>11. \A t \in Thread, h \in Handlers : In(q', t, h) => In(q, t, h) \/ In(M, t, h)
  BY <1>9 DEF Joined
<1>12. TypeOK'
  <2>1. q' \in Queues
    BY <1>9 DEF Joined
  <2>2. UNCHANGED <<gone, heap, home, crashed, wait, open, failed, pending, careless, shots, funcs,
                    hold, pc, flag, timers>>
    BY <1>1
  <2>3. phase' \in Phases /\ accepting' \in Seq(Socket)
    <3>1. phase' = "joining" /\ accepting' = <<>>
      BY <1>1
    <3>2. <<>> \in Seq(Socket)
      OBVIOUS
    <3> QED BY <3>1, <3>2 DEF Phases
  <2> QED BY <2>1, <2>2, <2>3 DEF TypeOK, SessionTypeOK, ObserverTypeOK, Queues
<1>13. Owner'
  <2>1. \A t \in gone : q'[t] = q[t]
    BY <1>1, <1>2 DEF Queues
  <2> QED BY <1>1, <2>1 DEF Owner
<1>14. FuncsInTable'
  BY <1>1 DEF FuncsInTable, Subscribed
<1>15. Passing'
  <2>1. ASSUME NEW s \in Socket
        PROVE  /\ Has(q', Passed, s) => Has(q, Passed, s) \/ Accepts(s)
               /\ Once(q', Passed, s)
    <3>1. Has(M, Passed, s) => Accepts(s)
      BY <1>10 DEF Has, Is
    <3>2. \A i, j \in DOMAIN accepting : accepting[i] = accepting[j] => i = j
      BY DEF Passing
    <3>3. Once(M, Passed, s)
      BY <1>5, <1>6, <3>2 DEF Once, Is
    <3>4. Once(q, Passed, s) /\ ~(Accepts(s) /\ Has(q, Passed, s))
      BY DEF Passing
    <3> QED BY <1>9, <3>1, <3>3, <3>4 DEF Joined
  <2>0. accepting' = <<>>
    BY <1>1
  <2>3. DOMAIN accepting' = {}
    BY <2>0
  <2>2. Passed' = Passed /\ \A s : ~Accepts(s)'
    BY <2>3 DEF Passed, Accepts
  <2> QED BY <1>1, <2>1, <2>2, <2>3 DEF Passing
<1>16. Aborted'
  BY <1>1 DEF Aborted
<1>17. Homes'
  <2>1. ASSUME NEW t \in Thread, NEW h \in Handlers, In(q', t, h) PROVE AtHome(h, t)'
    <3>1. CASE In(q, t, h)
      BY <3>1, <1>1 DEF Homes, AtHome
    <3>2. CASE In(M, t, h)
      BY <3>2, <1>1, <1>10 DEF AtHome
    <3> QED BY <2>1, <1>11, <3>1, <3>2
  <2> QED BY <2>1 DEF Homes
<1>18. Untouched
  <2>1. \A t \in Thread, h \in Handlers : h.k \in {"coro", "destroy"} => (In(q', t, h) <=> In(q, t, h))
    BY <1>9, <1>10 DEF Joined
  <2>2. \A x : Once(q, {"coro"}, x) => Once(q', {"coro"}, x)
    <3>1. \A x : ~Has(M, {"coro"}, x)
      BY <1>10 DEF Has, Is
    <3>2. \A x : Once(M, {"coro"}, x)
      BY <1>5, <1>6 DEF Is, Once
    <3> QED BY <1>9, <3>1, <3>2 DEF Joined
  <2>3. \A x : Once(q, {"destroy"}, x) => Once(q', {"destroy"}, x)
    <3>1. \A x : ~Has(M, {"destroy"}, x)
      BY <1>10 DEF Has, Is
    <3>2. \A x : Once(M, {"destroy"}, x)
      BY <1>5, <1>6 DEF Is, Once
    <3> QED BY <1>9, <3>1, <3>2 DEF Joined
  <2> QED BY <1>1, <1>9, <2>1, <2>2, <2>3 DEF Untouched, Joined
<1>19. CrashOnlyAfterClose'
  BY <1>1 DEF CrashOnlyAfterClose
<1> QED BY <1>1, <1>12, <1>13, <1>14, <1>15, <1>16, <1>17, <1>18, <1>19, SessionsStay

-----------------------------------------------------------------------------
(* What an async_accept of s for the service t comes to, when it begins    *)
(* with the queues Q and the handlers of M are posted after it.            *)
AcceptHandler(s) == Handler("accepted", s, "", "error")

NewAccept(Q, M, s) ==
  /\ q' \in Queues /\ accepting' \in Seq(Socket)
  /\ \A t \in Thread, h \in Handlers :
       In(q', t, h) <=> In(Q, t, h) \/ In(M, t, h) \/ (~Listening /\ t = Acc /\ h = AcceptHandler(s))
  /\ \A x : Has(q', Passed, x) <=> Has(Q, Passed, x) \/ Has(M, Passed, x) \/ (~Listening /\ x = s)
  /\ \A x : Accepts(x)' <=> Accepts(x) \/ (Listening /\ x = s)
  /\ ~Accepts(s) /\ (\A i, j \in DOMAIN accepting : accepting[i] = accepting[j] => i = j)
       => \A i, j \in DOMAIN accepting' : accepting'[i] = accepting'[j] => i = j
  /\ \A K, x : /\ Once(Q, K, x) /\ Once(M, K, x) /\ ~(Has(Q, K, x) /\ Has(M, K, x))
               /\ Is(AcceptHandler(s), K, x) => ~Has(Q, K, x) /\ ~Has(M, K, x)
               => Once(q', K, x)

(* The handler of an accept that ends at once. *)
LEMMA AcceptHandlerType ==
  ASSUME NEW s \in Socket
  PROVE  /\ AcceptHandler(s) \in Handlers /\ AcceptHandler(s).k = "accepted"
         /\ AcceptHandler(s).s = s /\ AcceptHandler(s).e = "error"
         /\ \A x : Is(AcceptHandler(s), Passed, x) <=> x = s
BY DEF AcceptHandler, Handler, Handlers, Is, Passed

(* async_accept on an open acceptor and on a closed one. *)
LEMMA AsyncAccepts ==
  ASSUME NEW Q \in Queues, NEW M \in Queues, NEW s \in Socket, NEW t \in Thread,
         accepting \in Seq(Socket), AsyncAccept(s, t, Q, M)
  PROVE  NewAccept(Q, M, s)
<1>1. accepting \in [1..Len(accepting) -> Socket] /\ Len(accepting) \in Nat
  BY LenProperties
<1>2. CASE Listening
  <2>1. q' = [u \in Thread |-> Q[u] \o M[u]] /\ accepting' = Append(accepting, s)
    BY <1>2 DEF AsyncAccept
  <2>2. Joined(Q, M, q')
    BY <2>1, Joins
  <2>3. PICK a : a = Append(accepting, s)
    OBVIOUS
  <2>4. /\ a \in Seq(Socket) /\ Len(a) = Len(accepting) + 1
        /\ \A i \in 1..Len(accepting) : a[i] = accepting[i]
        /\ a[Len(accepting) + 1] = s
    BY <2>3, AppendProperties
  <2>5. DOMAIN a = 1..(Len(accepting) + 1)
    BY <2>4, LenProperties
  <2>6. \A i \in 1..(Len(accepting) + 1) : i \in 1..Len(accepting) \/ i = Len(accepting) + 1
    BY <1>1
  <2>7. \A i \in 1..Len(accepting) : i \in 1..(Len(accepting) + 1) /\ i # Len(accepting) + 1
    BY <1>1
  <2>8. Len(accepting) + 1 \in 1..(Len(accepting) + 1)
    BY <1>1
  <2>9. \A x : (\E i \in DOMAIN a : a[i] = x) <=> Accepts(x) \/ x = s
    BY <1>1, <2>4, <2>5, <2>6, <2>7, <2>8 DEF Accepts
  <2>10. ASSUME ~Accepts(s), \A i, j \in DOMAIN accepting : accepting[i] = accepting[j] => i = j,
                NEW i \in DOMAIN a, NEW j \in DOMAIN a, a[i] = a[j]
         PROVE  i = j
    <3>1. \A k \in DOMAIN accepting : a[k] # s
      BY <1>1, <2>4, <2>10 DEF Accepts
    <3> QED BY <1>1, <2>4, <2>5, <2>6, <2>10, <3>1
  <2>11. accepting' = a
    BY <2>1, <2>3
  <2>12. \A x : Accepts(x)' <=> Accepts(x) \/ x = s
    BY <2>9, <2>11 DEF Accepts
  <2>13. /\ q' \in Queues
         /\ \A u \in Thread, h \in Handlers : In(q', u, h) <=> In(Q, u, h) \/ In(M, u, h)
         /\ \A x : Has(q', Passed, x) <=> Has(Q, Passed, x) \/ Has(M, Passed, x)
         /\ \A K, x : Once(Q, K, x) /\ Once(M, K, x) /\ ~(Has(Q, K, x) /\ Has(M, K, x)) => Once(q', K, x)
    BY <2>2 DEF Joined
  <2>14. ~Accepts(s) /\ (\A i, j \in DOMAIN accepting : accepting[i] = accepting[j] => i = j)
           => \A i, j \in DOMAIN accepting' : accepting'[i] = accepting'[j] => i = j
    BY <2>10, <2>11
  <2>15. accepting' \in Seq(Socket)
    BY <2>4, <2>11
  <2> QED BY <1>2, <2>12, <2>13, <2>14, <2>15, Zenon DEF NewAccept
<1>3. CASE ~Listening
  <2>1. q' = [u \in Thread |-> (Q[u] \o (IF u = Acc THEN <<AcceptHandler(s)>> ELSE <<>>)) \o M[u]]
        /\ accepting' = accepting
    BY <1>3 DEF AsyncAccept, AcceptHandler
  <2>2. AcceptHandler(s) \in Handlers /\ \A x : Is(AcceptHandler(s), Passed, x) <=> x = s
    BY AcceptHandlerType
  <2>3. Acc \in Thread
    BY DEF Thread
  <2>4. PICK S : S = Single(Acc, AcceptHandler(s))
    OBVIOUS
  <2>5. S \in Queues
    BY <2>2, <2>3, <2>4, SingleIn
  <2>6. PICK R : R = [u \in Thread |-> Q[u] \o S[u]]
    OBVIOUS
  <2>7. Joined(Q, S, R)
    BY <2>5, <2>6, Joins
  <2>8. Added(Q, R, Acc, AcceptHandler(s))
    BY <2>2, <2>3, <2>4, <2>7, SingleJoins
  <2>9. R \in Queues
    BY <2>8 DEF Added
  <2>10. q' = [u \in Thread |-> R[u] \o M[u]]
    BY <2>1, <2>4, <2>6 DEF Single
  <2>11. Joined(R, M, q')
    BY <2>9, <2>10, Joins
  <2>12. \A x : Accepts(x)' <=> Accepts(x)
    BY <2>1 DEF Accepts
  <2>13. q' \in Queues /\ accepting' \in Seq(Socket)
    BY <2>1, <2>11 DEF Joined
  <2>14. \A u \in Thread, h \in Handlers :
           In(q', u, h) <=> In(Q, u, h) \/ In(M, u, h) \/ (u = Acc /\ h = AcceptHandler(s))
    BY <2>8, <2>11, Zenon DEF Joined, Added
  <2>15. \A x : Has(q', Passed, x) <=> Has(Q, Passed, x) \/ Has(M, Passed, x) \/ x = s
    BY <2>2, <2>8, <2>11, Zenon DEF Joined, Added
  <2>16. ASSUME NEW K, NEW x, Once(Q, K, x), Once(M, K, x), ~(Has(Q, K, x) /\ Has(M, K, x)),
                Is(AcceptHandler(s), K, x) => ~Has(Q, K, x) /\ ~Has(M, K, x)
         PROVE  Once(q', K, x)
    <3>1. Once(R, K, x)
      BY <2>8, <2>16, Zenon DEF Added
    <3>2. Has(R, K, x) <=> Has(Q, K, x) \/ Is(AcceptHandler(s), K, x)
      BY <2>8, Zenon DEF Added
    <3>3. ~(Has(R, K, x) /\ Has(M, K, x))
      BY <2>16, <3>2
    <3> QED BY <3>1, <3>3, <2>16, <2>11, Zenon DEF Joined
  <2>17. (\A i, j \in DOMAIN accepting : accepting[i] = accepting[j] => i = j)
           => \A i, j \in DOMAIN accepting' : accepting'[i] = accepting'[j] => i = j
    BY <2>1
  <2> QED BY <1>3, <2>12, <2>13, <2>14, <2>15, <2>16, <2>17, Zenon DEF NewAccept
<1> QED BY <1>2, <1>3

(* Empty queues hold no handler. *)
LEMMA NothingIn ==
  /\ Nothing \in Queues
  /\ \A t \in Thread : \A h : ~In(Nothing, t, h)
  /\ \A K, s : ~Has(Nothing, K, s) /\ Once(Nothing, K, s)
<1>1. <<>> \in Seq(Handlers)
  OBVIOUS
<1>2. \A t \in Thread : DOMAIN Nothing[t] = {}
  BY DEF Nothing
<1>3. \A t \in Thread : \A h : ~In(Nothing, t, h)
  BY <1>2 DEF In
<1>4. \A K, s : ~Has(Nothing, K, s) /\ Once(Nothing, K, s)
  BY <1>2, <1>3 DEF Has, Once
<1>5. Nothing \in Queues
  BY <1>1 DEF Nothing, Queues
<1> QED BY <1>3, <1>4, <1>5

-----------------------------------------------------------------------------
(* The steps of a thread outside its handlers. *)
LEMMA WorkStep == ASSUME IInv, NEW w \in Worker, Work(w) PROVE IInv'
<1>1. /\ pc[w] = "begin" /\ pc' = [pc EXCEPT ![w] = "loop"]
      /\ timers' = timers \cup {w}
      /\ heap # Socket /\ AsyncAccept(NewSocket, w, q, Nothing)
      /\ UNCHANGED <<gone, crashed, wait, open, failed, pending, careless, shots, funcs, phase, hold, flag>>
  BY DEF Work, sessions, observer
<1> USE Types DEF IInv
<1>2. w \in Thread
  BY DEF Thread
<1>3. PICK s : s = NewSocket
  OBVIOUS
<1>4. s \in Socket /\ s \notin heap
  BY <1>1, <1>3, Fresh
<1>5. AsyncAccept(s, w, q, Nothing)
  BY <1>1, <1>3
<1>6. heap' = heap \cup {s} /\ home' = [home EXCEPT ![s] = w]
  BY <1>5 DEF AsyncAccept
<1>7. NewAccept(q, Nothing, s)
  BY <1>2, <1>4, <1>5, NothingIn, AsyncAccepts
<1>8. phase # "idle" /\ w \notin gone
  BY <1>1, <1>2 DEF Owner
<1>9. wait[s] = "none" /\ ~Accepts(s) /\ ~Has(q, Passed, s)
  BY <1>4 DEF Passing
<1>10. TypeOK'
  <2>1. q' \in Queues /\ accepting' \in Seq(Socket)
    BY <1>7 DEF NewAccept
  <2>2. heap' \subseteq Socket /\ home' \in [Socket -> Thread]
    BY <1>2, <1>4, <1>6
  <2>3. pc' \in [Thread -> {"none", "begin", "loop", "run", "stopped", "gone"}] /\ timers' \subseteq Worker
    BY <1>1
  <2> QED BY <1>1, <2>1, <2>2, <2>3 DEF TypeOK, SessionTypeOK, ObserverTypeOK, Queues
<1>11. Owner'
  <2>1. ASSUME NEW t \in gone PROVE q'[t] = q[t]
    <3>1. t \in Worker /\ t # Acc /\ t \in Thread
      BY SessionAssumption DEF Owner
    <3>2. q[t] = <<>>
      BY DEF Owner
    <3>3. q[t] \o <<>> = q[t]
      BY <3>2, ConcatEmptySeq
    <3>4. q'[t] = q[t] \o <<>> \/ q'[t] = (q[t] \o <<>>) \o <<>>
      BY <1>5, <3>1 DEF AsyncAccept, Nothing
    <3> QED BY <3>3, <3>4
  <2> QED BY <1>1, <1>8, <2>1 DEF Owner
<1>12. FuncsInTable'
  BY <1>1 DEF FuncsInTable, Subscribed
<1>13. Passing'
  <2>1. \A x : Has(q', Passed, x) <=> Has(q, Passed, x) \/ (~Listening /\ x = s)
    BY <1>7, NothingIn DEF NewAccept
  <2>2. \A x : Accepts(x)' <=> Accepts(x) \/ (Listening /\ x = s)
    BY <1>7 DEF NewAccept
  <2>3. \A i, j \in DOMAIN accepting' : accepting'[i] = accepting'[j] => i = j
    BY <1>7, <1>9 DEF NewAccept, Passing
  <2>4. ASSUME NEW x \in Socket PROVE Once(q', Passed, x)
    <3>1. Once(q, Passed, x)
      BY DEF Passing
    <3>2. Is(AcceptHandler(s), Passed, x) => x = s
      BY <1>4, AcceptHandlerType
    <3> QED BY <1>7, <1>9, <3>1, <3>2, NothingIn DEF NewAccept
  <2>5. phase = "running" => Listening
    BY DEF Listening
  <2>6. Passed' = Passed /\ (Subscribed("accept")' <=> Subscribed("accept"))
    BY <1>1 DEF Passed, Subscribed
  <2> QED BY <1>1, <1>4, <1>6, <1>9, <2>1, <2>2, <2>3, <2>4, <2>5, <2>6 DEF Passing
<1>14. Aborted'
  <2>1. AcceptHandler(s).e # "aborted"
    BY <1>4, AcceptHandlerType
  <2> QED BY <1>1, <1>7, <2>1, NothingIn DEF Aborted, NewAccept
<1>15. Homes'
  <2>1. ASSUME NEW t \in Thread, NEW h \in Handlers, In(q', t, h) PROVE AtHome(h, t)'
    <3>1. CASE In(q, t, h)
      <4>1. AtHome(h, t)
        BY <3>1 DEF Homes
      <4>2. h.k \in {"connected", "bad"} => h.s # s
        BY <1>9, <3>1 DEF Has, Is, Passed
      <4>3. h.k = "destroy" => h.s # s
        BY <1>9, <4>1 DEF AtHome
      <4> QED BY <1>1, <1>6, <4>1, <4>2, <4>3 DEF AtHome
    <3>2. CASE t = Acc /\ h = AcceptHandler(s)
      BY <1>4, <3>2, AcceptHandlerType DEF AtHome
    <3> QED BY <1>7, <2>1, <3>1, <3>2, NothingIn DEF NewAccept
  <2> QED BY <2>1 DEF Homes
<1>16. Untouched
  <2>1. AcceptHandler(s).k = "accepted" /\ \A x : ~Is(AcceptHandler(s), {"coro"}, x) /\ ~Is(AcceptHandler(s), {"destroy"}, x)
    BY <1>4, AcceptHandlerType DEF Is
  <2>2. \A t \in Thread, h \in Handlers : h.k \in {"coro", "destroy"} => (In(q', t, h) <=> In(q, t, h))
    BY <1>7, <2>1, NothingIn DEF NewAccept
  <2>3. \A K, x : Once(q, K, x) /\ ~Is(AcceptHandler(s), K, x) => Once(q', K, x)
    BY <1>7, NothingIn DEF NewAccept
  <2>4. \A x \in Socket : wait[x] # "none" => home'[x] = home[x]
    BY <1>4, <1>6, <1>9
  <2>5. q' \in Queues
    BY <1>7 DEF NewAccept
  <2> QED BY <1>1, <2>1, <2>2, <2>3, <2>4, <2>5 DEF Untouched
<1>17. CrashOnlyAfterClose'
  BY <1>1 DEF CrashOnlyAfterClose
<1> QED BY <1>1, <1>10, <1>11, <1>12, <1>13, <1>14, <1>15, <1>16, <1>17, SessionsStay

(* The end of a thread, and the other ways through the loop of its work. *)
LEMMA LoopStep == ASSUME IInv, NEW t \in Thread, Loop(t) PROVE IInv'
<1> USE Types DEF IInv
<1>1. /\ pc[t] \in {"loop", "stopped"}
      /\ UNCHANGED <<heap, home, crashed, wait, open, failed, pending, careless, shots, funcs, phase, hold, flag, accepting>>
  BY DEF Loop, sessions, observer, Ends, asio
<1>2. FuncsInTable' /\ CrashOnlyAfterClose'
  BY <1>1 DEF FuncsInTable, CrashOnlyAfterClose, Subscribed
<1>3. phase # "idle" /\ t \notin gone
  BY <1>1 DEF Owner
<1>4. CASE t \notin flag
  <2>1. pc' \in [Thread -> {"none", "begin", "loop", "run", "stopped", "gone"}]
        /\ \A u \in Thread : u # t => pc'[u] = pc[u]
    BY <1>4 DEF Loop, Reset
  <2>2. UNCHANGED <<q, gone, timers>>
    BY <1>4 DEF Loop, asio
  <2>3. TypeOK'
    BY <1>1, <2>1, <2>2 DEF TypeOK, SessionTypeOK, ObserverTypeOK
  <2>4. Owner'
    BY <1>1, <1>3, <2>1, <2>2 DEF Owner
  <2>5. Quiet
    BY <1>1, <2>2 DEF Quiet, Subscribed
  <2> QED BY <1>1, <1>2, <2>3, <2>4, <2>5, QuietStep
<1>5. CASE t \in flag
  <2>1. /\ pc' = [pc EXCEPT ![t] = "gone"]
        /\ gone' = gone \cup ({t} \cap Worker)
        /\ timers' = timers \ {t}
        /\ q' = IF t \in Worker THEN [q EXCEPT ![t] = <<>>] ELSE q
    BY <1>5 DEF Loop, Ends
  <2>2. phase \notin {"idle", "running"}
    BY <1>5 DEF Owner
  <2>3. /\ q' \in Queues
        /\ \A u \in Thread, h \in Handlers : In(q', u, h) <=> In(q, u, h) /\ ~(u = t /\ t \in Worker)
        /\ \A K, s : Once(q, K, s) => Once(q', K, s)
    <3>1. CASE t \in Worker
      BY <2>1, <3>1, Clears
    <3>2. CASE t \notin Worker
      BY <2>1, <3>2
    <3> QED BY <3>1, <3>2
  <2>4. TypeOK'
    <3>1. gone' \subseteq Thread /\ timers' \subseteq Worker
          /\ pc' \in [Thread -> {"none", "begin", "loop", "run", "stopped", "gone"}]
      BY <2>1 DEF Thread
    <3> QED BY <1>1, <2>3, <3>1 DEF TypeOK, SessionTypeOK, ObserverTypeOK, Queues
  <2>5. Owner'
    <3>1. ASSUME NEW u \in gone' PROVE u \in Worker /\ u \notin timers' /\ q'[u] = <<>> /\ pc'[u] = "gone"
      <4>1. CASE u = t
        BY <2>1, <4>1, <3>1, <1>3 DEF Queues
      <4>2. CASE u # t
        BY <2>1, <4>2, <3>1 DEF Owner, Queues
      <4> QED BY <4>1, <4>2
    <3> QED BY <1>1, <2>2, <3>1 DEF Owner
  <2>6. \A K, s : Has(q', K, s) => Has(q, K, s)
    BY <2>3 DEF Has
  <2>7. Passing'
    <3>1. \A s : (Accepts(s)' <=> Accepts(s)) /\ Passed' = Passed
      BY <1>1 DEF Accepts, Passed
    <3> QED BY <1>1, <2>2, <2>3, <2>6, <3>1 DEF Passing
  <2>8. Aborted' /\ Homes' /\ DeletedOnce'
    BY <1>1, <2>3 DEF Aborted, Homes, AtHome, DeletedOnce
  <2>9. ASSUME ~careless' PROVE Completing'
    <3>1. Completing
      BY <1>1, <2>9
    <3>2. \A u \in Thread, h \in Handlers : In(q', u, h) /\ h.k = "coro" =>
            home'[h.s] = u /\ Awaited(h.op, wait'[h.s])
      BY <1>1, <2>3, <3>1 DEF Completing
    <3>3. ASSUME NEW s \in Socket, home[s] \notin gone', NEW k \in {"coro", "destroy"}, Has(q, {k}, s)
          PROVE  Has(q', {k}, s)
      <4>1. PICK u \in Thread, h \in Handlers : In(q, u, h) /\ h.k = k /\ h.s = s
        BY <3>3 DEF Has, Is
      <4>2. home[s] = u
        BY <3>1, <4>1 DEF Completing, Homes, AtHome
      <4>3. In(q', u, h)
        BY <2>1, <2>3, <3>3, <4>1, <4>2
      <4> QED BY <4>1, <4>3 DEF Has, Is
    <3>4. ASSUME NEW s \in Socket
          PROVE  /\ Once(q', {"coro"}, s)
                 /\ pending'[s] \subseteq {wait'[s]}
                 /\ ~(pending'[s] # {} /\ Has(q', {"coro"}, s))
                 /\ home'[s] \notin gone' /\ wait'[s] \in Ops => pending'[s] # {} \/ Has(q', {"coro"}, s)
                 /\ home'[s] \notin gone' /\ wait'[s] = "done" => Has(q', {"destroy"}, s)
      <4>1. /\ Once(q, {"coro"}, s)
            /\ pending[s] \subseteq {wait[s]}
            /\ ~(pending[s] # {} /\ Has(q, {"coro"}, s))
            /\ home[s] \notin gone /\ wait[s] \in Ops => pending[s] # {} \/ Has(q, {"coro"}, s)
            /\ home[s] \notin gone /\ wait[s] = "done" => Has(q, {"destroy"}, s)
        BY <3>1 DEF Completing
      <4>2. home[s] \notin gone' => home[s] \notin gone
        BY <2>1
      <4> QED BY <1>1, <2>3, <2>6, <3>3, <4>1, <4>2
    <3> QED BY <3>2, <3>4 DEF Completing
  <2> QED BY <1>2, <2>4, <2>5, <2>7, <2>8, <2>9
<1> QED BY <1>4, <1>5

(* run() of an io_service finds no work. *)
LEMMA RunReturnsStep == ASSUME IInv, NEW t \in Thread, RunReturns(t) PROVE IInv'
<1> USE Types DEF IInv
<1>1. /\ pc[t] = "run" /\ pc' = [pc EXCEPT ![t] = "stopped"]
      /\ UNCHANGED <<q, gone, heap, home, crashed, wait, open, failed, pending, careless, shots, funcs, phase, hold, flag, timers, accepting>>
  BY DEF RunReturns, asio, sessions, observer
<1>2. phase # "idle" /\ t \notin gone
  BY <1>1 DEF Owner
<1>3. TypeOK'
  <2>1. pc' \in [Thread -> {"none", "begin", "loop", "run", "stopped", "gone"}]
    BY <1>1
  <2> QED BY <1>1, <2>1 DEF TypeOK, SessionTypeOK, ObserverTypeOK
<1>4. Owner'
  BY <1>1, <1>2 DEF Owner
<1>5. Quiet
  BY <1>1 DEF Quiet, Subscribed
<1>6. FuncsInTable' /\ CrashOnlyAfterClose'
  BY <1>1 DEF FuncsInTable, CrashOnlyAfterClose, Subscribed
<1> QED BY <1>1, <1>3, <1>4, <1>5, <1>6, QuietStep

-----------------------------------------------------------------------------
(* The surroundings. *)
LEMMA ArrivesStep == ASSUME IInv, Arrives PROVE IInv'
<1> USE Types DEF IInv
<1>1. PICK e \in {"ok", "error"} :
        q' = [q EXCEPT ![Acc] = Append(@, Handler("accepted", Head(accepting), "", e))]
  BY DEF Arrives
<1>2. /\ accepting # <<>> /\ accepting' = Tail(accepting)
      /\ UNCHANGED <<gone, heap, home, crashed, wait, open, failed, pending, careless, shots, funcs, phase, hold, pc, flag, timers>>
  BY DEF Arrives, sessions, observer, threads
<1>3. PICK s : s = Head(accepting)
  OBVIOUS
<1>4. PICK a : a = accepting'
  OBVIOUS
<1>5. /\ Len(accepting) \in Nat /\ Len(accepting) # 0
      /\ s = accepting[1] /\ s \in Socket /\ a \in Seq(Socket)
      /\ DOMAIN a = 1..(Len(accepting) - 1)
      /\ \A i \in 1..(Len(accepting) - 1) : a[i] = accepting[i + 1]
  <2>1. Len(accepting) # 0
    BY <1>2, EmptySeq
  <2>2. /\ s \in Socket /\ a \in Seq(Socket) /\ Len(a) = Len(accepting) - 1
        /\ \A i \in 1..Len(a) : a[i] = accepting[i + 1]
    BY <1>2, <1>3, <1>4, HeadTailProperties
  <2>3. DOMAIN a = 1..Len(a)
    BY <2>2, LenProperties
  <2>4. s = accepting[1]
    BY <1>2, <1>3, <2>1
  <2> QED BY <2>1, <2>2, <2>3, <2>4
<1>6. Accepts(s)
  BY <1>5 DEF Accepts
<1>7. s \in heap /\ wait[s] = "none" /\ ~Has(q, Passed, s)
  BY <1>5, <1>6 DEF Passing
<1>8. PICK h \in Handlers : h = Handler("accepted", s, "", e) /\ h.k = "accepted" /\ h.s = s /\ h.e = e
  <2>1. /\ Handler("accepted", s, "", e) \in Handlers /\ Handler("accepted", s, "", e).k = "accepted"
        /\ Handler("accepted", s, "", e).s = s /\ Handler("accepted", s, "", e).e = e
    BY <1>5 DEF Handler, Handlers
  <2> QED BY <2>1
<1>9. Acc \in Thread /\ Acc \notin gone
  BY AccStays
<1>10. Added(q, q', Acc, h)
  BY <1>1, <1>3, <1>8, <1>9, Adds
<1>11. \A i, j \in DOMAIN accepting : accepting[i] = accepting[j] => i = j
  BY DEF Passing
<1>12. \A x : (\E i \in DOMAIN a : a[i] = x) <=> Accepts(x) /\ x # s
  <2> SUFFICES ASSUME NEW x PROVE (\E i \in DOMAIN a : a[i] = x) <=> Accepts(x) /\ x # s
    OBVIOUS
  <2>1. ASSUME NEW i \in DOMAIN a, a[i] = x PROVE Accepts(x) /\ x # s
    <3>1. (i + 1) \in DOMAIN accepting /\ 1 \in DOMAIN accepting /\ i + 1 # 1 /\ accepting[i + 1] = x
      BY <1>5, <2>1
    <3> QED BY <1>5, <1>11, <3>1 DEF Accepts
  <2>2. ASSUME Accepts(x), x # s PROVE \E i \in DOMAIN a : a[i] = x
    <3>1. PICK i \in DOMAIN accepting : accepting[i] = x
      BY <2>2 DEF Accepts
    <3>2. i # 1
      BY <1>5, <2>2, <3>1
    <3>3. (i - 1) \in 1..(Len(accepting) - 1) /\ (i - 1) + 1 = i
      BY <1>5, <3>2
    <3>4. (i - 1) \in DOMAIN a /\ a[i - 1] = x
      BY <1>5, <3>1, <3>3
    <3> QED BY <3>4
  <2> QED BY <2>1, <2>2
<1>13. \A x : Accepts(x)' <=> Accepts(x) /\ x # s
  BY <1>4, <1>12 DEF Accepts
<1>14. TypeOK'
  BY <1>2, <1>4, <1>5, <1>10 DEF TypeOK, SessionTypeOK, ObserverTypeOK, Added, Queues
<1>15. Owner'
  <2>1. phase # "idle"
    BY <1>2 DEF Owner
  <2>2. \A t \in gone : q'[t] = q[t]
    BY <1>1, <1>9 DEF Queues
  <2> QED BY <1>2, <2>1, <2>2 DEF Owner
<1>16. FuncsInTable' /\ CrashOnlyAfterClose'
  BY <1>2 DEF FuncsInTable, CrashOnlyAfterClose, Subscribed
<1>17. Passing'
  <2>1. \A x : Has(q', Passed, x) <=> Has(q, Passed, x) \/ x = s
    BY <1>8, <1>10 DEF Added, Is, Passed
  <2>2. \A x \in Socket : Once(q', Passed, x)
    BY <1>7, <1>8, <1>10 DEF Added, Is, Passing
  <2>3. \A i, j \in DOMAIN a : a[i] = a[j] => i = j
    <3> SUFFICES ASSUME NEW i \in DOMAIN a, NEW j \in DOMAIN a, a[i] = a[j] PROVE i = j
      OBVIOUS
    <3>1. (i + 1) \in DOMAIN accepting /\ (j + 1) \in DOMAIN accepting /\ accepting[i + 1] = accepting[j + 1]
      BY <1>5
    <3>2. i + 1 = j + 1
      BY <1>11, <3>1
    <3> QED BY <1>5, <3>2
  <2>4. \A i, j \in DOMAIN accepting' : accepting'[i] = accepting'[j] => i = j
    BY <1>4, <2>3
  <2>5. Passed' = Passed /\ (Subscribed("accept")' <=> Subscribed("accept"))
    BY <1>2 DEF Passed, Subscribed
  <2> QED BY <1>2, <1>5, <1>6, <1>7, <1>13, <2>1, <2>2, <2>4, <2>5 DEF Passing
<1>18. Aborted'
  BY <1>2, <1>8, <1>10 DEF Aborted, Added
<1>19. Homes'
  BY <1>2, <1>5, <1>8, <1>10, ZenonT(40) DEF Homes, AtHome, Added
<1>20. Untouched
  BY <1>2, <1>8, <1>10 DEF Untouched, Added, Is
<1> QED BY <1>2, <1>14, <1>15, <1>16, <1>17, <1>18, <1>19, <1>20, SessionsStay

(* The timer of a worker posts its check. *)
LEMMA TimerFiresStep == ASSUME IInv, NEW w \in Worker, TimerFires(w) PROVE IInv'
<1> USE Types DEF IInv
<1>1. /\ w \in timers /\ timers' = timers \ {w}
      /\ q' = [q EXCEPT ![w] = Append(@, Handler("check", NoSocket, "", "ok"))]
      /\ UNCHANGED <<gone, heap, home, crashed, wait, open, failed, pending, careless, shots, funcs, phase, hold, pc, flag, accepting>>
  BY DEF TimerFires, sessions, observer
<1>2. PICK h \in Handlers : h = Handler("check", NoSocket, "", "ok") /\ h.k = "check"
  <2>1. Handler("check", NoSocket, "", "ok") \in Handlers /\ Handler("check", NoSocket, "", "ok").k = "check"
    BY DEF Handler, Handlers
  <2> QED BY <2>1
<1>3. w \in Thread /\ w \notin gone /\ phase # "idle"
  BY <1>1 DEF Owner, Thread
<1>4. Added(q, q', w, h)
  BY <1>1, <1>2, <1>3, Adds
<1>5. TypeOK'
  BY <1>1, <1>4 DEF TypeOK, SessionTypeOK, ObserverTypeOK, Added, Queues
<1>6. Owner'
  <2>1. \A t \in gone : q'[t] = q[t]
    BY <1>1, <1>3 DEF Queues
  <2> QED BY <1>1, <1>3, <2>1 DEF Owner
<1>7. FuncsInTable' /\ CrashOnlyAfterClose'
  BY <1>1 DEF FuncsInTable, CrashOnlyAfterClose, Subscribed
<1>8. Passing'
  <2>1. \A x : (Has(q', Passed, x) <=> Has(q, Passed, x)) /\ (Once(q, Passed, x) => Once(q', Passed, x))
    <3>1. \A x : ~Is(h, Passed, x)
      BY <1>2 DEF Is, Passed
    <3> QED BY <1>4, <3>1 DEF Added
  <2>2. \A x : (Accepts(x)' <=> Accepts(x)) /\ Passed' = Passed /\ (Subscribed("accept")' <=> Subscribed("accept"))
    BY <1>1 DEF Accepts, Passed, Subscribed
  <2> QED BY <1>1, <2>1, <2>2 DEF Passing
<1>9. Aborted'
  BY <1>1, <1>2, <1>4 DEF Aborted, Added
<1>11. Homes'
  <2>1. ASSUME NEW t \in Thread, NEW g \in Handlers, In(q', t, g) PROVE AtHome(g, t)'
    <3>1. CASE In(q, t, g)
      BY <3>1, <1>1 DEF Homes, AtHome
    <3>2. CASE t = w /\ g = h
      BY <3>2, <1>2 DEF AtHome
    <3> QED BY <2>1, <1>4, <3>1, <3>2 DEF Added
  <2> QED BY <2>1 DEF Homes
<1>10. Untouched
  BY <1>1, <1>2, <1>4 DEF Untouched, Added, Is
<1> QED BY <1>1, <1>5, <1>6, <1>7, <1>8, <1>9, <1>10, <1>11, SessionsStay

-----------------------------------------------------------------------------
(* The handlers.  A thread takes the first handler of its queue. *)
Takes(t, h, ran) ==
  /\ pc[t] = "run" /\ q[t] # <<>> /\ h = Head(q[t]) /\ ran = [q EXCEPT ![t] = Tail(@)]

(* What is known when a thread takes the handler h, and leaves ran. *)
LEMMA Taken ==
  ASSUME IInv, NEW t \in Thread, NEW h, NEW ran, Takes(t, h, ran)
  PROVE  /\ Dropped(q, ran, t, h) /\ h \in Handlers /\ ran \in Queues
         /\ AtHome(h, t) /\ t \notin gone /\ phase # "idle"
         /\ \A u \in gone : ran[u] = <<>>
<1> USE Types DEF IInv, Takes
<1>1. Dropped(q, ran, t, h)
  BY Drops
<1>2. h \in Handlers /\ ran \in Queues /\ In(q, t, h)
  BY <1>1 DEF Dropped
<1>3. AtHome(h, t)
  BY <1>2 DEF Homes
<1>4. t \notin gone /\ phase # "idle"
  BY DEF Owner
<1>5. \A u \in gone : ran[u] = <<>>
  BY <1>4 DEF Owner, Queues
<1> QED BY <1>1, <1>2, <1>3, <1>4, <1>5

(* A handler that concerns no session is dropped. *)
LEMMA DropUntouched ==
  ASSUME NEW t \in Thread, NEW h \in Handlers, Dropped(q, q', t, h), h.k \notin {"coro", "destroy"},
         wait' = wait, pending' = pending, gone' = gone, careless' = careless,
         \A x \in Socket : wait[x] # "none" => home'[x] = home[x]
  PROVE  Untouched
<1>1. \A u \in Thread, g \in Handlers : g.k \in {"coro", "destroy"} => (In(q', u, g) <=> In(q, u, g))
  BY DEF Dropped
<1>2. q' \in Queues /\ \A K, x : Once(q, K, x) => Once(q', K, x)
  BY DEF Dropped
<1> QED BY <1>1, <1>2 DEF Untouched

(* The check of the interruption flag. *)
LEMMA CheckInterruptStep ==
  ASSUME IInv, NEW t \in Thread, NEW h, NEW ran, Takes(t, h, ran), CheckInterrupt(t, h, ran),
         UNCHANGED <<phase, hold, flag>>
  PROVE  IInv'
<1> USE Types DEF IInv
<1>1. /\ h.k = "check" /\ q' = ran
      /\ \/ pc' = [pc EXCEPT ![t] = "loop"] /\ timers' = timers
         \/ timers' = timers \cup {t} /\ pc' = pc
      /\ UNCHANGED <<gone, heap, home, crashed, wait, open, failed, pending, careless, shots, funcs, accepting>>
  BY DEF CheckInterrupt, sessions, observer
<1>2. /\ Dropped(q, q', t, h) /\ h \in Handlers /\ q' \in Queues
      /\ AtHome(h, t) /\ t \notin gone /\ phase # "idle" /\ \A u \in gone : q'[u] = <<>>
  BY <1>1, Taken
<1>3. t \in Worker
  BY <1>1, <1>2 DEF AtHome
<1>4. TypeOK'
  <2>1. pc' \in [Thread -> {"none", "begin", "loop", "run", "stopped", "gone"}] /\ timers' \subseteq Worker
    BY <1>1, <1>3
  <2> QED BY <1>1, <1>2, <2>1 DEF TypeOK, SessionTypeOK, ObserverTypeOK, Queues
<1>5. Owner'
  <2>1. \A u \in gone : pc'[u] = pc[u] /\ u \notin timers'
    BY <1>1, <1>2 DEF Owner
  <2> QED BY <1>1, <1>2, <2>1 DEF Owner
<1>6. FuncsInTable' /\ CrashOnlyAfterClose'
  BY <1>1 DEF FuncsInTable, CrashOnlyAfterClose, Subscribed
<1>7. Passing'
  <2>1. \A x : ~Is(h, Passed, x)
    BY <1>1 DEF Is, Passed
  <2>2. \A x : (Has(q', Passed, x) <=> Has(q, Passed, x)) /\ (Once(q, Passed, x) => Once(q', Passed, x))
    BY <1>2, <2>1 DEF Dropped
  <2>3. \A x : (Accepts(x)' <=> Accepts(x)) /\ Passed' = Passed /\ (Subscribed("accept")' <=> Subscribed("accept"))
    BY <1>1 DEF Accepts, Passed, Subscribed
  <2> QED BY <1>1, <2>2, <2>3 DEF Passing
<1>8. Aborted' /\ Homes'
  BY <1>1, <1>2 DEF Aborted, Homes, AtHome, Dropped
<1>9. Untouched
  BY <1>1, <1>2, DropUntouched
<1> QED BY <1>1, <1>4, <1>5, <1>6, <1>7, <1>8, <1>9, SessionsStay

(* The socket of an accept that has failed is deleted in its service. *)
LEMMA BadSocketStep ==
  ASSUME IInv, NEW t \in Thread, NEW h, NEW ran, Takes(t, h, ran), BadSocket(h, ran),
         UNCHANGED <<phase, hold, flag>>
  PROVE  IInv'
<1> USE Types DEF IInv
<1>1. /\ h.k = "bad" /\ q' = ran
      /\ heap' = heap \ {h.s} /\ home' = [home EXCEPT ![h.s] = Acc]
      /\ UNCHANGED <<gone, crashed, wait, open, failed, pending, careless, shots, funcs, pc, timers, accepting>>
  BY DEF BadSocket, Delete, sessions, observer
<1>2. /\ Dropped(q, q', t, h) /\ h \in Handlers /\ q' \in Queues /\ In(q, t, h)
      /\ AtHome(h, t) /\ t \notin gone /\ phase # "idle" /\ \A u \in gone : q'[u] = <<>>
  BY <1>1, Taken DEF Dropped
<1>3. PICK s \in Socket : s = h.s
  BY <1>1, <1>2 DEF AtHome
<1>4. Is(h, Passed, s) /\ \A x : Is(h, Passed, x) <=> x = s
  BY <1>1, <1>3 DEF Is, Passed
<1>5. Has(q, Passed, s)
  BY <1>2, <1>4 DEF Has
<1>6. wait[s] = "none" /\ ~Accepts(s) /\ Once(q, Passed, s)
  BY <1>5 DEF Passing
<1>7. ~Has(q', Passed, s)
  BY <1>2, <1>4, <1>6 DEF Dropped
<1>8. TypeOK'
  <2>1. Acc \in Thread
    BY DEF Thread
  <2>2. heap' \subseteq Socket /\ home' \in [Socket -> Thread]
    BY <1>1, <2>1
  <2> QED BY <1>1, <1>2, <2>2 DEF TypeOK, SessionTypeOK, ObserverTypeOK, Queues
<1>9. Owner'
  BY <1>1, <1>2 DEF Owner
<1>10. FuncsInTable' /\ CrashOnlyAfterClose'
  BY <1>1 DEF FuncsInTable, CrashOnlyAfterClose, Subscribed
<1>11. Passing'
  <2>1. \A x : (Has(q', Passed, x) <=> Has(q, Passed, x) /\ x # s) /\ (Once(q, Passed, x) => Once(q', Passed, x))
    BY <1>2, <1>4, <1>7 DEF Dropped
  <2>2. \A x : (Accepts(x)' <=> Accepts(x)) /\ Passed' = Passed /\ (Subscribed("accept")' <=> Subscribed("accept"))
    BY <1>1 DEF Accepts, Passed, Subscribed
  <2> QED BY <1>1, <1>3, <1>6, <2>1, <2>2 DEF Passing
<1>12. Aborted'
  BY <1>1, <1>2 DEF Aborted, Dropped
<1>13. Homes'
  <2>1. ASSUME NEW u \in Thread, NEW g \in Handlers, In(q', u, g) PROVE AtHome(g, u)'
    <3>1. AtHome(g, u)
      BY <1>2, <2>1 DEF Homes, Dropped
    <3>2. g.k \in {"connected", "bad"} => g.s # s
      BY <1>7, <2>1 DEF Has, Is, Passed
    <3>3. g.k = "destroy" => g.s # s
      BY <1>6, <3>1 DEF AtHome
    <3> QED BY <1>1, <1>3, <3>1, <3>2, <3>3 DEF AtHome
  <2> QED BY <2>1 DEF Homes
<1>14. Untouched
  <2>1. \A x \in Socket : wait[x] # "none" => home'[x] = home[x]
    BY <1>1, <1>3, <1>6
  <2> QED BY <1>1, <1>2, <2>1, DropUntouched
<1> QED BY <1>1, <1>8, <1>9, <1>10, <1>11, <1>12, <1>13, <1>14, SessionsStay

(* handle_accept: the socket goes on in the same direction as the next one *)
(* comes.                                                                  *)
LEMMA HandleAcceptStep ==
  ASSUME IInv, ~crashed, NEW t \in Thread, NEW h, NEW ran, Takes(t, h, ran), HandleAccept(h, ran),
         UNCHANGED <<phase, hold, flag>>
  PROVE  IInv'
<1> USE Types DEF IInv
<1>1. /\ h.k = "accepted"
      /\ UNCHANGED <<gone, wait, open, failed, pending, careless, shots, funcs, pc, timers>>
  BY DEF HandleAccept, sessions, observer
<1>2. /\ Dropped(q, ran, t, h) /\ h \in Handlers /\ ran \in Queues /\ In(q, t, h)
      /\ AtHome(h, t) /\ t \notin gone /\ phase # "idle" /\ \A u \in gone : ran[u] = <<>>
  BY Taken DEF Dropped
<1>3. PICK p \in Socket : p = h.s
  BY <1>1, <1>2 DEF AtHome
<1>4. Is(h, Passed, p) /\ \A x : Is(h, Passed, x) <=> x = p
  BY <1>1, <1>3 DEF Is, Passed
<1>5. Has(q, Passed, p)
  BY <1>2, <1>4 DEF Has
<1>6. p \in heap /\ wait[p] = "none" /\ ~Accepts(p) /\ Once(q, Passed, p)
  BY <1>5 DEF Passing
<1>7. ~Has(ran, Passed, p)
  BY <1>2, <1>4, <1>6 DEF Dropped
<1>8. FuncsInTable'
  BY <1>1 DEF FuncsInTable, Subscribed
<1>9. Passed' = Passed /\ (Subscribed("accept")' <=> Subscribed("accept"))
  BY <1>1 DEF Passed, Subscribed
<1>10. CASE h.e = "aborted"
  <2>1. q' = ran /\ UNCHANGED <<heap, home, accepting, crashed>>
    BY <1>10 DEF HandleAccept
  <2>2. Dropped(q, q', t, h) /\ q' \in Queues /\ ~Has(q', Passed, p)
    BY <1>2, <1>7, <2>1
  <2>3. phase # "running"
    BY <1>1, <1>2, <1>10 DEF Aborted
  <2>4. TypeOK'
    BY <1>1, <2>1, <2>2 DEF TypeOK, SessionTypeOK, ObserverTypeOK, Queues
  <2>5. Owner'
    BY <1>1, <1>2, <2>1 DEF Owner
  <2>6. CrashOnlyAfterClose'
    BY <2>1 DEF CrashOnlyAfterClose
  <2>7. Passing'
    <3>1. \A x : (Has(q', Passed, x) => Has(q, Passed, x)) /\ (Once(q, Passed, x) => Once(q', Passed, x))
      BY <2>2 DEF Dropped
    <3>2. \A x : Accepts(x)' <=> Accepts(x)
      BY <2>1 DEF Accepts
    <3> QED BY <1>1, <1>9, <2>1, <2>3, <3>1, <3>2 DEF Passing
  <2>8. Aborted' /\ Homes'
    BY <1>1, <2>1, <2>2 DEF Aborted, Homes, AtHome, Dropped
  <2>9. Untouched
    BY <1>1, <1>2, <2>1, <2>2, DropUntouched
  <2> QED BY <1>8, <2>4, <2>5, <2>6, <2>7, <2>8, <2>9, SessionsStay
<1>11. CASE h.e # "aborted" /\ home[h.s] \in gone
  <2>1. crashed' = TRUE /\ UNCHANGED <<q, heap, home, accepting>>
    BY <1>11 DEF HandleAccept
  <2>2. phase \notin {"idle", "running"}
    BY <1>11 DEF Owner
  <2>3. TypeOK'
    BY <1>1, <2>1 DEF TypeOK, SessionTypeOK, ObserverTypeOK
  <2>4. Owner'
    BY <1>1, <1>2, <2>1 DEF Owner
  <2>5. CrashOnlyAfterClose'
    BY <2>2 DEF CrashOnlyAfterClose
  <2>6. Quiet
    BY <1>1, <1>9, <2>1 DEF Quiet
  <2> QED BY <1>8, <2>3, <2>4, <2>5, <2>6, QuietStep
<1>12. CASE h.e # "aborted" /\ home[h.s] \notin gone
  <2>1. PICK hm \in Thread : hm = home[p]
    BY <1>3
  <2>2. hm \notin gone
    BY <1>3, <1>12, <2>1
  <2>3. PICK k \in {"connected", "bad"} : k = IF h.e = "ok" THEN "connected" ELSE "bad"
    OBVIOUS
  <2>4. h.e \in {"ok", "aborted", "error"}
    BY <1>2, HandlerFields
  <2>5. PICK g \in Handlers : g = Handler(k, p, "", h.e) /\ g.k = k /\ g.s = p
    <3>1. Handler(k, p, "", h.e) \in Handlers /\ Handler(k, p, "", h.e).k = k /\ Handler(k, p, "", h.e).s = p
      BY <2>4 DEF Handler, Handlers
    <3> QED BY <3>1
  <2>6. PICK s : s = NewSocket
    OBVIOUS
  <2>7. PICK M : M = Single(hm, g)
    OBVIOUS
  <2>8. [Nothing EXCEPT ![hm] = <<g>>] = M
    BY <2>7 DEF Nothing, Single
  <2>9. heap # Socket /\ crashed' = crashed
        /\ AsyncAccept(NextSocket(h.s), home[h.s], ran, [Nothing EXCEPT ![Poster(h.s)] =
               <<Handler(IF h.e = "ok" THEN "connected" ELSE "bad", h.s, "", h.e)>>])
    BY <1>12 DEF HandleAccept
  <2>10. AsyncAccept(s, hm, ran, M)
    BY <1>3, <2>1, <2>3, <2>5, <2>6, <2>8, <2>9 DEF NextSocket, Poster
  <2>11. s \in Socket /\ s \notin heap
    BY <2>6, <2>9, Fresh
  <2>12. heap' = heap \cup {s} /\ home' = [home EXCEPT ![s] = hm]
    BY <2>10 DEF AsyncAccept
  <2>13. /\ M \in Queues /\ \A u \in Thread, x \in Handlers : In(M, u, x) <=> u = hm /\ x = g
         /\ \A K, x : Once(M, K, x)
         /\ \A K, x : Has(M, K, x) <=> Is(g, K, x)
    BY <2>7, SingleIn
  <2>14. NewAccept(ran, M, s)
    BY <1>2, <2>10, <2>11, <2>13, AsyncAccepts
  <2>15. wait[s] = "none" /\ ~Accepts(s) /\ ~Has(q, Passed, s) /\ s # p
    BY <1>6, <2>11 DEF Passing
  <2>16. \A x : Is(g, Passed, x) <=> x = p
    BY <2>3, <2>5 DEF Is, Passed
  <2>17. TypeOK'
    <3>1. q' \in Queues /\ accepting' \in Seq(Socket)
      BY <2>14 DEF NewAccept
    <3>2. heap' \subseteq Socket /\ home' \in [Socket -> Thread]
      BY <2>11, <2>12
    <3> QED BY <1>1, <2>9, <3>1, <3>2 DEF TypeOK, SessionTypeOK, ObserverTypeOK, Queues
  <2>18. Owner'
    <3>1. ASSUME NEW u \in gone PROVE q'[u] = <<>>
      <4>1. u \in Worker /\ u # Acc /\ u \in Thread /\ u # hm
        BY <2>2, SessionAssumption DEF Owner
      <4>2. M[u] = <<>>
        BY <2>7, <4>1 DEF Single
      <4>3. q'[u] = ran[u] \o <<>> \/ q'[u] = (ran[u] \o <<>>) \o <<>>
        BY <2>10, <4>1, <4>2 DEF AsyncAccept
      <4>4. ran[u] = <<>>
        BY <1>2
      <4> QED BY <4>3, <4>4, ConcatEmptySeq
    <3> QED BY <1>1, <1>2, <3>1 DEF Owner
  <2>19. CrashOnlyAfterClose'
    BY <2>9 DEF CrashOnlyAfterClose
  <2>20. Passing'
    <3>1. \A x : Has(q', Passed, x) <=> Has(ran, Passed, x) \/ x = p \/ (~Listening /\ x = s)
      BY <2>13, <2>14, <2>16 DEF NewAccept
    <3>2. \A x : (Has(q, Passed, x) <=> Has(ran, Passed, x) \/ x = p)
      BY <1>2, <1>4, <1>5 DEF Dropped
    <3>3. \A x : Accepts(x)' <=> Accepts(x) \/ (Listening /\ x = s)
      BY <2>14 DEF NewAccept
    <3>4. \A i, j \in DOMAIN accepting' : accepting'[i] = accepting'[j] => i = j
      BY <2>14, <2>15 DEF NewAccept, Passing
    <3>5. ASSUME NEW x \in Socket PROVE Once(q', Passed, x)
      <4>1. Once(ran, Passed, x)
        BY <1>2 DEF Passing, Dropped
      <4>2. ~(Has(ran, Passed, x) /\ Has(M, Passed, x))
        BY <1>7, <2>13, <2>16
      <4>3. Is(AcceptHandler(s), Passed, x) => ~Has(ran, Passed, x) /\ ~Has(M, Passed, x)
        BY <2>11, <2>13, <2>15, <2>16, <3>2, AcceptHandlerType
      <4> QED BY <2>13, <2>14, <4>1, <4>2, <4>3, Zenon DEF NewAccept
    <3>6. phase = "running" => Listening
      BY DEF Listening
    <3> QED BY <1>1, <1>5, <1>6, <1>9, <2>11, <2>12, <2>15, <3>1, <3>2, <3>3, <3>4, <3>5, <3>6 DEF Passing
  <2>21. \A u \in Thread, x \in Handlers :
           In(q', u, x) => In(q, u, x) \/ (u = hm /\ x = g) \/ (u = Acc /\ x = AcceptHandler(s))
    BY <1>2, <2>13, <2>14 DEF NewAccept, Dropped
  <2>22. Aborted'
    <3>1. AcceptHandler(s).e # "aborted" /\ g.k # "accepted"
      BY <2>3, <2>5, <2>11, AcceptHandlerType
    <3> QED BY <1>1, <2>21, <3>1 DEF Aborted
  <2>23. Homes'
    <3>1. ASSUME NEW u \in Thread, NEW x \in Handlers, In(q', u, x) PROVE AtHome(x, u)'
      <4>1. CASE In(q, u, x)
        <5>1. AtHome(x, u)
          BY <4>1 DEF Homes
        <5>2. x.k \in {"connected", "bad"} => x.s # s
          BY <2>15, <4>1 DEF Has, Is, Passed
        <5>3. x.k = "destroy" => x.s # s
          BY <2>15, <5>1 DEF AtHome
        <5> QED BY <1>1, <2>12, <5>1, <5>2, <5>3 DEF AtHome
      <4>2. CASE u = Acc /\ x = AcceptHandler(s)
        BY <2>11, <4>2, AcceptHandlerType DEF AtHome
      <4>3. CASE u = hm /\ x = g
        BY <1>1, <2>1, <2>3, <2>5, <2>12, <2>15, <4>3 DEF AtHome
      <4> QED BY <2>21, <3>1, <4>1, <4>2, <4>3
    <3> QED BY <3>1 DEF Homes
  <2>24. Untouched
    <3>1. /\ AcceptHandler(s).k = "accepted"
          /\ \A x : ~Is(AcceptHandler(s), {"coro"}, x) /\ ~Is(AcceptHandler(s), {"destroy"}, x)
          /\ \A x : ~Is(g, {"coro"}, x) /\ ~Is(g, {"destroy"}, x)
      BY <2>3, <2>5, <2>11, AcceptHandlerType DEF Is
    <3>2. \A u \in Thread, x \in Handlers : x.k \in {"coro", "destroy"} => (In(q', u, x) <=> In(q, u, x))
      BY <1>1, <1>2, <2>3, <2>5, <2>13, <2>14, <3>1 DEF NewAccept, Dropped
    <3>3. ASSUME NEW K, NEW x, Once(q, K, x), ~Is(AcceptHandler(s), K, x), ~Is(g, K, x)
          PROVE  Once(q', K, x)
      BY <1>2, <2>13, <2>14, <3>3 DEF NewAccept, Dropped
    <3>4. \A x \in Socket : wait[x] # "none" => home'[x] = home[x]
      BY <2>11, <2>12, <2>15
    <3>5. q' \in Queues
      BY <2>14 DEF NewAccept
    <3> QED BY <1>1, <3>1, <3>2, <3>3, <3>4, <3>5 DEF Untouched
  <2> QED BY <1>1, <1>8, <2>17, <2>18, <2>19, <2>20, <2>22, <2>23, <2>24, SessionsStay
<1> QED BY <1>10, <1>11, <1>12

-----------------------------------------------------------------------------
(* The coroutine of s goes on, over the queues Q: it waits for w, and left *)
(* and the operation that it waits for are under way.                      *)
Ended(s) == Handler("destroy", s, "", "ok")

Goes(s, Q, w, left) ==
  /\ w \in {"read", "write", "pause", "done"}
  /\ wait' = [wait EXCEPT ![s] = w]
  /\ pending' = [pending EXCEPT ![s] = left \cup ({w} \cap Ops)]
  /\ q' = IF w = "done" THEN [Q EXCEPT ![home[s]] = Append(@, Ended(s))] ELSE Q

(* A coroutine suspends, or ends, in one of four ways. *)
LEMMA Proceeds ==
  ASSUME NEW s, NEW Q, NEW up, NEW left, Proceed(s, Q, up, left)
  PROVE  \E w : Goes(s, Q, w, left)
<1>1. CASE up /\ Fetch(s, left) /\ q' = Q
  <2>1. Goes(s, Q, "read", left)
    BY <1>1 DEF Fetch, Suspend, Goes, Ops
  <2> QED BY <2>1
<1>2. CASE Sync(s, left) /\ q' = Q
  <2>1. Goes(s, Q, "write", left)
    BY <1>2 DEF Sync, Suspend, Goes, Ops
  <2> QED BY <2>1
<1>3. CASE Suspend(s, "pause", left) /\ q' = Q
  <2>1. left \cup ({"pause"} \cap Ops) = left
    BY DEF Ops
  <2>2. Goes(s, Q, "pause", left)
    BY <1>3, <2>1 DEF Suspend, Goes
  <2> QED BY <2>2
<1>4. CASE Suspend(s, "done", left) /\ q' = Destroyed(s, Q)
  <2>1. left \cup ({"done"} \cap Ops) = left
    BY DEF Ops
  <2>2. Goes(s, Q, "done", left)
    BY <1>4, <2>1 DEF Suspend, Goes, Destroyed, Ended
  <2> QED BY <2>2
<1> QED BY <1>1, <1>2, <1>3, <1>4 DEF Proceed

(* The handler that deletes a session. *)
LEMMA EndedType ==
  ASSUME NEW s \in Socket
  PROVE  Ended(s) \in Handlers /\ Ended(s).k = "destroy" /\ Ended(s).s = s
BY DEF Ended, Handler, Handlers

(* The queues Q that a coroutine of s finds are the queues before, but for *)
(* what they hold for s.                                                   *)
Left(s, Q, left) ==
  /\ Q \in Queues /\ left \subseteq Ops
  /\ \A t \in Thread, h \in Handlers : In(Q, t, h) => In(q, t, h) \/ (h.k = "coro" /\ h.s = s)
  /\ wait[s] # "done" /\ ~Accepts(s) /\ ~Has(Q, Passed, s) /\ s \in heap
  /\ home[s] \notin gone /\ \A t \in gone : Q[t] = <<>>
  /\ \A x : x # s => (Has(Q, Passed, x) <=> Has(q, Passed, x))
  /\ \A K, x : Once(q, K, x) /\ "coro" \notin K => Once(Q, K, x)
  /\ ~careless =>
       /\ left = {} /\ ~Has(Q, {"coro"}, s)
       /\ \A t \in Thread, h \in Handlers :
            h.s # s /\ h.k \in {"coro", "destroy"} => (In(Q, t, h) <=> In(q, t, h))
       /\ \A x : Once(q, {"coro"}, x) => Once(Q, {"coro"}, x)

(* A session that goes on to wait for w keeps the invariant. *)
LEMMA SessionGoes ==
  ASSUME IInv, NEW s \in Socket, NEW Q, NEW w, NEW left, Goes(s, Q, w, left), Left(s, Q, left),
         UNCHANGED <<heap, home, gone, accepting, phase>>,
         Subscribed("accept")' => Subscribed("accept"), careless => careless'
  PROVE  /\ wait' \in [Socket -> Waits] /\ pending' \in [Socket -> SUBSET Ops] /\ q' \in Queues
         /\ \A t \in gone : q'[t] = <<>>
         /\ Passing' /\ Aborted' /\ Homes' /\ DeletedOnce' /\ (~careless' => Completing')
<1> USE Types DEF IInv
<1>1. /\ w \in {"read", "write", "pause", "done"}
      /\ wait' = [wait EXCEPT ![s] = w]
      /\ pending' = [pending EXCEPT ![s] = left \cup ({w} \cap Ops)]
      /\ q' = IF w = "done" THEN [Q EXCEPT ![home[s]] = Append(@, Ended(s))] ELSE Q
  BY DEF Goes
<1>2. /\ Q \in Queues /\ left \subseteq Ops
      /\ wait[s] # "done" /\ ~Accepts(s) /\ ~Has(Q, Passed, s) /\ s \in heap
      /\ home[s] \notin gone /\ \A t \in gone : Q[t] = <<>>
  BY DEF Left
<1>3. Ended(s) \in Handlers /\ Ended(s).k = "destroy" /\ Ended(s).s = s
  BY EndedType
<1>4. /\ q' \in Queues
      /\ \A t \in Thread, h \in Handlers :
           In(q', t, h) <=> In(Q, t, h) \/ (w = "done" /\ t = home[s] /\ h = Ended(s))
      /\ \A K, x : Once(Q, K, x) /\ (w = "done" => ~(Has(Q, K, x) /\ Is(Ended(s), K, x))) => Once(q', K, x)
      /\ \A K, x : Has(q', K, x) <=> Has(Q, K, x) \/ (w = "done" /\ Is(Ended(s), K, x))
  <2>1. CASE w = "done"
    <3>1. Added(Q, q', home[s], Ended(s))
      BY <1>1, <1>2, <1>3, <2>1, Adds
    <3> QED BY <3>1, <2>1, Zenon DEF Added
  <2>2. CASE w # "done"
    <3>1. q' = Q
      BY <1>1, <2>2
    <3> QED BY <3>1, <2>2, <1>2
  <2> QED BY <2>1, <2>2
<1>5. \A x \in Socket : wait'[x] = IF x = s THEN w ELSE wait[x]
  BY <1>1
<1>6. \A x \in Socket : pending'[x] = IF x = s THEN left \cup ({w} \cap Ops) ELSE pending[x]
  BY <1>1
<1>7. wait' \in [Socket -> Waits] /\ pending' \in [Socket -> SUBSET Ops]
  <2>0. w \in Waits
    BY <1>1 DEF Waits, Ops
  <2>1. wait' \in [Socket -> Waits]
    BY <1>1, <2>0
  <2>2. (left \cup ({w} \cap Ops)) \in SUBSET Ops
    BY <1>2
  <2>3. pending' \in [Socket -> SUBSET Ops]
    BY <1>1, <2>2
  <2> QED BY <2>1, <2>3
<1>8. \A t \in gone : q'[t] = <<>>
  BY <1>1, <1>2 DEF Queues
<1>9. \A x : ~Is(Ended(s), Passed, x) /\ ~Is(Ended(s), {"coro"}, x)
             /\ (Is(Ended(s), {"destroy"}, x) <=> x = s)
  BY <1>3 DEF Is, Passed
<1>10. \A t \in Thread, h \in Handlers : In(Q, t, h) => In(q, t, h) \/ (h.k = "coro" /\ h.s = s)
  BY DEF Left
<1>11. ASSUME NEW t \in Thread, NEW h \in Handlers, In(Q, t, h), h.k = "destroy" PROVE h.s # s
  <2>1. In(q, t, h)
    BY <1>11, <1>10
  <2> QED BY <1>2, <1>11, <2>1 DEF Homes, AtHome
<1>12. Passing'
  <2>1. \A x : Has(q', Passed, x) <=> Has(Q, Passed, x)
    BY <1>4, <1>9
  <2>2. \A x : x # s => (Has(Q, Passed, x) <=> Has(q, Passed, x))
    BY DEF Left
  <2>3. \A x \in Socket : Once(q', Passed, x)
    <3>1. \A x \in Socket : Once(Q, Passed, x)
      BY DEF Left, Passing, Passed
    <3> QED BY <1>4, <1>9, <3>1
  <2>4. \A x : (Accepts(x)' <=> Accepts(x)) /\ Passed' = Passed
    BY DEF Accepts, Passed
  <2>5. w # "none"
    BY <1>1
  <2>6. ASSUME NEW x \in Socket
        PROVE  /\ (wait'[x] # "none" \/ Accepts(x) \/ Has(q', Passed, x)) => x \in heap
               /\ ~(wait'[x] # "none" /\ Accepts(x))
               /\ ~(wait'[x] # "none" /\ Has(q', Passed, x))
               /\ ~(Accepts(x) /\ Has(q', Passed, x))
               /\ phase = "running" /\ Subscribed("accept") /\ x \in heap =>
                    wait'[x] # "none" \/ Accepts(x) \/ Has(q', Passed, x)
    <3>1. CASE x = s
      BY <1>2, <1>5, <2>1, <2>5, <3>1
    <3>2. CASE x # s
      BY <1>5, <2>1, <2>2, <3>2 DEF Passing
    <3> QED BY <3>1, <3>2
  <2>7. \A i, j \in DOMAIN accepting : accepting[i] = accepting[j] => i = j
    BY DEF Passing
  <2> QED BY <2>3, <2>4, <2>6, <2>7 DEF Passing
<1>13. Aborted'
  BY <1>3, <1>4, <1>10 DEF Aborted
<1>14. Homes'
  <2>1. ASSUME NEW t \in Thread, NEW h \in Handlers, In(q', t, h) PROVE AtHome(h, t)'
    <3>1. CASE In(Q, t, h)
      <4>1. CASE In(q, t, h)
        <5>1. AtHome(h, t)
          BY <4>1 DEF Homes
        <5>2. h.k = "destroy" => h.s # s
          BY <1>11, <3>1
        <5> QED BY <1>5, <5>1, <5>2 DEF AtHome
      <4>2. CASE h.k = "coro" /\ h.s = s
        BY <4>2 DEF AtHome
      <4> QED BY <1>10, <3>1, <4>1, <4>2
    <3>2. CASE w = "done" /\ t = home[s] /\ h = Ended(s)
      BY <1>3, <1>5, <3>2 DEF AtHome
    <3> QED BY <1>4, <2>1, <3>1, <3>2
  <2> QED BY <2>1 DEF Homes
<1>15. ~Has(Q, {"destroy"}, s)
  BY <1>11 DEF Has, Is
<1>16. DeletedOnce'
  <2>1. \A x \in Socket : Once(Q, {"destroy"}, x)
    BY DEF Left, DeletedOnce
  <2>2. \A x \in Socket : Once(q', {"destroy"}, x)
    BY <1>4, <1>9, <1>15, <2>1
  <2> QED BY <2>2 DEF DeletedOnce
<1>17. ASSUME ~careless' PROVE Completing'
  <2>1. Completing
    BY <1>17
  <2>2. /\ left = {} /\ ~Has(Q, {"coro"}, s)
        /\ \A t \in Thread, h \in Handlers :
             h.s # s /\ h.k \in {"coro", "destroy"} => (In(Q, t, h) <=> In(q, t, h))
        /\ \A x : Once(q, {"coro"}, x) => Once(Q, {"coro"}, x)
    BY <1>17 DEF Left
  <2>3. \A x : Has(q', {"coro"}, x) <=> Has(Q, {"coro"}, x)
    BY <1>4, <1>9
  <2>4. \A x : x # s => (Has(Q, {"coro"}, x) <=> Has(q, {"coro"}, x))
    BY <2>2 DEF Has, Is
  <2>5. \A x : x # s => (Has(Q, {"destroy"}, x) <=> Has(q, {"destroy"}, x))
    BY <2>2 DEF Has, Is
  <2>6. ASSUME NEW t \in Thread, NEW h \in Handlers, In(q', t, h), h.k = "coro"
        PROVE  home[h.s] = t /\ Awaited(h.op, wait'[h.s])
    <3>1. In(Q, t, h)
      BY <1>3, <1>4, <2>6
    <3>2. h.s # s
      BY <2>2, <2>6, <3>1 DEF Has, Is
    <3>3. In(q, t, h)
      BY <2>2, <2>6, <3>1, <3>2
    <3>4. h.s \in Socket
      BY <2>6, <3>3 DEF Homes, AtHome
    <3> QED BY <1>5, <2>1, <2>6, <3>2, <3>3, <3>4 DEF Completing
  <2>7. ASSUME NEW x \in Socket
        PROVE  /\ Once(q', {"coro"}, x)
               /\ pending'[x] \subseteq {wait'[x]}
               /\ ~(pending'[x] # {} /\ Has(q', {"coro"}, x))
               /\ home[x] \notin gone /\ wait'[x] \in Ops => pending'[x] # {} \/ Has(q', {"coro"}, x)
               /\ home[x] \notin gone /\ wait'[x] = "done" => Has(q', {"destroy"}, x)
    <3>1. Once(q', {"coro"}, x)
      BY <1>4, <1>9, <2>1, <2>2 DEF Completing
    <3>2. CASE x = s
      <4>1. pending'[x] = {w} \cap Ops /\ wait'[x] = w
        BY <1>5, <1>6, <2>2, <3>2
      <4>2. w = "done" => Has(q', {"destroy"}, x)
        BY <1>4, <1>9, <3>2
      <4>3. ~Has(q', {"coro"}, x)
        BY <2>2, <2>3, <3>2
      <4> QED BY <3>1, <4>1, <4>2, <4>3
    <3>3. CASE x # s
      <4>1. pending'[x] = pending[x] /\ wait'[x] = wait[x]
        BY <1>5, <1>6, <3>3
      <4>2. Has(q', {"coro"}, x) <=> Has(q, {"coro"}, x)
        BY <2>3, <2>4, <3>3
      <4>3. Has(q, {"destroy"}, x) => Has(q', {"destroy"}, x)
        BY <1>4, <2>5, <3>3
      <4>4. /\ pending[x] \subseteq {wait[x]}
            /\ ~(pending[x] # {} /\ Has(q, {"coro"}, x))
            /\ home[x] \notin gone /\ wait[x] \in Ops => pending[x] # {} \/ Has(q, {"coro"}, x)
            /\ home[x] \notin gone /\ wait[x] = "done" => Has(q, {"destroy"}, x)
        BY <2>1 DEF Completing
      <4> QED BY <3>1, <4>1, <4>2, <4>3, <4>4
    <3> QED BY <3>2, <3>3
  <2> QED BY <2>6, <2>7 DEF Completing
<1> QED BY <1>4, <1>7, <1>8, <1>12, <1>13, <1>14, <1>16, <1>17

(* The accept event finds its callback, or nobody. *)
LEMMA OnConnectedStep ==
  ASSUME IInv, ~crashed, NEW t \in Thread, NEW h, NEW ran, Takes(t, h, ran), OnConnected(h, ran),
         UNCHANGED <<phase, hold, flag>>
  PROVE  IInv'
<1> USE Types DEF IInv
<1>1. h.k = "connected" /\ UNCHANGED <<gone, heap, home, pc, timers, accepting>>
  BY DEF OnConnected
<1>2. /\ Dropped(q, ran, t, h) /\ h \in Handlers /\ ran \in Queues /\ In(q, t, h)
      /\ AtHome(h, t) /\ t \notin gone /\ phase # "idle" /\ \A u \in gone : ran[u] = <<>>
  BY Taken DEF Dropped
<1>3. PICK s \in Socket : s = h.s
  BY <1>1, <1>2 DEF AtHome
<1>4. Is(h, Passed, s) /\ \A x : Is(h, Passed, x) <=> x = s
  BY <1>1, <1>3 DEF Is, Passed
<1>5. Has(q, Passed, s)
  BY <1>2, <1>4 DEF Has
<1>6. s \in heap /\ wait[s] = "none" /\ ~Accepts(s) /\ Once(q, Passed, s)
  BY <1>5 DEF Passing
<1>7. ~Has(ran, Passed, s)
  BY <1>2, <1>4, <1>6 DEF Dropped
<1>8. \A x : x # s => (Has(ran, Passed, x) <=> Has(q, Passed, x))
  BY <1>2, <1>4 DEF Dropped
<1>9. CASE Subscribed("accept")
  <2>1. Accept(s, ran)
    BY <1>3, <1>9 DEF OnConnected
  <2>2. \/ UNCHANGED <<shots, funcs, crashed, careless>>
        \/ ~careless /\ careless' = TRUE /\ Unsubscribe("accept") /\ crashed' \in BOOLEAN
    BY <1>9 DEF OnConnected, observer
  <2>3. open' \subseteq Socket /\ failed' \subseteq Socket /\ Proceed(s, ran, TRUE, {})
    BY <2>1 DEF Accept
  <2>4. PICK w : Goes(s, ran, w, {})
    BY <2>3, Proceeds
  <2>5. Left(s, ran, {})
    <3>1. home[s] \notin gone
      BY <1>1, <1>2, <1>3 DEF AtHome
    <3>2. \A u \in Thread, g \in Handlers : In(ran, u, g) => In(q, u, g)
      BY <1>2 DEF Dropped
    <3>3. \A u \in Thread, g \in Handlers : g.k \in {"coro", "destroy"} => (In(ran, u, g) <=> In(q, u, g))
      BY <1>1, <1>2 DEF Dropped
    <3>4. \A K, x : Once(q, K, x) => Once(ran, K, x)
      BY <1>2 DEF Dropped
    <3>5. ASSUME ~careless PROVE ~Has(ran, {"coro"}, s)
      <4>1. SUFFICES ASSUME NEW u \in Thread, NEW g \in Handlers, In(ran, u, g), g.k = "coro", g.s = s
                     PROVE  FALSE
        BY DEF Has, Is
      <4>2. Awaited(g.op, wait[s])
        BY <3>2, <3>5, <4>1 DEF Completing
      <4> QED BY <1>6, <4>2 DEF Awaited, Ops
    <3> QED BY <1>2, <1>6, <1>7, <1>8, <3>1, <3>2, <3>3, <3>4, <3>5 DEF Left
  <2>6. "accept" \in Event
    BY ListenerAssumption
  <2>7. Subscribed("accept")' => Subscribed("accept")
    BY <1>9
  <2>8. careless => careless'
    BY <2>2
  <2>9. /\ wait' \in [Socket -> Waits] /\ pending' \in [Socket -> SUBSET Ops] /\ q' \in Queues
        /\ \A u \in gone : q'[u] = <<>>
        /\ Passing' /\ Aborted' /\ Homes' /\ DeletedOnce' /\ (~careless' => Completing')
    BY <1>1, <2>4, <2>5, <2>7, <2>8, SessionGoes
  <2>10. shots' \in [Event -> Func \cup {NoFunc}] /\ funcs' \subseteq Func /\ careless' \in BOOLEAN /\ crashed' \in BOOLEAN
    BY <2>2 DEF Unsubscribe
  <2>11. TypeOK'
    BY <1>1, <2>3, <2>9, <2>10 DEF TypeOK, SessionTypeOK, ObserverTypeOK, Queues
  <2>12. phase # "destroyed"
    BY <1>9, <2>6 DEF Owner, Subscribed
  <2>13. Owner'
    BY <1>1, <1>2, <2>9, <2>12 DEF Owner
  <2>14. FuncsInTable'
    <3>1. CASE UNCHANGED <<shots, funcs>>
      BY <3>1 DEF FuncsInTable, Subscribed
    <3>2. CASE Unsubscribe("accept")
      <4>1. /\ funcs' = funcs \ {shots["accept"]} /\ shots["accept"] # NoFunc
            /\ shots' = [shots EXCEPT !["accept"] = NoFunc]
        BY <3>2 DEF Unsubscribe
      <4>2. \A o \in Event : shots'[o] = IF o = "accept" THEN NoFunc ELSE shots[o]
        BY <4>1
      <4>3. funcs = {shots[f] : f \in Event} \ {NoFunc}
            /\ \A f, o \in Event : shots[f] = shots[o] /\ f # o => shots[f] = NoFunc
        BY <2>12 DEF FuncsInTable, Subscribed
      <4>4. funcs' = {shots'[o] : o \in Event} \ {NoFunc}
        BY <2>6, <4>1, <4>2, <4>3
      <4>5. \A f, o \in Event : shots'[f] = shots'[o] /\ f # o => shots'[f] = NoFunc
        BY <4>2, <4>3
      <4> QED BY <4>4, <4>5 DEF FuncsInTable, Subscribed
    <3> QED BY <2>2, <3>1, <3>2
  <2>15. CrashOnlyAfterClose'
    BY <2>2 DEF CrashOnlyAfterClose
  <2> QED BY <2>9, <2>11, <2>13, <2>14, <2>15
<1>10. CASE ~Subscribed("accept")
  <2>1. q' = ran /\ UNCHANGED <<wait, open, failed, pending, shots, funcs, crashed, careless>>
    BY <1>10 DEF OnConnected, sessions, observer
  <2>2. Dropped(q, q', t, h) /\ q' \in Queues
    BY <1>2, <2>1
  <2>3. TypeOK'
    BY <1>1, <2>1, <2>2 DEF TypeOK, SessionTypeOK, ObserverTypeOK, Queues
  <2>4. Owner'
    BY <1>1, <1>2, <2>1 DEF Owner
  <2>5. FuncsInTable' /\ CrashOnlyAfterClose'
    BY <2>1 DEF FuncsInTable, CrashOnlyAfterClose, Subscribed
  <2>6. Passing'
    <3>1. \A x : (Has(q', Passed, x) => Has(q, Passed, x)) /\ (Once(q, Passed, x) => Once(q', Passed, x))
      BY <2>2 DEF Dropped
    <3>2. \A x : (Accepts(x)' <=> Accepts(x)) /\ Passed' = Passed
      BY <1>1 DEF Accepts, Passed
    <3>3. ~Subscribed("accept")'
      BY <1>10, <2>1 DEF Subscribed
    <3> QED BY <1>1, <2>1, <3>1, <3>2, <3>3 DEF Passing
  <2>7. Aborted' /\ Homes'
    BY <1>1, <2>1, <2>2 DEF Aborted, Homes, AtHome, Dropped
  <2>8. Untouched
    BY <1>1, <1>2, <2>1, <2>2, DropUntouched
  <2> QED BY <2>1, <2>3, <2>4, <2>5, <2>6, <2>7, <2>8, SessionsStay
<1> QED BY <1>9, <1>10

(* A completion, or what takes its place, calls the coroutine. *)
LEMMA RunCoroStep ==
  ASSUME IInv, ~crashed, NEW t \in Thread, NEW h, NEW ran, Takes(t, h, ran), RunCoro(h, ran),
         UNCHANGED <<phase, hold, flag, shots, funcs, pc, timers, accepting>>
  PROVE  IInv'
<1> USE Types DEF IInv
<1>1. h.k = "coro" /\ UNCHANGED <<gone, heap, home, careless>>
  BY DEF RunCoro
<1>2. /\ Dropped(q, ran, t, h) /\ h \in Handlers /\ ran \in Queues /\ In(q, t, h)
      /\ AtHome(h, t) /\ t \notin gone /\ phase # "idle" /\ \A u \in gone : ran[u] = <<>>
  BY Taken DEF Dropped
<1>3. PICK s \in Socket : s = h.s
  BY <1>1, <1>2 DEF AtHome
<1>4. FuncsInTable'
  BY DEF FuncsInTable, Subscribed
<1>5. ~careless => home[s] = t /\ wait[s] \notin {"none", "done"} /\ Awaited(h.op, wait[s])
  <2>1. ~careless => home[s] = t /\ Awaited(h.op, wait[s])
    BY <1>1, <1>2, <1>3 DEF Completing
  <2> QED BY <2>1 DEF Awaited, Ops
<1>6. CASE wait[s] \in {"none", "done"} \/ home[s] \in gone
  <2>1. crashed' = TRUE /\ UNCHANGED <<q, wait, open, failed, pending>>
    BY <1>3, <1>6 DEF RunCoro, sessions
  <2>2. CrashOnlyAfterClose'
    BY <1>1, <1>2, <1>5, <1>6 DEF CrashOnlyAfterClose, Owner
  <2>3. TypeOK'
    BY <1>1, <2>1 DEF TypeOK, SessionTypeOK, ObserverTypeOK
  <2>4. Owner'
    BY <1>1, <1>2, <2>1 DEF Owner
  <2>5. Quiet
    BY <1>1, <2>1 DEF Quiet, Subscribed
  <2> QED BY <1>4, <2>2, <2>3, <2>4, <2>5, QuietStep
<1>7. CASE wait[s] \notin {"none", "done"} /\ home[s] \notin gone
  <2>1. Resumed(s, h.e, ran) /\ crashed' = crashed
    BY <1>3, <1>7 DEF RunCoro
  <2>2. s \in heap /\ ~Accepts(s) /\ ~Has(q, Passed, s)
    BY <1>7 DEF Passing
  <2>3. \A x : ~Is(h, Passed, x) /\ ~Is(h, {"destroy"}, x)
    BY <1>1 DEF Is, Passed
  <2>4. \A x : Has(ran, Passed, x) <=> Has(q, Passed, x)
    BY <1>2, <2>3 DEF Dropped
  <2>5. Is(h, {"coro"}, s) /\ \A x : Is(h, {"coro"}, x) <=> x = s
    BY <1>1, <1>3 DEF Is
  <2>6. Has(q, {"coro"}, s)
    BY <1>2, <2>5 DEF Has
  <2>7. ~careless => ~Has(ran, {"coro"}, s) /\ pending[s] = {}
    BY <1>2, <2>5, <2>6 DEF Completing, Dropped
  <2>8. ASSUME NEW Q, NEW left, Q \in Queues, left \subseteq Ops,
               ~careless => Q = ran /\ left = {},
               \A u \in Thread, g \in Handlers : In(Q, u, g) => In(ran, u, g) \/ (g.k = "coro" /\ g.s = s),
               \A x : Has(Q, Passed, x) <=> Has(ran, Passed, x),
               \A K, x : Once(ran, K, x) /\ "coro" \notin K => Once(Q, K, x),
               \A u \in gone : Q[u] = <<>>
        PROVE  Left(s, Q, left)
    <3>1. \A u \in Thread, g \in Handlers : In(Q, u, g) => In(q, u, g) \/ (g.k = "coro" /\ g.s = s)
      BY <1>2, <2>8 DEF Dropped
    <3>2. \A K, x : Once(q, K, x) /\ "coro" \notin K => Once(Q, K, x)
      BY <1>2, <2>8 DEF Dropped
    <3>3. ASSUME ~careless
          PROVE  /\ left = {} /\ ~Has(Q, {"coro"}, s)
                 /\ \A u \in Thread, g \in Handlers :
                      g.s # s /\ g.k \in {"coro", "destroy"} => (In(Q, u, g) <=> In(q, u, g))
                 /\ \A x : Once(q, {"coro"}, x) => Once(Q, {"coro"}, x)
      BY <1>2, <1>3, <2>7, <2>8, <3>3 DEF Dropped
    <3> QED BY <1>7, <2>2, <2>4, <2>8, <3>1, <3>2, <3>3 DEF Left
  <2>9. /\ open' \subseteq Socket /\ failed' \subseteq Socket
        /\ \E Q, w, left : Goes(s, Q, w, left) /\ Left(s, Q, left)
    <3>1. CASE wait[s] = "read" /\ h.e # "ok"
      <4>1. /\ open' = open \ {s} /\ failed' = failed \cup {s}
            /\ Proceed(s, Cancel(s, ran), FALSE, {})
        BY <2>1, <3>1 DEF Resumed
      <4>2. PICK Q : Q = Cancel(s, ran)
        OBVIOUS
      <4>3. Cancelled(ran, Q, s)
        BY <1>2, <4>2, Cancels
      <4>4. PICK w : Goes(s, Q, w, {})
        BY <4>1, <4>2, Proceeds
      <4>5. \A u \in gone : Q[u] = <<>>
        <5>1. \A u \in gone : u # home[s] /\ u \in Thread
          BY <1>7
        <5> QED BY <1>2, <1>7, <4>2, <5>1 DEF Cancel, Queues
      <4>6. "coro" \notin Passed
        BY DEF Passed
      <4>7. Left(s, Q, {})
        BY <2>7, <2>8, <4>3, <4>5, <4>6 DEF Cancelled
      <4> QED BY <4>1, <4>4, <4>7
    <3>2. CASE ~(wait[s] = "read" /\ h.e # "ok")
      <4>1. /\ open' = open
            /\ failed' = IF wait[s] # "pause" /\ h.e # "ok" THEN failed \cup {s} ELSE failed
            /\ Proceed(s, ran, s \in open, pending[s])
        BY <2>1, <3>2 DEF Resumed
      <4>2. PICK w : Goes(s, ran, w, pending[s])
        BY <4>1, Proceeds
      <4>3. pending[s] \subseteq Ops
        OBVIOUS
      <4>4. Left(s, ran, pending[s])
        BY <1>2, <2>7, <2>8, <4>3
      <4> QED BY <4>1, <4>2, <4>4
    <3> QED BY <3>1, <3>2
  <2>10. PICK Q, w, left : Goes(s, Q, w, left) /\ Left(s, Q, left)
    BY <2>9
  <2>11. /\ wait' \in [Socket -> Waits] /\ pending' \in [Socket -> SUBSET Ops] /\ q' \in Queues
         /\ \A u \in gone : q'[u] = <<>>
         /\ Passing' /\ Aborted' /\ Homes' /\ DeletedOnce' /\ (~careless' => Completing')
    <3>1. Subscribed("accept")' => Subscribed("accept")
      BY DEF Subscribed
    <3> QED BY <1>1, <2>10, <3>1, SessionGoes
  <2>12. TypeOK'
    BY <1>1, <2>1, <2>9, <2>11 DEF TypeOK, SessionTypeOK, ObserverTypeOK, Queues
  <2>13. Owner'
    BY <1>1, <1>2, <2>11 DEF Owner
  <2>14. CrashOnlyAfterClose'
    BY <2>1 DEF CrashOnlyAfterClose
  <2> QED BY <1>4, <2>11, <2>12, <2>13, <2>14
<1> QED BY <1>6, <1>7

(* The session, its coroutine and its socket are deleted. *)
LEMMA RunDestroyStep ==
  ASSUME IInv, ~crashed, NEW t \in Thread, NEW h, NEW ran, Takes(t, h, ran), RunDestroy(h, ran),
         UNCHANGED <<phase, hold, flag, shots, funcs, pc, timers, accepting>>
  PROVE  IInv'
<1> USE Types DEF IInv
<1>1. h.k = "destroy" /\ UNCHANGED <<gone, crashed, careless>>
  BY DEF RunDestroy
<1>2. /\ Dropped(q, ran, t, h) /\ h \in Handlers /\ ran \in Queues /\ In(q, t, h)
      /\ AtHome(h, t) /\ t \notin gone /\ phase # "idle" /\ \A u \in gone : ran[u] = <<>>
  BY Taken DEF Dropped
<1>3. PICK s \in Socket : s = h.s
  BY <1>1, <1>2 DEF AtHome
<1>4. /\ q' = Cancel(s, ran) /\ heap' = heap \ {s} /\ home' = [home EXCEPT ![s] = Acc]
      /\ wait' = [wait EXCEPT ![s] = "none"] /\ pending' = [pending EXCEPT ![s] = {}]
      /\ open' = open \ {s} /\ failed' = failed \ {s}
  BY <1>3 DEF RunDestroy, Delete
<1>5. wait[s] = "done" /\ home[s] = t
  BY <1>1, <1>2, <1>3 DEF AtHome
<1>6. Cancelled(ran, q', s)
  BY <1>2, <1>4, Cancels
<1>7. \A x \in Socket : wait'[x] = IF x = s THEN "none" ELSE wait[x]
  BY <1>4
<1>8. \A x \in Socket : pending'[x] = IF x = s THEN {} ELSE pending[x]
  BY <1>4
<1>9. \A x \in Socket : home'[x] = IF x = s THEN Acc ELSE home[x]
  BY <1>4
<1>10. s \in heap /\ ~Accepts(s) /\ ~Has(q, Passed, s)
  BY <1>5 DEF Passing
<1>11. \A u \in Thread, g \in Handlers : In(q', u, g) => In(q, u, g) \/ (g.k = "coro" /\ g.s = s)
  BY <1>2, <1>6 DEF Dropped, Cancelled
<1>12. Is(h, {"destroy"}, s) /\ \A x : Is(h, {"destroy"}, x) <=> x = s
  BY <1>1, <1>3 DEF Is
<1>13. ~Has(q', {"destroy"}, s)
  <2>1. ~Has(ran, {"destroy"}, s)
    BY <1>2, <1>12 DEF DeletedOnce, Dropped
  <2> QED BY <1>6, <2>1 DEF Cancelled
<1>14. \A x : ~Is(h, Passed, x) /\ ~Is(h, {"coro"}, x)
  BY <1>1 DEF Is, Passed
<1>15. TypeOK'
  <2>1. home' \in [Socket -> Thread] /\ wait' \in [Socket -> Waits]
        /\ pending' \in [Socket -> SUBSET Ops]
    BY <1>4 DEF Thread, Waits
  <2>2. q' \in Queues
    BY <1>6 DEF Cancelled
  <2> QED BY <1>1, <1>4, <2>1, <2>2 DEF TypeOK, SessionTypeOK, ObserverTypeOK, Queues
<1>16. Owner'
  <2>1. \A u \in gone : q'[u] = <<>>
    BY <1>2, <1>4, <1>5 DEF Cancel, Queues
  <2> QED BY <1>1, <1>2, <2>1 DEF Owner
<1>17. FuncsInTable' /\ CrashOnlyAfterClose'
  BY <1>1 DEF FuncsInTable, CrashOnlyAfterClose, Subscribed
<1>18. Passing'
  <2>1. "coro" \notin Passed
    BY DEF Passed
  <2>2. \A x : Has(q', Passed, x) <=> Has(q, Passed, x)
    BY <1>2, <1>6, <1>14, <2>1 DEF Dropped, Cancelled
  <2>3. \A x : Once(q, Passed, x) => Once(q', Passed, x)
    BY <1>2, <1>6, <2>1 DEF Dropped, Cancelled
  <2>4. \A x : (Accepts(x)' <=> Accepts(x)) /\ Passed' = Passed /\ (Subscribed("accept")' <=> Subscribed("accept"))
    BY DEF Accepts, Passed, Subscribed
  <2> QED BY <1>4, <1>7, <1>10, <2>2, <2>3, <2>4 DEF Passing
<1>19. Aborted'
  BY <1>11 DEF Aborted
<1>20. Homes'
  <2>1. ASSUME NEW u \in Thread, NEW g \in Handlers, In(q', u, g) PROVE AtHome(g, u)'
    <3>1. CASE In(q, u, g)
      <4>1. AtHome(g, u)
        BY <3>1 DEF Homes
      <4>2. g.k \in {"connected", "bad"} => g.s # s
        BY <1>10, <3>1 DEF Has, Is, Passed
      <4>3. g.k = "destroy" => g.s # s
        BY <1>13, <2>1 DEF Has, Is
      <4> QED BY <1>7, <1>9, <4>1, <4>2, <4>3 DEF AtHome
    <3>2. CASE g.k = "coro" /\ g.s = s
      BY <3>2 DEF AtHome
    <3> QED BY <1>11, <2>1, <3>1, <3>2
  <2> QED BY <2>1 DEF Homes
<1>21. DeletedOnce'
  BY <1>2, <1>6 DEF DeletedOnce, Dropped, Cancelled
<1>22. ASSUME ~careless' PROVE Completing'
  <2>1. Completing
    BY <1>1, <1>22
  <2>2. pending[s] = {}
    BY <1>5, <2>1 DEF Completing, Ops
  <2>3. q' = ran
    BY <1>6, <2>2 DEF Cancelled
  <2>4. \A x : (Has(q', {"coro"}, x) <=> Has(q, {"coro"}, x))
    BY <1>2, <1>14, <2>3 DEF Dropped
  <2>5. \A x : x # s => (Has(q', {"destroy"}, x) <=> Has(q, {"destroy"}, x))
    BY <1>2, <1>12, <2>3 DEF Dropped
  <2>6. ASSUME NEW u \in Thread, NEW g \in Handlers, In(q, u, g), g.k = "coro" PROVE g.s # s /\ g.s \in Socket
    <3>1. Awaited(g.op, wait[g.s]) /\ g.s \in Socket
      BY <2>1, <2>6 DEF Completing, Homes, AtHome
    <3> QED BY <1>5, <3>1 DEF Awaited, Ops
  <2>7. ~Has(q, {"coro"}, s)
    BY <2>6 DEF Has, Is
  <2>8. ASSUME NEW u \in Thread, NEW g \in Handlers, In(q', u, g), g.k = "coro"
        PROVE  home'[g.s] = u /\ Awaited(g.op, wait'[g.s])
    <3>1. In(q, u, g)
      BY <1>2, <2>3, <2>8 DEF Dropped
    <3> QED BY <1>7, <1>9, <2>1, <2>6, <2>8, <3>1 DEF Completing
  <2>9. ASSUME NEW x \in Socket
        PROVE  /\ Once(q', {"coro"}, x)
               /\ pending'[x] \subseteq {wait'[x]}
               /\ ~(pending'[x] # {} /\ Has(q', {"coro"}, x))
               /\ home'[x] \notin gone /\ wait'[x] \in Ops => pending'[x] # {} \/ Has(q', {"coro"}, x)
               /\ home'[x] \notin gone /\ wait'[x] = "done" => Has(q', {"destroy"}, x)
    <3>1. Once(q', {"coro"}, x)
      BY <1>2, <2>1, <2>3 DEF Completing, Dropped
    <3>2. CASE x = s
      BY <1>7, <1>8, <3>1, <3>2 DEF Ops
    <3>3. CASE x # s
      BY <1>7, <1>8, <1>9, <2>1, <2>4, <2>5, <3>1, <3>3 DEF Completing
    <3> QED BY <3>2, <3>3
  <2> QED BY <1>1, <2>8, <2>9 DEF Completing
<1> QED BY <1>15, <1>16, <1>17, <1>18, <1>19, <1>20, <1>21, <1>22

-----------------------------------------------------------------------------
(* The network and the users. *)
LEMMA ConnectStep ==
  ASSUME IInv, NEW u \in Worker, pc[u] = "run", Connect(u),
         UNCHANGED <<observer, phase, hold, threads, accepting>>
  PROVE  IInv'
<1> USE Types DEF IInv
<1>1. PICK s : s = NewSocket
  OBVIOUS
<1>2. /\ heap # Socket
      /\ heap' = heap \cup {s} /\ home' = [home EXCEPT ![s] = u]
      /\ wait' = [wait EXCEPT ![s] = "connect"]
      /\ pending' = [pending EXCEPT ![s] = {"connect"}]
      /\ open' = open \cup {s} /\ failed' = failed \ {s}
      /\ UNCHANGED <<q, gone, crashed, careless, shots, funcs, phase, hold, pc, flag, timers, accepting>>
  BY <1>1 DEF Connect, observer, threads
<1>3. s \in Socket /\ s \notin heap
  BY <1>1, <1>2, Fresh
<1>4. u \in Thread /\ phase # "idle"
  BY DEF Thread, Owner
<1>5. wait[s] = "none" /\ ~Accepts(s) /\ ~Has(q, Passed, s)
  BY <1>3 DEF Passing
<1>6. \A x \in Socket : /\ wait'[x] = IF x = s THEN "connect" ELSE wait[x]
                        /\ pending'[x] = IF x = s THEN {"connect"} ELSE pending[x]
                        /\ home'[x] = IF x = s THEN u ELSE home[x]
  BY <1>2, <1>4
<1>7. q' = q
  BY <1>2
<1>8. TypeOK'
  <2>1. wait' \in [Socket -> Waits] /\ pending' \in [Socket -> SUBSET Ops] /\ home' \in [Socket -> Thread]
    BY <1>2, <1>4 DEF Waits, Ops
  <2> QED BY <1>2, <1>3, <2>1 DEF TypeOK, SessionTypeOK, ObserverTypeOK
<1>9. Owner'
  BY <1>2, <1>4 DEF Owner
<1>10. FuncsInTable' /\ CrashOnlyAfterClose'
  BY <1>2 DEF FuncsInTable, CrashOnlyAfterClose, Subscribed
<1>11. Passing'
  <2>1. \A x : (Accepts(x)' <=> Accepts(x)) /\ Passed' = Passed /\ (Subscribed("accept")' <=> Subscribed("accept"))
    BY <1>2 DEF Accepts, Passed, Subscribed
  <2> QED BY <1>2, <1>3, <1>5, <1>6, <1>7, <2>1 DEF Passing
<1>12. Aborted'
  BY <1>2, <1>7 DEF Aborted, In
<1>13. ASSUME NEW t \in Thread, NEW g \in Handlers, In(q, t, g)
       PROVE  (g.k \in {"connected", "bad", "destroy"} \/ (~careless /\ g.k = "coro")) => g.s # s
  <2>1. AtHome(g, t)
    BY <1>13 DEF Homes
  <2>2. g.k \in {"connected", "bad"} => g.s # s
    BY <1>5, <1>13 DEF Has, Is, Passed
  <2>3. ~careless /\ g.k = "coro" => Awaited(g.op, wait[g.s])
    BY <1>13 DEF Completing
  <2> QED BY <1>5, <2>1, <2>2, <2>3 DEF AtHome, Awaited, Ops
<1>14. Homes'
  <2>1. ASSUME NEW t \in Thread, NEW g \in Handlers, In(q, t, g) PROVE AtHome(g, t)'
    <3>1. AtHome(g, t)
      BY <2>1 DEF Homes
    <3> QED BY <1>6, <1>13, <2>1, <3>1 DEF AtHome
  <2> QED BY <1>7, <2>1 DEF Homes, In
<1>15. DeletedOnce'
  BY <1>7 DEF DeletedOnce
<1>16. ASSUME ~careless' PROVE Completing'
  <2>1. Completing /\ ~careless
    BY <1>2, <1>16
  <2>2. \A t \in Thread, g \in Handlers : In(q, t, g) /\ g.k = "coro" =>
           home'[g.s] = t /\ Awaited(g.op, wait'[g.s])
    <3> SUFFICES ASSUME NEW t \in Thread, NEW g \in Handlers, In(q, t, g), g.k = "coro"
                 PROVE  home'[g.s] = t /\ Awaited(g.op, wait'[g.s])
      OBVIOUS
    <3>1. g.s # s /\ g.s \in Socket
      BY <1>13, <2>1 DEF Homes, AtHome
    <3> QED BY <1>6, <2>1, <3>1 DEF Completing
  <2>3. ~Has(q, {"coro"}, s)
    BY <1>13, <2>1 DEF Has, Is
  <2>4. ASSUME NEW x \in Socket
        PROVE  /\ Once(q, {"coro"}, x)
               /\ pending'[x] \subseteq {wait'[x]}
               /\ ~(pending'[x] # {} /\ Has(q, {"coro"}, x))
               /\ home'[x] \notin gone /\ wait'[x] \in Ops => pending'[x] # {} \/ Has(q, {"coro"}, x)
               /\ home'[x] \notin gone /\ wait'[x] = "done" => Has(q, {"destroy"}, x)
    BY <1>6, <2>1, <2>3 DEF Completing
  <2> QED BY <1>2, <1>7, <2>2, <2>4 DEF Completing, In
<1> QED BY <1>8, <1>9, <1>10, <1>11, <1>12, <1>14, <1>15, <1>16

(* A handler that runs the coroutine of s is posted. *)
LEMMA CoroAdded ==
  ASSUME IInv, NEW s \in Socket, NEW h \in Handlers, h.k = "coro", h.s = s,
         home[s] \notin gone, Added(q, q', home[s], h),
         UNCHANGED <<gone, heap, home, wait, accepting, phase, shots>>
  PROVE  /\ Passing' /\ Aborted' /\ Homes' /\ DeletedOnce'
         /\ q' \in Queues
<1> USE Types DEF IInv
<1>1. \A x : ~Is(h, Passed, x) /\ ~Is(h, {"destroy"}, x)
  BY DEF Is, Passed
<1>2. \A x : /\ Has(q', Passed, x) <=> Has(q, Passed, x)
             /\ Once(q, Passed, x) => Once(q', Passed, x)
             /\ Once(q, {"destroy"}, x) => Once(q', {"destroy"}, x)
  BY <1>1 DEF Added
<1>3. Passing'
  <2>1. \A x : (Accepts(x)' <=> Accepts(x)) /\ Passed' = Passed /\ (Subscribed("accept")' <=> Subscribed("accept"))
    BY DEF Accepts, Passed, Subscribed
  <2> QED BY <1>2, <2>1 DEF Passing
<1>4. Aborted'
  BY DEF Aborted, Added
<1>5. Homes'
  BY DEF Homes, AtHome, Added
<1>6. DeletedOnce'
  BY <1>2 DEF DeletedOnce
<1>7. q' \in Queues
  BY DEF Added
<1> QED BY <1>3, <1>4, <1>5, <1>6, <1>7

(* An operation of a session ends. *)
LEMMA CompletesStep ==
  ASSUME IInv, NEW s \in Socket, NEW op \in Ops, Completes(s, op),
         UNCHANGED <<observer, phase, hold, threads, accepting>>
  PROVE  IInv'
<1> USE Types DEF IInv
<1>1. /\ op \in pending[s] /\ home[s] \notin gone
      /\ pending' = [pending EXCEPT ![s] = @ \ {op}]
      /\ UNCHANGED <<gone, heap, home, crashed, wait, open, failed, careless, shots, funcs, phase, hold, pc, flag, timers, accepting>>
  BY DEF Completes, observer, threads
<1>2. PICK e \in {"ok", "error"} : q' = [q EXCEPT ![home[s]] = Append(@, Handler("coro", s, op, e))]
  BY DEF Completes
<1>3. PICK h \in Handlers : h = Handler("coro", s, op, e) /\ h.k = "coro" /\ h.s = s /\ h.op = op
  <2>1. /\ Handler("coro", s, op, e) \in Handlers /\ Handler("coro", s, op, e).k = "coro"
        /\ Handler("coro", s, op, e).s = s /\ Handler("coro", s, op, e).op = op
    BY DEF Handler, Handlers
  <2> QED BY <2>1
<1>4. home[s] \in Thread
  OBVIOUS
<1>5. Added(q, q', home[s], h)
  BY <1>2, <1>3, <1>4, Adds
<1>6. Passing' /\ Aborted' /\ Homes' /\ DeletedOnce' /\ q' \in Queues
  BY <1>1, <1>3, <1>5, CoroAdded
<1>7. TypeOK'
  <2>1. pending' \in [Socket -> SUBSET Ops]
    BY <1>1
  <2> QED BY <1>1, <1>6, <2>1 DEF TypeOK, SessionTypeOK, ObserverTypeOK, Queues
<1>8. Owner'
  <2>1. phase # "idle"
    BY <1>1 DEF Owner
  <2>2. \A u \in gone : q'[u] = q[u]
    BY <1>1, <1>2 DEF Queues
  <2> QED BY <1>1, <2>1, <2>2 DEF Owner
<1>9. FuncsInTable' /\ CrashOnlyAfterClose'
  BY <1>1 DEF FuncsInTable, CrashOnlyAfterClose, Subscribed
<1>10. ASSUME ~careless' PROVE Completing'
  <2>1. Completing
    BY <1>1, <1>10
  <2>2. \A x : Is(h, {"coro"}, x) <=> x = s
    BY <1>3 DEF Is
  <2>3. wait[s] = op /\ pending[s] = {op} /\ ~Has(q, {"coro"}, s)
    BY <1>1, <2>1 DEF Completing
  <2>4. \A x \in Socket : pending'[x] = IF x = s THEN {} ELSE pending[x]
    BY <1>1, <2>3
  <2>5. \A x : Has(q', {"coro"}, x) <=> Has(q, {"coro"}, x) \/ x = s
    BY <1>5, <2>2 DEF Added
  <2>6. \A x : Has(q, {"destroy"}, x) => Has(q', {"destroy"}, x)
    BY <1>5 DEF Added
  <2>7. \A x \in Socket : Once(q', {"coro"}, x)
    BY <1>5, <2>1, <2>2, <2>3 DEF Added, Completing
  <2>8. \A t \in Thread, g \in Handlers : In(q', t, g) /\ g.k = "coro" => home[g.s] = t /\ Awaited(g.op, wait[g.s])
    <3>1. Awaited(h.op, wait[h.s]) /\ home[h.s] = home[s]
      BY <1>3, <2>3 DEF Awaited
    <3> QED BY <1>5, <2>1, <3>1 DEF Added, Completing
  <2>9. ASSUME NEW x \in Socket
        PROVE  /\ pending'[x] \subseteq {wait[x]}
               /\ ~(pending'[x] # {} /\ Has(q', {"coro"}, x))
               /\ home[x] \notin gone /\ wait[x] \in Ops => pending'[x] # {} \/ Has(q', {"coro"}, x)
               /\ home[x] \notin gone /\ wait[x] = "done" => Has(q', {"destroy"}, x)
    BY <2>1, <2>3, <2>4, <2>5, <2>6 DEF Completing
  <2> QED BY <1>1, <2>7, <2>8, <2>9 DEF Completing
<1> QED BY <1>6, <1>7, <1>8, <1>9, <1>10

(* resume() posts, to a service that may be gone. *)
LEMMA ResumeStep ==
  ASSUME IInv, NEW s \in Socket, Resume(s),
         UNCHANGED <<observer, phase, hold, threads, accepting>>
  PROVE  IInv'
<1> USE Types DEF IInv
<1>1. /\ wait[s] \notin {"none", "connect"}
      /\ UNCHANGED <<gone, heap, home, wait, open, failed, pending, shots, funcs, phase, hold, pc, flag, timers, accepting>>
      /\ careless' = (careless \/ ~(wait[s] = "pause" /\ Resumes(s) = {}))
  BY DEF Resume, sessions, observer, threads
<1>2. careless' \in BOOLEAN
  BY <1>1
<1>3. FuncsInTable'
  BY <1>1 DEF FuncsInTable, Subscribed
<1>4. CASE home[s] \in gone
  <2>1. crashed' = TRUE /\ q' = q
    BY <1>4 DEF Resume
  <2>2. phase \notin {"idle", "running"}
    BY <1>4 DEF Owner
  <2>3. TypeOK'
    BY <1>1, <1>2, <2>1 DEF TypeOK, SessionTypeOK, ObserverTypeOK
  <2>4. Owner'
    BY <1>1, <2>1, <2>2 DEF Owner
  <2>5. CrashOnlyAfterClose'
    BY <1>1, <2>2 DEF CrashOnlyAfterClose
  <2>6. \A K, x : (Has(q', K, x) <=> Has(q, K, x)) /\ (Once(q', K, x) <=> Once(q, K, x))
    BY <2>1
  <2>7. Passing'
    <3>1. \A x : (Accepts(x)' <=> Accepts(x)) /\ Passed' = Passed /\ (Subscribed("accept")' <=> Subscribed("accept"))
      BY <1>1 DEF Accepts, Passed, Subscribed
    <3> QED BY <1>1, <2>6, <3>1 DEF Passing
  <2>8. Aborted' /\ Homes' /\ DeletedOnce'
    BY <1>1, <2>1 DEF Aborted, Homes, AtHome, In, DeletedOnce
  <2>9. ~careless' => Completing'
    BY <1>1, <2>1, <2>6 DEF Completing, In
  <2> QED BY <1>3, <2>3, <2>4, <2>5, <2>7, <2>8, <2>9
<1>5. CASE home[s] \notin gone
  <2>1. q' = [q EXCEPT ![home[s]] = Append(@, Handler("coro", s, "resume", "ok"))] /\ crashed' = crashed
    BY <1>5 DEF Resume
  <2>2. PICK h \in Handlers : h = Handler("coro", s, "resume", "ok") /\ h.k = "coro" /\ h.s = s /\ h.op = "resume"
    <3>1. /\ Handler("coro", s, "resume", "ok") \in Handlers /\ Handler("coro", s, "resume", "ok").k = "coro"
          /\ Handler("coro", s, "resume", "ok").s = s /\ Handler("coro", s, "resume", "ok").op = "resume"
      BY DEF Handler, Handlers
    <3> QED BY <3>1
  <2>3. home[s] \in Thread
    OBVIOUS
  <2>4. Added(q, q', home[s], h)
    BY <2>1, <2>2, <2>3, Adds
  <2>5. Passing' /\ Aborted' /\ Homes' /\ DeletedOnce' /\ q' \in Queues
    BY <1>1, <1>5, <2>2, <2>4, CoroAdded
  <2>6. TypeOK'
    BY <1>1, <1>2, <2>1, <2>5 DEF TypeOK, SessionTypeOK, ObserverTypeOK, Queues
  <2>7. Owner'
    <3>1. phase # "idle"
      BY <1>1 DEF Owner
    <3>2. \A u \in gone : q'[u] = q[u]
      BY <1>5, <2>1 DEF Queues
    <3> QED BY <1>1, <3>1, <3>2 DEF Owner
  <2>8. CrashOnlyAfterClose'
    BY <1>1, <2>1 DEF CrashOnlyAfterClose
  <2>9. ASSUME ~careless' PROVE Completing'
    <3>1. Completing /\ wait[s] = "pause" /\ Resumes(s) = {}
      BY <1>1, <2>9
    <3>2. \A x : Is(h, {"coro"}, x) <=> x = s
      BY <2>2 DEF Is
    <3>3. ~Has(q, {"coro"}, s)
      <4> SUFFICES ASSUME NEW t \in Thread, NEW g \in Handlers, In(q, t, g), g.k = "coro", g.s = s
                   PROVE  FALSE
        BY DEF Has, Is
      <4>1. home[s] = t /\ Awaited(g.op, "pause")
        BY <3>1 DEF Completing
      <4>2. g.op = "resume"
        BY <4>1 DEF Awaited, Ops
      <4>3. PICK i \in DOMAIN q[t] : q[t][i] = g
        BY DEF In
      <4>4. i \in Waiting(s)
        BY <4>1, <4>3 DEF Waiting
      <4>5. i \in Resumes(s)
        BY <4>1, <4>2, <4>3, <4>4 DEF Resumes
      <4> QED BY <3>1, <4>5
    <3>4. pending[s] = {}
      BY <3>1 DEF Completing, Ops
    <3>5. \A x : Has(q', {"coro"}, x) <=> Has(q, {"coro"}, x) \/ x = s
      BY <2>4, <3>2 DEF Added
    <3>6. \A x : Has(q, {"destroy"}, x) => Has(q', {"destroy"}, x)
      BY <2>4 DEF Added
    <3>7. \A x \in Socket : Once(q', {"coro"}, x)
      BY <2>4, <3>1, <3>2, <3>3 DEF Added, Completing
    <3>8. \A t \in Thread, g \in Handlers : In(q', t, g) /\ g.k = "coro" => home[g.s] = t /\ Awaited(g.op, wait[g.s])
      <4>1. Awaited(h.op, wait[h.s]) /\ home[h.s] = home[s]
        BY <2>2, <3>1 DEF Awaited
      <4> QED BY <2>4, <3>1, <4>1 DEF Added, Completing
    <3>9. ASSUME NEW x \in Socket
          PROVE  /\ pending[x] \subseteq {wait[x]}
                 /\ ~(pending[x] # {} /\ Has(q', {"coro"}, x))
                 /\ home[x] \notin gone /\ wait[x] \in Ops => pending[x] # {} \/ Has(q', {"coro"}, x)
                 /\ home[x] \notin gone /\ wait[x] = "done" => Has(q', {"destroy"}, x)
      BY <3>1, <3>4, <3>5, <3>6 DEF Completing
    <3> QED BY <1>1, <3>7, <3>8, <3>9 DEF Completing
  <2> QED BY <1>3, <2>5, <2>6, <2>7, <2>8, <2>9
<1> QED BY <1>4, <1>5

-----------------------------------------------------------------------------
(* The handler that a thread takes is of one kind. *)
LEMMA RunHandlerStep == ASSUME IInv, ~crashed, NEW t \in Thread, RunHandler(t) PROVE IInv'
<1>1. PICK h, ran : h = Head(q[t]) /\ ran = [q EXCEPT ![t] = Tail(@)]
  OBVIOUS
<1>2. Takes(t, h, ran)
  BY <1>1 DEF RunHandler, Takes
<1>3. UNCHANGED <<phase, hold, flag>>
  BY DEF RunHandler
<1>4. \/ HandleAccept(h, ran)
      \/ OnConnected(h, ran)
      \/ BadSocket(h, ran)
      \/ CheckInterrupt(t, h, ran)
      \/ (RunCoro(h, ran) \/ RunDestroy(h, ran)) /\ UNCHANGED <<observer, pc, timers, accepting>>
  BY <1>1 DEF RunHandler
<1>5. CASE HandleAccept(h, ran)
  BY <1>2, <1>3, <1>5, HandleAcceptStep
<1>6. CASE OnConnected(h, ran)
  BY <1>2, <1>3, <1>6, OnConnectedStep
<1>7. CASE BadSocket(h, ran)
  BY <1>2, <1>3, <1>7, BadSocketStep
<1>8. CASE CheckInterrupt(t, h, ran)
  BY <1>2, <1>3, <1>8, CheckInterruptStep
<1>9. CASE RunCoro(h, ran) /\ UNCHANGED <<observer, pc, timers, accepting>>
  BY <1>2, <1>3, <1>9, RunCoroStep DEF observer
<1>10. CASE RunDestroy(h, ran) /\ UNCHANGED <<observer, pc, timers, accepting>>
  BY <1>2, <1>3, <1>10, RunDestroyStep DEF observer
<1> QED BY <1>4, <1>5, <1>6, <1>7, <1>8, <1>9, <1>10

(* A step that changes nothing. *)
LEMMA Stutters == ASSUME IInv, UNCHANGED vars PROVE IInv'
<1> USE DEF IInv
<1>1. UNCHANGED <<q, gone, heap, home, crashed, wait, open, failed, pending, careless, shots, funcs,
                  phase, hold, pc, flag, timers, accepting>>
  BY DEF vars, asio, sessions, observer, threads
<1>2. TypeOK'
  BY <1>1 DEF TypeOK, SessionTypeOK, ObserverTypeOK
<1>3. Owner'
  BY <1>1 DEF Owner
<1>4. FuncsInTable' /\ CrashOnlyAfterClose'
  BY <1>1 DEF FuncsInTable, CrashOnlyAfterClose, Subscribed
<1>5. Quiet
  BY <1>1 DEF Quiet, Owner, Subscribed
<1> QED BY <1>2, <1>3, <1>4, <1>5, QuietStep

(* Every step keeps the invariant. *)
LEMMA NextStep == IInv /\ [Next]_vars => IInv'
<1> SUFFICES ASSUME IInv, [Next]_vars PROVE IInv'
  OBVIOUS
<1>1. CASE UNCHANGED vars
  BY <1>1, Stutters
<1>2. CASE Next
  <2>1. ~crashed
    BY <1>2 DEF Next
  <2>2. CASE OwnerStep
    <3>1. CASE \E ws \in SUBSET Worker, h \in BOOLEAN : Run(ws, h)
      BY <3>1, RunStep
    <3> QED BY <2>2, <3>1, SubscribesStep, CloseInterruptsStep, CloseAcceptorStep, CloseJoinedStep,
               DestroysStep DEF OwnerStep
  <2>3. CASE \E t \in Thread : ThreadStep(t)
    <3>1. PICK t \in Thread : ThreadStep(t)
      BY <2>3
    <3> QED BY <2>1, <3>1, WorkStep, LoopStep, RunReturnsStep, RunHandlerStep DEF ThreadStep
  <2>4. CASE Arrives
    BY <2>4, ArrivesStep
  <2>5. CASE \E w \in Worker : TimerFires(w)
    BY <2>5, TimerFiresStep
  <2>6. CASE SessionStep
    <3>1. UNCHANGED <<observer, phase, hold, threads, accepting>>
      BY <2>6 DEF SessionStep
    <3>2. CASE \E s \in Socket : Resume(s)
      BY <3>1, <3>2, ResumeStep
    <3>3. CASE \E s \in Socket : \E op \in Ops : Completes(s, op)
      BY <3>1, <3>3, CompletesStep
    <3>4. CASE \E w \in Worker : pc[w] = "run" /\ Spare >= 2 /\ Connect(w)
      BY <3>1, <3>4, ConnectStep
    <3> QED BY <2>6, <3>2, <3>3, <3>4 DEF SessionStep
  <2> QED BY <1>2, <2>2, <2>3, <2>4, <2>5, <2>6 DEF Next
<1> QED BY <1>1, <1>2

(* The inductive invariant holds in every reachable state: a socket is in  *)
(* one place, its callbacks wait in the service that it was made for, its  *)
(* deletion is posted once, and, while resume() ends pauses only, its      *)
(* coroutine has one completion to come (lines 42-43 and 80-132,           *)
(* session.hpp).                                                           *)
THEOREM ListenerInvariant == Spec => []IInv
<1>1. Init => IInv
  BY Initially
<1>2. IInv /\ [Next]_vars => IInv'
  BY NextStep
<1> QED BY <1>1, <1>2, PTL DEF Spec

(* Every variable keeps its type. *)
THEOREM TypeCorrect == Spec => []TypeOK
<1>1. IInv => TypeOK
  BY DEF IInv
<1> QED BY <1>1, ListenerInvariant, PTL

(* A handler uses a service, a session or a function object that is gone   *)
(* only after close() has begun, or a user has been careless.              *)
THEOREM CrashesAfterClose == Spec => []CrashOnlyAfterClose
<1>1. IInv => CrashOnlyAfterClose
  BY DEF IInv
<1> QED BY <1>1, ListenerInvariant, PTL

(* The function objects that have not been deleted are those of the table, *)
(* each under one event (observer.hpp 144-176).                            *)
THEOREM TableOwnsFuncs == Spec => []FuncsInTable
<1>1. IInv => FuncsInTable
  BY DEF IInv
<1> QED BY <1>1, ListenerInvariant, PTL

-----------------------------------------------------------------------------
(* A set whose elements are all the same has at most one. *)
LEMMA AtMostOne ==
  ASSUME NEW S, \A x, y \in S : x = y
  PROVE  IsFiniteSet(S) /\ Cardinality(S) <= 1 /\ Cardinality(S) \in Nat
<1>1. CASE S = {}
  BY <1>1, FS_EmptySet
<1>2. CASE S # {}
  <2>1. PICK x : x \in S
    BY <1>2
  <2>2. S = {x}
    BY <2>1
  <2>3. IsFiniteSet({x}) /\ Cardinality({x}) = 1
    BY FS_Singleton
  <2> QED BY <2>2, <2>3
<1> QED BY <1>1, <1>2

(* Wherever a socket's pointer is passed on, it is there once, and only    *)
(* there (lines 85-88 and 120-128).                                        *)
THEOREM OnePlaceForSockets == Spec => []SocketsHaveOnePlace
<1>1. ASSUME IInv PROVE SocketsHaveOnePlace
  <2> USE <1>1, Types DEF IInv
  <2>1. ASSUME NEW s \in Socket
        PROVE  /\ Cardinality(Places(s)) <= 1
               /\ s \notin heap => Places(s) = {}
               /\ s \in heap /\ Places(s) = {} => ~(phase = "running" /\ Subscribed("accept"))
    <3> DEFINE A == {<<"session", Acc, 0>> : u \in {s} \cap Live}
               B == {<<"accept", Acc, i>> : i \in {j \in DOMAIN accepting : accepting[j] = s}}
               C(t) == {<<"queue", t, i>> : i \in {j \in DOMAIN q[t] : q[t][j].s = s /\ q[t][j].k \in Passed}}
               D == UNION {C(t) : t \in Thread}
    <3>1. Places(s) = A \cup B \cup D
      BY DEF Places
    <3>2. A # {} <=> wait[s] # "none"
      BY DEF Live
    <3>3. B # {} <=> Accepts(s)
      BY DEF Accepts
    <3>4. D # {} <=> Has(q, Passed, s)
      <4>1. ASSUME NEW x \in D PROVE Has(q, Passed, s)
        <5>1. PICK t \in Thread : x \in C(t)
          OBVIOUS
        <5>2. PICK i \in DOMAIN q[t] : Is(q[t][i], Passed, s)
          BY <5>1 DEF Is
        <5>3. q[t][i] \in Handlers /\ In(q, t, q[t][i])
          BY <5>1, <5>2, InQueue DEF Queues, SessionTypeOK, TypeOK
        <5> QED BY <5>2, <5>3 DEF Has
      <4>2. ASSUME Has(q, Passed, s) PROVE D # {}
        <5>1. PICK t \in Thread, h \in Handlers : In(q, t, h) /\ Is(h, Passed, s)
          BY <4>2 DEF Has
        <5>2. PICK i \in DOMAIN q[t] : q[t][i] = h
          BY <5>1 DEF In
        <5>3. <<"queue", t, i>> \in C(t)
          BY <5>1, <5>2 DEF Is
        <5>4. <<"queue", t, i>> \in D
          BY <5>1, <5>3
        <5> QED BY <5>4
      <4> QED BY <4>1, <4>2
    <3>5. \A x, y \in A : x = y
      OBVIOUS
    <3>6. \A x, y \in B : x = y
      <4>1. \A i, j \in DOMAIN accepting : accepting[i] = accepting[j] => i = j
        BY DEF Passing
      <4> QED BY <4>1
    <3>7. \A x, y \in D : x = y
      <4> SUFFICES ASSUME NEW x \in D, NEW y \in D PROVE x = y
        OBVIOUS
      <4>1. PICK t \in Thread, u \in Thread : x \in C(t) /\ y \in C(u)
        OBVIOUS
      <4>2. PICK i \in DOMAIN q[t] : x = <<"queue", t, i>> /\ Is(q[t][i], Passed, s)
        BY <4>1 DEF Is
      <4>3. PICK j \in DOMAIN q[u] : y = <<"queue", u, j>> /\ Is(q[u][j], Passed, s)
        BY <4>1 DEF Is
      <4>4. Once(q, Passed, s)
        BY DEF Passing
      <4>5. t = u /\ i = j
        BY <4>2, <4>3, <4>4, Zenon DEF Once
      <4> QED BY <4>2, <4>3, <4>5
    <3> HIDE DEF A, B, C, D
    <3>8. /\ (wait[s] # "none" \/ Accepts(s) \/ Has(q, Passed, s)) => s \in heap
          /\ ~(wait[s] # "none" /\ Accepts(s))
          /\ ~(wait[s] # "none" /\ Has(q, Passed, s))
          /\ ~(Accepts(s) /\ Has(q, Passed, s))
          /\ phase = "running" /\ Subscribed("accept") /\ s \in heap =>
                wait[s] # "none" \/ Accepts(s) \/ Has(q, Passed, s)
      BY DEF Passing
    <3>9. \A x, y \in Places(s) : x = y
      BY <3>1, <3>2, <3>3, <3>4, <3>5, <3>6, <3>7, <3>8
    <3>10. Cardinality(Places(s)) <= 1
      BY <3>9, AtMostOne
    <3>11. Places(s) = {} <=> ~(wait[s] # "none" \/ Accepts(s) \/ Has(q, Passed, s))
      BY <3>1, <3>2, <3>3, <3>4
    <3> QED BY <3>8, <3>10, <3>11
  <2> QED BY <2>1 DEF SocketsHaveOnePlace
<1> QED BY <1>1, ListenerInvariant, PTL

(* Every callback of a socket waits in the service that the socket was     *)
(* made for, and every accept in the acceptor's (lines 42-43).             *)
THEOREM HomeForCallbacks == Spec => []CallbacksAtHome
<1>1. ASSUME IInv PROVE CallbacksAtHome
  <2> USE <1>1, Types DEF IInv
  <2>1. ASSUME NEW t \in Thread, NEW i \in DOMAIN q[t]
        PROVE  CASE q[t][i].k = "accepted" -> t = Acc
                 [] q[t][i].k = "check"    -> t \in Worker
                 [] q[t][i].k = "coro"     -> careless \/ (q[t][i].s \in heap /\ home[q[t][i].s] = t)
                 [] OTHER                  -> q[t][i].s \in heap /\ home[q[t][i].s] = t
    <3>1. PICK h \in Handlers : h = q[t][i] /\ In(q, t, h)
      BY InQueue
    <3>2. AtHome(h, t)
      BY <3>1 DEF Homes
    <3>3. h.k \in {"accepted", "connected", "bad", "check", "coro", "destroy"}
      BY HandlerFields
    <3>4. ASSUME h.k = "coro", ~careless PROVE h.s \in heap /\ home[h.s] = t
      <4>1. home[h.s] = t /\ Awaited(h.op, wait[h.s]) /\ h.s \in Socket
        BY <3>1, <3>2, <3>4 DEF Completing, AtHome
      <4>2. wait[h.s] # "none"
        BY <4>1 DEF Awaited, Ops
      <4> QED BY <4>1, <4>2 DEF Passing
    <3>5. ASSUME h.k \in {"connected", "bad"} PROVE h.s \in heap /\ home[h.s] = t
      <4>1. home[h.s] = t /\ h.s \in Socket
        BY <3>2, <3>5 DEF AtHome
      <4>2. Has(q, Passed, h.s)
        BY <3>1, <3>5 DEF Has, Is, Passed
      <4> QED BY <4>1, <4>2 DEF Passing
    <3>6. ASSUME h.k = "destroy" PROVE h.s \in heap /\ home[h.s] = t
      <4>1. home[h.s] = t /\ h.s \in Socket /\ wait[h.s] = "done"
        BY <3>2, <3>6 DEF AtHome
      <4> QED BY <4>1 DEF Passing
    <3>7. (h.k = "accepted" => t = Acc) /\ (h.k = "check" => t \in Worker)
      BY <3>2 DEF AtHome
    <3> QED BY <3>1, <3>3, <3>4, <3>5, <3>6, <3>7
  <2> QED BY <2>1 DEF CallbacksAtHome
<1> QED BY <1>1, ListenerInvariant, PTL

(* A session whose service exists waits for exactly the completion that    *)
(* its coroutine expects, or for its deletion, while resume() ends pauses  *)
(* only (session.hpp 92-184).                                              *)
THEOREM CompletionsAreExpected == Spec => []CompletionsMatch
<1>1. ASSUME IInv PROVE CompletionsMatch
  <2> USE <1>1, Types DEF IInv
  <2> SUFFICES ASSUME ~careless, NEW s \in Socket, home[s] \notin gone
               PROVE  LET hs == {q[home[s]][i] : i \in Waiting(s)}
                      IN  CASE wait[s] = "none"  -> Waiting(s) = {} /\ pending[s] = {}
                            [] wait[s] = "pause" -> Cardinality(Waiting(s)) <= 1 /\ pending[s] = {} /\ \A h \in hs : h.k = "coro" /\ h.op = "resume"
                            [] wait[s] = "done"  -> Cardinality(Waiting(s)) = 1 /\ pending[s] = {} /\ \A h \in hs : h.k = "destroy"
                            [] OTHER -> /\ Cardinality(Waiting(s)) + Cardinality(pending[s]) = 1
                                        /\ \A h \in hs : h.k = "coro" /\ h.op = wait[s]
                                        /\ pending[s] \subseteq {wait[s]}
    BY DEF CompletionsMatch
  <2> DEFINE u == home[s]
             hs == {q[u][i] : i \in Waiting(s)}
  <2>1. Completing
    OBVIOUS
  <2>2. /\ Once(q, {"coro"}, s) /\ pending[s] \subseteq {wait[s]} /\ pending[s] \subseteq Ops
        /\ ~(pending[s] # {} /\ Has(q, {"coro"}, s))
        /\ wait[s] \in Ops => pending[s] # {} \/ Has(q, {"coro"}, s)
        /\ wait[s] = "done" => Has(q, {"destroy"}, s)
        /\ Once(q, {"destroy"}, s)
    BY <2>1 DEF Completing, DeletedOnce
  <2>3. u \in Thread
    OBVIOUS
  <2>4. ASSUME NEW i \in Waiting(s)
        PROVE  /\ i \in DOMAIN q[u]
               /\ \/ Is(q[u][i], {"coro"}, s) /\ Has(q, {"coro"}, s) /\ q[u][i].k = "coro" /\ Awaited(q[u][i].op, wait[s])
                  \/ Is(q[u][i], {"destroy"}, s) /\ q[u][i].k = "destroy" /\ wait[s] = "done"
    <3>1. i \in DOMAIN q[u] /\ q[u][i].s = s /\ q[u][i].k \in {"coro", "destroy"}
      BY DEF Waiting
    <3>2. q[u][i] \in Handlers /\ In(q, u, q[u][i])
      BY <2>3, <3>1, InQueue
    <3>3. CASE q[u][i].k = "coro"
      BY <2>1, <2>3, <3>1, <3>2, <3>3 DEF Completing, Is, Has
    <3>4. CASE q[u][i].k = "destroy"
      BY <2>3, <3>1, <3>2, <3>4 DEF Homes, AtHome, Is
    <3> QED BY <3>1, <3>3, <3>4
  <2>5. ASSUME wait[s] # "done" PROVE \A i, j \in Waiting(s) : i = j
    BY <2>2, <2>3, <2>4, <2>5, Zenon DEF Once
  <2>6. ASSUME NEW k \in {"coro", "destroy"}, Has(q, {k}, s) PROVE Waiting(s) # {}
    <3>1. PICK t \in Thread, h \in Handlers : In(q, t, h) /\ h.k = k /\ h.s = s
      BY <2>6 DEF Has, Is
    <3>2. t = u
      BY <2>1, <3>1 DEF Completing, Homes, AtHome
    <3>3. PICK i \in DOMAIN q[u] : q[u][i] = h
      BY <3>1, <3>2 DEF In
    <3>4. i \in Waiting(s)
      BY <3>1, <3>3 DEF Waiting
    <3> QED BY <3>4
  <2>7. CASE wait[s] = "none"
    <3>1. Waiting(s) = {}
      BY <2>4, <2>7 DEF Awaited, Ops
    <3>2. pending[s] = {}
      BY <2>2, <2>7 DEF Ops
    <3> QED BY <2>7, <3>1, <3>2
  <2>8. CASE wait[s] = "pause"
    <3>1. Cardinality(Waiting(s)) <= 1
      BY <2>5, <2>8, AtMostOne
    <3>2. pending[s] = {}
      BY <2>2, <2>8 DEF Ops
    <3>3. \A i \in Waiting(s) : q[u][i].k = "coro" /\ q[u][i].op = "resume"
      BY <2>4, <2>8 DEF Awaited, Ops
    <3> QED BY <2>8, <3>1, <3>2, <3>3
  <2>9. CASE wait[s] = "done"
    <3>1. \A i \in Waiting(s) : i \in DOMAIN q[u] /\ Is(q[u][i], {"destroy"}, s) /\ q[u][i].k = "destroy"
      BY <2>4, <2>9 DEF Awaited, Ops
    <3>2. \A i, j \in Waiting(s) : i = j
      BY <2>2, <2>3, <3>1, Zenon DEF Once
    <3>3. Waiting(s) # {}
      BY <2>2, <2>6, <2>9
    <3>4. PICK x : x \in Waiting(s)
      BY <3>3
    <3>4a. Waiting(s) = {x}
      BY <3>2, <3>4
    <3>5. Cardinality(Waiting(s)) = 1
      BY <3>4a, FS_Singleton
    <3>6. pending[s] = {}
      BY <2>2, <2>9 DEF Ops
    <3> QED BY <2>9, <3>1, <3>5, <3>6
  <2>10. CASE wait[s] \in Ops
    <3>1. \A i \in Waiting(s) : q[u][i].k = "coro" /\ q[u][i].op = wait[s] /\ Has(q, {"coro"}, s)
      BY <2>4, <2>10 DEF Awaited, Ops
    <3>2. CASE pending[s] = {}
      <4>1. Waiting(s) # {} /\ \A i, j \in Waiting(s) : i = j
        BY <2>2, <2>5, <2>6, <2>10, <3>2 DEF Ops
      <4>2. PICK x : x \in Waiting(s)
        BY <4>1
      <4>2a. Waiting(s) = {x}
        BY <4>1, <4>2
      <4>3. Cardinality(Waiting(s)) = 1 /\ Cardinality(pending[s]) = 0
        BY <3>2, <4>2a, FS_Singleton, FS_EmptySet
      <4>4. Cardinality(Waiting(s)) + Cardinality(pending[s]) = 1
        BY <4>3
      <4> QED BY <2>2, <2>10, <3>1, <4>4 DEF Ops
    <3>3. CASE pending[s] # {}
      <4>1. Waiting(s) = {}
        BY <2>2, <3>1, <3>3
      <4>2. pending[s] = {wait[s]}
        BY <2>2, <3>3
      <4>3. Cardinality(Waiting(s)) = 0 /\ Cardinality(pending[s]) = 1
        BY <4>1, <4>2, FS_Singleton, FS_EmptySet
      <4>4. Cardinality(Waiting(s)) + Cardinality(pending[s]) = 1
        BY <4>3
      <4> QED BY <2>2, <2>10, <3>1, <4>4 DEF Ops
    <3> QED BY <3>2, <3>3
  <2>11. wait[s] \in Ops \cup {"none", "pause", "done"}
    BY DEF Waits
  <2> QED BY <2>7, <2>8, <2>9, <2>10, <2>11
<1> QED BY <1>1, ListenerInvariant, PTL
=============================================================================
