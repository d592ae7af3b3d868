------------------------------- MODULE Session ------------------------------
(***************************************************************************)
(* lugce/tcp/session.hpp: a session runs the user's callback as a          *)
(* coroutine over one socket.  A read that finds no bytes, a flush, the    *)
(* user's own pause() and the connect of an outgoing session suspend the   *)
(* coroutine; whatever completion next calls it resumes it, with the       *)
(* error and the size of that completion.  When the callback has returned, *)
(* the session posts its own deletion.                                     *)
(*                                                                         *)
(* External, from Boost: an io_service is a queue of handlers that one     *)
(* thread runs in order (q), and a service whose thread has ended is gone; *)
(* an operation that was started completes by a handler in that queue.     *)
(* Calling a coroutine that has ended, or that is deleted, and posting to  *)
(* a service that is gone, is `crashed', which ends the behaviour.         *)
(*                                                                         *)
(* The bytes are left out, and with them the buffers: what is read and     *)
(* written between two suspensions is the coroutine's own.  A flush by     *)
(* another thread than the session's is left out: line 120 asserts that    *)
(* there is none.  handle_write serves that case only.                     *)
(***************************************************************************)
EXTENDS Naturals, Sequences, SequencesExt, FiniteSets

CONSTANTS
  Worker,    \* the threads of listener::work, each with an io_service
  Acc,       \* the thread and the service of the acceptor
  Socket,    \* the socket objects there can be at a time
  NoSocket,  \* in a handler that concerns no socket
  MaxResume  \* bound: resume() handlers that wait for one session

ASSUME SessionAssumption ==
  /\ Acc \notin Worker
  /\ NoSocket \notin Socket
  /\ Socket # {}
  /\ MaxResume \in Nat \ {0}

Thread == Worker \cup {Acc}

VARIABLES
  q,        \* the handlers that wait in each io_service
  gone,     \* the services that have been destroyed with their thread
  heap,     \* the socket objects that exist
  home,     \* the service of each socket object
  crashed,  \* a handler has used what is no more
  wait,     \* what each session's coroutine waits for
  open,     \* the sessions whose socket is open
  failed,   \* the sessions whose _error is set
  pending,  \* the operations of each session that have not completed
  careless  \* resume() has been called other than once to end a pause(), or a
            \* callback has unsubscribed itself; bound: one such act

asio == <<q, gone, heap, home, crashed>>
sessions == <<wait, open, failed, pending>>

Ops == {"read", "write", "connect"}
Waits == Ops \cup {"none", "pause", "done"}
Handler(k, s, op, e) == [k |-> k, s |-> s, op |-> op, e |-> e]
Handlers == [k : {"accepted", "connected", "bad", "check", "coro", "destroy"},
             s : Socket \cup {NoSocket}, op : Ops \cup {"", "resume"},
             e : {"ok", "aborted", "error"}]

SessionTypeOK ==
  /\ q \in [Thread -> Seq(Handlers)] /\ gone \subseteq Thread
  /\ heap \subseteq Socket /\ home \in [Socket -> Thread]
  /\ wait \in [Socket -> Waits]
  /\ open \subseteq Socket /\ failed \subseteq Socket
  /\ pending \in [Socket -> SUBSET Ops]
  /\ crashed \in BOOLEAN /\ careless \in BOOLEAN

SessionInit ==
  /\ q = [t \in Thread |-> <<>>] /\ gone = {} /\ heap = {}
  /\ home = [s \in Socket |-> Acc]
  /\ wait = [s \in Socket |-> "none"] /\ open = {} /\ failed = {}
  /\ pending = [s \in Socket |-> {}]
  /\ crashed = FALSE /\ careless = FALSE

(* `new' and `delete' of a socket object: which of the free ones is taken   *)
(* does not matter, and a free one has no service.                         *)
NewSocket == CHOOSE s \in Socket : s \notin heap
Delete(s) == heap' = heap \ {s} /\ home' = [home EXCEPT ![s] = Acc]

Live == {s \in Socket : wait[s] # "none"}

(* The places in the service of s of the handlers that run its coroutine or *)
(* delete it, and of those among them that resume() has posted.            *)
Waiting(s) == {i \in DOMAIN q[home[s]] : q[home[s]][i].s = s /\ q[home[s]][i].k \in {"coro", "destroy"}}
Resumes(s) == {i \in Waiting(s) : q[home[s]][i].op = "resume"}

-----------------------------------------------------------------------------
Suspend(s, w, ops) ==
  wait' = [wait EXCEPT ![s] = w] /\ pending' = [pending EXCEPT ![s] = ops]

Fetch(s, left) == Suspend(s, "read", left \cup {"read"})

(* Wrong: the coroutine does not wait for its write. *)
Sync_GoesOn(s, left) == Suspend(s, "pause", left \cup {"write"})
Sync(s, left) == Suspend(s, "write", left \cup {"write"})

Destroyed(s, qs) == [qs EXCEPT ![home[s]] = Append(@, Handler("destroy", s, "", "ok"))]

(* The callback runs until its next suspension, or to its end: fetch() on  *)
(* an open socket, sync() with something to write, pause(), or a return,   *)
(* after which handle_read_ posts destroy_.  fetch() on a closed socket    *)
(* does not suspend.  ran are the queues without the handler that runs, up *)
(* says whether the socket is open, left are the operations under way.     *)
Proceed(s, ran, up, left) ==
  \/ up /\ Fetch(s, left) /\ q' = ran
  \/ Sync(s, left) /\ q' = ran
  \/ Suspend(s, "pause", left) /\ q' = ran
  \/ Suspend(s, "done", left) /\ q' = Destroyed(s, ran)

(* Wrong: the deletion is posted when the session begins. *)
Accept_Posts(s, ran) ==
  /\ open' = open \cup {s} /\ failed' = failed \ {s}
  /\ Proceed(s, Destroyed(s, ran), TRUE, {})

(* session::accept: a new coroutine runs handle_read_ at once.             *)
Accept(s, ran) ==
  /\ open' = open \cup {s} /\ failed' = failed \ {s}
  /\ Proceed(s, ran, TRUE, {})

(* session::connect, by a handler of t: handle_connect_ starts the         *)
(* operation and suspends.                                                 *)
Connect(t) ==
  LET s == NewSocket IN
    /\ heap # Socket
    /\ heap' = heap \cup {s} /\ home' = [home EXCEPT ![s] = t]
    /\ wait' = [wait EXCEPT ![s] = "connect"]
    /\ pending' = [pending EXCEPT ![s] = {"connect"}]
    /\ open' = open \cup {s} /\ failed' = failed \ {s}
    /\ UNCHANGED <<q, gone, crashed, careless>>

(* The operations of s that are under way end when its socket is closed.   *)
Cancel(s, ran) ==
  IF home[s] \in gone THEN ran
  ELSE [ran EXCEPT ![home[s]] = @ \o SetToSeq(
         {Handler("coro", s, op, "aborted") : op \in pending[s]})]

(* What the code after _ca() makes of the completion it takes: fetch()     *)
(* records an error and closes the socket, sync() and handle_connect_      *)
(* record it, pause() leaves it to the user.                               *)
Resumed(s, e, ran) ==
  IF wait[s] = "read" /\ e # "ok"
  THEN /\ open' = open \ {s} /\ failed' = failed \cup {s}
       /\ Proceed(s, Cancel(s, ran), FALSE, {})
  ELSE /\ open' = open
       /\ failed' = IF wait[s] # "pause" /\ e # "ok" THEN failed \cup {s} ELSE failed
       /\ Proceed(s, ran, s \in open, pending[s])

RunCoro(h, ran) ==
  /\ h.k = "coro"
  /\ IF wait[h.s] \in {"none", "done"} \/ home[h.s] \in gone
     THEN crashed' = TRUE /\ UNCHANGED <<q, sessions>>
     ELSE Resumed(h.s, h.e, ran) /\ UNCHANGED crashed
  /\ UNCHANGED <<gone, heap, home, careless>>

(* destroy_: the session goes, with its coroutine and its socket.          *)
RunDestroy(h, ran) ==
  /\ h.k = "destroy"
  /\ q' = Cancel(h.s, ran)
  /\ Delete(h.s)
  /\ wait' = [wait EXCEPT ![h.s] = "none"]
  /\ pending' = [pending EXCEPT ![h.s] = {}]
  /\ open' = open \ {h.s} /\ failed' = failed \ {h.s}
  /\ UNCHANGED <<gone, crashed, careless>>

-----------------------------------------------------------------------------
(* The network ends an operation, well or not.  On a closed socket there   *)
(* is only the error.                                                      *)
Completes(s, op) ==
  /\ op \in pending[s] /\ home[s] \notin gone
  /\ pending' = [pending EXCEPT ![s] = @ \ {op}]
  /\ \E e \in {"ok", "error"} :
       /\ e = "ok" => s \in open
       /\ q' = [q EXCEPT ![home[s]] = Append(@, Handler("coro", s, op, e))]
  /\ UNCHANGED <<gone, heap, home, crashed, wait, open, failed, careless>>

(* session::resume, by any thread, through the functor that the callback   *)
(* has been given.                                                         *)
Resume(s) ==
  /\ wait[s] \notin {"none", "connect"}
  /\ LET proper == wait[s] = "pause" /\ Resumes(s) = {} IN
       (proper \/ ~careless) /\ careless' = (careless \/ ~proper)
  /\ Cardinality(Resumes(s)) < MaxResume
  /\ IF home[s] \in gone
     THEN crashed' = TRUE /\ UNCHANGED q
     ELSE /\ q' = [q EXCEPT ![home[s]] = Append(@, Handler("coro", s, "resume", "ok"))]
          /\ UNCHANGED crashed
  /\ UNCHANGED <<gone, heap, home, sessions>>

-----------------------------------------------------------------------------
(* When resume() ends pauses only, every completion finds the coroutine    *)
(* waiting for it: what waits in the service for a session is the          *)
(* completion of what it waits for, or, after its callback's return, its   *)
(* deletion.  The code has nothing that ties a completion to the wait that *)
(* it belongs to (_coro is called by all of them).                         *)
CompletionsMatch ==
  ~careless => \A s \in Socket : home[s] \notin gone =>
    LET hs == {q[home[s]][i] : i \in Waiting(s)}
    IN  CASE wait[s] = "none"  -> Waiting(s) = {} /\ pending[s] = {}
          [] wait[s] = "pause" -> Cardinality(Waiting(s)) <= 1 /\ pending[s] = {} /\ \A h \in hs : h.k = "coro" /\ h.op = "resume"
          [] wait[s] = "done"  -> Cardinality(Waiting(s)) = 1 /\ pending[s] = {} /\ \A h \in hs : h.k = "destroy"
          [] OTHER -> /\ Cardinality(Waiting(s)) + Cardinality(pending[s]) = 1
                      /\ \A h \in hs : h.k = "coro" /\ h.op = wait[s]
                      /\ pending[s] \subseteq {wait[s]}
=============================================================================
