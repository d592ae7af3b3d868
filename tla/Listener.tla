------------------------------ MODULE Listener ------------------------------
(***************************************************************************)
(* lugce/tcp/listener.hpp: run() creates worker threads, each with an      *)
(* io_service of its own, and one thread for the acceptor's service, where *)
(* the handlers of all async_accept operations run.  An accepted socket is *)
(* posted to the service of the worker that it was made for; there the     *)
(* accept event is shot, whose callback starts a session on the socket.    *)
(* close() interrupts the threads, closes the acceptor and joins.          *)
(*                                                                         *)
(* Boost's acceptor is used by several threads and by close() without a    *)
(* lock; its operations are taken as atomic.  A callback returns, and has  *)
(* no interruption point.                                                  *)
(***************************************************************************)
EXTENDS Session, Observer

ASSUME ListenerAssumption == "accept" \in Event

VARIABLES
  phase,      \* where the owner is with run(), close() and the destructor
  hold,       \* run() keeps the calling thread for the acceptor's service
  pc,         \* where each thread is
  flag,       \* the threads whose interruption is requested
  accepting,  \* the sockets of the async_accept operations, in order
  timers      \* the workers whose deadline_timer is set

threads == <<pc, flag, timers>>
vars == <<asio, sessions, careless, observer, phase, hold, threads, accepting>>

Phases == {"idle", "running", "interrupting", "joining", "closed", "destroyed"}
TypeOK ==
  /\ SessionTypeOK /\ ObserverTypeOK
  /\ phase \in Phases /\ hold \in BOOLEAN
  /\ pc \in [Thread -> {"none", "begin", "loop", "run", "stopped", "gone"}]
  /\ flag \subseteq Thread /\ timers \subseteq Worker
  /\ accepting \in Seq(Socket)

Init ==
  /\ SessionInit /\ ObserverInit
  /\ phase = "idle" /\ hold = FALSE
  /\ pc = [t \in Thread |-> "none"] /\ flag = {} /\ timers = {}
  /\ accepting = <<>>

(* Bound: the socket objects that are left when every accept that has ended *)
(* and every worker that begins has taken one.  Nothing new arrives when   *)
(* that leaves less than two.                                              *)
Spare ==
  Cardinality(Socket \ heap) - Cardinality({w \in Worker : pc[w] = "begin"})
    - Len(SelectSeq(q[Acc], LAMBDA h : h.k = "accepted" /\ h.e # "aborted"))

Listening == phase \in {"running", "interrupting"}

(* _acceptor.async_accept of a new socket for the service t: on a closed   *)
(* acceptor the operation ends at once, with an error that is not          *)
(* operation_aborted.  qs are the queues before.                           *)
AsyncAccept(s, t, qs, more) ==
  /\ heap' = heap \cup {s} /\ home' = [home EXCEPT ![s] = t]
  /\ IF Listening
     THEN q' = [u \in Thread |-> qs[u] \o more[u]] /\ accepting' = Append(accepting, s)
     ELSE /\ q' = [u \in Thread |-> qs[u] \o (IF u = Acc THEN <<Handler("accepted", s, "", "error")>> ELSE <<>>)
                                          \o more[u]]
          /\ UNCHANGED accepting
Nothing == [u \in Thread |-> <<>>]

-----------------------------------------------------------------------------
(* The owner. *)
Subscribes ==
  /\ phase = "idle"
  /\ \E e \in Event : Subscribe(e) \/ Unsubscribe(e)
  /\ UNCHANGED <<asio, sessions, careless, phase, hold, threads, accepting>>

(* run( port, thread_count, hold ): without workers the first async_accept *)
(* is on the acceptor's own service.                                       *)
Run(ws, h) ==
  /\ phase = "idle" /\ phase' = "running" /\ hold' = h
  /\ pc' = [t \in Thread |-> IF t = Acc THEN "loop" ELSE IF t \in ws THEN "begin" ELSE "none"]
  /\ IF ws = {}
     THEN /\ heap' = {NewSocket} /\ accepting' = <<NewSocket>>
          /\ UNCHANGED home
     ELSE UNCHANGED <<heap, home, accepting>>
  /\ UNCHANGED <<q, gone, crashed, sessions, careless, observer, flag, timers>>

Group == {t \in Thread : pc[t] # "none"} \ (IF hold THEN {Acc} ELSE {})

CloseInterrupts ==
  /\ phase = "running" /\ phase' = "interrupting"
  /\ flag' = Group
  /\ UNCHANGED <<asio, sessions, careless, observer, hold, pc, timers, accepting>>

CloseAcceptor ==
  /\ phase = "interrupting" /\ phase' = "joining"
  /\ accepting' = <<>>
  /\ q' = [q EXCEPT ![Acc] = @ \o [i \in DOMAIN accepting |-> Handler("accepted", accepting[i], "", "aborted")]]
  /\ UNCHANGED <<gone, heap, home, crashed, sessions, careless, observer, hold, threads>>

CloseJoined ==
  /\ phase = "joining" /\ phase' = "closed"
  /\ \A t \in Group : pc[t] = "gone"
  /\ UNCHANGED <<asio, sessions, careless, observer, hold, threads, accepting>>

Destroys ==
  /\ phase = "closed" /\ ~hold /\ phase' = "destroyed"
  /\ DestroyObserver
  /\ UNCHANGED <<asio, sessions, careless, hold, threads, accepting>>

-----------------------------------------------------------------------------
(* The threads.  work() sets its timer and starts an accept.               *)
Work(w) ==
  /\ pc[w] = "begin" /\ pc' = [pc EXCEPT ![w] = "loop"]
  /\ timers' = timers \cup {w}
  /\ heap # Socket /\ AsyncAccept(NewSocket, w, q, Nothing)
  /\ UNCHANGED <<gone, crashed, sessions, careless, observer, phase, hold, flag>>

(* The end of a thread.  A worker takes its io_service with it, with the   *)
(* handlers that wait there; the acceptor's is a member of the listener.   *)
Ends(t) ==
  /\ pc' = [pc EXCEPT ![t] = "gone"]
  /\ gone' = gone \cup ({t} \cap Worker)
  /\ timers' = timers \ {t}
  /\ q' = IF t \in Worker THEN [q EXCEPT ![t] = <<>>] ELSE q
  /\ UNCHANGED <<heap, home, crashed>>

(* Wrong: the service is not reset, and every run() returns at once. *)
Reset_Not == "stopped"
Reset == "loop"

(* The head of io_service_work's loop, and its sleep after run() has found *)
(* no work: an interruption point, and then reset().                       *)
Loop(t) ==
  /\ pc[t] \in {"loop", "stopped"}
  /\ IF t \in flag
     THEN Ends(t)
     ELSE /\ pc' = [pc EXCEPT ![t] = IF pc[t] = "loop" THEN "run" ELSE Reset]
          /\ UNCHANGED <<asio, timers>>
  /\ UNCHANGED <<sessions, careless, observer, phase, hold, flag, accepting>>

HasWork(t) ==
  \/ t \in timers
  \/ t = Acc /\ accepting # <<>>
  \/ \E s \in Socket : home[s] = t /\ pending[s] # {}

RunReturns(t) ==
  /\ pc[t] = "run" /\ q[t] = <<>> /\ ~HasWork(t)
  /\ pc' = [pc EXCEPT ![t] = "stopped"]
  /\ UNCHANGED <<asio, sessions, careless, observer, phase, hold, flag, timers, accepting>>

(* Wrong: the next accept is into the socket that is connected. *)
NextSocket_Same(p) == p
NextSocket(p) == NewSocket

(* Wrong: the socket is posted to the service that accepts. *)
Poster_Acc(p) == Acc
Poster(p) == home[p]

(* handle_accept: an aborted accept leaves its socket.  Any other starts   *)
(* the next one for the same service, which p->get_io_service() names, and *)
(* posts p there.                                                          *)
HandleAccept(h, ran) ==
  /\ h.k = "accepted"
  /\ IF h.e = "aborted"
     THEN q' = ran /\ UNCHANGED <<heap, home, accepting, crashed>>
     ELSE IF home[h.s] \in gone
     THEN crashed' = TRUE /\ UNCHANGED <<q, heap, home, accepting>>
     ELSE /\ heap # Socket /\ UNCHANGED crashed
          /\ AsyncAccept(NextSocket(h.s), home[h.s], ran, [Nothing EXCEPT ![Poster(h.s)] =
               <<Handler(IF h.e = "ok" THEN "connected" ELSE "bad", h.s, "", h.e)>>])
  /\ UNCHANGED <<gone, sessions, careless, observer, pc, timers>>

(* on_connected: nobody has the socket when nobody has subscribed.  A      *)
(* callback that unsubscribes its own event deletes the object that runs:  *)
(* undefined, so it is well or the end.                                    *)
OnConnected(h, ran) ==
  /\ h.k = "connected"
  /\ IF Subscribed("accept")
     THEN /\ Accept(h.s, ran)
          /\ \/ UNCHANGED <<observer, crashed, careless>>
             \/ /\ ~careless /\ careless' = TRUE
                /\ Unsubscribe("accept") /\ crashed' \in BOOLEAN
     ELSE q' = ran /\ UNCHANGED <<sessions, observer, crashed, careless>>
  /\ UNCHANGED <<gone, heap, home, pc, timers, accepting>>

BadSocket(h, ran) ==
  /\ h.k = "bad"
  /\ q' = ran /\ Delete(h.s)
  /\ UNCHANGED <<gone, crashed, sessions, careless, observer, pc, timers, accepting>>

(* Wrong: the exception is forgotten. *)
CheckInterrupt_Stays(t, h, ran) ==
  /\ h.k = "check"
  /\ q' = ran /\ timers' = timers \cup {t}
  /\ UNCHANGED <<gone, heap, home, crashed, sessions, careless, observer, pc, accepting>>

(* check_interrupt: its exception leaves run(), to the head of the loop.   *)
CheckInterrupt(t, h, ran) ==
  /\ h.k = "check"
  /\ q' = ran
  /\ IF t \in flag
     THEN pc' = [pc EXCEPT ![t] = "loop"] /\ UNCHANGED timers
     ELSE timers' = timers \cup {t} /\ UNCHANGED pc
  /\ UNCHANGED <<gone, heap, home, crashed, sessions, careless, observer, accepting>>

RunHandler(t) ==
  /\ pc[t] = "run" /\ q[t] # <<>>
  /\ LET h == Head(q[t])  ran == [q EXCEPT ![t] = Tail(@)] IN
       \/ HandleAccept(h, ran)
       \/ OnConnected(h, ran)
       \/ BadSocket(h, ran)
       \/ CheckInterrupt(t, h, ran)
       \/ (RunCoro(h, ran) \/ RunDestroy(h, ran)) /\ UNCHANGED <<observer, pc, timers, accepting>>
  /\ UNCHANGED <<phase, hold, flag>>

-----------------------------------------------------------------------------
(* The surroundings: connections that arrive, or fail, the timer's second, *)
(* the network and the users of the sessions.                              *)
Arrives ==
  /\ accepting # <<>> /\ Spare >= 2
  /\ accepting' = Tail(accepting)
  /\ \E e \in {"ok", "error"} :
       q' = [q EXCEPT ![Acc] = Append(@, Handler("accepted", Head(accepting), "", e))]
  /\ UNCHANGED <<gone, heap, home, crashed, sessions, careless, observer, phase, hold, threads>>

TimerFires(w) ==
  /\ w \in timers
  /\ timers' = timers \ {w}
  /\ q' = [q EXCEPT ![w] = Append(@, Handler("check", NoSocket, "", "ok"))]
  /\ UNCHANGED <<gone, heap, home, crashed, sessions, careless, observer, phase, hold, pc, flag, accepting>>

SessionStep ==
  /\ \/ \E s \in Socket : Resume(s) \/ \E op \in Ops : Completes(s, op)
     \/ \E w \in Worker : pc[w] = "run" /\ Spare >= 2 /\ Connect(w)
  /\ UNCHANGED <<observer, phase, hold, threads, accepting>>

OwnerStep ==
  \/ Subscribes
  \/ \E ws \in SUBSET Worker, h \in BOOLEAN : Run(ws, h)
  \/ CloseInterrupts \/ CloseAcceptor \/ CloseJoined \/ Destroys

ThreadStep(t) ==
  \/ t \in Worker /\ Work(t)
  \/ Loop(t) \/ RunReturns(t) \/ RunHandler(t)

Next ==
  /\ ~crashed
  /\ \/ OwnerStep
     \/ \E t \in Thread : ThreadStep(t)
     \/ Arrives
     \/ \E w \in Worker : TimerFires(w)
     \/ SessionStep

Spec == Init /\ [][Next]_vars

(* Threads are scheduled, run() and close() go on, timers run out.         *)
Fairness ==
  /\ \A t \in Thread : WF_vars(~crashed /\ ThreadStep(t))
  /\ \A w \in Worker : WF_vars(~crashed /\ TimerFires(w))
  /\ WF_vars(~crashed /\ CloseAcceptor) /\ WF_vars(~crashed /\ CloseJoined)
FairSpec == Spec /\ Fairness

-----------------------------------------------------------------------------
Passed == {"accepted", "connected", "bad"}
Places(s) ==
  {<<"session", Acc, 0>> : u \in {s} \cap Live}
    \cup {<<"accept", Acc, i>> : i \in {j \in DOMAIN accepting : accepting[j] = s}}
    \cup UNION {{<<"queue", t, i>> : i \in {j \in DOMAIN q[t] : q[t][j].s = s /\ q[t][j].k \in Passed}} : t \in Thread}

(* Raw pointers to sockets pass from the accept operation through two      *)
(* queues to a session (lines 85-88 and 120-128, session.hpp 186): a       *)
(* socket that exists is with exactly one of them, so it is neither freed  *)
(* twice nor used by two.  One is lost only by close(), or when nobody has *)
(* subscribed to the accept event.                                         *)
SocketsHaveOnePlace ==
  \A s \in Socket :
    /\ Cardinality(Places(s)) <= 1
    /\ s \notin heap => Places(s) = {}
    /\ s \in heap /\ Places(s) = {} => ~(phase = "running" /\ Subscribed("accept"))

(* Lines 42-43: all io_services are independent, so that the callbacks of  *)
(* one socket are never run by two threads: whatever concerns it waits in  *)
(* the service it was made for, and only accepts are handled by the        *)
(* acceptor's thread.  A careless resume() can leave a handler behind that *)
(* outlives its session, and finds another one at the same address.        *)
CallbacksAtHome ==
  \A t \in Thread : \A i \in DOMAIN q[t] :
    LET h == q[t][i] IN
      CASE h.k = "accepted" -> t = Acc
        [] h.k = "check"    -> t \in Worker
        [] h.k = "coro"     -> careless \/ (h.s \in heap /\ home[h.s] = t)
        [] OTHER            -> h.s \in heap /\ home[h.s] = t

(* While the listener runs no handler finds its service, its session or    *)
(* its function object gone, if resume() ends pauses only and no callback  *)
(* unsubscribes itself (work(), lines 80-91, owns its io_service and ends  *)
(* with close() only).                                                     *)
CrashOnlyAfterClose == (crashed /\ ~careless) => phase \notin {"idle", "running"}

(* Every function object is the one of one event, until the destructor,    *)
(* whose loop ends before it begins (observer.hpp 144-176).                *)
FuncsInTable ==
  /\ phase # "destroyed" => funcs = {shots[e] : e \in Event} \ {NoFunc}
  /\ \A e, o \in Event : shots[e] = shots[o] /\ e # o => ~Subscribed(e)

(* A connection that has been accepted comes to the callback and becomes a *)
(* session, unless the listener is closed or nobody has subscribed.        *)
ConnectionsServed ==
  \A s \in Socket :
    (\E i \in DOMAIN q[Acc] : q[Acc][i] = Handler("accepted", s, "", "ok"))
      ~> (s \in Live \/ phase # "running" \/ ~Subscribed("accept") \/ crashed)

(* close() (lines 33-38) returns, unless a handler uses a service that is  *)
(* gone, or the acceptor's thread, which no timer wakes, never leaves its  *)
(* run(): because an accept that ended after the acceptor was closed, but  *)
(* is not aborted, starts the next one, which ends at once in the same     *)
(* way, or because a session made for the acceptor's service still waits.  *)
CloseReturns ==
  []<>(phase # "joining" \/ crashed
        \/ (\E i \in DOMAIN q[Acc] : q[Acc][i].k = "accepted" /\ q[Acc][i].e = "error")
        \/ \E s \in Live : home[s] = Acc)
=============================================================================
