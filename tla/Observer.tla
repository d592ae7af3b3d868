------------------------------ MODULE Observer ------------------------------
(***************************************************************************)
(* lugce/observer.hpp: a table from events to function objects.  subscribe *)
(* and unsubscribe allocate and delete the objects, shot() calls one.  The *)
(* macros that generate the events and their shot functions for each       *)
(* number of parameters come to the one lookup and call below.             *)
(***************************************************************************)
CONSTANTS
  Event,    \* the events that are subscribed
  Func,     \* the function objects there can be at a time
  NoFunc    \* no object: NULL, or no entry

ASSUME ObserverAssumption == NoFunc \notin Func

VARIABLES
  shots,    \* the object of each event
  funcs     \* the objects that have not been deleted

observer == <<shots, funcs>>

ObserverTypeOK == shots \in [Event -> Func \cup {NoFunc}] /\ funcs \subseteq Func
ObserverInit == shots = [e \in Event |-> NoFunc] /\ funcs = {}

(* Wrong: the object of the event is not deleted before the new one takes  *)
(* its place.                                                              *)
Subscribe_Keeps(e) ==
  \E f \in Func \ funcs :
    /\ funcs' = funcs \cup {f}
    /\ shots' = [shots EXCEPT ![e] = f]

(* subscribe: the assertion that there is no object is not part of a       *)
(* release build, where the old object is deleted.                         *)
Subscribe(e) ==
  \E f \in Func \ funcs :
    /\ funcs' = (funcs \ {shots[e]}) \cup {f}
    /\ shots' = [shots EXCEPT ![e] = f]

Unsubscribe(e) ==
  /\ shots[e] # NoFunc
  /\ funcs' = funcs \ {shots[e]}
  /\ shots' = [shots EXCEPT ![e] = NoFunc]

(* ~observer: the loop goes from begin() to begin(), so the table goes and *)
(* no object does.                                                         *)
DestroyObserver ==
  /\ shots' = [e \in Event |-> NoFunc]
  /\ UNCHANGED funcs

(* The object that shot() calls, if there is one.                          *)
Subscribed(e) == shots[e] # NoFunc
=============================================================================
