------------------------------- MODULE Logger -------------------------------
(***************************************************************************)
(* lugce/logger/logger.cpp: producers put lines on a queue of limited size *)
(* and one thread, log_work, writes them to the stream `logfile'.  reset() *)
(* replaces the stream; the writer calls it when the stream has gone bad   *)
(* or has been used for longer than `sustain', and so may any other thread.*)
(*                                                                         *)
(* The logger has a file name.  Lines are told apart by nothing the        *)
(* properties speak of, so the queue is its size.  A stream is the object  *)
(* the shared pointer counts, a file or std::clog; whether it is good() is *)
(* left open.  _delay_routines stays empty: nothing adds to it.            *)
(***************************************************************************)
EXTENDS Naturals, FiniteSets

CONSTANTS
  Producer,  \* the threads that log
  Resetter,  \* the threads other than the writer that call reset()
  Worker,    \* the thread that runs log_work
  Limit,     \* 10000 in print_line
  Burst,     \* 10000 in log_work
  Period,    \* what set_auto_reset sets, in seconds
  Stream,    \* the streams there can be at a time
  None       \* no stream

ASSUME LoggerAssumption ==
  /\ IsFiniteSet(Producer) /\ Producer # {}
  /\ Limit \in Nat \ {0} /\ Burst \in Nat \ {0} /\ Period \in Nat \ {0}
  /\ Worker \notin Resetter
  /\ None \notin Stream

Caller == Resetter \cup {Worker}

VARIABLES
  size,         \* the number of lines in _queue
  pushing,      \* the producers between the test of the size and the push
  logfile,      \* the stream that logfile points to
  open,         \* the streams that exist
  sustain,      \* the period of automatic resets, 0 for none
  age,          \* seconds since laset_reset, up to Period + 1
  interrupted,  \* the writer has been asked to end
  wpc,          \* where the writer is in log_work
  x,            \* lines taken since the last look at the clock
  f,            \* the writer's own pointer to the stream
  new,          \* the stream that each caller of reset() is about to install
  old,          \* the stream it is about to let go
  meddled       \* another thread has replaced the stream since the writer
                \* was last at the head of its loop

queue  == <<size, pushing>>
writer == <<wpc, x, f>>
resets == <<logfile, open, age, new, old>>
vars == <<queue, resets, sustain, interrupted, writer, meddled>>

(* initialize() has called reset() and started the writer. *)
Init ==
  /\ size = 0 /\ pushing = {}
  /\ logfile \in Stream /\ open = {logfile}
  /\ sustain = 0 /\ age = 0
  /\ interrupted = FALSE
  /\ wpc = "loop" /\ x = 0 /\ f = None
  /\ new = [c \in Caller |-> None] /\ old = new
  /\ meddled = FALSE

Goto(from, to) == wpc = from /\ wpc' = to

-----------------------------------------------------------------------------
(* Wrong: the limit is off by one. *)
PrintCheck_OffByOne(p) ==
  /\ p \notin pushing
  /\ size <= Limit
  /\ pushing' = pushing \cup {p}
  /\ UNCHANGED <<size, resets, sustain, interrupted, writer, meddled>>

(* print_line: _queue.unsafe_size() < 10000.  Otherwise the line is dropped, *)
(* which changes nothing.                                                  *)
PrintCheck(p) ==
  /\ p \notin pushing
  /\ size < Limit
  /\ pushing' = pushing \cup {p}
  /\ UNCHANGED <<size, resets, sustain, interrupted, writer, meddled>>

(* _queue.push( str ) *)
PrintPush(p) ==
  /\ p \in pushing
  /\ pushing' = pushing \ {p}
  /\ size' = size + 1
  /\ UNCHANGED <<resets, sustain, interrupted, writer, meddled>>

-----------------------------------------------------------------------------
(* reset() opens a stream; logfile.reset( p ) has read the pointer that it is *)
(* going to replace.  Opening is seen by no other thread.                  *)
ResetOpen(c) ==
  /\ new[c] = None
  /\ c = Worker => wpc \in {"replace", "rotate"}
  /\ \E s \in Stream \ open :
       /\ new' = [new EXCEPT ![c] = s]
       /\ open' = open \cup {s}
  /\ old' = [old EXCEPT ![c] = logfile]
  /\ UNCHANGED <<queue, logfile, age, sustain, interrupted, writer, meddled>>

(* The writer counts on its stream from the copy of the pointer on. *)
Counted == wpc \in {"use", "replace", "clear", "write"}

(* Wrong: the old stream is deleted, whoever counts on it. *)
LetGo_Deletes(s) == open \ {s}

(* Wrong: the old stream is not let go. *)
LetGo_Leaks(s) == open

(* The streams that are left when logfile lets go of s. *)
LetGo(s) == IF Counted /\ f = s THEN open ELSE open \ {s}

(* The new stream is installed and the old one let go, which closes it unless *)
(* the writer counts on it, and time( &laset_reset ).  If another reset()  *)
(* has come in between, it has let go of the same stream: the count is     *)
(* used after its end.                                                     *)
ResetInstall(c) ==
  /\ new[c] # None
  /\ new' = [new EXCEPT ![c] = None]
  /\ old' = [old EXCEPT ![c] = None]
  /\ logfile' = new[c]
  /\ age' = 0
  /\ meddled' = (meddled \/ c # Worker)
  /\ open' = LetGo(old[c])
  /\ wpc' = CASE old[c] # logfile -> "crashed"
              [] old[c] = logfile /\ c = Worker -> IF wpc = "replace" THEN "clear" ELSE "loop"
              [] OTHER -> wpc
  /\ UNCHANGED <<queue, sustain, interrupted, x, f>>

-----------------------------------------------------------------------------
(* x++ < 10000 *)
BurstLeft == x < Burst

(* Wrong: the count of lines is not set back. *)
WorkerLoop_KeepsCount ==
  /\ \/ interrupted /\ Goto("loop", "done") /\ UNCHANGED <<size, x>>
     \/ /\ ~interrupted /\ BurstLeft /\ size > 0
        /\ Goto("loop", "take")
        /\ size' = size - 1
        /\ x' = x + 1
     \/ /\ ~interrupted /\ ~(BurstLeft /\ size > 0)
        /\ Goto("loop", "tick")
        /\ UNCHANGED <<size, x>>
  /\ meddled' = FALSE
  /\ UNCHANGED <<pushing, resets, sustain, interrupted, f>>

(* Wrong: the writer takes lines as long as there are any. *)
WorkerLoop_NoBurst ==
  /\ \/ interrupted /\ Goto("loop", "done") /\ UNCHANGED size
     \/ ~interrupted /\ size > 0 /\ Goto("loop", "take") /\ size' = size - 1
     \/ ~interrupted /\ size = 0 /\ Goto("loop", "tick") /\ UNCHANGED size
  /\ meddled' = FALSE
  /\ UNCHANGED <<pushing, resets, sustain, interrupted, x, f>>

(* The head of the loop: end, take a line, or look at the clock. *)
WorkerLoop ==
  /\ \/ interrupted /\ Goto("loop", "done") /\ UNCHANGED <<size, x>>
     \/ /\ ~interrupted /\ BurstLeft /\ size > 0
        /\ Goto("loop", "take")
        /\ size' = size - 1
        /\ x' = x + 1
     \/ /\ ~interrupted /\ ~(BurstLeft /\ size > 0)
        /\ Goto("loop", "tick")
        /\ x' = 0
        /\ UNCHANGED size
  /\ meddled' = FALSE
  /\ UNCHANGED <<pushing, resets, sustain, interrupted, f>>

(* f = logfile, first half: the pointer is read ... *)
WorkerReads ==
  /\ Goto("take", "count")
  /\ f' = logfile
  /\ UNCHANGED <<queue, resets, sustain, interrupted, x, meddled>>

(* ... second half: its count is raised, which is freed memory if the stream *)
(* has been replaced since.                                                *)
WorkerCounts ==
  /\ Goto("count", IF f = logfile THEN "use" ELSE "crashed")
  /\ UNCHANGED <<queue, resets, sustain, interrupted, x, f, meddled>>

(* if( !f->good() ) reset() *)
WorkerLooks ==
  /\ Goto("use", "write") \/ Goto("use", "replace")
  /\ UNCHANGED <<queue, resets, sustain, interrupted, x, f, meddled>>

(* f->clear(), after the reset. *)
WorkerClears ==
  /\ Goto("clear", IF f \in open THEN "write" ELSE "crashed")
  /\ UNCHANGED <<queue, resets, sustain, interrupted, x, f, meddled>>

(* *f << log_info, and the end of f's life. *)
WorkerWrites ==
  /\ Goto("write", IF f \in open THEN "loop" ELSE "crashed")
  /\ f' = None
  /\ open' = IF f = logfile THEN open ELSE open \ {f}
  /\ UNCHANGED <<queue, logfile, age, new, old, sustain, interrupted, x, meddled>>

(* The branch that is taken when there is no line or the burst is over.  An *)
(* interrupt of the sleep at its end is found at the head of the loop.     *)
WorkerTick ==
  /\ Goto("tick", IF sustain > 0 /\ age > sustain THEN "rotate" ELSE "loop")
  /\ UNCHANGED <<queue, resets, sustain, interrupted, x, f, meddled>>

-----------------------------------------------------------------------------
(* set_auto_reset( sec ) *)
SetAutoReset(sec) ==
  /\ sustain' = sec
  /\ UNCHANGED <<queue, resets, interrupted, writer, meddled>>

(* A second passes; time( NULL ) - laset_reset is not told apart once it is  *)
(* past the period.                                                        *)
ClockTick ==
  /\ age <= Period
  /\ age' = age + 1
  /\ UNCHANGED <<queue, logfile, open, new, old, sustain, interrupted, writer, meddled>>

(* The owner of the boost::thread interrupts it. *)
Interrupt ==
  /\ interrupted' = TRUE
  /\ UNCHANGED <<queue, resets, sustain, writer, meddled>>

Crashed == wpc = "crashed"

WorkerStep ==
  \/ WorkerLoop \/ WorkerReads \/ WorkerCounts \/ WorkerLooks
  \/ WorkerClears \/ WorkerWrites \/ WorkerTick

ProducerStep(p) == PrintCheck(p) \/ PrintPush(p)
ResetStep(c)    == ResetOpen(c) \/ ResetInstall(c)
Environment     == ClockTick \/ Interrupt \/ \E sec \in {0, Period} : SetAutoReset(sec)

Next ==
  \/ /\ ~Crashed
     /\ \/ \E p \in Producer : ProducerStep(p)
        \/ \E c \in Caller : ResetStep(c)
        \/ WorkerStep
        \/ Environment
  \/ Crashed /\ UNCHANGED vars

Spec == Init /\ [][Next]_vars

(* The writer runs, and so does a reset() that has begun. *)
Fairness ==
  /\ WF_vars(~Crashed /\ (WorkerStep \/ ResetStep(Worker)))
  /\ \A c \in Resetter : WF_vars(~Crashed /\ ResetInstall(c))

FairSpec == Spec /\ Fairness
-----------------------------------------------------------------------------
(* Every variable is of its kind; the writer never counts beyond its burst. *)
TypeOK ==
  /\ size \in Nat
  /\ pushing \subseteq Producer
  /\ logfile \in Stream
  /\ open \subseteq Stream
  /\ sustain \in {0, Period}
  /\ age \in 0 .. Period + 1
  /\ interrupted \in BOOLEAN
  /\ wpc \in {"loop", "take", "count", "use", "replace", "clear", "write",
              "tick", "rotate", "done", "crashed"}
  /\ x \in 0 .. Burst
  /\ f \in Stream \cup {None}
  /\ new \in [Caller -> Stream \cup {None}]
  /\ old \in [Caller -> Stream \cup {None}]
  /\ meddled \in BOOLEAN

(* The queue grows past its limit by less than the number of producers: each *)
(* of them may have seen the last free place (logger.cpp:92-93).           *)
QueueBounded == size <= Limit + Cardinality(Producer) - 1

(* A stream exists exactly as long as somebody has it: logfile, the writer   *)
(* with its counted pointer, or a reset() that is about to install it      *)
(* (logger.cpp:56, 121-124).                                               *)
StreamsHaveOwners ==
  ~Crashed =>
    open = ({logfile} \cup {new[c] : c \in Caller} \cup (IF Counted THEN {f} ELSE {})) \ {None}

(* The writer may replace the stream while it uses it; the program comes to  *)
(* grief only when another thread's reset() falls into the writer's round  *)
(* (logger.cpp:56-59, 124).                                                *)
CrashOnlyByOthers == Crashed => meddled

Stopped == wpc \in {"done", "crashed"}

(* However many lines come in, a stream that is older than the period is     *)
(* replaced: that is what x is for, as its comment says (logger.cpp:53-66). *)
RotatesInTime == (sustain > 0 /\ age > sustain) ~> (age = 0 \/ sustain = 0 \/ Stopped)

(* As long as the writer is not stopped, it gets back to the queue           *)
(* (logger.cpp:54-55, 62).                                                 *)
LinesTaken == size > 0 ~> wpc = "take" \/ Stopped
=============================================================================
