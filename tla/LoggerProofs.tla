---------------------------- MODULE LoggerProofs ----------------------------
(***************************************************************************)
(* For any number of producers, of streams and of threads that call        *)
(* reset(): the bound of the queue, the ownership of the streams, and the  *)
(* only way the program comes to grief.                                    *)
(***************************************************************************)
EXTENDS Logger, FiniteSetTheorems, TLAPS

-----------------------------------------------------------------------------
(* The queue.  A producer that has passed the test is a line to come. *)
QueueInv ==
  /\ size \in Nat
  /\ pushing \subseteq Producer
  /\ size + Cardinality(pushing) <= Limit + Cardinality(Producer) - 1

(* The sets of producers can be counted, and never exceed all of them. *)
LEMMA Counting ==
  ASSUME NEW S \in SUBSET Producer
  PROVE  /\ IsFiniteSet(S)
         /\ Cardinality(S) \in Nat
         /\ Cardinality(Producer) \in Nat
         /\ Cardinality(Producer) >= 1
         /\ Cardinality(S) <= Cardinality(Producer)
<1>1. IsFiniteSet(Producer) /\ Producer # {}
  BY LoggerAssumption
<1>2. IsFiniteSet(S) /\ Cardinality(S) <= Cardinality(Producer)
  BY <1>1, FS_Subset
<1>3. Cardinality(Producer) \in Nat /\ Cardinality(S) \in Nat
  BY <1>1, <1>2, FS_CardinalityType
<1>4. Cardinality(Producer) # 0
  BY <1>1, FS_EmptySet
<1>5. QED
  BY <1>2, <1>3, <1>4

(* The queue grows past its limit by less than the number of producers, who  *)
(* test its size before they push (logger.cpp:92-93).                      *)
THEOREM QueueStaysBounded == Spec => []QueueBounded
<1>1. Init => QueueInv
  <2>1. Cardinality({}) = 0
    BY FS_EmptySet
  <2>2. Cardinality(Producer) \in Nat /\ Cardinality(Producer) >= 1
    BY Counting
  <2>3. QED
    BY <2>1, <2>2, LoggerAssumption DEF Init, QueueInv
<1>2. QueueInv /\ [Next]_vars => QueueInv'
  <2> SUFFICES ASSUME QueueInv, [Next]_vars
               PROVE  QueueInv'
    OBVIOUS
  <2> USE DEF QueueInv
  <2>0. Limit \in Nat \ {0}
    BY LoggerAssumption
  <2>1. ASSUME NEW p \in Producer, PrintCheck(p)
        PROVE  QueueInv'
    <3>1. size < Limit /\ size' = size /\ pushing' \in SUBSET Producer
      BY <2>1 DEF PrintCheck
    <3>2. Cardinality(pushing') \in Nat /\ Cardinality(Producer) \in Nat
          /\ Cardinality(pushing') <= Cardinality(Producer)
      BY <3>1, Counting
    <3>3. QED
      BY <3>1, <3>2, <2>0
  <2>2. ASSUME NEW p \in Producer, PrintPush(p)
        PROVE  QueueInv'
    <3>1. p \in pushing /\ size' = size + 1 /\ pushing' = pushing \ {p}
      BY <2>2 DEF PrintPush
    <3>2. IsFiniteSet(pushing) /\ Cardinality(pushing) \in Nat
      BY Counting
    <3>3. Cardinality(pushing') = Cardinality(pushing) - 1
      BY <3>1, <3>2, FS_RemoveElement
    <3>4. Cardinality(Producer) \in Nat
      BY Counting
    <3>5. QED
      BY <3>1, <3>2, <3>3, <3>4, <2>0
  <2>3. CASE WorkerLoop
    <3>1. pushing' = pushing
      BY <2>3 DEF WorkerLoop
    <3>2. size' = size \/ (size > 0 /\ size' = size - 1)
      BY <2>3 DEF WorkerLoop
    <3>3. Cardinality(pushing) \in Nat /\ Cardinality(Producer) \in Nat
      BY Counting
    <3>4. QED
      BY <3>1, <3>2, <3>3, <2>0
  <2>4. CASE UNCHANGED queue
    BY <2>4 DEF queue
  <2>5. (\E c \in Caller : ResetStep(c)) => UNCHANGED queue
    BY DEF ResetStep, ResetOpen, ResetInstall, queue
  <2>6. WorkerStep => WorkerLoop \/ UNCHANGED queue
    BY DEF WorkerStep, WorkerReads, WorkerCounts, WorkerLooks, WorkerClears, WorkerWrites,
           WorkerTick, queue
  <2>7. Environment => UNCHANGED queue
    BY DEF Environment, ClockTick, Interrupt, SetAutoReset, queue
  <2>8. UNCHANGED vars => UNCHANGED queue
    BY DEF vars
  <2>9. QED
    BY <2>1, <2>2, <2>3, <2>4, <2>5, <2>6, <2>7, <2>8 DEF Next, ProducerStep
<1>3. QueueInv => QueueBounded
  <2>1. ASSUME QueueInv
        PROVE  Cardinality(pushing) \in Nat /\ Cardinality(Producer) \in Nat
    BY <2>1, Counting DEF QueueInv
  <2>2. QED
    BY <2>1, LoggerAssumption DEF QueueInv, QueueBounded
<1>4. QED
  BY <1>1, <1>2, <1>3, PTL DEF Spec

-----------------------------------------------------------------------------
(* Every variable is of its kind, and the writer never counts beyond its     *)
(* burst (logger.cpp:53-62).                                               *)
LEMMA TypeInductive ==
  /\ Init => TypeOK
  /\ TypeOK /\ [Next]_vars => TypeOK'
<1>0. Limit \in Nat \ {0} /\ Burst \in Nat \ {0} /\ Period \in Nat \ {0}
  BY LoggerAssumption
<1>1. Init => TypeOK
  <2> SUFFICES ASSUME Init
               PROVE  TypeOK
    OBVIOUS
  <2>1. new \in [Caller -> Stream \cup {None}] /\ old \in [Caller -> Stream \cup {None}]
    BY DEF Init
  <2>2. open \subseteq Stream /\ logfile \in Stream
    BY DEF Init
  <2>3. size \in Nat /\ sustain \in {0, Period} /\ age \in 0 .. Period + 1 /\ x \in 0 .. Burst
    BY <1>0 DEF Init
  <2>4. interrupted \in BOOLEAN /\ meddled \in BOOLEAN
    BY DEF Init
  <2>5. pushing \subseteq Producer /\ f \in Stream \cup {None}
    BY DEF Init
  <2>6. wpc = "loop"
    BY DEF Init
  <2>7. QED
    BY <2>1, <2>2, <2>3, <2>4, <2>5, <2>6 DEF TypeOK
<1>2. TypeOK /\ [Next]_vars => TypeOK'
  <2> SUFFICES ASSUME TypeOK, [Next]_vars
               PROVE  TypeOK'
    OBVIOUS
  <2> USE DEF TypeOK, queue, writer, resets, Goto
  <2>1. ASSUME NEW p \in Producer, ProducerStep(p)
        PROVE  TypeOK'
    BY <2>1 DEF ProducerStep, PrintCheck, PrintPush
  <2>2. ASSUME NEW c \in Caller, ResetOpen(c)
        PROVE  TypeOK'
    BY <2>2 DEF ResetOpen
  <2>3. ASSUME NEW c \in Caller, ResetInstall(c)
        PROVE  TypeOK'
    BY <2>3, <1>0 DEF ResetInstall, LetGo
  <2>4. CASE WorkerLoop
    <3>1. size' \in Nat
      BY <2>4 DEF WorkerLoop
    <3>2. x' \in 0 .. Burst
      BY <2>4, <1>0 DEF WorkerLoop, BurstLeft
    <3>3. wpc' \in {"done", "take", "tick"} /\ meddled' = FALSE
      BY <2>4 DEF WorkerLoop
    <3>4. UNCHANGED <<pushing, resets, sustain, interrupted, f>>
      BY <2>4 DEF WorkerLoop
    <3>5. QED
      BY <3>1, <3>2, <3>3, <3>4
  <2>5. CASE WorkerReads \/ WorkerCounts \/ WorkerLooks
    BY <2>5 DEF WorkerReads, WorkerCounts, WorkerLooks
  <2>6. CASE WorkerClears \/ WorkerWrites \/ WorkerTick
    BY <2>6 DEF WorkerClears, WorkerWrites, WorkerTick
  <2>7. CASE Environment
    <3>1. CASE ClockTick
      BY <3>1, <1>0 DEF ClockTick
    <3>2. CASE Interrupt
      BY <3>2 DEF Interrupt
    <3>3. ASSUME NEW sec \in {0, Period}, SetAutoReset(sec)
          PROVE  TypeOK'
      BY <3>3 DEF SetAutoReset
    <3>4. QED
      BY <2>7, <3>1, <3>2, <3>3 DEF Environment
  <2>8. CASE UNCHANGED vars
    BY <2>8 DEF vars
  <2>9. QED
    BY <2>1, <2>2, <2>3, <2>4, <2>5, <2>6, <2>7, <2>8 DEF Next, WorkerStep, ResetStep
<1>3. QED
  BY <1>1, <1>2

(* The same for every reachable state. *)
THEOREM TypeCorrect == Spec => []TypeOK
  BY TypeInductive, PTL DEF Spec

-----------------------------------------------------------------------------
(* The streams.  While the program runs, nobody has a stream that somebody   *)
(* else is about to install; only the writer in its loop is inside reset() *)
(* on its own account.                                                     *)
NewIsNew ==
  \A c \in Caller : new[c] # None =>
    /\ new[c] # logfile
    /\ Counted => new[c] # f
    /\ \A d \in Caller : new[d] = new[c] => d = c

InReset == new[Worker] # None => wpc \in {"replace", "rotate"}

Owned == ~Crashed => StreamsHaveOwners /\ NewIsNew /\ InReset /\ (Counted => f # None)

(* What the writer can rely on as long as no other thread meddles. *)
Alone ==
  ~meddled =>
    /\ ~Crashed
    /\ new[Worker] # None => old[Worker] = logfile
    /\ wpc = "count" => f = logfile

StreamInv == TypeOK /\ Owned /\ Alone

LEMMA StreamInit == Init => StreamInv
<1> SUFFICES ASSUME Init
             PROVE  StreamInv
  OBVIOUS
<1>1. TypeOK
  BY TypeInductive
<1>2. \A c \in Caller : new[c] = None
  BY DEF Init
<1>3. Worker \in Caller /\ None \notin Stream
  BY LoggerAssumption DEF Caller
<1>4. wpc = "loop" /\ logfile \in Stream /\ open = {logfile}
  BY DEF Init
<1>5. StreamsHaveOwners
  BY <1>2, <1>3, <1>4 DEF StreamsHaveOwners, Counted
<1>6. QED
  BY <1>1, <1>2, <1>3, <1>4, <1>5 DEF StreamInv, Owned, Alone, NewIsNew, InReset, Counted, Crashed

(* A step that leaves the streams and the writer alone. *)
LEMMA StreamsUntouched ==
  ASSUME StreamInv, TypeOK', UNCHANGED <<logfile, open, new, old, writer, meddled>>
  PROVE  StreamInv'
BY DEF StreamInv, Owned, Alone, StreamsHaveOwners, NewIsNew, InReset, Counted, Crashed, writer

LEMMA OpenKeeps ==
  ASSUME StreamInv, TypeOK', ~Crashed, NEW c \in Caller, ResetOpen(c)
  PROVE  StreamInv'
<1>1. PICK s \in Stream \ open :
        /\ new' = [new EXCEPT ![c] = s]
        /\ open' = open \cup {s}
  BY DEF ResetOpen
<1>2. /\ new[c] = None /\ (c = Worker => wpc \in {"replace", "rotate"})
      /\ old' = [old EXCEPT ![c] = logfile]
      /\ UNCHANGED <<logfile, wpc, f, meddled>>
  BY DEF ResetOpen, writer
<1>3. StreamsHaveOwners /\ NewIsNew /\ InReset /\ (Counted => f # None)
  BY DEF StreamInv, Owned
<1>4. /\ new \in [Caller -> Stream \cup {None}] /\ old \in [Caller -> Stream \cup {None}]
      /\ logfile \in Stream /\ None \notin Stream /\ Worker \in Caller
  BY LoggerAssumption DEF StreamInv, TypeOK, Caller
<1>5. ~Crashed' /\ (Counted' <=> Counted)
  BY <1>2 DEF Crashed, Counted
<1>6. /\ s # logfile /\ (Counted => s # f)
      /\ \A d \in Caller : new[d] # s
  BY <1>3, <1>4 DEF StreamsHaveOwners
<1>7. \A d \in Caller : new'[d] = IF d = c THEN s ELSE new[d]
  BY <1>1, <1>4
<1>8. StreamsHaveOwners'
  <2>1. {new'[d] : d \in Caller} \ {None} = ({new[d] : d \in Caller} \cup {s}) \ {None}
    BY <1>2, <1>4, <1>7
  <2>2. open = ({logfile} \cup {new[d] : d \in Caller} \cup (IF Counted THEN {f} ELSE {})) \ {None}
    BY <1>3 DEF StreamsHaveOwners
  <2>3. open' = ({logfile} \cup {new'[d] : d \in Caller} \cup (IF Counted THEN {f} ELSE {})) \ {None}
    BY <1>1, <1>4, <2>1, <2>2
  <2>4. QED
    BY <1>2, <1>5, <2>3 DEF StreamsHaveOwners
<1>9. NewIsNew' /\ InReset' /\ (Counted' => f' # None)
  BY <1>2, <1>3, <1>4, <1>5, <1>6, <1>7 DEF NewIsNew, InReset
<1>10. Alone'
  BY <1>2, <1>4, <1>5, <1>7 DEF StreamInv, Alone
<1>11. QED
  BY <1>8, <1>9, <1>10 DEF StreamInv, Owned

LEMMA InstallKeeps ==
  ASSUME StreamInv, TypeOK', ~Crashed, NEW c \in Caller, ResetInstall(c)
  PROVE  StreamInv'
<1>1. /\ new[c] # None
      /\ new' = [new EXCEPT ![c] = None] /\ old' = [old EXCEPT ![c] = None]
      /\ logfile' = new[c] /\ f' = f
      /\ open' = LetGo(old[c])
      /\ meddled' = (meddled \/ c # Worker)
      /\ wpc' = CASE old[c] # logfile -> "crashed"
                  [] old[c] = logfile /\ c = Worker -> IF wpc = "replace" THEN "clear" ELSE "loop"
                  [] OTHER -> wpc
  BY DEF ResetInstall
<1>2. StreamsHaveOwners /\ NewIsNew /\ InReset /\ (Counted => f # None)
  BY DEF StreamInv, Owned
<1>3. /\ new \in [Caller -> Stream \cup {None}] /\ old \in [Caller -> Stream \cup {None}]
      /\ logfile \in Stream /\ None \notin Stream /\ Worker \in Caller
      /\ f \in Stream \cup {None}
  BY LoggerAssumption DEF StreamInv, TypeOK, Caller
<1>4. \A d \in Caller : new'[d] = IF d = c THEN None ELSE new[d]
  BY <1>1, <1>3
<1>5. CASE old[c] # logfile
  <2>1. wpc' = "crashed"
    BY <1>1, <1>5
  <2>2. meddled'
    BY <1>1, <1>5 DEF StreamInv, Alone, TypeOK
  <2>3. QED
    BY <2>1, <2>2 DEF StreamInv, Owned, Alone, Crashed
<1>6. CASE old[c] = logfile
  <2>1. ~Crashed' /\ (Counted' <=> Counted)
    BY <1>1, <1>2, <1>6 DEF InReset, Counted, Crashed
  <2>2. NewIsNew' /\ (Counted' => f' # None)
    BY <1>1, <1>2, <1>3, <1>4, <2>1 DEF NewIsNew
  <2>3. InReset'
    BY <1>1, <1>2, <1>3, <1>4, <1>6 DEF InReset
  <2>4. open' = ({new[c]} \cup {new'[d] : d \in Caller} \cup (IF Counted THEN {f} ELSE {})) \ {None}
    <3>1. open' = IF Counted /\ f = logfile THEN open ELSE open \ {logfile}
      BY <1>1, <1>6 DEF LetGo
    <3>2. open = ({logfile} \cup {new[d] : d \in Caller} \cup (IF Counted THEN {f} ELSE {})) \ {None}
      BY <1>2 DEF StreamsHaveOwners
    <3>3. {new[d] : d \in Caller} \ {None} = ({new'[d] : d \in Caller} \cup {new[c]}) \ {None}
      BY <1>1, <1>3, <1>4
    <3>4. logfile # new[c] /\ \A d \in Caller : new'[d] # logfile
      BY <1>1, <1>2, <1>3, <1>4 DEF NewIsNew
    <3>5. QED
      BY <1>1, <1>3, <3>1, <3>2, <3>3, <3>4
  <2>5. StreamsHaveOwners'
    BY <1>1, <2>1, <2>4 DEF StreamsHaveOwners
  <2>6. Alone'
    <3>1. ASSUME ~meddled'
          PROVE  c = Worker /\ ~meddled
      BY <1>1, <3>1 DEF StreamInv, TypeOK
    <3>2. ASSUME ~meddled'
          PROVE  new'[Worker] = None /\ wpc' # "count"
      BY <1>1, <1>3, <1>4, <1>6, <3>1, <3>2
    <3>3. QED
      BY <2>1, <3>2 DEF Alone
  <2>7. QED
    BY <2>2, <2>3, <2>5, <2>6 DEF StreamInv, Owned
<1>7. QED
  BY <1>5, <1>6

LEMMA WorkerKeeps ==
  ASSUME StreamInv, TypeOK', ~Crashed, WorkerStep
  PROVE  StreamInv'
<1>1. StreamsHaveOwners /\ NewIsNew /\ InReset /\ (Counted => f # None) /\ Alone
  BY DEF StreamInv, Owned
<1>2. /\ new \in [Caller -> Stream \cup {None}]
      /\ logfile \in Stream /\ None \notin Stream /\ Worker \in Caller
      /\ f \in Stream \cup {None}
  BY LoggerAssumption DEF StreamInv, TypeOK, Caller
<1>3. Counted => f \in open
  BY <1>1 DEF StreamsHaveOwners
<1> USE DEF Goto, resets, queue
<1>4. CASE WorkerLoop
  <2>1. /\ wpc = "loop" /\ wpc' \in {"done", "take", "tick"} /\ f' = f
        /\ UNCHANGED <<logfile, open, new, old>>
    BY <1>4 DEF WorkerLoop
  <2>2. new[Worker] = None
    BY <1>1, <2>1 DEF InReset
  <2>3. QED
    BY <1>1, <2>1, <2>2 DEF StreamInv, Owned, Alone, StreamsHaveOwners, NewIsNew, InReset, Counted, Crashed
<1>5. CASE WorkerReads
  <2>1. /\ wpc = "take" /\ wpc' = "count" /\ f' = logfile
        /\ UNCHANGED <<logfile, open, new, old, meddled>>
    BY <1>5 DEF WorkerReads
  <2>2. QED
    BY <1>1, <2>1 DEF StreamInv, Owned, Alone, StreamsHaveOwners, NewIsNew, InReset, Counted, Crashed
<1>6. CASE WorkerCounts
  <2>1. /\ wpc = "count" /\ wpc' = (IF f = logfile THEN "use" ELSE "crashed")
        /\ UNCHANGED <<f, logfile, open, new, old, meddled>>
    BY <1>6 DEF WorkerCounts
  <2>2. CASE f = logfile
    <3>1. StreamsHaveOwners'
      BY <1>1, <2>1, <2>2 DEF StreamsHaveOwners, Counted
    <3>2. NewIsNew' /\ InReset' /\ (Counted' => f' # None) /\ Alone'
      BY <1>1, <1>2, <2>1, <2>2 DEF NewIsNew, InReset, Counted, Alone, Crashed
    <3>3. QED
      BY <3>1, <3>2 DEF StreamInv, Owned
  <2>3. CASE f # logfile
    BY <1>1, <2>1, <2>3 DEF StreamInv, Owned, Alone, Crashed
  <2>4. QED
    BY <2>2, <2>3
<1>7. CASE WorkerLooks \/ WorkerClears \/ WorkerTick
  <2>1. /\ UNCHANGED <<f, logfile, open, new, old, meddled>>
        /\ \/ wpc = "use" /\ wpc' \in {"write", "replace"}
           \/ wpc = "clear" /\ wpc' = "write"
           \/ wpc = "tick" /\ wpc' \in {"rotate", "loop"}
    BY <1>3, <1>7 DEF WorkerLooks, WorkerClears, WorkerTick, Counted
  <2>2. QED
    BY <1>1, <2>1 DEF StreamInv, Owned, Alone, StreamsHaveOwners, NewIsNew, InReset, Counted, Crashed
<1>8. CASE WorkerWrites
  <2>1. /\ wpc = "write" /\ wpc' = "loop" /\ f' = None
        /\ open' = (IF f = logfile THEN open ELSE open \ {f})
        /\ UNCHANGED <<logfile, new, old, meddled>>
    BY <1>3, <1>8 DEF WorkerWrites, Counted
  <2>2. f # None /\ \A c \in Caller : new[c] # f
    BY <1>1, <2>1 DEF NewIsNew, Counted
  <2>3. StreamsHaveOwners'
    BY <1>1, <1>2, <2>1, <2>2 DEF StreamsHaveOwners, Counted
  <2>4. NewIsNew' /\ InReset' /\ Alone' /\ ~Counted'
    BY <1>1, <2>1 DEF NewIsNew, InReset, Counted, Alone, Crashed
  <2>5. QED
    BY <2>3, <2>4 DEF StreamInv, Owned
<1>9. QED
  BY <1>4, <1>5, <1>6, <1>7, <1>8 DEF WorkerStep

LEMMA StreamInductive == Spec => []StreamInv
<1>1. StreamInv /\ [Next]_vars => StreamInv'
  <2> SUFFICES ASSUME StreamInv, [Next]_vars
               PROVE  StreamInv'
    OBVIOUS
  <2>1. TypeOK'
    BY TypeInductive DEF StreamInv
  <2>2. ASSUME NEW p \in Producer, ProducerStep(p)
        PROVE  StreamInv'
    BY <2>1, <2>2, StreamsUntouched DEF ProducerStep, PrintCheck, PrintPush, resets
  <2>3. CASE Environment
    BY <2>1, <2>3, StreamsUntouched DEF Environment, ClockTick, Interrupt, SetAutoReset, resets
  <2>4. CASE UNCHANGED vars
    BY <2>1, <2>4, StreamsUntouched DEF vars, resets
  <2>5. ASSUME ~Crashed, NEW c \in Caller, ResetStep(c)
        PROVE  StreamInv'
    BY <2>1, <2>5, OpenKeeps, InstallKeeps DEF ResetStep
  <2>6. ASSUME ~Crashed, WorkerStep
        PROVE  StreamInv'
    BY <2>1, <2>6, WorkerKeeps
  <2>7. QED
    BY <2>2, <2>3, <2>4, <2>5, <2>6 DEF Next
<1>2. QED
  BY <1>1, StreamInit, PTL DEF Spec

(* A stream exists exactly as long as somebody has it: none is closed while  *)
(* the writer uses it, and none is left behind (logger.cpp:56, 121-124).   *)
THEOREM StreamsAreOwned == Spec => []StreamsHaveOwners
<1>1. StreamInv => StreamsHaveOwners
  BY DEF StreamInv, Owned, StreamsHaveOwners
<1>2. QED
  BY <1>1, StreamInductive, PTL

(* The program comes to grief only when the reset() of another thread falls  *)
(* into the writer's round (logger.cpp:56-59, 124).                        *)
THEOREM OnlyOthersCrash == Spec => []CrashOnlyByOthers
<1>1. StreamInv => CrashOnlyByOthers
  BY DEF StreamInv, Alone, CrashOnlyByOthers
<1>2. QED
  BY <1>1, StreamInductive, PTL

(* A logger whose stream nobody but the writer replaces never comes to grief. *)
THEOREM AloneIsSafe ==
  ASSUME Resetter = {}
  PROVE  Spec => []~Crashed
<1>1. Init => ~meddled
  BY DEF Init
<1>2. TypeOK /\ ~meddled /\ [Next]_vars => ~meddled'
  <2> SUFFICES ASSUME TypeOK, ~meddled, [Next]_vars
               PROVE  ~meddled'
    OBVIOUS
  <2>1. Caller = {Worker}
    BY DEF Caller
  <2>2. QED
    BY <2>1 DEF Next, vars, ProducerStep, PrintCheck, PrintPush, ResetStep, ResetOpen, ResetInstall,
      WorkerStep, WorkerLoop, WorkerReads, WorkerCounts, WorkerLooks, WorkerClears, WorkerWrites,
      WorkerTick, Environment, ClockTick, Interrupt, SetAutoReset
<1>3. CrashOnlyByOthers /\ ~meddled => ~Crashed
  BY DEF CrashOnlyByOthers
<1>4. QED
  BY <1>1, <1>2, <1>3, TypeCorrect, OnlyOthersCrash, PTL DEF Spec
=============================================================================
