------------------------------- MODULE Atomics -------------------------------
(***************************************************************************)
(* libs/lockfree: atomic_integer and atomic_pointer over the atomic        *)
(* functions of the Windows build.  A word has Half * Half values, and two *)
(* halves that are read one after the other where the machine's words are  *)
(* smaller.  Three builds differ in what is one instruction:               *)
(*   int32      32-bit integers: Interlocked functions                     *)
(*   int64      64-bit integers on 32 bits, _WIN32_WINNT >= 0x0601         *)
(*   int64_asm  the same before that: loops around cmpxchg8b               *)
(***************************************************************************)
EXTENDS Integers

CONSTANTS
  AtomicThreads, \* the threads that use the word
  Half,          \* the number of values of half a word
  Offset,        \* the operand of += and -=, or sizeof(T) where T* is moved
  NewValue,      \* the operand of exchange and compare_and_set
  Expected,      \* what compare_and_set expects
  Functor        \* the functor of operator()

ASSUME HalfAssumption == Half \in Nat \ {0}

Words == 0..(Half * Half - 1)
Wrap(n) == n % (Half * Half)

ASSUME OperandAssumption ==
  /\ Offset \in Words /\ NewValue \in Words /\ Expected \in Words
  /\ Functor \in [Words -> Words]

VARIABLES
  word,  \* data
  build, \* which of the builds it is
  call   \* the operator each thread is in, how far, what it has read, or has returned last
atomicVars == <<word, build, call>>

(* The operators: the function each calls, with its operand, and what it   *)
(* adds to the function's result.  Those of atomic_pointer are += and -=.  *)
Operator(o) ==
  CASE o = "x++" -> [function |-> "increment", operand |-> 1, plus |-> 0]
    [] o = "++x" -> [function |-> "increment", operand |-> 1, plus |-> 1]
    [] o = "x--" -> [function |-> "decrement", operand |-> -1, plus |-> 0]
    [] o = "--x" -> [function |-> "decrement", operand |-> -1, plus |-> -1]
    [] o = "+="  -> [function |-> "add", operand |-> Offset, plus |-> Offset]
    [] o = "-="  -> [function |-> "add", operand |-> -Offset, plus |-> -Offset]
    [] o = "p++" -> [function |-> "add", operand |-> Offset, plus |-> 0]
    [] o = "p--" -> [function |-> "add", operand |-> -Offset, plus |-> 0]
    [] OTHER     -> [function |-> o, operand |-> 0, plus |-> 0]
Operators == {"x++", "++x", "x--", "--x", "+=", "-=", "p++", "p--", "exchange", "compare_and_set", "functor", "load"}

(* The word that a call of o makes of w. *)
After(o, w) ==
  CASE o = "exchange"        -> NewValue
    [] o = "compare_and_set" -> IF w = Expected THEN NewValue ELSE w
    [] o = "functor"         -> Functor[w]
    [] o = "load"            -> w
    [] OTHER                 -> Wrap(w + Operator(o).operand)

(* What a call returns that has found w: whether it has set the word, or   *)
(* what its function returned and what the operator adds to that.  The     *)
(* functions return the original value, but for InterlockedIncrement and   *)
(* InterlockedDecrement, which return the new one.                         *)
Returned(o, original) ==
  IF o = "compare_and_set" THEN (IF original = Expected THEN 1 ELSE 0) ELSE Wrap(original + Operator(o).plus)
Interlocked(o) == build # "int64_asm" /\ Operator(o).function \in {"increment", "decrement"}
Result(o, w) == Returned(o, IF Interlocked(o) THEN w + Operator(o).operand ELSE w)

Idle(result) == [op |-> "none", pc |-> "idle", low |-> 0, high |-> 0, result |-> result]
AtomicInit ==
  /\ word \in Words
  /\ build \in {"int32", "int64", "int64_asm"}
  /\ call = [t \in AtomicThreads |-> Idle(0)]

-----------------------------------------------------------------------------
(* What is one instruction: a load of 32 bits, every compare-and-set, and  *)
(* the Interlocked functions.                                              *)
OneStep(o) ==
  CASE o = "functor"         -> FALSE
    [] o = "load"            -> build = "int32"
    [] o = "compare_and_set" -> TRUE
    [] OTHER                 -> build # "int64_asm"

Started(o) == [op |-> o, pc |-> IF OneStep(o) THEN "once" ELSE "read", low |-> 0, high |-> 0, result |-> 0]
Begin(t, o) ==
  /\ call[t].pc = "idle"
  /\ call' = [call EXCEPT ![t] = Started(o)]
  /\ UNCHANGED <<word, build>>

(* The call takes effect and returns; w is the word it has found.          *)
Finish(t, w) == call' = [call EXCEPT ![t] = Idle(Result(call[t].op, w))]

Once(t) ==
  /\ call[t].pc = "once"
  /\ word' = After(call[t].op, word)
  /\ Finish(t, word)
  /\ UNCHANGED build

(* The loops read the word first, a 64-bit word by halves: the assembler   *)
(* the low one first, the compiler either.                                 *)
ReadWord(t) ==
  /\ build = "int32" /\ call[t].pc = "read"
  /\ call' = [call EXCEPT ![t].pc = "try", ![t].low = word % Half, ![t].high = word \div Half]
  /\ UNCHANGED <<word, build>>
ReadLow(t) ==
  /\ build # "int32" /\ call[t].pc \in {"read", "lacks_low"}
  /\ call' = [call EXCEPT ![t].low = word % Half, ![t].pc = IF @ = "read" THEN "lacks_high" ELSE "try"]
  /\ UNCHANGED <<word, build>>
InAssembler(t) == build = "int64_asm" /\ call[t].op \in {"x++", "++x", "x--", "--x", "exchange"}
ReadHigh(t) ==
  /\ build # "int32" /\ call[t].pc \in {"read", "lacks_high"}
  /\ call[t].pc = "read" => ~InAssembler(t)
  /\ call' = [call EXCEPT ![t].high = word \div Half, ![t].pc = IF @ = "read" THEN "lacks_low" ELSE "try"]
  /\ UNCHANGED <<word, build>>

HasRead(c) == c.low + Half * c.high

(* Wrong: the comparison is of eax alone.                                  *)
Unchanged_Low(c, w) == c.low = w % Half
Unchanged(c, w) == HasRead(c) = w

(* cmpxchg8b, or the compare-and-set of the loops in C++: both end with    *)
(* the value that was read, which is what they return.                     *)
Try(t) ==
  /\ call[t].pc = "try" /\ call[t].op # "load" /\ Unchanged(call[t], word)
  /\ word' = After(call[t].op, HasRead(call[t]))
  /\ Finish(t, HasRead(call[t]))
  /\ UNCHANGED build

(* cmpxchg8b leaves the word in edx:eax, which ++ and -- go on with; the   *)
(* other loops read it anew.                                               *)
TryFails(t) ==
  /\ call[t].pc = "try" /\ call[t].op # "load" /\ ~Unchanged(call[t], word)
  /\ call' = IF InAssembler(t) /\ call[t].op # "exchange"
             THEN [call EXCEPT ![t].low = word % Half, ![t].high = word \div Half]
             ELSE [call EXCEPT ![t] = Started(call[t].op)]
  /\ UNCHANGED <<word, build>>

(* operator T: what has been read, of a 64-bit word perhaps two halves     *)
(* that it never had together.                                             *)
LoadWord(t) ==
  /\ call[t].pc = "try" /\ call[t].op = "load"
  /\ Finish(t, HasRead(call[t]))
  /\ UNCHANGED <<word, build>>

AtomicStep(t) ==
  \/ \E o \in Operators : Begin(t, o)
  \/ Once(t) \/ ReadWord(t) \/ ReadLow(t) \/ ReadHigh(t) \/ Try(t) \/ TryFails(t) \/ LoadWord(t)
AtomicNext == \E t \in AtomicThreads : AtomicStep(t)

AtomicSpec == AtomicInit /\ [][AtomicNext]_atomicVars

-----------------------------------------------------------------------------
Ends(t) == call[t].pc # "idle" /\ call'[t].pc = "idle"

(* The integer "supports atomic operations" (atomic_integer.hpp:47): the   *)
(* word changes only when a call ends, as that call would change it alone, *)
(* and the call returns what its comment promises, though the loops have   *)
(* read the word long before, and in halves.  Excepted are what loads      *)
(* return, and ++ and -- where they are Interlocked functions.             *)
CallsAreAtomic ==
  [][ /\ word' # word => \E t \in AtomicThreads : Ends(t)
      /\ \A t \in AtomicThreads : Ends(t) /\ call[t].op # "load" =>
           /\ word' = After(call[t].op, word)
           /\ ~Interlocked(call[t].op) => call'[t].result = Returned(call[t].op, word) ]_atomicVars

(* What the comments promise of the increments and decrements of every     *)
(* build (atomic_type_vc.hpp:86, 92, 98 and 121): the function "increments *)
(* and returns the original value", so that x++ is the value the word had  *)
(* and ++x one more.                                                       *)
OriginalReturned ==
  [][ \A t \in AtomicThreads : Ends(t) /\ Operator(call[t].op).function \in {"increment", "decrement"} =>
        call'[t].result = Returned(call[t].op, word) ]_atomicVars
=============================================================================
