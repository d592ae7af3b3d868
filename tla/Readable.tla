------------------------------- MODULE Readable -------------------------------
(***************************************************************************)
(* lugce/readable_data.hpp: data of one integer type to hexadecimal text   *)
(* and back.  A text is a sequence of characters.                          *)
(***************************************************************************)
EXTENDS Integers, Sequences, SequencesExt

CONSTANTS
  TypeSizes, \* the sizes in bytes of the integer types
  Data,      \* the values that are written
  Separators \* the characters that a reader may find between digits

VARIABLES
  values,  \* the data, with sizeof(T) and the case of the digits
  hex,     \* its text, in which separators appear
  apart,   \* the separators so far stand between whole values
  read     \* what readable_to_data makes of the text
hexVars == <<values, hex, apart, read>>

LowerDigits == <<"0", "1", "2", "3", "4", "5", "6", "7", "8", "9", "a", "b", "c", "d", "e", "f">>
UpperDigits == <<"0", "1", "2", "3", "4", "5", "6", "7", "8", "9", "A", "B", "C", "D", "E", "F">>

XChar(c, upper) == IF upper THEN UpperDigits[c + 1] ELSE LowerDigits[c + 1]
IsHex(t) == t \in ToSet(LowerDigits) \cup ToSet(UpperDigits)
CharX(t) == CHOOSE c \in 0..15 : t \in {LowerDigits[c + 1], UpperDigits[c + 1]}

(* One value is written from its highest digit down.                       *)
Digits(n, size, upper) == [x \in 1..(2 * size) |-> XChar((n \div 16 ^ (2 * size - x)) % 16, upper)]
DataToString(v) == FlattenSeq([i \in DOMAIN v.data |-> Digits(v.data[i], v.size, v.upper)])

(* A character that is no digit ends a value that has begun.               *)
EndsEarly(at) == at.wcnt > 0

(* One turn of the loop over the text.                                     *)
ReadChar(at, c, size) ==
  LET more == [at EXCEPT !.o = @ * 16 + CharX(c), !.wcnt = @ + 1]
      Stored(s) == [out |-> Append(s.out, s.o), wcnt |-> 0, o |-> 0]
  IN  IF IsHex(c) THEN (IF more.wcnt < 2 * size THEN more ELSE Stored(more))
      ELSE IF EndsEarly(at) THEN Stored(at) ELSE at

(* A value that has begun at the end of the text throws, and those before  *)
(* it have been stored.                                                    *)
ReadableToData(text, size) ==
  LET at == FoldLeft(LAMBDA a, c : ReadChar(a, c, size), [out |-> <<>>, wcnt |-> 0, o |-> 0], text)
  IN  [data |-> at.out, thrown |-> at.wcnt > 0]

-----------------------------------------------------------------------------
HexInit ==
  /\ values \in [data : Data, size : TypeSizes, upper : BOOLEAN]
  /\ hex = DataToString(values)
  /\ apart = TRUE
  /\ read = ReadableToData(hex, values.size)

(* The text gets a separator somewhere, and is read.                       *)
InsertSeparator ==
  /\ Len(hex) < 2 * values.size * Len(values.data) + 2
  /\ \E i \in 0..Len(hex), c \in Separators :
       LET before == Len(SelectSeq(SubSeq(hex, 1, i), IsHex))
       IN  /\ hex' = InsertAt(hex, i + 1, c)
           /\ apart' = (apart /\ before % (2 * values.size) = 0)
           /\ read' = ReadableToData(hex', values.size)
  /\ UNCHANGED values

-----------------------------------------------------------------------------
(* Data comes back from its text (readable_data.hpp:170), in either case   *)
(* and with any separators between the values.                             *)
HexReadsBack == apart => read = [data |-> values.data, thrown |-> FALSE]
=============================================================================
