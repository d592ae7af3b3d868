------------------------------- MODULE Version -------------------------------
(***************************************************************************)
(* lugce/version.hpp: four numbers of 16 bits, read from text and printed. *)
(* A text is a sequence of characters.                                     *)
(***************************************************************************)
EXTENDS Integers, Sequences, SequencesExt

CONSTANTS
  VersionTexts, \* the texts that versions are constructed from
  VersionParts  \* the numbers that they are constructed from

VARIABLE version  \* the four numbers, and whether the constructor has thrown

Decimals == <<"0", "1", "2", "3", "4", "5", "6", "7", "8", "9">>

(* c2i *)
IsDigit(c) == c \in ToSet(Decimals)
DigitValue(c) == CHOOSE n \in 0..9 : Decimals[n + 1] = c

(* Separators are alike, and three at most.                                *)
Fits(at, c) == c \in {".", ",", "_"} /\ at.schar \in {"", c} /\ at.x < 4

ParseMark(at, c) == IF Fits(at, c) THEN [at EXCEPT !.schar = c, !.x = @ + 1] ELSE [at EXCEPT !.thrown = TRUE]

(* One turn of the loop, which a space ends: a digit moves the number      *)
(* eight bits up instead of ten times (line 93).                           *)
ParseDigit(at, c) == [at EXCEPT !.data[at.x] = (@ * 256 + DigitValue(c)) % 65536]
ParseNextChar(at, c) ==
  IF at.ended \/ at.thrown THEN at
  ELSE IF c = "SP" THEN [at EXCEPT !.ended = TRUE]
  ELSE IF IsDigit(c) THEN ParseDigit(at, c) ELSE ParseMark(at, c)
ParseVersion(text) ==
  LET at == FoldLeft(ParseNextChar, [data |-> <<0, 0, 0, 0>>, x |-> 1, schar |-> "", ended |-> FALSE, thrown |-> FALSE], text)
  IN  [data |-> at.data, thrown |-> at.thrown]

(* operator <<                                                             *)
NumberIn(n) ==
  LET length == CHOOSE k \in 1..5 : n < 10 ^ k /\ \A j \in 1..(k - 1) : n >= 10 ^ j
  IN  [i \in 1..length |-> Decimals[((n \div 10 ^ (length - i)) % 10) + 1]]
Printed(v) == NumberIn(v[1]) \o <<".">> \o NumberIn(v[2]) \o <<".">> \o NumberIn(v[3]) \o <<".">> \o NumberIn(v[4])

(* operator < compares the first numbers that differ.                      *)
Less(v, w) == \E i \in 1..4 : v[i] < w[i] /\ \A j \in 1..(i - 1) : v[j] = w[j]

-----------------------------------------------------------------------------
NumbersOnly(parts) == [data |-> parts, thrown |-> FALSE]
VersionInit ==
  version \in {ParseVersion(t) : t \in VersionTexts} \cup
              {NumbersOnly(<<a, b, c, d>>) : a \in VersionParts, b \in VersionParts, c \in VersionParts, d \in VersionParts}

-----------------------------------------------------------------------------
(* A version whose numbers have one digit reads back from what is printed  *)
(* of it (version.hpp:120), and whatever is greater than it in some number *)
(* and equal before reads back as greater.                                 *)
VersionReadsBack ==
  ~version.thrown /\ (\A i \in 1..4 : version.data[i] < 10) =>
    /\ ParseVersion(Printed(version.data)) = version
    /\ \A i \in 1..4, n \in VersionParts : n > version.data[i] /\ n < 100 =>
         Less(version.data, ParseVersion(Printed([version.data EXCEPT ![i] = n])).data)
=============================================================================
