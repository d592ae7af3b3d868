------------------------------- MODULE Varint -------------------------------
(***************************************************************************)
(* The varints of lugce/gprotocol/gprotocol_common.hpp, with the size of   *)
(* their groups and the width of the integers as parameters: in the code a *)
(* byte holds a group of 7 bits, Base = 128, and Modulus is 2^16, 2^32 or  *)
(* 2^64.  A byte is a number below 2 * Base; Base is its continuation bit. *)
(***************************************************************************)
EXTENDS Integers, Sequences

CONSTANTS
  Base,     \* 0x80
  Modulus,  \* 2^w for an integer of w bits
  Longest   \* the bytes a varint may have: `m > 128' holds after 19

ASSUME VarintAssumption ==
  /\ Base \in Nat /\ Base > 1 /\ Longest \in Nat
  /\ Modulus \in Nat /\ Modulus > 3 /\ Modulus % 4 = 0

Signed == -(Modulus \div 2) .. (Modulus \div 2) - 1
Unsigned == 0 .. Modulus - 1

(* Wrong: the values that need another group are those above 0x81. *)
More_TwoAbove(x) == x > Base + 1
More(x) == x > Base

(* save of an unsigned value. *)
SaveUnsigned[x \in Nat] ==
  IF More(x) THEN <<Base + (x % Base)>> \o SaveUnsigned[x \div Base] ELSE <<x>>

(* (v << 1) ^ (v >> s), in the unsigned type.                              *)
ZigZag(v) == IF v < 0 THEN -2 * v - 1 ELSE 2 * v

(* Back again in the signed type, where >> keeps the sign: the value that  *)
(* was read is v - 2^w when its top bit is set.                            *)
UnZigZag(u) ==
  LET half == (IF u < Modulus \div 2 THEN u ELSE u - Modulus) \div 2
  IN  IF u % 2 = 1 THEN -half - 1 ELSE half

(* No integer has a code that is too long: 10 bytes hold 64 bits. *)
ASSUME LongestAssumption == \A v \in Unsigned : Len(SaveUnsigned[v]) <= Longest

Save(v, signed) == SaveUnsigned[IF signed THEN ZigZag(v) ELSE v]

(* load: the bytes of data from p on are taken until one has no            *)
(* continuation bit, the data ends, or there are too many.  A group is     *)
(* or-ed at its place; what is beyond the width vanishes.  (Line 116 is    *)
(* undefined for a shift by the width or more, which takes more bytes than *)
(* save writes; the properties claim nothing of such bytes.)               *)
Took(v, p, eof, bad) == [v |-> v, p |-> p, eof |-> eof, bad |-> bad]
LoadUnsigned(data, from) ==
  LET last == {k \in from..Len(data) : data[k] < Base \/ k - from + 1 >= Longest}
      to == IF last = {} THEN Len(data) ELSE CHOOSE k \in last : \A l \in last : k <= l
      value[k \in Nat] ==  \* of the groups from k on
        IF k > to THEN 0 ELSE ((data[k] % Base) + Base * value[k + 1]) % Modulus
  IN  Took(value[from], to + 1, last = {}, last # {} /\ data[to] >= Base)

Load(data, from, signed) ==
  LET r == LoadUnsigned(data, from)
  IN  IF signed THEN [r EXCEPT !.v = UnZigZag(@)] ELSE r

-----------------------------------------------------------------------------
(* The values that save cuts short: some group, with all that is above it, *)
(* is exactly Base, which `x > 0x80' (line 93) takes for a last byte.      *)
Clipped[v \in Nat] == v = Base \/ (v > Base /\ Clipped[v \div Base])

(* The signed values whose code does not reach the top bit.                *)
Short == -(Modulus \div 4) .. (Modulus \div 4) - 1

(* What save and load keep.                                                *)
Kept(v, signed) == IF signed THEN v \in Short /\ ~Clipped[ZigZag(v)] ELSE ~Clipped[v]
=============================================================================
