------------------------------- MODULE Words --------------------------------
(***************************************************************************)
(* 32-bit words by their bits: a word is the set of its 1 bits, so that or *)
(* is union, a shift moves every bit, and a conversion to a shorter        *)
(* integer keeps the low ones.                                             *)
(***************************************************************************)
EXTENDS Integers, FiniteSetsExt

AllOnes == 0 .. 31     \* 0xFFFFFFFF

ShiftedLeft(word, n)  == {b + n : b \in word} \intersect AllOnes
ShiftedRight(word, n) == {b - n : b \in {c \in word : c >= n}}
LowBits(word, n)      == {b \in word : b < n}

(* The bits from first to last as a number of their own.                   *)
Field(word, first, last) == LowBits(ShiftedRight(word, first), last - first + 1)

(* The word of a number of at most 16 bits, and back.                      *)
WordOf(n)      == {b \in 0 .. 15 : (n \div 2^b) % 2 = 1}
NumberOf(word) == MapThenSumSet(LAMBDA b : 2^b, word)
=============================================================================
