------------------------------- MODULE Doubles --------------------------------
(***************************************************************************)
(* The arithmetic of double as C has it where IEEE 754 holds, for numbers  *)
(* that are not negative and never overflow: results are rounded to the    *)
(* nearest double, ties to the even one.                                   *)
(*                                                                         *)
(* A double is modelled by a natural number: how many of the smallest      *)
(* positive double it is.                                                  *)
(***************************************************************************)
EXTENDS Integers

CONSTANTS
  Precision,   \* 2^53: how many significands there are
  One,         \* the double 1, that is 2^1074 of the smallest
  PowersOfTwo  \* bound: those up to one large enough

ASSUME DoublesConstants ==
  /\ Precision \in Nat /\ Precision >= 4 /\ Precision % 2 = 0
  /\ PowersOfTwo \subseteq Nat \ {0}
  /\ \A p \in PowersOfTwo : p = 1 \/ (p % 2 = 0 /\ p \div 2 \in PowersOfTwo)
  /\ \A p, q \in PowersOfTwo : p <= q => q % p = 0
  /\ One \in PowersOfTwo /\ One >= Precision * Precision

-----------------------------------------------------------------------------

\* the distance between doubles where num / den is
Spacing(num, den) ==
  CHOOSE p \in PowersOfTwo :
    /\ num < p * Precision * den
    /\ \A q \in PowersOfTwo : q < p => num >= q * Precision * den

\* the double nearest to num / den
Nearest(num, den) ==
  LET step  == Spacing(num, den)
      below == num \div (step * den)
      rest  == num % (step * den)
      up    == 2 * rest > step * den \/ (2 * rest = step * den /\ below % 2 = 1)
  IN  step * (IF up THEN below + 1 ELSE below)

DoubleOf(n) == Nearest(n * One, 1)  \* of an integer
Times(d, e) == Nearest(d * e, One)
Over(d, e)  == Nearest(d * One, e)

\* What a conversion to an unsigned integer with that many values may yield: it
\* cuts off, and is undefined for a number that is too large.
ToUnsigned(d, values) ==
  IF d \div One < values THEN {d \div One} ELSE 0..values - 1
=============================================================================
