------------------------------- MODULE Amounts -------------------------------
(***************************************************************************)
(* Amounts of money at the JSON boundary.  The program counts paise in     *)
(* integers and writes rupees as floating-point numbers: a number goes     *)
(* through n / 100.0 on its way out and through round(x * 100.0) on its    *)
(* way in.  Floating-point operations round to the nearest number with     *)
(* Precision binary digits (53 for a double), ties to even.                *)
(***************************************************************************)
EXTENDS Integers

CONSTANTS
  Precision,   \* digits of a floating-point number
  MaxScale     \* bound on how small one is

\* A paisa, in rupees, is not too small.
ASSUME AmountsAssumption ==
  /\ Precision \in Nat /\ Precision >= 8
  /\ MaxScale \in Nat /\ MaxScale >= Precision + 6

\* The powers of two.
Pow2[k \in 0..MaxScale] == IF k = 0 THEN 1 ELSE 2 * Pow2[k - 1]

\* a / b to the nearest integer: ties to even, and ties away from zero.
NearestEven(a, b) ==
  LET q == a \div b
      r == a % b
  IN  IF 2 * r > b \/ (2 * r = b /\ q % 2 = 1) THEN q + 1 ELSE q
NearestAway(a, b) == (2 * a + b) \div (2 * b)

\* The floating-point number next to a / b, for a >= 0 and a / b below
\* 2^Precision: it stands for m / 2^k.
Fl(a, b) ==
  IF a = 0 THEN [m |-> 0, k |-> 0]
  ELSE LET k == CHOOSE j \in 0..MaxScale :
                  /\ b * Pow2[Precision - 1] <= a * Pow2[j]
                  /\ a * Pow2[j] < b * Pow2[Precision]
       IN  [m |-> NearestEven(a * Pow2[k], b), k |-> k]

\* to_json writes paise as rupees; the decimal that dump() prints for a double
\* is the shortest that parse() reads as the same double.
ToRupees(paise) == Fl(paise, 100)

\* Mutant of ToPaise: the cast without std::round truncates.
ToPaiseTruncated(x) ==
  LET y == Fl(x.m * 100, Pow2[x.k]) IN y.m \div Pow2[y.k]

\* from_json and demoSend read rupees: the product is rounded to a floating-
\* point number, and that to an integer.
ToPaise(x) ==
  LET y == Fl(x.m * 100, Pow2[x.k]) IN NearestAway(y.m, Pow2[y.k])

\* Up to this many paise every amount has digits enough.
Largest == 100 * Pow2[Precision - 8]
=============================================================================
