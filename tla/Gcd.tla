-------------------------------- MODULE Gcd ---------------------------------
(***************************************************************************)
(* get_gcd of deskbar/plug.c: the subtractive loop that folds the interval *)
(* of every loaded plugin into the period of the main loop.                *)
(*                                                                         *)
(* db_plug_load calls it with its static `interval', which is not 0 there, *)
(* and atoi() of whatever the configuration wrote, so the second argument  *)
(* may be any int.  An int is a two's complement word whose largest value  *)
(* is IntMax; the build's subtraction wraps around.                        *)
(***************************************************************************)
EXTENDS Divisors

CONSTANTS
  IntMax,   \* the largest int
  Written   \* the intervals a configuration may write

Word == -(IntMax + 1) .. IntMax

ASSUME IntMaxAssumption == IntMax \in Nat \ {0}
ASSUME WrittenAssumption == Written \subseteq Word

VARIABLES
  x, y,   \* the arguments of the call, kept to state what is returned
  a, b,   \* the parameters, which the loop reuses
  stage   \* "loop", then "done" once the call has returned a

gcdVars == << x, y, a, b, stage >>

-----------------------------------------------------------------------------
GcdInit ==
  /\ x \in Written \ {0}
  /\ y \in Written
  /\ a = x
  /\ b = y
  /\ stage = "loop"

Larger  == IF a < b THEN b ELSE a
Smaller == IF a < b THEN a ELSE b

(* Mutated forms of the subtraction: off by one, never zero, a sign slip,  *)
(* and one that takes an int for unbounded.                                *)
MutDifferenceOff(hi, lo) ==
  IF hi - lo > 2 THEN hi - lo - 1 ELSE hi - lo
MutDifferenceNonzero(hi, lo) ==
  IF hi = lo THEN hi ELSE hi - lo
MutDifferenceSum(hi, lo) ==
  IF hi + lo <= IntMax THEN hi + lo ELSE hi + lo - 2 * (IntMax + 1)

(* c = a - b after the swap; hi >= lo, so it can only overflow upwards.    *)
Difference(hi, lo) ==
  IF hi - lo <= IntMax THEN hi - lo ELSE hi - lo - 2 * (IntMax + 1)

(* One pass of the do-while loop; the loop ends when c is 0.               *)
Iterate ==
  /\ stage = "loop"
  /\ a' = Smaller
  /\ b' = Difference(Larger, Smaller)
  /\ stage' = IF b' = 0 THEN "done" ELSE "loop"
  /\ UNCHANGED << x, y >>

Returned == stage = "done" /\ UNCHANGED gcdVars

GcdNext == Iterate \/ Returned

GcdSpec == GcdInit /\ [][GcdNext]_gcdVars

GcdFairSpec == GcdSpec /\ WF_gcdVars(Iterate)

-----------------------------------------------------------------------------
(* The arguments a sensible configuration produces: two positive periods.  *)
Positive == x > 0 /\ y > 0

(* Every variable holds a value of its type.                               *)
GcdTypeOK ==
  /\ x \in Word /\ y \in Word
  /\ a \in Word /\ b \in Word
  /\ stage \in {"loop", "done"}

(***************************************************************************)
(* Whatever pass the loop is in, the pair it works on has exactly the      *)
(* common divisors of the two arguments: the swap and the subtraction of   *)
(* get_gcd lose none and invent none.                                      *)
(***************************************************************************)
SameDivisors ==
  Positive =>
    \A d \in 1 .. IntMax : CommonDivisor(d, a, b) <=> CommonDivisor(d, x, y)

(***************************************************************************)
(* What get_gcd returns for positive intervals is their greatest common    *)
(* divisor; and for an interval of 0 or below too, where the loop may not  *)
(* end or the subtraction wrap around, it never returns 0, with which      *)
(* select would not wait.                                                  *)
(***************************************************************************)
ReturnsGcd ==
  stage = "done" => /\ a # 0
                    /\ Positive => IsGcd(a, x, y)

(***************************************************************************)
(* For positive intervals no pass of the loop leaves the range of the      *)
(* arguments, so the subtraction never wraps around.                       *)
(***************************************************************************)
NoWrap ==
  Positive => /\ a > 0 /\ b >= 0
              /\ a <= x \/ a <= y
              /\ b <= x \/ b <= y

(* With positive intervals the call of get_gcd returns.                    *)
PositiveReturns == Positive ~> stage = "done"
=============================================================================
