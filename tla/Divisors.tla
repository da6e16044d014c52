------------------------------ MODULE Divisors ------------------------------
(***************************************************************************)
(* Divisibility on natural numbers: the vocabulary in which the interval   *)
(* arithmetic of deskbar/plug.c is specified.  Nothing here is code; it is *)
(* the reference definition the loop of get_gcd is compared with.          *)
(***************************************************************************)
EXTENDS Integers

Divides(d, n) == \E k \in 0 .. n : n = d * k

CommonDivisor(d, m, n) == Divides(d, m) /\ Divides(d, n)

(***************************************************************************)
(* The greatest common divisor of two positive numbers.                    *)
(***************************************************************************)
IsGcd(g, m, n) ==
  /\ g \in 1 .. m
  /\ CommonDivisor(g, m, n)
  /\ \A d \in 1 .. m : CommonDivisor(d, m, n) => d <= g

GreatestDivisor(m, n) == CHOOSE g \in 1 .. m : IsGcd(g, m, n)
=============================================================================
