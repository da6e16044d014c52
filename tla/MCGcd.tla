------------------------------- MODULE MCGcd --------------------------------
(* get_gcd over every pair of 6-bit ints.                                  *)
EXTENDS Gcd

MCWritten == Word
=============================================================================
