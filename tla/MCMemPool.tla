----------------------------- MODULE MCMemPool ------------------------------
(* Instances of MemPool for TLC.                                           *)
EXTENDS MemPool, TLC

CONSTANTS p, q, a1, a2, a3

(* Addresses are interchangeable.                                          *)
Symmetry == Permutations(Addrs)
=============================================================================
