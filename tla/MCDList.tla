------------------------------ MODULE MCDList -------------------------------
(* Instances of DList for TLC.                                             *)
EXTENDS DList
=============================================================================
