----------------------------- MODULE MCSchedule -----------------------------
(* Instances of Schedule for TLC.                                          *)
EXTENDS Schedule

(* A plugin of its own, and two elements of one library.                   *)
MCLibs      == << "cpu", "time", "time" >>
MCIntervals == << 1, 2, 3 >>
=============================================================================
