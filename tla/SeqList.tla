------------------------------ MODULE SeqList -------------------------------
(***************************************************************************)
(* What libdeskbar/list.c promises the plugin host: a sequence to whose    *)
(* end elements are added and from which any element can be taken, and a   *)
(* pass over it that hands every element it started with to a function,    *)
(* first to last, which may take out the element it is given.              *)
(***************************************************************************)
EXTENDS Sequences, Functions

CONSTANTS Data, NULL

VARIABLES
  list,    \* the elements
  handed,  \* of a pass: the element handed over, NULL outside of it
  ahead    \* of a pass: the elements it has still to hand over

vars == << list, handed, ahead >>

Init == list = << >> /\ handed = NULL /\ ahead = << >>

Add(d) ==
  /\ handed = NULL /\ d \notin Range(list)
  /\ list' = Append(list, d)
  /\ UNCHANGED << handed, ahead >>

TakeOut(d) ==
  /\ handed \in {NULL, d}
  /\ \E j \in DOMAIN list :
       /\ list[j] = d
       /\ list' = SubSeq(list, 1, j - 1) \o SubSeq(list, j + 1, Len(list))
  /\ UNCHANGED << handed, ahead >>

Begin ==
  /\ handed = NULL /\ list # << >>
  /\ handed' = Head(list) /\ ahead' = Tail(list)
  /\ UNCHANGED list

HandOver ==
  /\ handed # NULL /\ ahead # << >>
  /\ handed' = Head(ahead) /\ ahead' = Tail(ahead)
  /\ UNCHANGED list

Finish ==
  /\ handed # NULL /\ ahead = << >>
  /\ handed' = NULL
  /\ UNCHANGED << list, ahead >>

(* The program ends: nobody looks at the list any more.                    *)
End == list' = << >> /\ handed' = NULL /\ ahead' = << >>

Next ==
  \/ \E d \in Data : Add(d) \/ TakeOut(d)
  \/ Begin \/ HandOver \/ Finish \/ End

Spec == Init /\ [][Next]_vars
=============================================================================
