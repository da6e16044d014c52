------------------------------- MODULE DList --------------------------------
(***************************************************************************)
(* The doubly linked list of libdeskbar/list.c, pointer by pointer, used   *)
(* as deskbar/plug.c uses pluglist: db_plug_load inserts, safe_call        *)
(* removes an element in the middle of the db_list_foreach that updates    *)
(* the plugins, and the handler of a terminating signal walks the list and *)
(* destroys it, at whatever statement the signal came.                     *)
(*                                                                         *)
(* Every assignment another frame can see is a step of its own.  A handler *)
(* ends in exit, so the frames it interrupts never run on: a second signal *)
(* of another kind simply starts over on the list as the first left it.    *)
(***************************************************************************)
EXTENDS Integers, FiniteSets, Sequences

CONSTANTS
  Nodes,      \* memory for DbListElement structs
  Data,       \* what the list is given: DbPlugElement structs
  NULL,
  MaxSignals  \* bound: terminating signals

ASSUME DListAssumption ==
  /\ NULL \notin Nodes \cup Data
  /\ IsFiniteSet(Nodes)
  /\ MaxSignals \in Nat

VARIABLES
  pc,
  first, last, elements,   \* the DbList
  next, prev, data,        \* node -> its fields
  nodes,    \* nodes that are allocated
  payload,  \* data that is allocated
  freed,    \* has the DbList itself been freed?
  cur,      \* the element of db_list_insert or db_list_remove
  wcur,     \* cur of db_list_foreach, NULL outside of it
  wnext,    \* next of db_list_foreach
  hcur,     \* cur of the handler's db_list_foreach and db_list_destroy
  bad,      \* freed memory has been used
  signals,  \* history: number of signals so far
  late      \* history: a signal came when the one before had begun to free

links == << first, last, elements, next, prev, data, nodes >>
vars  == << pc, links, payload, freed, cur, wcur, wnext, hcur, bad, signals, late >>

Handler == {"notify", "destroy", "release", "exit"}

Init ==
  /\ pc = "idle"
  /\ first = NULL /\ last = NULL /\ elements = 0
  /\ next = [e \in Nodes |-> NULL] /\ prev = [e \in Nodes |-> NULL]
  /\ data = [e \in Nodes |-> NULL]
  /\ nodes = {} /\ payload = {} /\ freed = FALSE
  /\ cur = NULL /\ wcur = NULL /\ wnext = NULL /\ hcur = NULL
  /\ bad = FALSE /\ signals = 0 /\ late = FALSE

(* A step of the program proper; the handler's registers are its own.      *)
Program == UNCHANGED << freed, hcur, bad, signals, late >>

Go(from, to) == pc = from /\ pc' = to

-----------------------------------------------------------------------------
(* db_list_insert                                                          *)

Insert(d) ==
  /\ Go("idle", "link") /\ wcur = NULL
  /\ d \notin payload
  /\ payload' = payload \cup {d}
  /\ cur' \in Nodes \ nodes
  /\ nodes' = nodes \cup {cur'}
  /\ data' = [data EXCEPT ![cur'] = d]
  /\ prev' = [prev EXCEPT ![cur'] = NULL]
  /\ next' = [next EXCEPT ![cur'] = NULL]
  /\ UNCHANGED << first, last, elements, wcur, wnext >> /\ Program

(* if (!list->first)                                                       *)
LinkFirst ==
  /\ Go("link", "last") /\ first = NULL
  /\ first' = cur
  /\ UNCHANGED << last, elements, next, prev, data, nodes, payload, cur, wcur, wnext >>
  /\ Program

LinkBehind ==
  /\ Go("link", "back") /\ first # NULL
  /\ next' = [next EXCEPT ![last] = cur]
  /\ UNCHANGED << first, last, elements, prev, data, nodes, payload, cur, wcur, wnext >>
  /\ Program

LinkBack ==
  /\ Go("back", "last")
  /\ prev' = [prev EXCEPT ![cur] = last]
  /\ UNCHANGED << first, last, elements, next, data, nodes, payload, cur, wcur, wnext >>
  /\ Program

SetLast ==
  /\ Go("last", "count")
  /\ last' = cur
  /\ UNCHANGED << first, elements, next, prev, data, nodes, payload, cur, wcur, wnext >>
  /\ Program

Count ==
  /\ Go("count", "idle")
  /\ elements' = elements + 1
  /\ cur' = NULL
  /\ UNCHANGED << first, last, next, prev, data, nodes, payload, wcur, wnext >>
  /\ Program

-----------------------------------------------------------------------------
(* The nodes from e on, along succ; a circle is cut after every node once. *)
Path(succ, e) ==
  LET walk[k \in 0 .. Cardinality(Nodes)] ==
        IF k = 0 THEN << >>
        ELSE LET s == walk[k - 1]
                 n == IF s = << >> THEN e ELSE succ[s[Len(s)]]
             IN  IF n = NULL THEN s ELSE Append(s, n)
  IN  walk[Cardinality(Nodes)]

Chain(e) == Path(next, e)

Contents(e) == [k \in DOMAIN Chain(e) |-> data[Chain(e)[k]]]

(* db_list_remove: the search, outside a pass or for the element the pass  *)
(* has handed to its function.                                             *)
Remove(d) ==
  /\ Go("idle", "unlink")
  /\ wcur # NULL => data[wcur] = d
  /\ \E k \in DOMAIN Chain(first) :
       /\ data[Chain(first)[k]] = d
       /\ cur' = Chain(first)[k]
  /\ UNCHANGED << links, payload, wcur, wnext >> /\ Program

(* list->first == list->last                                               *)
UnlinkOnly ==
  /\ Go("unlink", "unlast") /\ first = last
  /\ first' = NULL
  /\ UNCHANGED << last, elements, next, prev, data, nodes, payload, cur, wcur, wnext >>
  /\ Program

UnsetLast ==
  /\ Go("unlast", "data")
  /\ last' = NULL
  /\ UNCHANGED << first, elements, next, prev, data, nodes, payload, cur, wcur, wnext >>
  /\ Program

(* !cur->prev                                                              *)
MutBeheaded(e) == e
Beheaded(e) == next[e]

UnlinkHead ==
  /\ Go("unlink", "unprev") /\ first # last /\ prev[cur] = NULL
  /\ first' = Beheaded(cur)
  /\ UNCHANGED << last, elements, next, prev, data, nodes, payload, cur, wcur, wnext >>
  /\ Program

(* !cur->next                                                              *)
UnlinkTail ==
  /\ Go("unlink", "unnext")
  /\ first # last /\ prev[cur] # NULL /\ next[cur] = NULL
  /\ last' = prev[cur]
  /\ UNCHANGED << first, elements, next, prev, data, nodes, payload, cur, wcur, wnext >>
  /\ Program

UnsetNext ==
  /\ Go("unnext", "data")
  /\ next' = [next EXCEPT ![prev[cur]] = NULL]
  /\ UNCHANGED << first, last, elements, prev, data, nodes, payload, cur, wcur, wnext >>
  /\ Program

(* cur->prev && cur->next                                                  *)
UnlinkMiddle ==
  /\ Go("unlink", "unprev")
  /\ first # last /\ prev[cur] # NULL /\ next[cur] # NULL
  /\ next' = [next EXCEPT ![prev[cur]] = next[cur]]
  /\ UNCHANGED << first, last, elements, prev, data, nodes, payload, cur, wcur, wnext >>
  /\ Program

(* cur->next->prev: NULL at the head, cur->prev in the middle.             *)
MutBackKept(e) == prev
Bypassed(e) == [prev EXCEPT ![next[e]] = prev[e]]

UnsetPrev ==
  /\ Go("unprev", "data")
  /\ prev' = Bypassed(cur)
  /\ UNCHANGED << first, last, elements, next, data, nodes, payload, cur, wcur, wnext >>
  /\ Program

(* The destructor, free (cur) and list->elements--.                        *)
OneLess(n)  == n - 1

FreeData ==
  /\ Go("data", "node")
  /\ payload' = payload \ {data[cur]}
  /\ UNCHANGED << links, cur, wcur, wnext >> /\ Program

FreeNode ==
  /\ Go("node", "uncount")
  /\ nodes' = nodes \ {cur}
  /\ UNCHANGED << first, last, elements, next, prev, data, payload, cur, wcur, wnext >>
  /\ Program

Uncount ==
  /\ Go("uncount", "idle")
  /\ elements' = OneLess(elements)
  /\ cur' = NULL
  /\ UNCHANGED << first, last, next, prev, data, nodes, payload, wcur, wnext >>
  /\ Program

-----------------------------------------------------------------------------
(* db_list_foreach over update_plug.                                       *)

(* cur = ...; next = cur->next, and the function is called with the data.  *)
Enter(e) ==
  /\ wcur' = e
  /\ wnext' = IF e = NULL THEN NULL ELSE next[e]
  /\ bad' = (bad \/ (e # NULL /\ (e \notin nodes \/ data[e] \notin payload)))

Foreach ==
  /\ pc = "idle" /\ wcur = NULL /\ first # NULL
  /\ Enter(first)
  /\ UNCHANGED << pc, links, payload, freed, cur, hcur, signals, late >>

(* The function has returned, having removed the element or not; what cur  *)
(* goes on with was read before the call.                                  *)
Following == wnext

Step ==
  /\ pc = "idle" /\ wcur # NULL
  /\ Enter(Following)
  /\ UNCHANGED << pc, links, payload, freed, cur, hcur, signals, late >>

-----------------------------------------------------------------------------
(* A terminating signal: db_plug_unload_all.                               *)

Signal ==
  /\ pc # "exited" /\ signals < MaxSignals
  /\ signals' = signals + 1
  /\ late' = (late \/ pc \in {"release", "exit"}
                   \/ (pc = "destroy" /\ hcur # first))
  /\ bad' = (bad \/ freed)
  /\ pc' = "notify" /\ hcur' = first
  /\ UNCHANGED << links, payload, freed, cur, wcur, wnext >>

(* What the handler reads is there.                                        *)
Intact(e) == e \in nodes /\ data[e] \in payload

(* db_list_foreach (pluglist, destroy_plug), up to its end.                *)
Notify ==
  /\ pc = "notify"
  /\ IF hcur = NULL
     THEN pc' = "destroy" /\ hcur' = first /\ UNCHANGED bad
     ELSE hcur' = next[hcur] /\ bad' = (bad \/ ~Intact(hcur)) /\ UNCHANGED pc
  /\ UNCHANGED << links, payload, freed, cur, wcur, wnext, signals, late >>

(* db_list_destroy: the destructor of an element, and its node.            *)
Destroy ==
  /\ pc = "destroy" /\ hcur # NULL
  /\ pc' = "release"
  /\ bad' = (bad \/ ~Intact(hcur))
  /\ payload' = payload \ {data[hcur]}
  /\ UNCHANGED << links, freed, cur, wcur, wnext, hcur, signals, late >>

Release ==
  /\ pc = "release"
  /\ pc' = "destroy"
  /\ nodes' = nodes \ {hcur}
  /\ elements' = OneLess(elements)
  /\ hcur' = next[hcur]
  /\ UNCHANGED << first, last, next, prev, data, payload, freed, cur, wcur,
                  wnext, bad, signals, late >>

FreeList ==
  /\ pc = "destroy" /\ hcur = NULL
  /\ pc' = "exit"
  /\ bad' = (bad \/ freed)
  /\ freed' = TRUE
  /\ UNCHANGED << links, payload, cur, wcur, wnext, hcur, signals, late >>

Exit ==
  /\ Go("exit", "exited")
  /\ UNCHANGED << links, payload, freed, cur, wcur, wnext, hcur, bad, signals, late >>

Exited == pc = "exited" /\ UNCHANGED vars

-----------------------------------------------------------------------------
Next ==
  \/ \E d \in Data : Insert(d) \/ Remove(d)
  \/ LinkFirst \/ LinkBehind \/ LinkBack \/ SetLast \/ Count
  \/ UnlinkOnly \/ UnsetLast \/ UnlinkHead \/ UnlinkTail \/ UnsetNext
  \/ UnlinkMiddle \/ UnsetPrev \/ FreeData \/ FreeNode \/ Uncount
  \/ Foreach \/ Step
  \/ Signal \/ Notify \/ Destroy \/ Release \/ FreeList \/ Exit
  \/ Exited

Spec == Init /\ [][Next]_vars

-----------------------------------------------------------------------------
(* Every variable holds a value of its type.                               *)
Ref == Nodes \cup {NULL}

TypeOK ==
  /\ pc \in {"idle", "link", "back", "last", "count", "unlink", "unlast",
             "unprev", "unnext", "data", "node", "uncount", "exited"} \cup Handler
  /\ first \in Ref /\ last \in Ref /\ elements \in Int
  /\ elements <= Cardinality(Nodes)
  /\ next \in [Nodes -> Ref] /\ prev \in [Nodes -> Ref]
  /\ data \in [Nodes -> Data \cup {NULL}]
  /\ nodes \subseteq Nodes /\ payload \subseteq Data /\ freed \in BOOLEAN
  /\ cur \in Ref /\ wcur \in Ref /\ wnext \in Ref /\ hcur \in Ref
  /\ bad \in BOOLEAN /\ signals \in 0 .. MaxSignals /\ late \in BOOLEAN

(***************************************************************************)
(* Between two calls both directions of the list agree, its ends and its   *)
(* count are right, and nothing is allocated that is not in the list.      *)
(***************************************************************************)
WellLinked ==
  /\ TypeOK
  /\ LET c == Chain(first)
     IN  pc = "idle" =>
           /\ Len(c) = elements
           /\ nodes = {c[k] : k \in DOMAIN c} /\ Cardinality(nodes) = Len(c)
           /\ payload = {data[c[k]] : k \in DOMAIN c}
           /\ last = IF c = << >> THEN NULL ELSE c[Len(c)]
           /\ \A k \in DOMAIN c : prev[c[k]] = IF k = 1 THEN NULL ELSE c[k - 1]

(***************************************************************************)
(* At whatever statement of an insertion, a removal or a pass the first    *)
(* signal comes, the handler finds a list it can walk and destroy: freed   *)
(* memory is used only if another signal interrupts the destruction.  In   *)
(* particular a pass survives the removal of the element it is at.         *)
(***************************************************************************)
IntactUntilLate == bad => late

(***************************************************************************)
(* What is left when the first handler is done is at most the element that *)
(* was being inserted or removed.                                          *)
(***************************************************************************)
OneLeftAtMost ==
  pc = "exited" /\ ~bad => nodes \subseteq {cur} /\ payload \subseteq {data[n] : n \in nodes}

-----------------------------------------------------------------------------
(* The list is a sequence, and a pass is over the sequence it began with.  *)
(* Once a signal has come there is only the unloading.                     *)
Seqs == INSTANCE SeqList WITH
  list   <- IF signals > 0 THEN << >> ELSE Contents(first),
  handed <- IF signals > 0 \/ wcur = NULL THEN NULL ELSE data[wcur],
  ahead  <- IF signals > 0 THEN << >> ELSE Contents(wnext)

ActsLikeSeqList == Seqs!Spec
=============================================================================
