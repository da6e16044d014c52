------------------------------ MODULE PlugHost ------------------------------
(***************************************************************************)
(* The plugin host of deskbar: deskbar/plug.c (load, update, eject and     *)
(* unload), the SIGSEGV half of deskbar/sig.c with the setjmp of           *)
(* safe_call, the objects of deskbar/display.c that show a plugin's data,  *)
(* and the order in which main.c, parse_node and db_sig_destroy run them.  *)
(*                                                                         *)
(* The program is one thread.  What makes it hard is that plugins are      *)
(* foreign code which may fault in every callback, that a fault unwinds by *)
(* longjmp through the host, and that a plugin's library, its DbPlug       *)
(* struct, its data buffer and its memory pool are shared by everything    *)
(* that names the same library.                                            *)
(*                                                                         *)
(* An element (DbPlugElement) is named by the number of the configuration  *)
(* node that loaded it, so pluglist, into which db_list_insert only        *)
(* appends, is in the order of those numbers: it is modelled as their set. *)
(* Time is abstracted: in every walk an element may be due or not (module  *)
(* Schedule has the arithmetic).                                           *)
(***************************************************************************)
EXTENDS Divisors, FiniteSets

CONSTANTS
  Libs,         \* shared objects that dlopen can map
  Broken,       \* those whose db_plug_init returns NULL (plugins/bmp.c)
  HasCreate,    \* those whose DbPlug has a create callback,
  HasDestroy,   \* a destroy callback,
  HasData,      \* a data buffer
  Names,        \* what name, id and data attributes may say
  Periods,      \* what an interval attribute may say (0: no number)
  NULL,
  Literal,      \* an object's own strdup'ed value attribute
  MaskRestored, \* does longjmp unblock SIGSEGV?  Not with glibc's setjmp
  MaxNodes,     \* bound: configuration nodes
  MaxFaults     \* bound: faults of plugin code

Elements == 1 .. MaxNodes

ASSUME ConstantsAssumption ==
  /\ Broken \subseteq Libs /\ HasCreate \subseteq Libs
  /\ HasDestroy \subseteq Libs /\ HasData \subseteq Libs
  /\ Libs \subseteq Names
  /\ NULL \notin Names /\ Literal \notin Names /\ NULL # Literal
  /\ Periods \subseteq Nat
  /\ MaskRestored \in BOOLEAN
  /\ MaxNodes \in Nat /\ MaxFaults \in Nat

VARIABLES
  pc,        \* where control is, see Locations
  cur,       \* the element control is at, 0 for none
  nodes,     \* configuration nodes read so far
  libOf,     \* element -> its library (element->handle, element->data)
  idOf,      \* element -> the name it is found by (element->id)
  pluglist,  \* the elements in the list
  refs,      \* library -> dlopen's reference count; mapped while not 0
  period,    \* library -> the interval in its DbPlug struct
  pool,      \* library -> its entry in the memory table: "none",
             \* "empty" (an entry without chunks) or "used"
  interval,  \* the period of the main loop
  shown,     \* what the pointers of the screen objects point at
  segv,      \* SIGSEGV: "armed" or "blocked"
  env,       \* the jmp_buf outside safe_call: "unset" or "stale"
  profile,   \* was -p given?
  todo,      \* history: elements the running walk has still to visit
  faults,    \* history: number of faults of plugin code
  sites      \* history: where plugin code has faulted

list    == << libOf, idOf, pluglist, refs, period, pool, interval >>
fault   == << segv, env, faults, sites >>
vars    == << pc, cur, nodes, list, shown, fault, profile, todo >>

Running  == {"parse", "create", "load_update", "stamp", "idle", "walk",
             "paint", "destroy", "release", "close"}
Dead     == {"killed", "undefined", "hung"}
Halted   == Dead \cup {"exited"}

-----------------------------------------------------------------------------
(* The head of the list, and the element behind e in it; 0 is NULL.        *)
First(S)    == IF S = {} THEN 0 ELSE CHOOSE e \in S : \A f \in S : e <= f
MutBehindSkip(e) == {f \in pluglist : f > e + 1}
MutBehindStay(e) == {f \in pluglist : f >= e}
MutBehindAny(e)  == {f \in Elements : f > e}
Behind(e) == {f \in pluglist : f > e}

(* Begin db_list_foreach (or db_list_destroy) over pluglist.               *)
StartWalk(where, behind) ==
  /\ cur'  = First(pluglist)
  /\ todo' = pluglist
  /\ pc'   = IF pluglist = {} THEN behind ELSE where

(* cur = next; next was saved before the callback ran.  To read it the     *)
(* element must not have been freed by then.                               *)
StepWalk(behind) ==
  /\ cur'  = First(Behind(cur))
  /\ todo' = todo \ {cur}
  /\ pc'   = IF cur \notin pluglist THEN "undefined"
             ELSE IF Behind(cur) = {} THEN behind ELSE pc

(* What a callback of a plugin may do to its memory pool.                  *)
PoolMoves(l) ==
  IF pool[l] = "none" THEN {"none", "empty", "used"} ELSE {"empty", "used"}

(* db_mem_pool_destroy: an entry goes only if it still holds chunks.       *)
MutDropNone(p)  == p
DropPool(p) == IF p = "used" THEN "none" ELSE p

(* dlclose                                                                 *)
MutKeepHandle(l)  == refs
MutCloseTwice(l)  == [refs EXCEPT ![l] = @ - 2]
CloseHandle(l) == [refs EXCEPT ![l] = @ - 1]

(* db_plug_unload, and destroy_data, on an element that is in the list     *)
(* while the plugin's pool is p.                                           *)
Unload(e, p) ==
  /\ pluglist' = pluglist \ {e}
  /\ refs' = CloseHandle(libOf[e])
  /\ pool' = [pool EXCEPT ![libOf[e]] = DropPool(p)]

(* The handler left by longjmp: was the signal unblocked on the way?       *)
MutStillBlocked == "blocked"
AfterCatch == IF MaskRestored THEN "armed" ELSE "blocked"

(* SIGSEGV is raised outside any frame of safe_call.                       *)
StrayFault ==
  /\ pc' = IF segv = "armed" /\ env = "stale" THEN "undefined" ELSE "killed"
  /\ segv' = "blocked"

(* Plugin code has faulted somewhere.                                      *)
CountFault(where) ==
  /\ faults < MaxFaults
  /\ faults' = faults + 1
  /\ sites' = sites \cup {where}

-----------------------------------------------------------------------------
(* safe_call: run a callback of element e under setjmp.                    *)

CallReturns(e) ==
  /\ env' = "stale"
  /\ \E p \in PoolMoves(libOf[e]) : pool' = [pool EXCEPT ![libOf[e]] = p]
  /\ UNCHANGED << segv, faults, sites, libOf, idOf, pluglist, refs, period,
                  interval >>

(* The callback faults and the handler longjmps: safe_call ejects e.       *)
CallCaught(e, where) ==
  /\ segv = "armed"
  /\ CountFault(where)
  /\ env' = "stale"
  /\ segv' = AfterCatch
  /\ \E p \in PoolMoves(libOf[e]) : Unload(e, p)
  /\ UNCHANGED << libOf, idOf, period, interval >>

(* The callback faults while SIGSEGV is blocked: the kernel kills.         *)
CallKilled(where) ==
  /\ segv = "blocked"
  /\ CountFault(where)
  /\ pc' = "killed"
  /\ UNCHANGED << segv, env, list, cur, todo >>

-----------------------------------------------------------------------------
(* Reading the configuration: one action per kind of node, in any order.   *)

Init ==
  /\ pc = "parse" /\ cur = 0 /\ nodes = 0
  /\ libOf = [e \in Elements |-> NULL]
  /\ idOf  = [e \in Elements |-> NULL]
  /\ pluglist = {}
  /\ refs   = [l \in Libs |-> 0]
  /\ period = [l \in Libs |-> 0]
  /\ pool   = [l \in Libs |-> "none"]
  /\ interval = 0
  /\ shown = {}
  /\ segv = "armed" /\ env = "unset" /\ faults = 0 /\ sites = {}
  /\ profile \in BOOLEAN
  /\ todo = {}

NextNode ==
  /\ pc = "parse"
  /\ nodes < MaxNodes
  /\ nodes' = nodes + 1

(* The interval of the main loop once a plugin with interval p joins.      *)
MutLatest(i, p) == p
MutRemainder(i, p) == IF i = 0 THEN p ELSE 0
Fold(i, p) == IF i = 0 THEN p ELSE GreatestDivisor(i, p)

(* get_gcd does not return when one of its arguments is 0.                 *)
FoldHangs(i, p) == i # 0 /\ p = 0

(* db_plug_load up to and including db_list_insert.                        *)
Load(l, id, p) ==
  /\ NextNode
  /\ l \notin Broken
  /\ cur' = nodes'
  /\ libOf' = [libOf EXCEPT ![cur'] = l]
  /\ idOf' = [idOf EXCEPT ![cur'] = id]
  /\ refs' = [refs EXCEPT ![l] = @ + 1]
  /\ period' = [period EXCEPT ![l] = p]
  /\ IF FoldHangs(interval, p)
     THEN pc' = "hung" /\ UNCHANGED << interval, pluglist >>
     ELSE /\ pc' = "create"
          /\ interval' = Fold(interval, p)
          /\ pluglist' = pluglist \cup {cur'}
  /\ UNCHANGED << pool, shown, fault, profile, todo >>

(* dlopen fails, or there is no name attribute: the node has no effect.    *)
LoadFails ==
  /\ NextNode
  /\ UNCHANGED << pc, cur, list, shown, fault, profile, todo >>

(* db_plug_init returns NULL, and the host writes through the pointer.     *)
LoadBroken(l) ==
  /\ NextNode
  /\ l \in Broken
  /\ refs' = [refs EXCEPT ![l] = @ + 1]
  /\ CountFault("entry")
  /\ StrayFault
  /\ UNCHANGED << cur, libOf, idOf, pluglist, period, pool, interval, shown,
                  env, profile, todo >>

(* safe_call (element, element->data->create)                              *)
Create ==
  /\ pc = "create"
  /\ \/ /\ libOf[cur] \notin HasCreate
        /\ pc' = "load_update"
        /\ UNCHANGED << list, fault, cur, todo >>
     \/ /\ libOf[cur] \in HasCreate
        /\ pc' = "load_update"
        /\ CallReturns(cur) \/ CallCaught(cur, "load")
        /\ UNCHANGED << cur, todo >>
     \/ libOf[cur] \in HasCreate /\ CallKilled("load")
  /\ UNCHANGED << nodes, shown, profile >>

(* safe_call (element, element->data->update) of db_plug_load, which does  *)
(* not look at what the call of create returned.                           *)
LoadUpdate ==
  /\ pc = "load_update"
  /\ \/ /\ cur \notin pluglist
        /\ pc' = "undefined"
        /\ UNCHANGED << list, fault, cur, todo >>
     \/ /\ cur \in pluglist
        /\ pc' = "stamp"
        /\ CallReturns(cur) \/ CallCaught(cur, "load")
        /\ UNCHANGED << cur, todo >>
     \/ cur \in pluglist /\ CallKilled("load")
  /\ UNCHANGED << nodes, shown, profile >>

(* element->updated = update + element->data->interval                     *)
Stamp ==
  /\ pc = "stamp"
  /\ pc' = IF cur \in pluglist THEN "parse" ELSE "undefined"
  /\ cur' = 0
  /\ UNCHANGED << nodes, list, shown, fault, profile, todo >>

(* db_plug_get_by_name: the data of the first element with that id.        *)
Lookup(name) ==
  LET found == {e \in pluglist : idOf[e] = name}
  IN  IF found # {} /\ libOf[First(found)] \in HasData
      THEN libOf[First(found)] ELSE NULL

(* db_display_obj_new: an object shows its own text or a plugin's data.    *)
ShowValue ==
  /\ NextNode
  /\ shown' = shown \cup {Literal}
  /\ UNCHANGED << pc, cur, list, fault, profile, todo >>

ShowData(name) ==
  /\ NextNode
  /\ shown' = shown \cup {Lookup(name)}
  /\ UNCHANGED << pc, cur, list, fault, profile, todo >>

-----------------------------------------------------------------------------
(* Drawing: the first time when the configuration has been read, then      *)
(* whenever select times out or the root window is exposed.                *)

Draw ==
  /\ pc \in {"parse", "idle"}
  /\ StartWalk("walk", "paint")
  /\ UNCHANGED << nodes, list, shown, fault, profile >>

(* update_plug on an element that is not due.                              *)
VisitSkip ==
  /\ pc = "walk"
  /\ StepWalk("paint")
  /\ UNCHANGED << nodes, list, shown, fault, profile >>

(* update_plug on an element that is due.                                  *)
VisitUpdate ==
  /\ pc = "walk"
  /\ \/ /\ CallReturns(cur) \/ CallCaught(cur, "draw")
        /\ StepWalk("paint")
     \/ CallKilled("draw")
  /\ UNCHANGED << nodes, shown, profile >>

(* The memory a pointer of a screen object leads to can be read.           *)
Readable(o) == o = Literal \/ (o # NULL /\ refs[o] > 0)

(* draw_objects on every object                                            *)
Paint ==
  /\ pc = "paint"
  /\ IF \A o \in shown : Readable(o)
     THEN pc' = "idle" /\ UNCHANGED segv
     ELSE StrayFault
  /\ UNCHANGED << cur, nodes, list, shown, env, faults, sites, profile, todo >>

-----------------------------------------------------------------------------
(* A terminating signal while the event loop waits: db_sig_destroy.        *)

(* The owners of the entries db_mem_profile prints.                        *)
Profiled == {l \in Libs : pool[l] # "none"}

Quit ==
  /\ pc = "idle"
  /\ IF profile /\ \E l \in Profiled : refs[l] = 0
     THEN StrayFault /\ UNCHANGED << cur, todo >>
     ELSE StartWalk("destroy", "close") /\ UNCHANGED segv
  /\ UNCHANGED << nodes, list, shown, env, faults, sites, profile >>

(* destroy_plug; the callback, if there is one, may use its memory pool.   *)
Destroy ==
  /\ pc = "destroy"
  /\ \/ libOf[cur] \notin HasDestroy /\ pool' = pool
     \/ /\ libOf[cur] \in HasDestroy
        /\ \E p \in PoolMoves(libOf[cur]) : pool' = [pool EXCEPT ![libOf[cur]] = p]
  /\ IF Behind(cur) = {} THEN StartWalk("release", "close")
                         ELSE StepWalk("release")
  /\ UNCHANGED << nodes, libOf, idOf, pluglist, refs, period, interval, shown,
                  fault, profile >>

(* destroy_plug on a plugin whose destroy callback faults.                 *)
DestroyFaults ==
  /\ pc = "destroy"
  /\ libOf[cur] \in HasDestroy
  /\ CountFault("destroy")
  /\ StrayFault
  /\ UNCHANGED << cur, nodes, list, shown, env, profile, todo >>

(* destroy_data and the release of the list element.                       *)
Release ==
  /\ pc = "release"
  /\ Unload(cur, pool[libOf[cur]])
  /\ StepWalk("close")
  /\ UNCHANGED << nodes, libOf, idOf, period, interval, shown, fault, profile >>

(* db_display_destroy, and exit                                            *)
CloseDisplay ==
  /\ pc = "close"
  /\ pc' = "exited"
  /\ shown' = {}
  /\ UNCHANGED << cur, nodes, list, fault, profile, todo >>

Finished == pc \in Halted /\ UNCHANGED vars

-----------------------------------------------------------------------------
Next ==
  \/ \E l \in Libs, p \in Periods, id \in Names : Load(l, id, p)
  \/ LoadFails
  \/ \E l \in Libs : LoadBroken(l)
  \/ Create \/ LoadUpdate \/ Stamp
  \/ ShowValue
  \/ \E name \in Names : ShowData(name)
  \/ Draw \/ VisitSkip \/ VisitUpdate \/ Paint
  \/ Quit \/ Destroy \/ DestroyFaults \/ Release \/ CloseDisplay
  \/ Finished

Spec == Init /\ [][Next]_vars

(* The thread runs, and select times out: the program never just stops.    *)
FairSpec == Spec /\ WF_vars(Next)

-----------------------------------------------------------------------------
(* Every variable holds a value of its type.                               *)
TypeOK ==
  /\ pc \in Running \cup Halted
  /\ cur \in 0 .. MaxNodes /\ nodes \in 0 .. MaxNodes
  /\ libOf \in [Elements -> Libs \cup {NULL}]
  /\ idOf \in [Elements -> Names \cup {NULL}]
  /\ pluglist \subseteq Elements
  /\ refs \in [Libs -> Nat]
  /\ period \in [Libs -> Nat]
  /\ pool \in [Libs -> {"none", "empty", "used"}]
  /\ interval \in Nat
  /\ shown \subseteq Libs \cup {NULL, Literal}
  /\ segv \in {"armed", "blocked"} /\ env \in {"unset", "stale"}
  /\ profile \in BOOLEAN
  /\ todo \subseteq Elements
  /\ faults \in 0 .. MaxFaults
  /\ sites \subseteq {"entry", "load", "draw", "destroy"}

(***************************************************************************)
(* dlopen and dlclose balance: as long as the program is sound, a library  *)
(* has one reference for every listed element that uses it, however many   *)
(* elements name it and whichever of them have been ejected.               *)
(***************************************************************************)
UsersOf(l) == {e \in pluglist : libOf[e] = l}

HandlesMatchElements ==
  pc \notin Dead => \A l \in Libs : refs[l] = Cardinality(UsersOf(l))

(***************************************************************************)
(* db_list_foreach and db_list_destroy visit what they set out to: while   *)
(* a walk is under way it still owes a visit to exactly the listed         *)
(* elements from the cursor on, although update_plug may eject the element *)
(* it stands on; before the objects are painted it owes none.              *)
(***************************************************************************)
EveryElementVisited ==
  /\ pc \in {"walk", "destroy", "release"} =>
       cur \in todo /\ todo = {e \in pluglist : e >= cur}
  /\ pc \in {"paint", "close"} => todo = {}

(***************************************************************************)
(* The main loop's period divides the interval of every listed plugin,     *)
(* also when one library is loaded again with another interval.            *)
(***************************************************************************)
PeriodDividesIntervals ==
  interval > 0 =>
    \A e \in pluglist : Divides(interval, period[libOf[e]])

(***************************************************************************)
(* select is never armed with 0, which makes the event loop spin and draw  *)
(* without a pause, once a plugin with a positive interval has been        *)
(* loaded, whatever is loaded behind it, over it or ejected.               *)
(***************************************************************************)
SpinsOnlyWithoutPlugins ==
  interval = 0 => \A l \in Libs : period[l] = 0

(***************************************************************************)
(* Chunks of plugin memory are rescued: a pool still holds chunks only as  *)
(* long as its plugin's library is mapped, so ejection and exit free what  *)
(* a plugin has allocated.                                                 *)
(***************************************************************************)
PoolsRescued ==
  /\ pc \notin Dead => \A l \in Libs : pool[l] = "used" => refs[l] > 0
  /\ pc = "exited" => \A l \in Libs : refs[l] = 0 /\ pool[l] # "used"

(***************************************************************************)
(* Exactly when the host survives a misbehaving plugin: it goes down only  *)
(* at the second fault, at a fault outside a draw (where safe_call's       *)
(* verdict is ignored or there is no safe_call), when an object is painted *)
(* whose data is gone, or when the memory profile names an ejected plugin. *)
(***************************************************************************)
Contained ==
  pc \in {"killed", "undefined"} =>
    \/ faults > 1
    \/ sites \cap {"entry", "load", "destroy"} # {}
    \/ \E o \in shown : ~Readable(o)
    \/ profile /\ \E l \in Profiled : refs[l] = 0

(***************************************************************************)
(* As long as no plugin has faulted and every data attribute named a       *)
(* plugin that has data, the host never goes down: no pointer it keeps is  *)
(* left behind by its own unloading.                                       *)
(***************************************************************************)
SoundUntilFault ==
  faults = 0 /\ NULL \notin shown => pc \notin {"killed", "undefined"}

(***************************************************************************)
(* With positive intervals, reading the configuration, every draw and the  *)
(* teardown come to an end, faults and ejections included.                 *)
(***************************************************************************)
EveryWalkEnds ==
  pc \in Running \ {"idle"} ~> pc \in (Halted \ {"hung"}) \cup {"idle"}

-----------------------------------------------------------------------------
(* What the documentation promises and the code does not keep.             *)

(* docs/www/index.html: a segmentation fault of a plugin is caught and the *)
(* plugin ejected.  Here: however often plugins fault in draws.            *)
SurvivesRepeatedFaults ==
  sites = {"draw"} /\ shown = {} /\ ~profile => pc # "killed"
=============================================================================
