--------------------------- MODULE PlugHostProofs ---------------------------
(***************************************************************************)
(* The safety of the plugin host, for any set of libraries, any            *)
(* configuration and any number of faults.                                 *)
(*                                                                         *)
(* The inductive invariant IInv adds to the properties of PlugHost where   *)
(* control may be with respect to pluglist (Control), that the books on    *)
(* libraries and pools balance in every state that is not dead (Ledger),   *)
(* and what must have gone wrong before when SIGSEGV is blocked or the     *)
(* element being loaded has left the list (Blame).  At the end, get_gcd.   *)
(***************************************************************************)
EXTENDS PlugHost, Gcd, DivisorProofs

PoolStates == {"none", "empty", "used"}

(* Elements are numbered from 1.                                           *)
LEMMA ElementsAreNumbers ==
  /\ MaxNodes \in Nat
  /\ \A e \in Elements : e \in Nat /\ e > 0 /\ e \in 0 .. MaxNodes
<1>1. MaxNodes \in Nat
  BY ConstantsAssumption
<1> QED
  BY <1>1 DEF Elements

(* The head of a list that is not empty is its least element.              *)
LEMMA FirstIsLeast ==
  ASSUME NEW S \in SUBSET Elements, S # {}
  PROVE  First(S) \in S /\ \A f \in S : First(S) <= f
<1>1. S \in SUBSET Nat
  BY ElementsAreNumbers
<1>2. \E e \in S : \A f \in S : e <= f
  BY <1>1, LeastExists
<1> QED
  BY <1>2 DEF First

(* 0 stands for the end of the list.                                       *)
LEMMA FirstType ==
  ASSUME NEW S \in SUBSET Elements
  PROVE  First(S) \in 0 .. MaxNodes
<1>1. CASE S = {}
  BY <1>1, ConstantsAssumption DEF First
<1>2. CASE S # {}
  <2>1. First(S) \in S
    BY <1>2, FirstIsLeast
  <2> QED
    BY <2>1, ElementsAreNumbers
<1> QED
  BY <1>1, <1>2

-----------------------------------------------------------------------------
(* The books on libraries and their memory pools balance.                  *)
Ledger ==
  /\ refs \in [Libs -> Nat]
  /\ pool \in [Libs -> PoolStates]
  /\ \A l \in Libs : refs[l] = Cardinality(UsersOf(l))
  /\ \A l \in Libs : pool[l] = "used" => refs[l] > 0

(* What the ledger is kept about: the elements and their libraries.        *)
Registry ==
  /\ pluglist \subseteq Elements
  /\ libOf \in [Elements -> Libs \cup {NULL}]
  /\ \A e \in pluglist : libOf[e] \in Libs

(* Finitely many elements use a library: there are only so many nodes.     *)
LEMMA UsersFinite ==
  ASSUME Registry, NEW l
  PROVE  IsFiniteSet(UsersOf(l))
<1>1. IsFiniteSet(Elements)
  BY FS_Interval, ElementsAreNumbers DEF Elements
<1>2. UsersOf(l) \in SUBSET Elements
  BY DEF Registry, UsersOf
<1> QED
  BY <1>1, <1>2, FS_Subset

(* A library somebody uses is mapped.                                      *)
LEMMA UsedIsMapped ==
  ASSUME Registry, Ledger, NEW e \in pluglist
  PROVE  refs[libOf[e]] \in Nat \ {0}
<1>1. UsersOf(libOf[e]) # {}
  BY DEF UsersOf
<1>2. Cardinality(UsersOf(libOf[e])) # 0
  BY <1>1, UsersFinite, FS_EmptySet
<1> QED
  BY <1>2 DEF Ledger, Registry

(* db_plug_unload keeps the books.                                         *)
LEMMA UnloadLedger ==
  ASSUME Registry, Ledger, NEW e \in pluglist, NEW p \in PoolStates,
         Unload(e, p), UNCHANGED libOf
  PROVE  Registry' /\ Ledger'
<1> DEFINE m == libOf[e]
<1>1. m \in Libs /\ refs[m] \in Nat \ {0}
  BY UsedIsMapped DEF Registry
<1>2. Registry'
  BY DEF Unload, Registry
<1>3. refs' = [refs EXCEPT ![m] = @ - 1] /\ refs' \in [Libs -> Nat]
  BY <1>1 DEF Unload, CloseHandle, Ledger
<1>4. pool' = [pool EXCEPT ![m] = DropPool(p)] /\ pool' \in [Libs -> PoolStates]
  BY <1>1 DEF Unload, DropPool, Ledger, PoolStates
<1>5. ASSUME NEW l \in Libs
      PROVE  refs'[l] = Cardinality(UsersOf(l)')
  <2>1. IsFiniteSet(UsersOf(l)) /\ refs[l] = Cardinality(UsersOf(l))
    BY UsersFinite DEF Ledger
  <2>2. CASE l = m
    <3>1. UsersOf(l)' = UsersOf(l) \ {e} /\ e \in UsersOf(l)
      BY <2>2 DEF UsersOf, Unload
    <3>2. Cardinality(UsersOf(l) \ {e}) = Cardinality(UsersOf(l)) - 1
      BY <2>1, <3>1, FS_RemoveElement
    <3> QED
      BY <1>1, <1>3, <2>1, <2>2, <3>1, <3>2 DEF Ledger
  <2>3. CASE l # m
    <3>1. UsersOf(l)' = UsersOf(l)
      BY <2>3 DEF UsersOf, Unload
    <3> QED
      BY <1>3, <2>1, <2>3, <3>1 DEF Ledger
  <2> QED
    BY <2>2, <2>3
<1>6. \A l \in Libs : pool'[l] = "used" => refs'[l] > 0
  <2> TAKE l \in Libs
  <2>1. CASE l = m
    BY <1>1, <1>4, <2>1 DEF DropPool, Ledger, PoolStates
  <2>2. CASE l # m
    BY <1>3, <1>4, <2>2 DEF Ledger
  <2> QED
    BY <2>1, <2>2
<1> QED
  BY <1>2, <1>3, <1>4, <1>5, <1>6 DEF Ledger

(* So does a callback, whether it returns or is ejected.                   *)
LEMMA CallLedger ==
  ASSUME Registry, Ledger, cur \in pluglist, NEW where,
         CallReturns(cur) \/ CallCaught(cur, where)
  PROVE  Registry' /\ Ledger'
<1>1. libOf[cur] \in Libs /\ refs[libOf[cur]] \in Nat \ {0}
  BY UsedIsMapped DEF Registry
<1>2. PoolMoves(libOf[cur]) \subseteq PoolStates
  BY DEF PoolMoves, PoolStates
<1>3. CASE CallReturns(cur)
  <2>1. PICK p \in PoolStates : pool' = [pool EXCEPT ![libOf[cur]] = p]
    BY <1>2, <1>3 DEF CallReturns
  <2>2. UNCHANGED << pluglist, libOf, refs >>
    BY <1>3 DEF CallReturns
  <2>3. Registry' /\ \A l : UsersOf(l)' = UsersOf(l)
    BY <2>2 DEF Registry, UsersOf
  <2>4. pool' \in [Libs -> PoolStates]
    BY <1>1, <2>1 DEF Ledger
  <2>5. \A l \in Libs : pool'[l] = "used" => refs'[l] > 0
    BY <1>1, <2>1, <2>2 DEF Ledger
  <2> QED
    BY <2>2, <2>3, <2>4, <2>5 DEF Ledger
<1>4. CASE CallCaught(cur, where)
  <2>1. PICK p \in PoolStates : Unload(cur, p)
    BY <1>2, <1>4 DEF CallCaught
  <2>2. UNCHANGED libOf
    BY <1>4 DEF CallCaught
  <2> QED
    BY <2>1, <2>2, UnloadLedger
<1> QED
  BY <1>3, <1>4

(* And a callback that only uses the memory pool of its plugin.            *)
LEMMA PoolLedger ==
  ASSUME Registry, Ledger, cur \in pluglist,
         UNCHANGED << libOf, pluglist, refs >>,
         \/ pool' = pool
         \/ \E p \in PoolMoves(libOf[cur]) : pool' = [pool EXCEPT ![libOf[cur]] = p]
  PROVE  Registry' /\ Ledger'
<1>1. libOf[cur] \in Libs /\ refs[libOf[cur]] \in Nat \ {0}
  BY UsedIsMapped DEF Registry
<1>2. PoolMoves(libOf[cur]) \subseteq PoolStates
  BY DEF PoolMoves, PoolStates
<1>3. Registry' /\ \A l : UsersOf(l)' = UsersOf(l)
  BY DEF Registry, UsersOf
<1>4. pool' \in [Libs -> PoolStates]
  BY <1>1, <1>2 DEF Ledger
<1>5. \A l \in Libs : pool'[l] = "used" => refs'[l] > 0
  BY <1>1, <1>2 DEF Ledger
<1> QED
  BY <1>3, <1>4, <1>5 DEF Ledger

(* And db_plug_load, when it inserts the element.                          *)
LEMMA LoadLedger ==
  ASSUME Registry, Ledger, NEW e \in Elements \ pluglist, NEW l \in Libs,
         libOf' = [libOf EXCEPT ![e] = l],
         refs' = [refs EXCEPT ![l] = @ + 1],
         pluglist' = pluglist \cup {e},
         UNCHANGED pool
  PROVE  Registry' /\ Ledger'
<1>1. Registry'
  BY DEF Registry
<1>2. refs' \in [Libs -> Nat] /\ pool' \in [Libs -> PoolStates]
  BY DEF Ledger
<1>3. ASSUME NEW m \in Libs
      PROVE  refs'[m] = Cardinality(UsersOf(m)')
  <2>1. IsFiniteSet(UsersOf(m)) /\ refs[m] = Cardinality(UsersOf(m))
    BY UsersFinite DEF Ledger
  <2>2. CASE m = l
    <3>1. UsersOf(m)' = UsersOf(m) \cup {e} /\ e \notin UsersOf(m)
      BY <2>2 DEF UsersOf, Registry
    <3>2. Cardinality(UsersOf(m) \cup {e}) = Cardinality(UsersOf(m)) + 1
      BY <2>1, <3>1, FS_AddElement
    <3> QED
      BY <2>1, <2>2, <3>1, <3>2 DEF Ledger
  <2>3. CASE m # l
    <3>1. UsersOf(m)' = UsersOf(m)
      BY <2>3 DEF UsersOf, Registry
    <3> QED
      BY <2>1, <2>3, <3>1 DEF Ledger
  <2> QED
    BY <2>2, <2>3
<1>4. \A m \in Libs : pool'[m] = "used" => refs'[m] > 0
  BY DEF Ledger
<1> QED
  BY <1>1, <1>2, <1>3, <1>4 DEF Ledger

(* What touches neither the list nor the books keeps both.                 *)
LEMMA SameLedger ==
  ASSUME Registry, Ledger, UNCHANGED << libOf, pluglist, refs, pool >>
  PROVE  Registry' /\ Ledger'
<1>1. \A l : UsersOf(l)' = UsersOf(l)
  BY DEF UsersOf
<1> QED
  BY <1>1 DEF Registry, Ledger

-----------------------------------------------------------------------------
(* Where control may be, and what the running walk still owes.             *)
Control ==
  /\ \A e \in pluglist : e <= nodes
  /\ pc \in {"create", "load_update", "stamp"} => cur \in Elements
  /\ pc = "create" => cur \in pluglist
  /\ pc = "release" => todo = pluglist
  /\ pc \in {"close", "exited"} => pluglist = {}
  /\ EveryElementVisited

(* What must have gone wrong before.                                       *)
Blame ==
  /\ segv = "blocked" => faults > 0
  /\ sites # {} => faults > 0
  /\ pc \in {"load_update", "stamp"} /\ cur \notin pluglist =>
       "load" \in sites

IInv ==
  /\ TypeOK
  /\ Registry
  /\ pc \notin Dead => Ledger /\ Control /\ Blame
  /\ Contained

(* Walking: StartWalk and StepWalk keep the promise of EveryElementVisited.*)
LEMMA StartsWalk ==
  ASSUME pluglist \subseteq Elements, NEW where, NEW behind,
         StartWalk(where, behind), UNCHANGED pluglist
  PROVE  /\ cur' \in 0 .. MaxNodes /\ todo' \subseteq Elements
         /\ todo' = pluglist'
         /\ \/ pc' = behind /\ pluglist' = {}
            \/ /\ pc' = where /\ cur' \in pluglist'
               /\ pluglist' = {e \in pluglist' : e >= cur'}
<1>1. cur' \in 0 .. MaxNodes
  BY FirstType DEF StartWalk
<1>2. CASE pluglist = {}
  BY <1>1, <1>2 DEF StartWalk
<1>3. CASE pluglist # {}
  <2>1. cur' \in pluglist /\ \A f \in pluglist : cur' <= f
    BY <1>3, FirstIsLeast DEF StartWalk
  <2>2. pluglist = {e \in pluglist : e >= cur'}
    BY <1>1, <2>1, ElementsAreNumbers
  <2> QED
    BY <1>1, <1>3, <2>1, <2>2 DEF StartWalk
<1> QED
  BY <1>2, <1>3

(* Going to the next element visits the elements behind the cursor in      *)
(* their order, and leaves the loop when there is none.                    *)
LEMMA StepsWalk ==
  ASSUME pluglist \subseteq Elements, cur \in pluglist,
         todo = {e \in pluglist : e >= cur},
         NEW behind, StepWalk(behind),
         pluglist' = pluglist \/ pluglist' = pluglist \ {cur}
  PROVE  /\ cur' \in 0 .. MaxNodes /\ todo' \subseteq Elements
         /\ todo' = todo \ {cur}
         /\ \/ pc' = behind /\ todo' = {}
            \/ /\ pc' = pc /\ cur' \in todo' /\ cur' \in pluglist'
               /\ todo' = {e \in pluglist' : e >= cur'}
<1>1. Behind(cur) \in SUBSET Elements /\ todo' = todo \ {cur}
  BY DEF Behind, StepWalk
<1>2. todo \ {cur} = Behind(cur)
  BY ElementsAreNumbers DEF Behind
<1>3. cur' \in 0 .. MaxNodes /\ todo' \subseteq Elements
  BY <1>1, <1>2, FirstType DEF StepWalk
<1>4. CASE Behind(cur) = {}
  BY <1>1, <1>2, <1>3, <1>4 DEF StepWalk
<1>5. CASE Behind(cur) # {}
  <2>1. cur' \in Behind(cur) /\ \A f \in Behind(cur) : cur' <= f
    BY <1>1, <1>5, FirstIsLeast DEF StepWalk
  <2>2. pc' = pc
    BY <1>5 DEF StepWalk
  <2>3. cur' \in pluglist' /\ cur' > cur
    BY <2>1, ElementsAreNumbers DEF Behind
  <2>4. ASSUME NEW f \in Behind(cur)
        PROVE  f \in pluglist' /\ f >= cur'
    <3>1. f \in pluglist /\ f > cur /\ cur \in Nat /\ f \in Nat
      BY ElementsAreNumbers DEF Behind
    <3>2. cur' <= f /\ cur' \in Nat
      BY <1>3, <2>1, ElementsAreNumbers
    <3> QED
      BY <3>1, <3>2
  <2>5. ASSUME NEW f \in pluglist', f >= cur'
        PROVE  f \in Behind(cur)
    <3>1. f \in pluglist /\ cur \in Nat /\ f \in Nat /\ cur' \in Nat
      BY <2>3, ElementsAreNumbers
    <3>2. f > cur
      BY <2>3, <2>5, <3>1
    <3> QED
      BY <3>1, <3>2 DEF Behind
  <2>6. Behind(cur) = {e \in pluglist' : e >= cur'}
    BY <2>4, <2>5
  <2> QED
    BY <1>1, <1>2, <1>3, <2>1, <2>2, <2>3, <2>6
<1> QED
  BY <1>4, <1>5

-----------------------------------------------------------------------------
(* No action leaves the inductive invariant.                               *)

(* What holds of the empty list.                                           *)
LEMMA InitInvariant ==
  ASSUME Init
  PROVE  IInv
<1>1. TypeOK /\ Registry
  BY ElementsAreNumbers, ConstantsAssumption DEF Init, TypeOK, Running, Registry
<1>2. Ledger
  <2>1. \A l \in Libs : UsersOf(l) = {}
    BY DEF Init, UsersOf
  <2> QED
    BY <2>1, FS_EmptySet DEF Init, Ledger, PoolStates
<1>3. Control /\ Blame /\ Contained
  BY DEF Init, Control, Blame, EveryElementVisited, Contained
<1> QED
  BY <1>1, <1>2, <1>3 DEF IInv

(* plug_load, up to the call of the plugin's create.                       *)
LEMMA LoadInvariant ==
  ASSUME IInv, NEW l \in Libs, NEW p \in Periods, NEW id \in Names,
         Load(l, id, p)
  PROVE  IInv'
<1> USE DEF fault
<1>1. pc = "parse" /\ Ledger /\ Control /\ Blame
  BY DEF IInv, Load, NextNode, Dead
<1>2. /\ nodes' \in 0 .. MaxNodes /\ cur' \in Elements /\ cur' = nodes + 1
      /\ nodes' = nodes + 1 /\ nodes \in Nat
  BY ElementsAreNumbers DEF IInv, TypeOK, Load, NextNode, Elements
<1>3. cur' \notin pluglist
  BY <1>1, <1>2, ElementsAreNumbers DEF Control, IInv, Registry
<1>4. /\ libOf' = [libOf EXCEPT ![cur'] = l] /\ refs' = [refs EXCEPT ![l] = @ + 1]
      /\ UNCHANGED pool
  BY DEF Load
<1>5. CASE FoldHangs(interval, p)
  <2>1. pc' = "hung" /\ UNCHANGED << interval, pluglist >>
    BY <1>5 DEF Load
  <2>2. Registry'
    BY <1>2, <1>4, <2>1 DEF Registry, IInv
  <2>3. TypeOK'
    BY <1>2, <1>4, <2>1, ElementsAreNumbers, ConstantsAssumption
    DEF IInv, TypeOK, Load, Halted, Dead
  <2> QED
    BY <2>1, <2>2, <2>3 DEF IInv, Dead, Contained
<1>6. CASE ~FoldHangs(interval, p)
  <2>1. pc' = "create" /\ pluglist' = pluglist \cup {cur'}
    BY <1>6 DEF Load
  <2>2. Registry' /\ Ledger'
    BY <1>1, <1>2, <1>3, <1>4, <2>1, LoadLedger DEF IInv
  <2>3. interval' \in Nat
    <3>1. interval \in Nat /\ p \in Nat /\ interval' = Fold(interval, p)
      BY <1>6, ConstantsAssumption DEF Load, IInv, TypeOK
    <3>2. CASE interval = 0
      BY <3>1, <3>2 DEF Fold
    <3>3. CASE interval # 0
      BY <3>1, <3>3, GreatestDivisorIsGcd DEF Fold, IsGcd
    <3> QED
      BY <3>2, <3>3
  <2>4. TypeOK'
    BY <1>2, <1>4, <2>1, <2>2, <2>3, ElementsAreNumbers, ConstantsAssumption
    DEF IInv, TypeOK, Load, Running, Registry
  <2>5. Control'
    BY <1>1, <1>2, <2>1, ElementsAreNumbers
    DEF Control, EveryElementVisited, IInv, Registry
  <2>6. Blame' /\ Contained'
    BY <1>1, <2>1 DEF Load, Blame, Contained
  <2> QED
    BY <2>2, <2>4, <2>5, <2>6 DEF IInv
<1> QED
  BY <1>5, <1>6

(* A plugin that cannot be opened leaves everything as it is.              *)
LEMMA LoadFailsInvariant ==
  ASSUME IInv, LoadFails
  PROVE  IInv'
<1> USE DEF list, fault
<1>1. pc = "parse" /\ Ledger /\ Control /\ Blame
  BY DEF IInv, LoadFails, NextNode, Dead
<1>2. nodes' = nodes + 1 /\ nodes' \in 0 .. MaxNodes /\ nodes \in Nat
  BY ElementsAreNumbers DEF IInv, TypeOK, LoadFails, NextNode
<1>3. Registry' /\ Ledger'
  BY <1>1, SameLedger DEF LoadFails, IInv
<1>4. TypeOK' /\ Blame' /\ Contained'
  BY <1>1, <1>2 DEF LoadFails, IInv, TypeOK, Blame, Contained
<1>5. Control'
  BY <1>1, <1>2, ElementsAreNumbers
  DEF LoadFails, Control, EveryElementVisited, IInv, Registry
<1> QED
  BY <1>3, <1>4, <1>5 DEF IInv

(* A plugin without create or destroy: plug_load maps it and faults.       *)
LEMMA LoadBrokenInvariant ==
  ASSUME IInv, NEW l \in Libs, LoadBroken(l)
  PROVE  IInv'
<1>1. pc' \in Dead /\ "entry" \in sites'
  BY DEF LoadBroken, StrayFault, CountFault, Dead
<1>2. nodes' \in 0 .. MaxNodes /\ faults' \in 0 .. MaxFaults
  BY ElementsAreNumbers, ConstantsAssumption
  DEF LoadBroken, NextNode, CountFault, IInv, TypeOK
<1>3. refs' \in [Libs -> Nat] /\ segv' \in {"armed", "blocked"}
  BY DEF LoadBroken, StrayFault, IInv, TypeOK
<1>4. TypeOK' /\ Registry'
  BY <1>1, <1>2, <1>3
  DEF LoadBroken, CountFault, IInv, TypeOK, Registry, Halted
<1> QED
  BY <1>1, <1>4 DEF IInv, Contained

(* What a callback under safe_call does besides the books.                 *)
LEMMA CallEffects ==
  ASSUME TypeOK, Blame, NEW where \in {"load", "draw"},
         CallReturns(cur) \/ CallCaught(cur, where)
  PROVE  /\ segv' \in {"armed", "blocked"} /\ env' = "stale"
         /\ faults' \in 0 .. MaxFaults
         /\ sites' \subseteq {"entry", "load", "draw", "destroy"}
         /\ segv' = "blocked" => faults' > 0
         /\ sites' # {} => faults' > 0
         /\ sites \subseteq sites'
         /\ UNCHANGED << libOf, idOf, period, interval >>
         /\ \/ pluglist' = pluglist
            \/ pluglist' = pluglist \ {cur} /\ where \in sites'
<1>1. CASE CallReturns(cur)
  BY <1>1 DEF CallReturns, TypeOK, Blame
<1>2. CASE CallCaught(cur, where)
  <2>1. faults' \in 0 .. MaxFaults /\ faults' > 0
    BY <1>2, ConstantsAssumption DEF CallCaught, CountFault, TypeOK
  <2>2. segv' \in {"armed", "blocked"}
    BY <1>2 DEF CallCaught, AfterCatch
  <2>3. pluglist' = pluglist \ {cur}
    BY <1>2 DEF CallCaught, Unload
  <2> QED
    BY <1>2, <2>1, <2>2, <2>3 DEF CallCaught, CountFault, TypeOK
<1> QED
  BY <1>1, <1>2

(* A fault while SIGSEGV is blocked: it is not the first.                  *)
LEMMA KilledInvariant ==
  ASSUME IInv, pc \notin Dead, NEW where \in {"load", "draw"},
         CallKilled(where), UNCHANGED << nodes, shown, profile >>
  PROVE  IInv'
<1> USE DEF list
<1>1. pc' = "killed" /\ faults' = faults + 1 /\ faults > 0
  BY DEF CallKilled, CountFault, IInv, Blame
<1>2. faults' \in 0 .. MaxFaults /\ faults' > 1
  BY <1>1, ConstantsAssumption DEF CallKilled, CountFault, IInv, TypeOK
<1>3. TypeOK' /\ Registry'
  BY <1>1, <1>2 DEF CallKilled, CountFault, IInv, TypeOK, Registry, Halted, Dead
<1> QED
  BY <1>1, <1>2, <1>3 DEF IInv, Contained, Dead

(* create returns, or is caught and its element ejected.                   *)
LEMMA CreateInvariant ==
  ASSUME IInv, Create
  PROVE  IInv'
<1>1. pc = "create" /\ pc \notin Dead /\ Ledger /\ Control /\ Blame
  BY DEF IInv, Create, Dead
<1>2. cur \in pluglist /\ cur \in Elements
  BY <1>1 DEF Control
<1>3. CASE /\ libOf[cur] \notin HasCreate
           /\ pc' = "load_update"
           /\ UNCHANGED << list, fault, cur, todo >>
  <2> USE DEF list, fault
  <2>1. Registry' /\ Ledger'
    BY <1>1, <1>3, SameLedger DEF IInv
  <2>2. TypeOK' /\ Contained'
    BY <1>3 DEF Create, IInv, TypeOK, Running, Contained
  <2>3. Control' /\ Blame'
    BY <1>1, <1>2, <1>3 DEF Create, Control, EveryElementVisited, Blame
  <2> QED
    BY <2>1, <2>2, <2>3 DEF IInv
<1>4. CASE /\ pc' = "load_update"
           /\ CallReturns(cur) \/ CallCaught(cur, "load")
           /\ UNCHANGED << cur, todo >>
  <2>1. Registry' /\ Ledger'
    BY <1>1, <1>2, <1>4, CallLedger DEF IInv
  <2>2. TypeOK' /\ Contained'
    BY <1>1, <1>4, <2>1, CallEffects
    DEF Create, IInv, TypeOK, Running, Contained, Registry, Ledger, PoolStates
  <2>3. Control' /\ Blame'
    BY <1>1, <1>2, <1>4, CallEffects
    DEF Create, Control, EveryElementVisited, Blame, IInv
  <2> QED
    BY <2>1, <2>2, <2>3 DEF IInv
<1>5. CASE CallKilled("load")
  BY <1>1, <1>5, KilledInvariant DEF Create
<1> QED
  BY <1>3, <1>4, <1>5 DEF Create

(* The update plug_load calls after create.                                *)
LEMMA LoadUpdateInvariant ==
  ASSUME IInv, LoadUpdate
  PROVE  IInv'
<1>1. pc = "load_update" /\ pc \notin Dead /\ Ledger /\ Control /\ Blame
  BY DEF IInv, LoadUpdate, Dead
<1>2. CASE /\ cur \notin pluglist
           /\ pc' = "undefined"
           /\ UNCHANGED << list, fault, cur, todo >>
  <2> USE DEF list, fault
  <2>1. TypeOK' /\ Registry'
    BY <1>2 DEF LoadUpdate, IInv, TypeOK, Registry, Halted, Dead
  <2>2. Contained'
    BY <1>1, <1>2 DEF Blame, Contained
  <2> QED
    BY <1>2, <2>1, <2>2 DEF IInv, Dead
<1>3. CASE /\ cur \in pluglist
           /\ pc' = "stamp"
           /\ CallReturns(cur) \/ CallCaught(cur, "load")
           /\ UNCHANGED << cur, todo >>
  <2>1. Registry' /\ Ledger'
    BY <1>1, <1>3, CallLedger DEF IInv
  <2>2. TypeOK' /\ Contained'
    BY <1>1, <1>3, <2>1, CallEffects
    DEF LoadUpdate, IInv, TypeOK, Running, Contained, Registry, Ledger, PoolStates
  <2>3. Control' /\ Blame'
    BY <1>1, <1>3, CallEffects
    DEF LoadUpdate, Control, EveryElementVisited, Blame, IInv
  <2> QED
    BY <2>1, <2>2, <2>3 DEF IInv
<1>4. CASE CallKilled("load")
  BY <1>1, <1>4, KilledInvariant DEF LoadUpdate
<1> QED
  BY <1>2, <1>3, <1>4 DEF LoadUpdate

(* The end of plug_load.                                                   *)
LEMMA StampInvariant ==
  ASSUME IInv, Stamp
  PROVE  IInv'
<1> USE DEF list, fault
<1>1. pc = "stamp" /\ Ledger /\ Control /\ Blame
  BY DEF IInv, Stamp, Dead
<1>2. Registry' /\ Ledger'
  BY <1>1, SameLedger DEF Stamp, IInv
<1>3. TypeOK'
  BY ElementsAreNumbers DEF Stamp, IInv, TypeOK, Running, Halted, Dead
<1>4. Contained'
  BY <1>1 DEF Stamp, Blame, Contained
<1>5. Control' /\ Blame'
  BY <1>1 DEF Stamp, Control, EveryElementVisited, Blame
<1> QED
  BY <1>2, <1>3, <1>4, <1>5 DEF IInv

(* A screen object of the configuration changes no list of elements.       *)
LEMMA ShowInvariant ==
  ASSUME IInv, NEW name, ShowValue \/ ShowData(name)
  PROVE  IInv'
<1> USE DEF list, fault
<1>1. pc = "parse" /\ Ledger /\ Control /\ Blame
  BY DEF IInv, ShowValue, ShowData, NextNode, Dead
<1>2. /\ nodes' = nodes + 1 /\ nodes' \in 0 .. MaxNodes /\ nodes \in Nat
      /\ UNCHANGED << pc, cur, libOf, idOf, pluglist, refs, period, pool,
                      interval, segv, env, faults, sites, profile, todo >>
  BY ElementsAreNumbers DEF IInv, TypeOK, ShowValue, ShowData, NextNode
<1>3. Lookup(name) \in Libs \cup {NULL}
  BY ConstantsAssumption DEF Lookup
<1>4. shown' \subseteq Libs \cup {NULL, Literal}
  BY <1>3 DEF ShowValue, ShowData, IInv, TypeOK
<1>5. Registry' /\ Ledger'
  BY <1>1, <1>2, SameLedger DEF IInv
<1>6. TypeOK' /\ Blame' /\ Contained'
  BY <1>1, <1>2, <1>4 DEF IInv, TypeOK, Blame, Contained
<1>7. Control'
  BY <1>1, <1>2, ElementsAreNumbers
  DEF Control, EveryElementVisited, IInv, Registry
<1> QED
  BY <1>5, <1>6, <1>7 DEF IInv

(* The start of a draw.                                                    *)
LEMMA DrawInvariant ==
  ASSUME IInv, Draw
  PROVE  IInv'
<1> USE DEF list, fault
<1>1. /\ pc \in {"parse", "idle"} /\ Ledger /\ Control /\ Blame
      /\ pluglist \subseteq Elements /\ UNCHANGED pluglist
      /\ StartWalk("walk", "paint")
  BY DEF IInv, Draw, Dead, Registry
<1>2. /\ cur' \in 0 .. MaxNodes /\ todo' \subseteq Elements
      /\ todo' = pluglist'
      /\ \/ pc' = "paint" /\ pluglist' = {}
         \/ /\ pc' = "walk" /\ cur' \in pluglist'
            /\ pluglist' = {e \in pluglist' : e >= cur'}
  BY <1>1, StartsWalk
<1>3. Registry' /\ Ledger'
  BY <1>1, SameLedger DEF Draw, IInv
<1>4. TypeOK' /\ Contained'
  BY <1>2 DEF Draw, IInv, TypeOK, Running, Contained
<1>5. Control' /\ Blame'
  BY <1>1, <1>2 DEF Draw, Control, EveryElementVisited, Blame
<1> QED
  BY <1>3, <1>4, <1>5 DEF IInv

(* The walk of a draw goes on from an element that is still listed.        *)
LEMMA VisitedControl ==
  ASSUME IInv, pc = "walk", StepWalk("paint"), UNCHANGED nodes,
         pluglist' = pluglist \/ pluglist' = pluglist \ {cur}
  PROVE  /\ cur' \in 0 .. MaxNodes /\ todo' \subseteq Elements
         /\ pc' \in {"walk", "paint"} /\ Control'
<1>1. /\ cur \in pluglist /\ todo = {e \in pluglist : e >= cur}
      /\ pluglist \subseteq Elements /\ Control
  BY DEF IInv, Dead, Control, EveryElementVisited, Registry
<1>2. /\ cur' \in 0 .. MaxNodes /\ todo' \subseteq Elements
      /\ \/ pc' = "paint" /\ todo' = {}
         \/ /\ pc' = pc /\ cur' \in todo' /\ cur' \in pluglist'
            /\ todo' = {e \in pluglist' : e >= cur'}
  BY <1>1, StepsWalk
<1> QED
  BY <1>1, <1>2 DEF Control, EveryElementVisited

(* A draw passes an element that is not due.                               *)
LEMMA VisitSkipInvariant ==
  ASSUME IInv, VisitSkip
  PROVE  IInv'
<1> USE DEF list, fault
<1>1. pc = "walk" /\ Ledger /\ Blame
  BY DEF IInv, VisitSkip, Dead
<1>2. /\ cur' \in 0 .. MaxNodes /\ todo' \subseteq Elements
      /\ pc' \in {"walk", "paint"} /\ Control'
  BY <1>1, VisitedControl DEF VisitSkip
<1>3. Registry' /\ Ledger'
  BY <1>1, SameLedger DEF VisitSkip, IInv
<1>4. TypeOK' /\ Blame' /\ Contained'
  BY <1>1, <1>2 DEF VisitSkip, IInv, TypeOK, Running, Blame, Contained
<1> QED
  BY <1>2, <1>3, <1>4 DEF IInv

(* A draw updates an element that is due.                                  *)
LEMMA VisitUpdateInvariant ==
  ASSUME IInv, VisitUpdate
  PROVE  IInv'
<1>1. /\ pc = "walk" /\ pc \notin Dead /\ Ledger /\ Blame
      /\ cur \in pluglist
      /\ UNCHANGED << nodes, shown, profile >>
  BY DEF IInv, VisitUpdate, Dead, Control, EveryElementVisited
<1>2. CASE /\ CallReturns(cur) \/ CallCaught(cur, "draw")
           /\ StepWalk("paint")
  <2>1. pluglist' = pluglist \/ pluglist' = pluglist \ {cur}
    BY <1>1, <1>2, CallEffects DEF IInv
  <2>2. /\ cur' \in 0 .. MaxNodes /\ todo' \subseteq Elements
        /\ pc' \in {"walk", "paint"} /\ Control'
    BY <1>1, <1>2, <2>1, VisitedControl
  <2>3. Registry' /\ Ledger'
    BY <1>1, <1>2, CallLedger DEF IInv
  <2>4. TypeOK' /\ Blame' /\ Contained'
    BY <1>1, <1>2, <2>2, <2>3, CallEffects
    DEF IInv, TypeOK, Running, Blame, Contained, Registry, Ledger, PoolStates
  <2> QED
    BY <2>2, <2>3, <2>4 DEF IInv
<1>3. CASE CallKilled("draw")
  BY <1>1, <1>3, KilledInvariant
<1> QED
  BY <1>2, <1>3 DEF VisitUpdate

(* The end of a draw.                                                      *)
LEMMA PaintInvariant ==
  ASSUME IInv, Paint
  PROVE  IInv'
<1>1. /\ pc = "paint" /\ Ledger /\ Control /\ Blame
      /\ UNCHANGED << cur, nodes, libOf, idOf, pluglist, refs, period, pool,
                      interval, shown, env, faults, sites, profile, todo >>
  BY DEF IInv, Paint, Dead, list
<1>2. Registry' /\ Ledger'
  BY <1>1, SameLedger DEF IInv
<1>3. CASE \A o \in shown : Readable(o)
  <2>1. pc' = "idle" /\ UNCHANGED segv
    BY <1>3 DEF Paint
  <2>2. TypeOK' /\ Blame' /\ Contained'
    BY <1>1, <2>1 DEF IInv, TypeOK, Running, Blame, Contained
  <2>3. Control'
    BY <1>1, <2>1 DEF Control, EveryElementVisited
  <2> QED
    BY <1>2, <2>2, <2>3 DEF IInv
<1>4. CASE ~ \A o \in shown : Readable(o)
  <2>1. pc' \in Dead /\ segv' = "blocked"
    BY <1>4 DEF Paint, StrayFault, Dead
  <2>2. TypeOK'
    BY <1>1, <2>1 DEF IInv, TypeOK, Halted
  <2>3. Contained'
    BY <1>1, <1>4 DEF Contained, Readable
  <2> QED
    BY <1>2, <2>1, <2>2, <2>3 DEF IInv
<1> QED
  BY <1>3, <1>4

(* The end of the event loop.                                              *)
LEMMA QuitInvariant ==
  ASSUME IInv, Quit
  PROVE  IInv'
<1>1. /\ pc = "idle" /\ Ledger /\ Control /\ Blame
      /\ pluglist \subseteq Elements
      /\ UNCHANGED << nodes, libOf, idOf, pluglist, refs, period, pool,
                      interval, shown, env, faults, sites, profile >>
  BY DEF IInv, Quit, Dead, list, Registry
<1>2. Registry' /\ Ledger'
  BY <1>1, SameLedger DEF IInv
<1> DEFINE Stale == profile /\ \E l \in Profiled : refs[l] = 0
<1>3. CASE Stale
  <2>1. pc' \in Dead /\ segv' = "blocked" /\ UNCHANGED << cur, todo >>
    BY <1>3 DEF Quit, StrayFault, Dead
  <2>2. TypeOK'
    BY <1>1, <2>1 DEF IInv, TypeOK, Halted
  <2>3. Contained'
    BY <1>1, <1>3 DEF Contained, Profiled
  <2> QED
    BY <1>2, <2>1, <2>2, <2>3 DEF IInv
<1>4. CASE ~Stale
  <2>1. StartWalk("destroy", "close") /\ UNCHANGED segv
    BY <1>4 DEF Quit
  <2>2. /\ cur' \in 0 .. MaxNodes /\ todo' \subseteq Elements
        /\ todo' = pluglist'
        /\ \/ pc' = "close" /\ pluglist' = {}
           \/ /\ pc' = "destroy" /\ cur' \in pluglist'
              /\ pluglist' = {e \in pluglist' : e >= cur'}
    BY <1>1, <2>1, StartsWalk
  <2>3. TypeOK' /\ Blame' /\ Contained'
    BY <1>1, <2>1, <2>2 DEF IInv, TypeOK, Running, Blame, Contained
  <2>4. Control'
    BY <1>1, <2>2 DEF Control, EveryElementVisited
  <2> QED
    BY <1>2, <2>3, <2>4 DEF IInv
<1> QED
  BY <1>3, <1>4

(* The teardown calls destroy of an element.                               *)
LEMMA DestroyInvariant ==
  ASSUME IInv, Destroy
  PROVE  IInv'
<1>1. /\ pc = "destroy" /\ Ledger /\ Control /\ Blame
      /\ pluglist \subseteq Elements /\ cur \in pluglist
      /\ todo = {e \in pluglist : e >= cur}
      /\ UNCHANGED << nodes, libOf, idOf, pluglist, refs, period,
                      interval, shown, segv, env, faults, sites, profile >>
      /\ \/ pool' = pool
         \/ \E p \in PoolMoves(libOf[cur]) : pool' = [pool EXCEPT ![libOf[cur]] = p]
  BY DEF IInv, Destroy, Dead, list, fault, Registry, Control,
         EveryElementVisited
<1>2. Registry' /\ Ledger'
  BY <1>1, PoolLedger DEF IInv
<1>3. /\ cur' \in 0 .. MaxNodes /\ todo' \subseteq Elements
      /\ \/ pc' = "close" /\ pluglist' = {}
         \/ /\ pc' = "release" /\ cur' \in todo' /\ todo' = pluglist'
            /\ pluglist' = {e \in pluglist' : e >= cur'}
         \/ /\ pc' = "destroy" /\ cur' \in todo'
            /\ todo' = {e \in pluglist' : e >= cur'}
  <2>1. CASE Behind(cur) = {}
    <3>1. StartWalk("release", "close")
      BY <2>1 DEF Destroy
    <3> QED
      BY <1>1, <3>1, StartsWalk
  <2>2. CASE Behind(cur) # {}
    <3>1. StepWalk("release")
      BY <2>2 DEF Destroy
    <3>2. pc' = pc
      BY <1>1, <2>2, <3>1 DEF StepWalk
    <3> QED
      BY <1>1, <3>1, <3>2, StepsWalk
  <2> QED
    BY <2>1, <2>2
<1>4. TypeOK' /\ Blame' /\ Contained'
  BY <1>1, <1>2, <1>3 DEF IInv, TypeOK, Ledger, PoolStates, Running, Blame, Contained
<1>5. Control'
  BY <1>1, <1>3 DEF Control, EveryElementVisited
<1> QED
  BY <1>2, <1>4, <1>5 DEF IInv

(* A fault of destroy, which nothing catches.                              *)
LEMMA DestroyFaultsInvariant ==
  ASSUME IInv, DestroyFaults
  PROVE  IInv'
<1> USE DEF list
<1>1. /\ pc' \in Dead /\ segv' = "blocked"
      /\ sites' = sites \cup {"destroy"}
  BY DEF DestroyFaults, StrayFault, CountFault, Dead
<1>2. faults' \in 0 .. MaxFaults
  BY ConstantsAssumption DEF DestroyFaults, CountFault, IInv, TypeOK
<1>3. TypeOK' /\ Registry'
  BY <1>1, <1>2 DEF DestroyFaults, IInv, TypeOK, Registry, Halted
<1> QED
  BY <1>1, <1>3 DEF IInv, Contained

(* The teardown releases an element and its library.                       *)
LEMMA ReleaseInvariant ==
  ASSUME IInv, Release
  PROVE  IInv'
<1>1. /\ pc = "release" /\ Ledger /\ Control /\ Blame /\ Registry
      /\ pluglist \subseteq Elements /\ cur \in pluglist
      /\ todo = {e \in pluglist : e >= cur} /\ todo = pluglist
      /\ UNCHANGED << nodes, libOf, idOf, period, interval, shown, segv, env,
                      faults, sites, profile >>
  BY DEF IInv, Release, Dead, fault, Registry, Control, EveryElementVisited
<1>2. pool[libOf[cur]] \in PoolStates /\ Unload(cur, pool[libOf[cur]])
  BY <1>1 DEF Release, Ledger, Registry
<1>3. Registry' /\ Ledger'
  BY <1>1, <1>2, UnloadLedger
<1>4. pluglist' = pluglist \ {cur}
  BY <1>2 DEF Unload
<1>5. /\ cur' \in 0 .. MaxNodes /\ todo' \subseteq Elements
      /\ todo' = pluglist'
      /\ \/ pc' = "close" /\ todo' = {}
         \/ /\ pc' = "release" /\ cur' \in todo'
            /\ todo' = {e \in pluglist' : e >= cur'}
  BY <1>1, <1>4, StepsWalk DEF Release
<1>6. TypeOK' /\ Blame' /\ Contained'
  BY <1>1, <1>3, <1>5
  DEF IInv, TypeOK, Running, Blame, Contained, Registry, Ledger, PoolStates
<1>7. Control'
  BY <1>1, <1>4, <1>5 DEF Control, EveryElementVisited
<1> QED
  BY <1>3, <1>6, <1>7 DEF IInv

(* The display goes last.                                                  *)
LEMMA CloseDisplayInvariant ==
  ASSUME IInv, CloseDisplay
  PROVE  IInv'
<1> USE DEF list, fault
<1>1. pc = "close" /\ Ledger /\ Control /\ Blame
  BY DEF IInv, CloseDisplay, Dead
<1>2. Registry' /\ Ledger'
  BY <1>1, SameLedger DEF CloseDisplay, IInv
<1>3. TypeOK' /\ Blame' /\ Contained'
  BY <1>1 DEF CloseDisplay, IInv, TypeOK, Halted, Blame, Contained
<1>4. Control'
  BY <1>1 DEF CloseDisplay, Control, EveryElementVisited
<1> QED
  BY <1>2, <1>3, <1>4 DEF IInv

(* A step that changes nothing.                                            *)
LEMMA StutterInvariant ==
  ASSUME IInv, UNCHANGED vars
  PROVE  IInv'
<1> USE DEF vars, list, fault
<1>1. \A l : UsersOf(l)' = UsersOf(l)
  BY DEF UsersOf
<1>2. Registry' /\ (pc' \notin Dead => Ledger')
  BY <1>1 DEF IInv, Registry, Ledger
<1>3. TypeOK' /\ Contained'
  BY DEF IInv, TypeOK, Contained, Readable, Profiled
<1>4. pc' \notin Dead => Control' /\ Blame'
  BY DEF IInv, Control, EveryElementVisited, Blame
<1> QED
  BY <1>2, <1>3, <1>4 DEF IInv

(* Every step keeps the invariant.                                         *)
LEMMA StepInvariant ==
  ASSUME IInv, [Next]_vars
  PROVE  IInv'
<1>1. ASSUME NEW l \in Libs, NEW p \in Periods, NEW id \in Names, Load(l, id, p)
      PROVE  IInv'
  BY <1>1, LoadInvariant
<1>2. ASSUME NEW l \in Libs, LoadBroken(l)
      PROVE  IInv'
  BY <1>2, LoadBrokenInvariant
<1>3. ASSUME NEW name \in Names, ShowData(name)
      PROVE  IInv'
  BY <1>3, ShowInvariant
<1>4. CASE ShowValue
  BY <1>4, ShowInvariant
<1>5. CASE Finished \/ UNCHANGED vars
  BY <1>5, StutterInvariant DEF Finished
<1> QED
  BY <1>1, <1>2, <1>3, <1>4, <1>5, LoadFailsInvariant, CreateInvariant,
     LoadUpdateInvariant, StampInvariant, DrawInvariant, VisitSkipInvariant,
     VisitUpdateInvariant, PaintInvariant, QuitInvariant, DestroyInvariant,
     DestroyFaultsInvariant, ReleaseInvariant, CloseDisplayInvariant
  DEF Next

(* The list of elements, the reference counts of libltdl, the pools and    *)
(* the cursor of the loops agree in every state the host can be in.        *)
THEOREM HostInvariant == Spec => []IInv
<1>1. Init => IInv
  BY InitInvariant
<1>2. IInv /\ [Next]_vars => IInv'
  BY StepInvariant
<1> QED
  BY <1>1, <1>2, PTL DEF Spec

-----------------------------------------------------------------------------
(* What follows from the inductive invariant.                              *)

(* Every variable of the host keeps its type.                              *)
THEOREM HostTypes == Spec => []TypeOK
<1>1. IInv => TypeOK
  BY DEF IInv
<1> QED
  BY <1>1, HostInvariant, PTL

(* dlopen and dlclose balance against the listed elements.                 *)
THEOREM HandlesBalance == Spec => []HandlesMatchElements
<1>1. IInv => HandlesMatchElements
  BY DEF IInv, Ledger, HandlesMatchElements
<1> QED
  BY <1>1, HostInvariant, PTL

(* Chunks outlive neither ejection nor exit.                               *)
THEOREM MemoryRescued == Spec => []PoolsRescued
<1>1. ASSUME IInv
      PROVE  PoolsRescued
  <2>1. pc \notin Dead => \A l \in Libs : pool[l] = "used" => refs[l] > 0
    BY <1>1 DEF IInv, Ledger
  <2>2. ASSUME pc = "exited", NEW l \in Libs
        PROVE  refs[l] = 0 /\ pool[l] # "used"
    <3>1. Ledger /\ pluglist = {}
      BY <1>1, <2>2 DEF IInv, Control, Dead
    <3>2. UsersOf(l) = {}
      BY <3>1 DEF UsersOf
    <3> QED
      BY <3>1, <3>2, FS_EmptySet DEF Ledger
  <2> QED
    BY <2>1, <2>2 DEF PoolsRescued
<1> QED
  BY <1>1, HostInvariant, PTL

(* The host goes down for the listed reasons only.                         *)
THEOREM FaultsContained == Spec => []Contained
<1>1. IInv => Contained
  BY DEF IInv
<1> QED
  BY <1>1, HostInvariant, PTL

(* No walk over pluglist loses an element.                                 *)
THEOREM WalksComplete == Spec => []EveryElementVisited
<1>1. IInv => EveryElementVisited
  BY DEF IInv, Control, EveryElementVisited, Dead
<1> QED
  BY <1>1, HostInvariant, PTL

-----------------------------------------------------------------------------
(* Before the first fault the host is sound: until the teardown every      *)
(* screen object and every pool belongs to a mapped library.               *)
Teardown == {"destroy", "release", "close", "exited"}

Pristine ==
  faults = 0 /\ pc \notin Dead \cup Teardown =>
    /\ \A o \in shown \cap Libs : refs[o] > 0
    /\ \A l \in Libs : pool[l] # "none" => refs[l] > 0

SoundInv == IInv /\ Pristine /\ SoundUntilFault

(* A callback that returns spoils nothing, and one that faults counts.     *)
LEMMA CallPristine ==
  ASSUME SoundInv, pc \notin Dead \cup Teardown, cur \in pluglist, NEW where,
         CallReturns(cur) \/ CallCaught(cur, where), UNCHANGED shown
  PROVE  /\ faults' = 0 => faults = 0
         /\ faults' = 0 => /\ \A o \in shown' \cap Libs : refs'[o] > 0
                          /\ \A l \in Libs : pool'[l] # "none" => refs'[l] > 0
<1>1. CASE CallCaught(cur, where)
  <2>1. faults' # 0
    BY <1>1 DEF CallCaught, CountFault, SoundInv, IInv, TypeOK
  <2> QED
    BY <2>1
<1>2. CASE CallReturns(cur)
  <2>1. refs[libOf[cur]] > 0
    BY UsedIsMapped DEF SoundInv, IInv
  <2>2. /\ UNCHANGED << faults, refs >>
        /\ \A l \in Libs : l # libOf[cur] => pool'[l] = pool[l]
    BY <1>2 DEF CallReturns, SoundInv, IInv, TypeOK
  <2> QED
    BY <2>1, <2>2 DEF SoundInv, Pristine
<1> QED
  BY <1>1, <1>2

(* An element that shows itself has its library mapped.                    *)
LEMMA ShowPristine ==
  ASSUME SoundInv, NEW name, ShowData(name)
  PROVE  Pristine'
<1>1. /\ pc = "parse" /\ Registry /\ Ledger
      /\ shown' = shown \cup {Lookup(name)}
      /\ UNCHANGED << pc, refs, pool, faults >>
  BY DEF ShowData, NextNode, SoundInv, IInv, Dead, list, fault
<1>2. Lookup(name) \in Libs => refs[Lookup(name)] > 0
  <2> DEFINE found == {e \in pluglist : idOf[e] = name}
  <2>1. CASE found = {} \/ libOf[First(found)] \notin HasData
    <3>1. Lookup(name) = NULL
      BY <2>1 DEF Lookup
    <3> QED
      BY <3>1, ConstantsAssumption
  <2>2. CASE found # {} /\ libOf[First(found)] \in HasData
    <3>1. found \in SUBSET Elements
      BY <1>1 DEF Registry
    <3>2. First(found) \in pluglist
      <4> HIDE DEF found
      <4>1. First(found) \in found
        BY <2>2, <3>1, FirstIsLeast
      <4> QED
        BY <4>1 DEF found
    <3>3. Lookup(name) = libOf[First(found)]
      BY <2>2 DEF Lookup
    <3> QED
      BY <1>1, <3>2, <3>3, UsedIsMapped
  <2> QED
    BY <2>1, <2>2
<1> QED
  BY <1>1, <1>2 DEF SoundInv, Pristine, Dead, Teardown

(* plug_load maps the library before anything belongs to it.               *)
LEMMA LoadPristine ==
  ASSUME SoundInv, NEW l \in Libs, NEW p, NEW id, Load(l, id, p)
  PROVE  Pristine' /\ SoundUntilFault'
<1>1. /\ pc = "parse" /\ pc' \in {"create", "hung"}
      /\ refs' = [refs EXCEPT ![l] = @ + 1] /\ refs \in [Libs -> Nat]
      /\ UNCHANGED << pool, shown, faults >>
  BY DEF Load, NextNode, SoundInv, IInv, TypeOK, fault
<1>2. \A m \in Libs : refs'[m] >= refs[m]
  BY <1>1
<1>3. Pristine'
  BY <1>1, <1>2 DEF SoundInv, Pristine, Dead, Teardown
<1> QED
  BY <1>1, <1>3 DEF SoundUntilFault

(* No step but a fault ends the soundness of the host.                     *)
LEMMA SoundStep ==
  ASSUME SoundInv, [Next]_vars
  PROVE  SoundInv'
<1> USE DEF list, fault
<1>1. IInv /\ IInv'
  BY StepInvariant DEF SoundInv
<1> SUFFICES Pristine' /\ SoundUntilFault'
  BY <1>1 DEF SoundInv
<1>2. ASSUME NEW l \in Libs, NEW p \in Periods, NEW id \in Names, Load(l, id, p)
      PROVE  Pristine' /\ SoundUntilFault'
  BY <1>2, LoadPristine
<1>3. ASSUME NEW l \in Libs, LoadBroken(l)
      PROVE  Pristine' /\ SoundUntilFault'
  <2>1. faults' # 0
    BY <1>1, <1>3 DEF LoadBroken, CountFault, IInv, TypeOK
  <2> QED
    BY <2>1 DEF Pristine, SoundUntilFault
<1>4. ASSUME NEW name \in Names, ShowData(name)
      PROVE  Pristine' /\ SoundUntilFault'
  <2>1. pc' = "parse"
    BY <1>4 DEF ShowData, NextNode
  <2> QED
    BY <1>4, <2>1, ShowPristine DEF SoundUntilFault
<1>5. CASE ShowValue
  <2>1. Literal \notin Libs
    BY ConstantsAssumption
  <2> QED
    BY <1>5, <2>1
    DEF ShowValue, NextNode, SoundInv, Pristine, SoundUntilFault, Dead, Teardown
<1>6. CASE LoadFails \/ Stamp
  <2>1. pc = "stamp" /\ cur \notin pluglist => faults # 0
    BY <1>1 DEF IInv, Blame, Dead
  <2> QED
    BY <1>6, <2>1
    DEF LoadFails, Stamp, NextNode, SoundInv, Pristine, SoundUntilFault, Dead,
        Teardown
<1>7. CASE Draw \/ Quit \/ Destroy
  <2>1. CASE Draw \/ Destroy
    BY <2>1
    DEF Draw, Destroy, StartWalk, StepWalk, SoundInv, IInv, Control,
        EveryElementVisited, Pristine, SoundUntilFault, Dead, Teardown
  <2>2. CASE Quit
    <3>1. pc = "idle" /\ UNCHANGED << refs, pool, shown, faults >>
      BY <2>2 DEF Quit
    <3>2. CASE profile /\ \E l \in Profiled : refs[l] = 0
      <4>1. faults # 0
        BY <3>1, <3>2 DEF SoundInv, Pristine, Profiled, Dead, Teardown
      <4> QED
        BY <3>1, <4>1 DEF Pristine, SoundUntilFault
    <3>3. CASE ~(profile /\ \E l \in Profiled : refs[l] = 0)
      BY <2>2, <3>3
      DEF Quit, StartWalk, Pristine, SoundUntilFault, Dead, Teardown
    <3> QED
      BY <3>2, <3>3
  <2> QED
    BY <1>7, <2>1, <2>2
<1>8. CASE Create \/ LoadUpdate \/ VisitUpdate
  <2>1. pc \in {"create", "load_update", "walk"}
    BY <1>8 DEF Create, LoadUpdate, VisitUpdate
  <2>2. faults = 0 => cur \in pluglist /\ segv # "blocked"
    BY <1>1, <2>1 DEF IInv, Blame, Control, EveryElementVisited, Dead
  <2>3. faults' = 0 => faults = 0
    BY <1>1, <1>8
    DEF Create, LoadUpdate, VisitUpdate, CallReturns, CallCaught, CallKilled,
        CountFault, IInv, TypeOK
  <2>4. SUFFICES ASSUME faults' = 0
                 PROVE  Pristine' /\ SoundUntilFault'
    BY DEF Pristine, SoundUntilFault
  <2>5. \A where : ~CallKilled(where)
    BY <2>2, <2>3, <2>4 DEF CallKilled
  <2>6. pc' \in {"load_update", "stamp", "walk", "paint"} /\ UNCHANGED shown
    BY <1>8, <2>1, <2>2, <2>3, <2>4, <2>5
    DEF Create, LoadUpdate, VisitUpdate, StepWalk
  <2>7. CASE UNCHANGED << refs, pool, faults >>
    BY <2>1, <2>3, <2>4, <2>6, <2>7
    DEF SoundInv, Pristine, SoundUntilFault, Dead, Teardown
  <2>8. CASE \E where : CallReturns(cur) \/ CallCaught(cur, where)
    <3>1. pc \notin Dead \cup Teardown
      BY <2>1 DEF Dead, Teardown
    <3> QED
      BY <2>2, <2>3, <2>4, <2>6, <2>8, <3>1, CallPristine
      DEF Pristine, SoundUntilFault
  <2> QED
    BY <1>8, <2>5, <2>7, <2>8 DEF Create, LoadUpdate, VisitUpdate
<1>9. CASE VisitSkip \/ Release
  <2>1. cur \in pluglist
    BY <1>1, <1>9
    DEF VisitSkip, Release, IInv, Control, EveryElementVisited, Dead
  <2>2. CASE VisitSkip
    BY <2>1, <2>2
    DEF VisitSkip, StepWalk, SoundInv, Pristine, SoundUntilFault, Dead, Teardown
  <2>3. CASE Release
    BY <2>1, <2>3
    DEF Release, StepWalk, Pristine, SoundUntilFault, Teardown
  <2> QED
    BY <1>9, <2>2, <2>3
<1>10. CASE Paint
  <2>1. faults = 0 /\ NULL \notin shown => \A o \in shown : Readable(o)
    BY <1>1, <1>10
    DEF Paint, SoundInv, Pristine, Readable, IInv, TypeOK, Dead, Teardown
  <2> QED
    BY <1>10, <2>1
    DEF Paint, StrayFault, SoundInv, Pristine, SoundUntilFault, Dead, Teardown
<1>11. CASE DestroyFaults
  <2>1. faults' # 0
    BY <1>1, <1>11 DEF DestroyFaults, CountFault, IInv, TypeOK
  <2> QED
    BY <2>1 DEF Pristine, SoundUntilFault
<1>12. CASE CloseDisplay
  BY <1>12 DEF CloseDisplay, Pristine, SoundUntilFault, Teardown
<1>13. CASE Finished \/ UNCHANGED vars
  BY <1>13 DEF Finished, vars, SoundInv, Pristine, SoundUntilFault
<1> QED
  BY <1>1, <1>2, <1>3, <1>4, <1>5, <1>6, <1>7, <1>8, <1>9, <1>10, <1>11,
     <1>12, <1>13
  DEF Next

(* Without a fault of a plugin the host leaves no pointer behind.          *)
THEOREM SoundWithoutFaults == Spec => []SoundUntilFault
<1>1. Init => SoundInv
  BY InitInvariant
  DEF Init, SoundInv, Pristine, SoundUntilFault
<1>2. SoundInv /\ [Next]_vars => SoundInv'
  BY SoundStep
<1>3. SoundInv => SoundUntilFault
  BY DEF SoundInv
<1> QED
  BY <1>1, <1>2, <1>3, PTL DEF Spec

-----------------------------------------------------------------------------
(* The period of the main loop.                                            *)

(* It is 0 only as long as every plugin asks for 0.                        *)
ZeroPeriod == interval = 0 => \A e \in pluglist : period[libOf[e]] = 0

PeriodInv == IInv /\ ZeroPeriod /\ PeriodDividesIntervals

(* One get_gcd that returns divides both its arguments; 0 comes of two     *)
(* zeros only.                                                             *)
LEMMA FoldDivides ==
  ASSUME NEW i \in Nat, NEW p \in Nat, ~FoldHangs(i, p)
  PROVE  /\ Fold(i, p) \in Nat
         /\ Fold(i, p) = 0 => i = 0 /\ p = 0
         /\ Fold(i, p) > 0 => Divides(Fold(i, p), p)
         /\ Fold(i, p) > 0 /\ i > 0 => Divides(Fold(i, p), i)
<1>1. CASE i = 0
  BY <1>1, DividesZeroSelf DEF Fold
<1>2. CASE i # 0
  <2>1. IsGcd(GreatestDivisor(i, p), i, p)
    BY <1>2, GreatestDivisorIsGcd
  <2> QED
    BY <1>2, <2>1 DEF Fold, IsGcd, CommonDivisor
<1> QED
  BY <1>1, <1>2

(* plug_load folds the new interval into the period.                       *)
LEMMA LoadPeriod ==
  ASSUME PeriodInv, NEW l \in Libs, NEW p \in Periods, NEW id, Load(l, id, p)
  PROVE  ZeroPeriod' /\ PeriodDividesIntervals'
<1>1. /\ interval \in Nat /\ p \in Nat /\ period \in [Libs -> Nat]
      /\ Registry /\ cur' \in Elements /\ cur' \notin pluglist
      /\ libOf' = [libOf EXCEPT ![cur'] = l]
      /\ period' = [period EXCEPT ![l] = p]
  <2>1. pc \notin Dead /\ Control /\ Registry /\ nodes \in Nat
    BY DEF PeriodInv, IInv, Load, NextNode, Dead, TypeOK
  <2>2. cur' = nodes + 1 /\ cur' \in Elements
    BY <2>1, ElementsAreNumbers DEF Load, NextNode, Elements
  <2>3. cur' \notin pluglist
    BY <2>1, <2>2, ElementsAreNumbers DEF Control, Registry
  <2> QED
    BY <2>1, <2>2, <2>3, ConstantsAssumption DEF PeriodInv, IInv, TypeOK, Load
<1>2. ASSUME NEW e \in pluglist
      PROVE  /\ libOf'[e] = libOf[e] /\ libOf[e] \in Libs
             /\ period'[libOf'[e]] = IF libOf[e] = l THEN p ELSE period[libOf[e]]
  BY <1>1 DEF Registry
<1>3. CASE FoldHangs(interval, p)
  <2>1. UNCHANGED << interval, pluglist >> /\ interval # 0 /\ p = 0
    BY <1>3 DEF Load, FoldHangs
  <2>2. Divides(interval, 0)
    BY <1>1, DividesZeroSelf
  <2> QED
    BY <1>2, <2>1, <2>2 DEF PeriodInv, ZeroPeriod, PeriodDividesIntervals
<1>4. CASE ~FoldHangs(interval, p)
  <2>1. interval' = Fold(interval, p) /\ pluglist' = pluglist \cup {cur'}
    BY <1>4 DEF Load
  <2>2. /\ interval' \in Nat
        /\ interval' = 0 => interval = 0 /\ p = 0
        /\ interval' > 0 => Divides(interval', p)
        /\ interval' > 0 /\ interval > 0 => Divides(interval', interval)
    BY <1>1, <1>4, <2>1, FoldDivides
  <2>3. libOf'[cur'] = l /\ period'[l] = p
    BY <1>1 DEF Registry
  <2>4. ZeroPeriod'
    BY <1>2, <2>1, <2>2, <2>3 DEF PeriodInv, ZeroPeriod
  <2>5. ASSUME interval' > 0, NEW e \in pluglist
        PROVE  Divides(interval', period'[libOf'[e]])
    <3>1. CASE libOf[e] = l
      BY <1>2, <2>2, <2>5, <3>1
    <3>2. CASE libOf[e] # l /\ interval = 0
      <4>1. period'[libOf'[e]] = 0
        BY <1>2, <3>2 DEF PeriodInv, ZeroPeriod
      <4> QED
        BY <2>2, <4>1, DividesZeroSelf
    <3>3. CASE libOf[e] # l /\ interval # 0
      <4>1. Divides(interval', interval) /\ Divides(interval, period[libOf[e]])
        BY <1>1, <2>2, <2>5, <3>3 DEF PeriodInv, PeriodDividesIntervals
      <4>2. period[libOf[e]] \in Nat /\ period'[libOf'[e]] = period[libOf[e]]
        BY <1>1, <1>2, <3>3
      <4> QED
        BY <1>1, <2>2, <4>1, <4>2, DividesTransitive
    <3> QED
      BY <3>1, <3>2, <3>3
  <2>6. PeriodDividesIntervals'
    BY <2>1, <2>2, <2>3, <2>5 DEF PeriodDividesIntervals
  <2> QED
    BY <2>4, <2>6
<1> QED
  BY <1>3, <1>4

(* The main loop's period divides every listed plugin's interval.          *)
THEOREM PeriodDivides == Spec => []PeriodDividesIntervals
<1>1. Init => PeriodInv
  BY InitInvariant
  DEF Init, PeriodInv, ZeroPeriod, PeriodDividesIntervals
<1>2. ASSUME PeriodInv, [Next]_vars
      PROVE  PeriodInv'
  <2> USE DEF list
  <2>1. IInv'
    BY <1>2, StepInvariant DEF PeriodInv
  <2>2. ASSUME NEW l \in Libs, NEW p \in Periods, NEW id \in Names,
               Load(l, id, p)
        PROVE  ZeroPeriod' /\ PeriodDividesIntervals'
    BY <1>2, <2>2, LoadPeriod
  <2>3. CASE /\ UNCHANGED << interval, period, libOf >>
             /\ pluglist' \subseteq pluglist
    BY <1>2, <2>1, <2>3 DEF PeriodInv, ZeroPeriod, PeriodDividesIntervals
  <2>4. \A where : CallReturns(cur) \/ CallCaught(cur, where)
          => /\ UNCHANGED << interval, period, libOf >>
             /\ pluglist' \subseteq pluglist
    BY DEF CallReturns, CallCaught, Unload
  <2>5. CASE Create \/ LoadUpdate \/ VisitUpdate
    <3>1. /\ UNCHANGED << interval, period, libOf >>
          /\ pluglist' \subseteq pluglist
      BY <2>4, <2>5 DEF Create, LoadUpdate, VisitUpdate, CallKilled
    <3> QED
      BY <2>3, <3>1
  <2>6. CASE Release
    BY <2>3, <2>6 DEF Release, Unload
  <2>7. ASSUME NEW l \in Libs, LoadBroken(l)
        PROVE  PeriodInv'
    BY <2>3, <2>7 DEF LoadBroken
  <2>8. ASSUME NEW name \in Names, ShowData(name)
        PROVE  PeriodInv'
    BY <2>3, <2>8 DEF ShowData
  <2>9. CASE LoadFails \/ Stamp \/ ShowValue \/ Draw \/ VisitSkip \/ Paint
    BY <2>3, <2>9 DEF LoadFails, Stamp, ShowValue, Draw, VisitSkip, Paint
  <2>10. CASE Quit \/ Destroy \/ DestroyFaults \/ CloseDisplay
    BY <2>3, <2>10 DEF Quit, Destroy, DestroyFaults, CloseDisplay
  <2>11. CASE Finished \/ UNCHANGED vars
    BY <2>3, <2>11 DEF Finished, vars
  <2> QED
    BY <1>2, <2>1, <2>2, <2>5, <2>6, <2>7, <2>8, <2>9, <2>10, <2>11
    DEF Next, PeriodInv
<1>3. PeriodInv => PeriodDividesIntervals
  BY DEF PeriodInv
<1> QED
  BY <1>1, <1>2, <1>3, PTL DEF Spec

SpinInv == IInv /\ SpinsOnlyWithoutPlugins

(* The event loop spins only where no plugin asks for a positive interval. *)
THEOREM SpinsForNobody == Spec => []SpinsOnlyWithoutPlugins
<1>1. Init => SpinInv
  BY InitInvariant DEF Init, SpinInv, SpinsOnlyWithoutPlugins
<1>2. ASSUME SpinInv, [Next]_vars
      PROVE  SpinInv'
  <2> USE DEF list
  <2>1. IInv'
    BY <1>2, StepInvariant DEF SpinInv
  <2>2. ASSUME NEW l \in Libs, NEW p \in Periods, NEW id \in Names,
               Load(l, id, p)
        PROVE  SpinsOnlyWithoutPlugins'
    <3>1. /\ interval \in Nat /\ p \in Nat /\ period \in [Libs -> Nat]
          /\ period' = [period EXCEPT ![l] = p]
      BY <1>2, <2>2, ConstantsAssumption DEF SpinInv, IInv, TypeOK, Load
    <3>2. interval = 0 => \A k \in Libs : period[k] = 0
      BY <1>2 DEF SpinInv, SpinsOnlyWithoutPlugins
    <3>3. interval' = 0 => interval = 0 /\ p = 0
      <4>1. CASE FoldHangs(interval, p)
        BY <2>2, <4>1 DEF Load, FoldHangs
      <4>2. CASE ~FoldHangs(interval, p)
        BY <2>2, <3>1, <4>2, FoldDivides DEF Load
      <4> QED
        BY <4>1, <4>2
    <3> QED
      BY <3>1, <3>2, <3>3 DEF SpinsOnlyWithoutPlugins
  <2>3. CASE UNCHANGED << interval, period >>
    BY <1>2, <2>1, <2>3 DEF SpinInv, SpinsOnlyWithoutPlugins
  <2>4. \A where : CallReturns(cur) \/ CallCaught(cur, where)
          => UNCHANGED << interval, period >>
    BY DEF CallReturns, CallCaught, Unload
  <2>5. CASE Create \/ LoadUpdate \/ VisitUpdate
    <3>1. UNCHANGED << interval, period >>
      BY <2>4, <2>5 DEF Create, LoadUpdate, VisitUpdate, CallKilled
    <3> QED
      BY <2>3, <3>1
  <2>6. CASE Release \/ LoadFails \/ Stamp \/ ShowValue \/ Draw \/ VisitSkip
    BY <2>3, <2>6
    DEF Release, Unload, LoadFails, Stamp, ShowValue, Draw, VisitSkip
  <2>7. ASSUME NEW l \in Libs, LoadBroken(l)
        PROVE  SpinInv'
    BY <2>3, <2>7 DEF LoadBroken
  <2>8. ASSUME NEW name \in Names, ShowData(name)
        PROVE  SpinInv'
    BY <2>3, <2>8 DEF ShowData
  <2>9. CASE Paint \/ Quit \/ Destroy \/ DestroyFaults \/ CloseDisplay
    BY <2>3, <2>9 DEF Paint, Quit, Destroy, DestroyFaults, CloseDisplay
  <2>10. CASE Finished \/ UNCHANGED vars
    BY <2>3, <2>10 DEF Finished, vars
  <2> QED
    BY <1>2, <2>1, <2>2, <2>5, <2>6, <2>7, <2>8, <2>9, <2>10 DEF Next, SpinInv
<1>3. SpinInv => SpinsOnlyWithoutPlugins
  BY DEF SpinInv
<1> QED
  BY <1>1, <1>2, <1>3, PTL DEF Spec

-----------------------------------------------------------------------------
(***************************************************************************)
(* get_gcd, which the host calls for every plugin, returns the greatest    *)
(* common divisor of any two positive ints, for every width of the int.    *)
(* The loop keeps the set of common divisors of its two parameters; when   *)
(* it ends one of them is 0, which everything divides, so the divisors of  *)
(* the other one are the common divisors.                                  *)
(*                                                                         *)
(* The inductive invariant: the parameters are never both 0, and the       *)
(* second is 0 at the end; for positive arguments they stay in range, keep *)
(* the common divisors, and the second is 0 only at the end.               *)
(***************************************************************************)
GcdInv ==
  /\ GcdTypeOK
  /\ NoWrap
  /\ SameDivisors
  /\ a # 0 \/ b # 0
  /\ stage = "done" => b = 0
  /\ Positive => (stage = "done" <=> b = 0)

(* The arguments are such a pair.                                          *)
LEMMA GcdStarts == GcdInit => GcdInv
<1> SUFFICES ASSUME GcdInit PROVE GcdInv
  OBVIOUS
<1>1. GcdTypeOK
  BY WrittenAssumption, IntMaxAssumption DEF GcdInit, GcdTypeOK
<1>2. NoWrap
  BY <1>1 DEF GcdInit, NoWrap, Positive, GcdTypeOK, Word
<1>3. SameDivisors
  BY DEF GcdInit, SameDivisors
<1> QED BY <1>1, <1>2, <1>3 DEF GcdInv, GcdInit, Positive

(* A pass of the loop keeps what GcdInv says.                              *)
LEMMA GcdStep == GcdInv /\ [GcdNext]_gcdVars => GcdInv'
<1> SUFFICES ASSUME GcdInv, [GcdNext]_gcdVars PROVE GcdInv'
  OBVIOUS
<1> USE IntMaxAssumption
<1>1. CASE Iterate
  <2> DEFINE hi == Larger
             lo == Smaller
  <2>1. hi \in Word /\ lo \in Word /\ hi >= lo
    BY DEF GcdInv, GcdTypeOK, Larger, Smaller, Word
  <2>2. a' = lo /\ b' = Difference(hi, lo) /\ x' = x /\ y' = y
    BY <1>1 DEF Iterate
  <2>3. GcdTypeOK'
    BY <2>1, <2>2, <1>1 DEF GcdInv, GcdTypeOK, Word, Difference, Iterate
  <2>4. ASSUME Positive
        PROVE  /\ lo > 0 /\ hi > 0 /\ hi <= IntMax
               /\ Difference(hi, lo) = hi - lo
    <3>1. a > 0 /\ b > 0
      BY <2>4, <1>1 DEF GcdInv, NoWrap, Iterate, GcdTypeOK, Word
    <3> QED BY <3>1, <2>1 DEF Larger, Smaller, Difference, Word, GcdInv, GcdTypeOK
  <2>5. NoWrap'
    <3> SUFFICES ASSUME Positive PROVE NoWrap'
      BY <2>2 DEF NoWrap, Positive
    <3>1. /\ lo <= x \/ lo <= y
          /\ hi <= x \/ hi <= y
      BY DEF GcdInv, NoWrap, Larger, Smaller
    <3> QED BY <2>1, <2>2, <2>4, <3>1 DEF NoWrap, GcdInv, GcdTypeOK, Word
  <2>6. SameDivisors'
    <3> SUFFICES ASSUME Positive, NEW d \in 1 .. IntMax
                 PROVE  CommonDivisor(d, lo, hi - lo) <=> CommonDivisor(d, x, y)
      BY <2>2, <2>4 DEF SameDivisors, Positive
    <3>1. lo \in Nat /\ hi \in Nat /\ hi - lo \in Nat
      BY <2>1, <2>4 DEF Word
    <3>2. CommonDivisor(d, lo, hi - lo) <=> CommonDivisor(d, hi, lo)
      <4>1. ASSUME CommonDivisor(d, lo, hi - lo) PROVE Divides(d, hi)
        <5>1. lo + (hi - lo) = hi
          BY <3>1
        <5> QED BY <3>1, <4>1, <5>1, DividesSum DEF CommonDivisor
      <4>2. ASSUME CommonDivisor(d, hi, lo) PROVE Divides(d, hi - lo)
        BY <2>1, <3>1, <4>2, DividesDifference DEF CommonDivisor
      <4> QED BY <4>1, <4>2 DEF CommonDivisor
    <3>3. CommonDivisor(d, hi, lo) <=> CommonDivisor(d, a, b)
      BY DEF CommonDivisor, Larger, Smaller
    <3> QED BY <3>2, <3>3 DEF GcdInv, SameDivisors
  <2>7. /\ Positive' => (stage' = "done" <=> b' = 0)
        /\ stage' = "done" => b' = 0
    BY <1>1 DEF Iterate
  <2>8. a' # 0 \/ b' # 0
    <3>1. hi # 0 \/ lo # 0
      BY DEF GcdInv, GcdTypeOK, Larger, Smaller, Word
    <3> QED BY <2>1, <2>2, <3>1 DEF Difference, Word
  <2> QED BY <2>3, <2>5, <2>6, <2>7, <2>8 DEF GcdInv
<1>2. CASE UNCHANGED gcdVars
  BY <1>2 DEF gcdVars, GcdInv, GcdTypeOK, NoWrap, SameDivisors, Positive
<1> QED BY <1>1, <1>2 DEF GcdNext, Returned

(* The loop maintains the invariant, whatever the width of the int.        *)
THEOREM GcdInvariant == GcdSpec => []GcdInv
BY GcdStarts, GcdStep, PTL DEF GcdSpec

(* Every variable keeps its type; in particular the pair stays an int.     *)
THEOREM GcdTypes == GcdSpec => []GcdTypeOK
<1>1. GcdInv => GcdTypeOK
  BY DEF GcdInv
<1> QED BY <1>1, GcdInvariant, PTL

(* No pass of the loop loses or invents a common divisor.                  *)
THEOREM DivisorsKept == GcdSpec => []SameDivisors
<1>1. GcdInv => SameDivisors
  BY DEF GcdInv
<1> QED BY <1>1, GcdInvariant, PTL

(***************************************************************************)
(* What get_gcd returns for two positive intervals is their greatest       *)
(* common divisor, for every pair of ints of every width (plug.c:46-68),   *)
(* and never 0, whatever interval the configuration has written.           *)
(***************************************************************************)
THEOREM GcdCorrect == GcdSpec => []ReturnsGcd
<1>1. GcdInv => ReturnsGcd
  <2> SUFFICES ASSUME GcdInv, Positive, stage = "done"
               PROVE  IsGcd(a, x, y)
    BY DEF GcdInv, ReturnsGcd
  <2>1. /\ a \in 1 .. IntMax /\ b = 0
        /\ x \in 1 .. IntMax /\ y \in 1 .. IntMax
    BY IntMaxAssumption DEF GcdInv, NoWrap, GcdTypeOK, Word, Positive
  <2>2. CommonDivisor(a, a, b)
    BY <2>1, DividesZeroSelf DEF CommonDivisor
  <2>3. CommonDivisor(a, x, y)
    BY <2>1, <2>2 DEF GcdInv, SameDivisors
  <2>4. a \in 1 .. x
    BY <2>1, <2>3, DividesBound DEF CommonDivisor
  <2>5. ASSUME NEW d \in 1 .. x, CommonDivisor(d, x, y) PROVE d <= a
    <3>1. d \in 1 .. IntMax
      BY <2>1, IntMaxAssumption
    <3>2. CommonDivisor(d, a, b)
      BY <2>5, <3>1 DEF GcdInv, SameDivisors
    <3> QED BY <2>1, <3>2, DividesBound DEF CommonDivisor
  <2> QED BY <2>3, <2>4, <2>5 DEF IsGcd
<1> QED BY <1>1, GcdInvariant, PTL

(* With positive intervals the subtraction never wraps around.             *)
THEOREM GcdNeverWraps == GcdSpec => []NoWrap
<1>1. GcdInv => NoWrap
  BY DEF GcdInv
<1> QED BY <1>1, GcdInvariant, PTL
=============================================================================
