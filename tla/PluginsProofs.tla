--------------------------- MODULE PluginsProofs ---------------------------
(***************************************************************************)
(* What the plugins show and when they fault, for any number of elements   *)
(* and draws, any counters, capacities and sessions.                       *)
(*                                                                         *)
(* The inductive invariant PluginsInv adds to the types how far the pass   *)
(* under way has come (Passes), what must hold before an element faults    *)
(* (Sound), and, plugin by plugin, what its static variables remember of   *)
(* the world (Meter, Gauge, Title).                                        *)
(***************************************************************************)
EXTENDS Plugins, DivisorProofs

Passes ==
  /\ pc = "load" => ejected = 0 /\ todo = 0 /\ ran = 0 /\ drawn = 0
  /\ pc = "draw" => ran + todo <= elements + ejected /\ drawn > 0
  /\ pc = "destroy" => todo > 0

Sound ==
  /\ plugin = "time" /\ elements > 0 /\ pc # "crashed" => options
  /\ plugin = "oom" /\ pc = "load" => st.counter = elements + 1
  /\ ejected > 0 => plugin = "oom" /\ st.counter = MAX
  /\ HasFile /\ st.fd = "closed" =>
       /\ pc \in {"destroy", "exited", "crashed"}
       /\ pc = "destroy" => todo < elements

(* cpu.c remembers the draw in which it ran last.                          *)
Reading == [at : Nat, jiffies : Nat, playing : SUBSET Sessions]

Meter ==
  /\ readings \in Reading \X Reading
  /\ Latest.at <= drawn
  /\ ran > 0 => Latest.at = drawn
  /\ plugin = "cpu" /\ 0 \in files =>
       /\ elements > 0 => st.last = Latest.at
       /\ elements > 0 /\ Latest.at > 0 => st.sum = Latest.jiffies % Width
       /\ ran > 0 => elements > 0
       /\ CpuReading

(* battery.c remembers the battery create has seen.                        *)
Gauge ==
  plugin = "battery" /\ ~swapped =>
    /\ IF elements > 0 THEN st.slot = Slot /\ st.full = battery[Slot]
                       ELSE st.full = 0 /\ st.fd = "null"
    /\ st.fd = "open" => Slot \in files /\ st.shown = << battery[Slot], battery[Slot] >>

Title ==
  plugin = "xmms" /\ ran > 0 =>
    \/ st.shown \in Latest.playing
    \/ st.shown = -1 /\ Latest.playing = {}

PluginsInv ==
  TypeOK /\ Passes /\ Sound /\ Meter /\ Gauge /\ Title /\ OneIsSafe

-----------------------------------------------------------------------------
(* The callbacks keep the types of their static variables.                 *)

(* The plugins there are.                                                  *)
LEMMA PluginCases ==
  ASSUME TypeOK
  PROVE  plugin \in {"cpu", "battery", "xmms", "oom", "time"}
BY DEF TypeOK, New

(* What Statics is for each plugin.                                        *)
LEMMA StaticsOf ==
  ASSUME NEW s
  PROVE  /\ plugin = "cpu" => (s \in Statics <=> s \in
              [fd : Files, last : Nat, sum : 0 .. Width - 1,
               busy : Int, delta : Int])
         /\ plugin = "battery" => (s \in Statics <=> s \in
              [fd : Files, slot : {0, 1}, full : Sizes, shown : Sizes \X Sizes])
         /\ plugin = "xmms" => (s \in Statics <=> s \in
              [session : Sessions \cup {-1, 0}, shown : Sessions \cup {-1}])
         /\ plugin = "oom" => (s \in Statics <=> s \in
              [counter : 1 .. MAX, block : 0 .. MAX - 1])
         /\ plugin = "time" => (s \in Statics <=> s = << >>)
BY DEF Statics

(* get_session finds one of the sessions that run, if there is one.        *)
LEMMA SessionFound ==
  ASSUME TypeOK
  PROVE  IF playing = {} THEN GetSession = -1 ELSE GetSession \in playing
<1>1. CASE playing = {}
  BY <1>1 DEF GetSession
<1>2. CASE playing # {}
  <2>1. playing \in SUBSET Nat
    BY PluginsAssumption DEF TypeOK
  <2>2. \E i \in playing : \A j \in playing : i <= j
    BY <1>2, <2>1, LeastExists
  <2> QED
    BY <1>2, <2>2 DEF GetSession
<1> QED
  BY <1>1, <1>2

(* The counters of /proc/stat add up modulo the width of the sum.          *)
LEMMA TotalType ==
  ASSUME TypeOK
  PROVE  Total \in 0 .. Width - 1
<1>1. Width \in Nat \ {0} /\ jiffies \in Nat
  BY PluginsAssumption DEF TypeOK
<1>2. jiffies % Width \in 0 .. Width - 1
  BY <1>1
<1> QED
  BY <1>1, <1>2 DEF Total

(* create picks one of the two batteries.                                  *)
LEMMA SlotType ==
  ASSUME TypeOK
  PROVE  Slot \in {0, 1} /\ battery[Slot] \in Sizes
BY DEF TypeOK, Slot

(* create of each plugin.                                                  *)
LEMMA CreatedType ==
  ASSUME TypeOK
  PROVE  Created(st) \in Statics
<1>1. CASE plugin = "cpu"
  BY <1>1, StaticsOf DEF TypeOK, Created, CpuCreate
<1>2. CASE plugin = "battery"
  <2>1. st \in [fd : Files, slot : {0, 1}, full : Sizes, shown : Sizes \X Sizes]
    BY <1>2, StaticsOf DEF TypeOK
  <2>2. BatteryCreate(st) \in
          [fd : Files, slot : {0, 1}, full : Sizes, shown : Sizes \X Sizes]
    BY <2>1, SlotType DEF BatteryCreate
  <2> QED
    BY <1>2, <2>2, StaticsOf DEF Created
<1>3. CASE plugin = "xmms"
  <2>1. GetSession \in Sessions \cup {-1, 0}
    BY SessionFound DEF TypeOK
  <2> QED
    BY <1>3, <2>1, StaticsOf DEF TypeOK, Created
<1>4. CASE plugin \in {"oom", "time"}
  BY <1>4 DEF TypeOK, Created
<1> QED
  BY <1>1, <1>2, <1>3, <1>4, PluginCases

(* update of each plugin, when it returns.                                 *)
LEMMA UpdatedType ==
  ASSUME TypeOK, NEW s \in Statics, ~UpdateFaults(s)
  PROVE  Updated(s) \in Statics
<1>1. CASE plugin = "cpu"
  <2>1. Total \in 0 .. Width - 1 /\ Width \in Nat /\ drawn \in Nat
    BY TotalType, PluginsAssumption DEF TypeOK
  <2>2. /\ s.sum \in 0 .. Width - 1 /\ s.last \in Nat
    BY <1>1, StaticsOf
  <2>3. Total - s.sum \in Int /\ drawn - s.last \in Int
    BY <2>1, <2>2
  <2> QED
    BY <1>1, <2>1, <2>3, StaticsOf DEF Updated, CpuUpdate, CpuLast, Files
<1>2. CASE plugin = "battery"
  <2>1. s \in [fd : Files, slot : {0, 1}, full : Sizes, shown : Sizes \X Sizes]
    BY <1>2, StaticsOf
  <2>2. << s.full, battery[s.slot] >> \in Sizes \X Sizes
    BY <2>1 DEF TypeOK
  <2>3. BatteryUpdate(s) \in
          [fd : Files, slot : {0, 1}, full : Sizes, shown : Sizes \X Sizes]
    BY <2>1, <2>2 DEF BatteryUpdate, Files
  <2> QED
    BY <1>2, <2>3, StaticsOf DEF Updated
<1>3. CASE plugin = "xmms"
  <2>1. GetSession \in Sessions \cup {-1}
    BY SessionFound DEF TypeOK
  <2>2. Stays(s) => s.session \in Sessions
    BY DEF TypeOK, Stays
  <2> QED
    BY <1>3, <2>1, <2>2, StaticsOf DEF Updated, XmmsUpdate
<1>4. CASE plugin = "oom"
  <2>1. s.counter \in 1 .. MAX /\ s.counter # MAX /\ MAX \in Nat
    BY <1>4, StaticsOf, PluginsAssumption DEF UpdateFaults
  <2>2. s.counter + 1 \in 1 .. MAX /\ s.counter \in 0 .. MAX - 1
    BY <2>1
  <2> QED
    BY <1>4, <2>2, StaticsOf DEF Updated, OomUpdate
<1>5. CASE plugin = "time"
  BY <1>5, StaticsOf DEF Updated
<1> QED
  BY <1>1, <1>2, <1>3, <1>4, <1>5, PluginCases

(* destroy of each plugin.                                                 *)
LEMMA DestroyedType ==
  ASSUME TypeOK
  PROVE  Destroyed(st) \in Statics
<1>1. CASE plugin = "cpu"
  BY <1>1, StaticsOf DEF TypeOK, Destroyed, Files
<1>2. CASE plugin = "battery"
  BY <1>2, StaticsOf DEF TypeOK, Destroyed, Files
<1>3. CASE ~HasFile
  BY <1>3 DEF TypeOK, Destroyed
<1> QED
  BY <1>1, <1>2, <1>3 DEF HasFile

-----------------------------------------------------------------------------
(* The types                                                               *)

(* Which plugin it is, its options and its files do not change.            *)
LEMMA FixedStays ==
  ASSUME [Next]_vars
  PROVE  UNCHANGED << plugin, options, files >> /\ Statics' = Statics
<1>1. UNCHANGED << plugin, options, files >>
  <2>1. CASE Load
    BY <2>1 DEF Load, fixed
  <2>2. CASE Draw
    BY <2>2 DEF Draw, fixed
  <2>3. CASE Skip \/ Update \/ Eject
    BY <2>3 DEF Skip, Update, Eject, Visit, fixed
  <2>4. CASE Quit \/ Destroy
    BY <2>4 DEF Quit, Destroy, fixed
  <2>5. CASE Finished \/ UNCHANGED vars
    BY <2>5 DEF Finished, vars, fixed
  <2> QED
    BY <2>1, <2>2, <2>3, <2>4, <2>5 DEF Next
<1> QED
  BY <1>1 DEF Statics

(* The world changes to another world.                                     *)
LEMMA WorldMovesType ==
  ASSUME TypeOK, WorldMoves
  PROVE  /\ jiffies' \in Nat
         /\ battery' \in [{0, 1} -> Sizes]
         /\ playing' \subseteq Sessions
         /\ swapped' \in BOOLEAN
<1>1. jiffies' \in jiffies .. jiffies + 2
  BY DEF TypeOK, WorldMoves, For
<1>2. battery' \in [{0, 1} -> Sizes]
  BY DEF WorldMoves, Batteries, Sizes
<1>3. playing' \subseteq Sessions
  BY DEF TypeOK, WorldMoves, For
<1>4. swapped' \in BOOLEAN
  BY DEF TypeOK, WorldMoves
<1> QED
  BY <1>1, <1>2, <1>3, <1>4 DEF TypeOK

(* Before a draw the clock goes on.                                        *)
LEMMA ClockGoesOn ==
  ASSUME TypeOK, TimePasses
  PROVE  clock' \in Nat /\ clock' > clock
<1>1. clock' \in clock + 1 .. clock + 2
  BY DEF TypeOK, TimePasses, For
<1> QED
  BY <1>1 DEF TypeOK

(* Every step keeps the types.                                             *)
LEMMA StepTypes ==
  ASSUME PluginsInv, [Next]_vars
  PROVE  TypeOK'
<1> USE DEF PluginsInv
<1>1. MaxElements \in Nat /\ MaxDraws \in Nat
  BY PluginsAssumption
<1>2. TypeOK /\ UNCHANGED << plugin, options, files >> /\ Statics' = Statics
  BY FixedStays
<1>3. CASE Load
  <2>1. st' \in Statics
    <3>1. CASE UpdateFaults(Created(st))
      BY <1>3, <3>1, CreatedType DEF Load
    <3>2. CASE ~UpdateFaults(Created(st))
      BY <1>2, <1>3, <3>2, CreatedType, UpdatedType DEF Load
    <3> QED
      BY <3>1, <3>2
  <2>2. ejected = 0 /\ elements' = elements + 1 /\ elements < MaxElements
    BY <1>3 DEF Load, Passes
  <2>3. /\ UNCHANGED << ejected, todo, draws, drawn, world, notes >>
        /\ pc' \in {"load", "crashed"}
    BY <1>3 DEF Load
  <2> QED
    BY <1>1, <1>2, <2>1, <2>2, <2>3 DEF TypeOK, world, notes
<1>4. CASE Draw
  <2>1. /\ draws' = draws + 1 /\ draws < MaxDraws /\ drawn' = clock'
        /\ todo' = elements /\ ran' = 0 /\ pc' = "draw"
        /\ UNCHANGED << st, elements, ejected >>
    BY <1>4 DEF Draw
  <2>2. /\ clock' \in Nat /\ jiffies' \in Nat
        /\ battery' \in [{0, 1} -> Sizes] /\ playing' \subseteq Sessions
        /\ swapped' \in BOOLEAN
    BY <1>2, <1>4, WorldMovesType, ClockGoesOn DEF Draw, TimePasses
  <2> QED
    BY <1>1, <1>2, <2>1, <2>2 DEF TypeOK
<1>5. ASSUME Visit
      PROVE  /\ todo' \in 0 .. elements - 1 /\ pc = "draw"
             /\ UNCHANGED << draws, drawn, clock >>
             /\ jiffies' \in Nat /\ battery' \in [{0, 1} -> Sizes]
             /\ playing' \subseteq Sessions /\ swapped' \in BOOLEAN
  BY <1>2, <1>5, WorldMovesType DEF Visit, TypeOK
<1>6. CASE Skip
  BY <1>2, <1>5, <1>6 DEF Skip, TypeOK
<1>7. CASE Update
  <2>1. st' \in Statics
    BY <1>2, <1>7, UpdatedType DEF Update, TypeOK
  <2>2. /\ ran' = ran + 1 /\ UNCHANGED << pc, elements, ejected >>
    BY <1>7 DEF Update
  <2>3. ran + 1 <= MaxElements
    BY <1>1, <1>2, <1>7 DEF Update, Visit, Passes, TypeOK
  <2> QED
    BY <1>1, <1>2, <1>5, <1>7, <2>1, <2>2, <2>3 DEF Update, TypeOK
<1>8. CASE Eject
  <2>1. st' \in Statics
    <3>1. plugin = "oom"
      BY <1>2, <1>8 DEF Eject, Visit, UpdateFaults, Sound, TypeOK
    <3>2. st \in [counter : 1 .. MAX, block : 0 .. MAX - 1] /\ MAX \in Nat /\ MAX > 1
      BY <1>2, <3>1, StaticsOf, PluginsAssumption DEF TypeOK
    <3>3. Faulted(st) \in [counter : 1 .. MAX, block : 0 .. MAX - 1]
      BY <3>2 DEF Faulted
    <3> QED
      BY <1>8, <3>1, <3>3, StaticsOf DEF Eject
  <2>2. /\ elements' = elements - 1 /\ ejected' = ejected + 1
        /\ pc' \in {"draw", "crashed"} /\ ran' = ran
    BY <1>8 DEF Eject, Visit
  <2> QED
    BY <1>1, <1>2, <1>5, <1>8, <2>1, <2>2 DEF Eject, TypeOK
<1>9. CASE Quit
  <2>1. /\ pc' \in {"exited", "destroy"} /\ todo' = elements
        /\ UNCHANGED << st, elements, ejected, draws, drawn, world, notes >>
    BY <1>9 DEF Quit
  <2> QED
    BY <1>1, <1>2, <2>1 DEF TypeOK, world, notes
<1>10. CASE Destroy
  <2>1. /\ pc' \in {"exited", "destroy", "crashed"} /\ todo' = todo - 1
        /\ st' = Destroyed(st) /\ todo > 0
        /\ UNCHANGED << elements, ejected, draws, drawn, world, notes >>
    BY <1>10 DEF Destroy, Passes
  <2> QED
    BY <1>1, <1>2, <2>1, DestroyedType DEF TypeOK, world, notes
<1>11. CASE Finished \/ UNCHANGED vars
  BY <1>2, <1>11 DEF Finished, vars, world, notes, TypeOK
<1> QED
  BY <1>3, <1>4, <1>6, <1>7, <1>8, <1>9, <1>10, <1>11 DEF Next

-----------------------------------------------------------------------------
(* How far a pass has come, and what must hold before a fault              *)

(* Every step keeps to the passes: load, draws, destroy.                   *)
LEMMA StepPasses ==
  ASSUME PluginsInv, [Next]_vars
  PROVE  Passes'
<1>1. /\ elements \in Nat /\ ejected \in Nat /\ todo \in 0 .. elements
      /\ ran \in Nat /\ clock \in Nat /\ drawn \in 0 .. clock
      /\ TypeOK /\ Passes
  BY PluginsAssumption DEF PluginsInv, TypeOK
<1>2. CASE Load
  BY <1>1, <1>2 DEF Load, Passes, notes
<1>3. CASE Draw
  <2>1. clock' \in Nat /\ clock' > clock
    BY <1>1, <1>3, ClockGoesOn DEF Draw
  <2> QED
    BY <1>1, <1>3, <2>1 DEF Draw, Passes
<1>4. CASE Skip
  BY <1>1, <1>4 DEF Skip, Visit, Passes
<1>5. CASE Update
  BY <1>1, <1>5 DEF Update, Visit, Passes
<1>6. CASE Eject
  BY <1>1, <1>6 DEF Eject, Visit, Passes
<1>7. CASE Quit
  BY <1>1, <1>7 DEF Quit, Passes
<1>8. CASE Destroy
  BY <1>1, <1>8 DEF Destroy, Passes
<1>9. CASE Finished \/ UNCHANGED vars
  BY <1>1, <1>9 DEF Finished, vars, notes, Passes
<1> QED
  BY <1>2, <1>3, <1>4, <1>5, <1>6, <1>7, <1>8, <1>9 DEF Next

(* What create and update leave as it is.                                  *)
LEMMA OomCounts ==
  ASSUME TypeOK, plugin = "oom"
  PROVE  /\ Created(st) = st /\ st.counter \in 1 .. MAX
         /\ UpdateFaults(st) <=> st.counter = MAX
         /\ Updated(st).counter = st.counter + 1
         /\ Faulted(st).counter = st.counter
<1>1. st \in [counter : 1 .. MAX, block : 0 .. MAX - 1]
  BY StaticsOf DEF TypeOK
<1> QED
  BY <1>1 DEF Created, UpdateFaults, Updated, OomUpdate, Faulted

(* create and update leave a file open or as it was.                       *)
LEMMA FileStaysOpen ==
  ASSUME TypeOK, HasFile, NEW s \in Statics
  PROVE  /\ Created(st).fd = st.fd
         /\ Updated(s).fd = "closed" => s.fd = "closed"
<1>1. CASE plugin = "cpu"
  <2>1. /\ st \in [fd : Files, last : Nat, sum : 0 .. Width - 1,
                   busy : Int, delta : Int]
    BY <1>1, StaticsOf DEF TypeOK
  <2>2. Created(st).fd = st.fd
    BY <1>1, <2>1 DEF Created, CpuCreate
  <2>3. Updated(s).fd # "closed"
    BY <1>1 DEF Updated, CpuUpdate
  <2> QED
    BY <2>2, <2>3
<1>2. CASE plugin = "battery"
  <2>1. /\ st \in [fd : Files, slot : {0, 1}, full : Sizes, shown : Sizes \X Sizes]
        /\ s \in [fd : Files, slot : {0, 1}, full : Sizes, shown : Sizes \X Sizes]
    BY <1>2, StaticsOf DEF TypeOK
  <2>2. Created(st).fd = st.fd
    BY <1>2, <2>1 DEF Created, BatteryCreate
  <2>3. Updated(s).fd \in {s.fd, "open"}
    BY <1>2, <2>1 DEF Updated, BatteryUpdate
  <2> QED
    BY <2>2, <2>3
<1> QED
  BY <1>1, <1>2 DEF HasFile

(* destroy leaves no file open.                                            *)
LEMMA FileDestroyed ==
  ASSUME TypeOK, HasFile
  PROVE  st.fd \in Files /\ Destroyed(st).fd = IF st.fd = "open" THEN "closed" ELSE st.fd
<1>1. CASE plugin = "cpu"
  <2>1. st \in [fd : Files, last : Nat, sum : 0 .. Width - 1,
                busy : Int, delta : Int]
    BY <1>1, StaticsOf DEF TypeOK
  <2> QED
    BY <2>1 DEF HasFile, Destroyed
<1>2. CASE plugin = "battery"
  <2>1. st \in [fd : Files, slot : {0, 1}, full : Sizes, shown : Sizes \X Sizes]
    BY <1>2, StaticsOf DEF TypeOK
  <2> QED
    BY <2>1 DEF HasFile, Destroyed
<1> QED
  BY <1>1, <1>2 DEF HasFile

(* Only oom faults in a draw, and only when its counter is at the end.     *)
LEMMA OnlyOomFaults ==
  ASSUME PluginsInv, Visit, UpdateFaults(st)
  PROVE  plugin = "oom" /\ st.counter = MAX
<1>1. elements > 0 /\ pc # "crashed"
  BY DEF PluginsInv, TypeOK, Visit
<1> QED
  BY <1>1 DEF PluginsInv, Sound, UpdateFaults

(* Every step keeps what holds before an element faults.                   *)
LEMMA StepSound ==
  ASSUME PluginsInv, [Next]_vars
  PROVE  Sound'
<1>1. /\ TypeOK /\ Sound /\ Passes
      /\ plugin' = plugin /\ options' = options
      /\ HasFile' = HasFile
      /\ elements \in Nat /\ ejected \in Nat /\ todo \in 0 .. elements
  BY FixedStays, PluginsAssumption DEF PluginsInv, TypeOK, HasFile
<1> DEFINE Time  == plugin = "time" /\ elements > 0 /\ pc # "crashed" => options
           Oom   == plugin = "oom" /\ pc = "load" => st.counter = elements + 1
           Gone  == ejected > 0 => plugin = "oom" /\ st.counter = MAX
           Files1 == HasFile /\ st.fd = "closed" =>
                       /\ pc \in {"destroy", "exited", "crashed"}
                       /\ pc = "destroy" => todo < elements
<1>2. Sound <=> Time /\ Oom /\ Gone /\ Files1
  BY DEF Sound
<1>3. Time' /\ Oom' /\ Gone' /\ Files1' => Sound'
  BY DEF Sound
<1>4. CASE Load
  <2> DEFINE s == Created(st)
  <2>1. /\ pc = "load" /\ elements' = elements + 1 /\ ejected' = 0
        /\ \/ UpdateFaults(s) /\ pc' = "crashed" /\ st' = s
           \/ ~UpdateFaults(s) /\ pc' = "load" /\ st' = Updated(s)
    BY <1>1, <1>4 DEF Load, Passes
  <2>2. Time'
    BY <1>1, <2>1 DEF UpdateFaults
  <2>3. Oom'
    BY <1>1, <1>2, <2>1, OomCounts
  <2>4. Files1'
    BY <1>1, <1>2, <2>1, FileStaysOpen, CreatedType
  <2> QED
    BY <1>3, <2>1, <2>2, <2>3, <2>4
<1>5. CASE Draw
  BY <1>1, <1>2, <1>3, <1>5 DEF Draw
<1>6. CASE Skip
  BY <1>1, <1>2, <1>3, <1>6 DEF Skip, Visit
<1>7. CASE Update
  <2>1. /\ pc = "draw" /\ UNCHANGED << pc, elements, ejected >>
        /\ st' = Updated(st) /\ ~UpdateFaults(st) /\ elements > 0
    BY <1>1, <1>7 DEF Update, Visit
  <2>2. Time' /\ Oom'
    BY <1>1, <1>2, <2>1
  <2>3. Gone'
    BY <1>1, <1>2, <2>1, OomCounts
  <2>4. Files1'
    BY <1>1, <1>2, <2>1, FileStaysOpen DEF TypeOK
  <2> QED
    BY <1>3, <2>2, <2>3, <2>4
<1>8. CASE Eject
  <2>1. plugin = "oom" /\ st.counter = MAX /\ st' = Faulted(st)
    BY <1>8, OnlyOomFaults DEF Eject
  <2>2. pc = "draw" /\ pc' \in {"draw", "crashed"}
    BY <1>8 DEF Eject, Visit
  <2> QED
    BY <1>1, <1>2, <1>3, <2>1, <2>2, OomCounts DEF HasFile
<1>9. CASE Quit
  BY <1>1, <1>2, <1>3, <1>9 DEF Quit
<1>10. CASE Destroy
  <2>1. /\ pc = "destroy" /\ pc' \in {"destroy", "exited", "crashed"}
        /\ st' = Destroyed(st) /\ todo' = todo - 1 /\ todo > 0
        /\ UNCHANGED << elements, ejected >>
    BY <1>1, <1>10 DEF Destroy, Passes
  <2>2. ~HasFile => st' = st
    BY <2>1 DEF Destroyed
  <2>3. Time' /\ Oom'
    BY <1>1, <1>2, <2>1
  <2>4. Gone'
    BY <1>1, <1>2, <2>1, <2>2 DEF HasFile
  <2>5. Files1'
    BY <1>1, <2>1
  <2> QED
    BY <1>3, <2>3, <2>4, <2>5
<1>11. CASE Finished \/ UNCHANGED vars
  BY <1>1, <1>2, <1>3, <1>11 DEF Finished, vars
<1> QED
  BY <1>4, <1>5, <1>6, <1>7, <1>8, <1>9, <1>10, <1>11 DEF Next

(* No step lets a single element fault, but where OneIsSafe says so.       *)
LEMMA StepSafe ==
  ASSUME PluginsInv, [Next]_vars
  PROVE  OneIsSafe'
<1>1. /\ TypeOK /\ Sound /\ Passes /\ OneIsSafe
      /\ plugin' = plugin /\ options' = options
      /\ elements \in Nat /\ ejected \in Nat /\ todo \in 0 .. elements
  BY FixedStays, PluginsAssumption DEF PluginsInv, TypeOK
<1>2. CASE Load
  <2>1. /\ pc = "load" /\ elements' = elements + 1 /\ ejected' = 0
        /\ pc' = "crashed" => UpdateFaults(Created(st))
    BY <1>1, <1>2 DEF Load, Passes
  <2>2. CASE plugin = "oom" /\ pc' = "crashed"
    <3>1. elements + 1 = MAX
      BY <1>1, <2>1, <2>2, OomCounts DEF Sound
    <3> QED
      BY <1>1, <2>1, <2>2, <3>1, PluginsAssumption DEF OneIsSafe
  <2> QED
    BY <1>1, <2>1, <2>2 DEF OneIsSafe, UpdateFaults
<1>3. CASE Draw
  BY <1>3 DEF Draw, OneIsSafe
<1>4. CASE Skip \/ Update
  BY <1>4 DEF Skip, Update, Visit, OneIsSafe
<1>5. CASE Eject
  <2>1. /\ plugin = "oom" /\ elements > 0
        /\ elements' = elements - 1 /\ ejected' = ejected + 1
        /\ pc' = "crashed" => ejected > 0
    BY <1>1, <1>5, OnlyOomFaults DEF Eject, Visit
  <2> QED
    BY <1>1, <2>1 DEF OneIsSafe
<1>6. CASE Quit
  BY <1>6 DEF Quit, OneIsSafe
<1>7. CASE Destroy
  <2>1. /\ UNCHANGED << elements, ejected >>
        /\ pc' = "crashed" => HasFile /\ todo < elements /\ todo > 0
    BY <1>1, <1>7 DEF Destroy, DestroyFaults, Sound, Passes
  <2> QED
    BY <1>1, <2>1 DEF OneIsSafe, HasFile
<1>8. CASE Finished \/ UNCHANGED vars
  BY <1>1, <1>8 DEF Finished, vars, OneIsSafe
<1> QED
  BY <1>2, <1>3, <1>4, <1>5, <1>6, <1>7, <1>8 DEF Next

-----------------------------------------------------------------------------
(* What the static variables remember                                      *)

(* Two sums that have wrapped around differ by what they would have        *)
(* without, and a multiple of the width.                                   *)
LEMMA WrappedDifference ==
  ASSUME NEW W \in Nat \ {0}, NEW a \in Nat, NEW b \in Nat
  PROVE  (a % W) - (b % W) = a - b - ((a \div W) - (b \div W)) * W
<1> DEFINE q == a \div W
           r == b \div W
<1>1. q \in Int /\ r \in Int /\ a = q * W + (a % W) /\ b = r * W + (b % W)
  OBVIOUS
<1>2. (q - r) * W = q * W - r * W
  BY <1>1
<1> QED
  BY <1>1, <1>2

(* Every step leaves cpu.c with the jiffies of the draw it ran in last.    *)
LEMMA StepMeter ==
  ASSUME PluginsInv, [Next]_vars
  PROVE  Meter'
<1>1. /\ TypeOK /\ Passes /\ Sound /\ Meter
      /\ plugin' = plugin /\ files' = files
      /\ elements \in Nat /\ todo \in 0 .. elements /\ ran \in Nat
      /\ clock \in Nat /\ drawn \in 0 .. clock /\ jiffies \in Nat
      /\ playing \subseteq Sessions
      /\ Width \in Nat \ {0}
  BY FixedStays, PluginsAssumption DEF PluginsInv, TypeOK
<1>2. /\ Latest \in Reading /\ Before \in Reading
      /\ Latest.at \in Nat /\ Latest.jiffies \in Nat
  BY <1>1 DEF Meter, Latest, Before, Reading
<1>3. CASE Load
  <2>1. /\ UNCHANGED << readings, ran, drawn >>
        /\ drawn = 0 /\ ran = 0 /\ Latest.at = 0
    BY <1>1, <1>2, <1>3 DEF Load, Passes, Meter, notes, world
  <2>2. plugin = "cpu" => st'.last = 0
    BY <1>1, <1>3, <2>1
       DEF Load, UpdateFaults, Created, CpuCreate, Updated, CpuUpdate, CpuLast
  <2> QED
    BY <1>1, <2>1, <2>2 DEF Meter, CpuReading, Latest
<1>4. CASE Draw
  <2>1. /\ clock' \in Nat /\ clock' > clock /\ drawn' = clock'
        /\ UNCHANGED << st, elements, readings >> /\ ran' = 0
    BY <1>1, <1>4, ClockGoesOn DEF Draw
  <2> QED
    BY <1>1, <1>2, <2>1 DEF Meter, CpuReading, Latest
<1>5. CASE Skip
  <2>1. UNCHANGED << st, elements, readings, ran, drawn >>
    BY <1>5 DEF Skip, Visit
  <2> QED
    BY <1>1, <2>1 DEF Meter, CpuReading, Latest, Before, Wraps
<1>6. CASE Update
  <2>1. /\ UNCHANGED << elements, drawn >> /\ elements > 0 /\ drawn > 0
        /\ st' = Updated(st) /\ ran' = ran + 1
        /\ readings' =
             << [at |-> drawn, jiffies |-> jiffies, playing |-> playing],
                IF ran > 0 THEN readings[2] ELSE readings[1] >>
    BY <1>1, <1>6 DEF Update, Visit, Passes
  <2>2. /\ readings' \in Reading \X Reading
        /\ Latest'.at = drawn /\ Latest'.jiffies = jiffies
        /\ ran = 0 => Before' = Latest
    BY <1>1, <1>2, <2>1 DEF Meter, Reading, Latest, Before
  <2>3. CASE plugin = "cpu" /\ 0 \in files
    <3>1. /\ st.last = Latest.at
          /\ Latest.at > 0 => st.sum = Latest.jiffies % Width
      BY <1>1, <2>1, <2>3 DEF Meter
    <3>2. /\ st'.last = drawn /\ st'.sum = jiffies % Width
          /\ st'.busy = (jiffies % Width) - st.sum
          /\ st'.delta = drawn - st.last
      BY <2>1, <2>3 DEF Updated, CpuUpdate, CpuLast, Total
    <3>3. CpuReading'
      <4>1. CASE ran > 0
        <5>1. Latest.at = drawn
          BY <1>1, <4>1 DEF Meter
        <5>2. st'.delta = 0
          BY <1>1, <3>1, <3>2, <5>1
        <5> QED
          BY <1>1, <2>1, <4>1, <5>2 DEF CpuReading
      <4>2. CASE ran = 0 /\ Latest.at = 0
        <5>1. st'.delta = Latest'.at /\ Before'.at = 0 /\ ~(ran' > 1)
          BY <1>1, <2>1, <2>2, <3>1, <3>2, <4>2
        <5> QED
          BY <5>1 DEF CpuReading
      <4>3. CASE ran = 0 /\ Latest.at # 0
        <5>1. Before' = Latest /\ ~(ran' > 1) /\ Before'.at # 0
          BY <1>1, <2>1, <2>2, <4>3
        <5>2. st'.delta = Latest'.at - Before'.at
          BY <2>2, <3>1, <3>2, <5>1
        <5>3. st'.busy = (jiffies % Width) - (Latest.jiffies % Width)
          BY <1>2, <3>1, <3>2, <4>3
        <5>4. Wraps' = (jiffies \div Width) - (Latest.jiffies \div Width)
          BY <2>2, <5>1 DEF Wraps
        <5>5. st'.busy = jiffies - Latest.jiffies - Wraps' * Width
          BY <1>1, <1>2, <5>3, <5>4, WrappedDifference
        <5> QED
          BY <2>2, <5>1, <5>2, <5>5 DEF CpuReading
      <4> QED
        BY <1>1, <4>1, <4>2, <4>3
    <3> QED
      BY <1>1, <2>1, <2>2, <3>2, <3>3 DEF Meter
  <2>4. CASE ~(plugin = "cpu" /\ 0 \in files)
    BY <1>1, <2>1, <2>2, <2>4 DEF Meter
  <2> QED
    BY <2>3, <2>4
<1>7. CASE Eject
  <2>1. /\ UNCHANGED << readings, ran, drawn >> /\ plugin = "oom"
    BY <1>7, OnlyOomFaults DEF Eject, Visit
  <2> QED
    BY <1>1, <2>1 DEF Meter, Latest
<1>8. CASE Quit
  <2>1. UNCHANGED << st, elements, readings, ran, drawn >>
    BY <1>8 DEF Quit, notes
  <2> QED
    BY <1>1, <2>1 DEF Meter, CpuReading, Latest, Before, Wraps
<1>9. CASE Destroy
  <2>1. /\ UNCHANGED << elements, readings, ran, drawn >>
        /\ st' = Destroyed(st)
    BY <1>9 DEF Destroy, notes
  <2>2. plugin = "cpu" => /\ st'.last = st.last /\ st'.sum = st.sum
                          /\ st'.busy = st.busy /\ st'.delta = st.delta
    BY <1>1, <2>1, StaticsOf DEF TypeOK, Destroyed
  <2> QED
    BY <1>1, <2>1, <2>2 DEF Meter, CpuReading, Latest, Before, Wraps
<1>10. CASE Finished \/ UNCHANGED vars
  <2>1. UNCHANGED << st, elements, readings, ran, drawn >>
    BY <1>10 DEF Finished, vars, notes
  <2> QED
    BY <1>1, <2>1 DEF Meter, CpuReading, Latest, Before, Wraps
<1> QED
  BY <1>3, <1>4, <1>5, <1>6, <1>7, <1>8, <1>9, <1>10 DEF Next

BatteryType == [fd : Files, slot : {0, 1}, full : Sizes, shown : Sizes \X Sizes]

(* create reads the capacity of the battery that is in the slot, or leaves *)
(* what it has read before; a battery has a capacity.                      *)
LEMMA CreateGauges ==
  ASSUME TypeOK, plugin = "battery", Gauge, ~swapped
  PROVE  /\ st \in BatteryType /\ Created(st) \in BatteryType
         /\ Created(st).slot = Slot /\ Created(st).full = battery[Slot]
         /\ Created(st).fd = st.fd /\ Created(st).shown = st.shown
<1>1. st \in BatteryType
  BY StaticsOf DEF TypeOK, BatteryType
<1>2. Created(st) = [st EXCEPT !.slot = Slot,
                               !.full = IF battery[Slot] # 0 THEN battery[Slot] ELSE @]
  BY DEF Created, BatteryCreate
<1>3. Slot \in {0, 1} /\ battery[Slot] \in Sizes
  BY SlotType
<1>4. battery[Slot] = 0 => st.full = 0
  BY DEF Gauge
<1> QED
  BY <1>1, <1>2, <1>3, <1>4 DEF BatteryType

(* update shows the percentage of the battery that create has found.       *)
LEMMA UpdateGauges ==
  ASSUME plugin = "battery", NEW s \in BatteryType
  PROVE  /\ Updated(s).slot = s.slot /\ Updated(s).full = s.full
         /\ s.slot \notin files => Updated(s) = s
         /\ s.slot \in files => /\ Updated(s).fd = "open"
                                /\ Updated(s).shown = << s.full, battery[s.slot] >>
BY DEF Updated, BatteryUpdate, BatteryType

(* Every step leaves battery.c with the battery that create has seen.      *)
LEMMA StepGauge ==
  ASSUME PluginsInv, [Next]_vars
  PROVE  Gauge'
<1>1. /\ TypeOK /\ Passes /\ Sound /\ Gauge
      /\ plugin' = plugin /\ files' = files /\ Slot' = Slot
      /\ elements \in Nat /\ todo \in 0 .. elements
  BY FixedStays, PluginsAssumption DEF PluginsInv, TypeOK, Slot
<1> SUFFICES ASSUME plugin = "battery", ~swapped'
             PROVE  Gauge'
  BY <1>1 DEF Gauge
<1>2. CASE Load
  <2>1. UNCHANGED << battery, swapped >> /\ elements' = elements + 1
    BY <1>2 DEF Load, world, notes
  <2>2. st' = Updated(Created(st))
    BY <1>2 DEF Load, UpdateFaults
  <2>3. /\ Created(st) \in BatteryType
        /\ Created(st).slot = Slot /\ Created(st).full = battery[Slot]
        /\ Created(st).fd = st.fd /\ Created(st).shown = st.shown
    BY <1>1, <2>1, CreateGauges
  <2>4. st'.slot = Slot /\ st'.full = battery[Slot]
    BY <2>2, <2>3, UpdateGauges
  <2>5. st'.fd = "open" =>
          Slot \in files /\ st'.shown = << battery[Slot], battery[Slot] >>
    <3>1. CASE Slot \in files
      BY <2>2, <2>3, <3>1, UpdateGauges
    <3>2. CASE Slot \notin files
      <4>1. st'.fd = st.fd
        BY <2>2, <2>3, <3>2, UpdateGauges
      <4> QED
        BY <1>1, <2>1, <3>2, <4>1 DEF Gauge
    <3> QED
      BY <3>1, <3>2
  <2> QED
    BY <1>1, <2>1, <2>4, <2>5 DEF Gauge
<1>3. CASE Draw
  <2>1. /\ UNCHANGED << st, elements >>
        /\ battery' = battery /\ ~swapped
    BY <1>3 DEF Draw, TimePasses, WorldMoves
  <2> QED
    BY <1>1, <2>1 DEF Gauge
<1>4. CASE Skip
  <2>1. UNCHANGED << st, elements >> /\ battery' = battery /\ ~swapped
    BY <1>4 DEF Skip, Visit, WorldMoves
  <2> QED
    BY <1>1, <2>1 DEF Gauge
<1>5. CASE Update
  <2>1. /\ elements' = elements /\ elements > 0
        /\ battery' = battery /\ ~swapped
        /\ st' = Updated(st)
    <3>1. todo > 0 /\ elements' = elements /\ st' = Updated(st)
      BY <1>5 DEF Update, Visit
    <3>2. battery' = battery /\ ~swapped
      BY <1>5 DEF Update, Visit, WorldMoves
    <3> QED
      BY <1>1, <3>1, <3>2
  <2>2. st \in BatteryType
    BY <1>1, <2>1, CreateGauges
  <2>3. st.slot = Slot /\ st.full = battery[Slot]
    BY <1>1, <2>1 DEF Gauge
  <2>4. st'.slot = Slot /\ st'.full = battery[Slot]
    BY <2>1, <2>2, <2>3, UpdateGauges
  <2>5. st'.fd = "open" =>
          Slot \in files /\ st'.shown = << battery[Slot], battery[Slot] >>
    <3>1. CASE Slot \in files
      BY <2>1, <2>2, <2>3, <3>1, UpdateGauges
    <3>2. CASE Slot \notin files
      <4>1. st'.fd = st.fd
        BY <2>1, <2>2, <2>3, <3>2, UpdateGauges
      <4> QED
        BY <1>1, <2>1, <3>2, <4>1 DEF Gauge
    <3> QED
      BY <3>1, <3>2
  <2> QED
    BY <1>1, <2>1, <2>4, <2>5 DEF Gauge
<1>6. CASE Eject
  BY <1>6, OnlyOomFaults DEF Eject
<1>7. CASE Quit
  <2>1. UNCHANGED << st, elements, battery, swapped >>
    BY <1>7 DEF Quit, world, notes
  <2> QED
    BY <1>1, <2>1 DEF Gauge
<1>8. CASE Destroy
  <2>1. /\ UNCHANGED << elements, battery, swapped >>
        /\ st' = Destroyed(st)
    BY <1>8 DEF Destroy, world, notes
  <2>2. st \in BatteryType
    BY <1>1, <2>1, CreateGauges
  <2>3. /\ st'.slot = st.slot /\ st'.full = st.full /\ st'.shown = st.shown
        /\ st'.fd = IF st.fd = "open" THEN "closed" ELSE st.fd
    BY <1>1, <2>1, <2>2, FileDestroyed DEF Destroyed, HasFile, BatteryType
  <2> QED
    BY <1>1, <2>1, <2>3 DEF Gauge
<1>9. CASE Finished \/ UNCHANGED vars
  <2>1. UNCHANGED << st, elements, battery, swapped >>
    BY <1>9 DEF Finished, vars, world, notes
  <2> QED
    BY <1>1, <2>1 DEF Gauge
<1> QED
  BY <1>2, <1>3, <1>4, <1>5, <1>6, <1>7, <1>8, <1>9 DEF Next

(* Every step leaves xmms.c with a title that was played at its update.    *)
LEMMA StepTitle ==
  ASSUME PluginsInv, [Next]_vars
  PROVE  Title'
<1> DEFINE Shown == \/ st.shown \in Latest.playing
                    \/ st.shown = -1 /\ Latest.playing = {}
<1>1. TypeOK /\ Passes /\ Title /\ plugin' = plugin
  BY FixedStays DEF PluginsInv
<1> SUFFICES ASSUME plugin = "xmms", ran' > 0
             PROVE  Shown'
  BY <1>1 DEF Title
<1>2. CASE Load
  BY <1>1, <1>2 DEF Load, Passes, notes
<1>3. CASE Draw
  BY <1>3 DEF Draw
<1>4. CASE Update
  <2>1. Latest'.playing = playing /\ st' = XmmsUpdate(st)
    BY <1>4 DEF Update, Updated, Latest
  <2>2. CASE Stays(st)
    BY <2>1, <2>2 DEF XmmsUpdate, Stays
  <2>3. CASE ~Stays(st)
    <3>1. st'.shown = GetSession
      BY <2>1, <2>3 DEF XmmsUpdate
    <3> QED
      BY <1>1, <2>1, <3>1, SessionFound
  <2> QED
    BY <2>2, <2>3
<1>5. CASE Eject
  BY <1>5, OnlyOomFaults DEF Eject
<1>6. ASSUME UNCHANGED << st, ran, readings >>
      PROVE  Shown'
  BY <1>1, <1>6 DEF Title, Latest
<1>7. CASE Skip
  BY <1>6, <1>7 DEF Skip, Visit
<1>8. CASE Quit
  BY <1>6, <1>8 DEF Quit, notes
<1>9. CASE Destroy
  <2>1. UNCHANGED << st, ran, readings >>
    BY <1>9 DEF Destroy, Destroyed, HasFile, notes
  <2> QED
    BY <1>6, <2>1
<1>10. CASE Finished \/ UNCHANGED vars
  BY <1>6, <1>10 DEF Finished, vars, notes
<1> QED
  BY <1>2, <1>3, <1>4, <1>5, <1>7, <1>8, <1>9, <1>10 DEF Next

-----------------------------------------------------------------------------
(* What holds before the first element is loaded.                          *)
LEMMA InitInvariant == Init => PluginsInv
<1> SUFFICES ASSUME Init
             PROVE  PluginsInv
  OBVIOUS
<1>1. /\ {MaxElements, MaxDraws, Clock} \subseteq Nat /\ Jiffies \subseteq Nat
      /\ Width \in Nat \ {0} /\ MAX \in Nat /\ MAX > 1
      /\ Width - 1 \in Nat /\ MAX - 1 \in Nat
  BY PluginsAssumption
<1>2. /\ st = New[plugin] /\ plugin \in {"cpu", "battery", "xmms", "oom", "time"}
      /\ DOMAIN New = {"cpu", "battery", "xmms", "oom", "time"}
  BY DEF Init, New
<1>3. st \in Statics
  <2>1. CASE plugin = "cpu"
    <3>1. New["cpu"] \in [fd : Files, last : Nat, sum : 0 .. Width - 1,
                          busy : Int, delta : Int]
      BY <1>1 DEF New, Files
    <3> QED
      BY <1>2, <2>1, <3>1, StaticsOf
  <2>2. CASE plugin = "battery"
    <3>1. New["battery"] \in
            [fd : Files, slot : {0, 1}, full : Sizes, shown : Sizes \X Sizes]
      BY DEF New, Files, Sizes
    <3> QED
      BY <1>2, <2>2, <3>1, StaticsOf
  <2>3. CASE plugin = "xmms"
    BY <1>2, <2>3, StaticsOf DEF New
  <2>4. CASE plugin = "oom"
    BY <1>1, <1>2, <2>4, StaticsOf DEF New
  <2>5. CASE plugin = "time"
    BY <1>2, <2>5, StaticsOf DEF New
  <2> QED
    BY <1>2, <2>1, <2>2, <2>3, <2>4, <2>5
<1>4. /\ options \in BOOLEAN /\ files \subseteq {0, 1}
      /\ jiffies \in Nat /\ playing \subseteq Sessions
      /\ battery \in [{0, 1} -> Sizes]
  <2>1. options \in BOOLEAN
    BY Zenon DEF Init, For
  <2>2. files \subseteq {0, 1} /\ jiffies \in Nat
    BY <1>1 DEF Init, For
  <2>3. playing \subseteq Sessions
    BY DEF Init, For
  <2>4. battery \in [{0, 1} -> Sizes]
    BY DEF Init, Batteries, Sizes
  <2> QED
    BY <2>1, <2>2, <2>3, <2>4
<1>5. TypeOK
  <2>1. /\ plugin \in DOMAIN New /\ pc = "load" /\ elements = 0 /\ ejected = 0
        /\ todo = 0 /\ draws = 0 /\ clock = Clock /\ drawn = 0 /\ ran = 0
        /\ swapped = FALSE
    BY DEF Init
  <2>2. /\ 0 \in 0 .. MaxElements - 0 /\ 0 \in 0 .. 0 /\ 0 \in 0 .. MaxDraws
        /\ 0 \in 0 .. MaxElements /\ Clock \in Nat /\ 0 \in 0 .. Clock
    BY <1>1
  <2> QED
    BY <1>3, <1>4, <2>1, <2>2, Zenon DEF TypeOK
<1>6. Passes /\ OneIsSafe
  BY DEF Init, Passes, OneIsSafe
<1>7. Sound
  BY <1>2 DEF Init, Sound, New, HasFile
<1>8. Meter
  <2>1. readings \in Reading \X Reading /\ Latest.at = 0
    BY DEF Init, Reading, Latest, Nothing
  <2> QED
    BY <2>1 DEF Init, Meter, CpuReading
<1>9. Gauge
  BY <1>2 DEF Init, Gauge, New
<1>10. Title
  BY DEF Init, Title
<1> QED
  BY <1>5, <1>6, <1>7, <1>8, <1>9, <1>10 DEF PluginsInv

(* In every state the plugins can be in, their static variables remember   *)
(* of the world what the invariant says.                                   *)
THEOREM PluginsInvariant == Spec => []PluginsInv
<1>1. PluginsInv /\ [Next]_vars => PluginsInv'
  BY StepTypes, StepPasses, StepSound, StepMeter, StepGauge, StepTitle, StepSafe
     DEF PluginsInv
<1> QED
  BY <1>1, InitInvariant, PTL DEF Spec

(* Every variable of the plugins has a value of its type: the counter of   *)
(* oom.c never passes MAX, the sums of cpu.c fit an unsigned int.          *)
THEOREM PluginTypes == Spec => []TypeOK
<1>1. PluginsInv => TypeOK
  BY DEF PluginsInv
<1> QED
  BY <1>1, PluginsInvariant, PTL

(* After an element of oom.c has been ejected, and the block its siblings  *)
(* still point at freed, each of their updates faults before it uses it.   *)
THEOREM FreedBlockNeverUsed == Spec => []FreedBlockUnused
<1>1. PluginsInv => FreedBlockUnused
  BY DEF PluginsInv, Sound, FreedBlockUnused, UpdateFaults
<1> QED
  BY <1>1, PluginsInvariant, PTL

(* A plugin loaded once never takes the program down with a fault of its   *)
(* own, but for time without options.                                      *)
THEOREM OneElementIsSafe == Spec => []OneIsSafe
<1>1. PluginsInv => OneIsSafe
  BY DEF PluginsInv
<1> QED
  BY <1>1, PluginsInvariant, PTL

(* What cpu.c divides is the time and the jiffies between the latest two   *)
(* draws it ran in, for every width of an unsigned int: short of a         *)
(* multiple of it, and of the first draw, and unless it ran twice in one.  *)
THEOREM CpuReads == Spec => []CpuReading
<1>1. PluginsInv => CpuReading
  BY DEF PluginsInv, Meter, CpuReading
<1> QED
  BY <1>1, PluginsInvariant, PTL

(* The percentage is of the battery in the first slot, against the         *)
(* capacity of the same battery, until one is put in or taken out; a title *)
(* is of a session that ran when it was read.                              *)
THEOREM ShowsRight == Spec => []ShowsWhatIsThere
<1>1. PluginsInv => ShowsWhatIsThere
  <2> SUFFICES ASSUME PluginsInv
               PROVE  ShowsWhatIsThere
    OBVIOUS
  <2>1. Gauge /\ Title /\ files \subseteq {0, 1}
    BY DEF PluginsInv, TypeOK
  <2>2. ASSUME Slot \in files
        PROVE  Slot = CHOOSE i \in files : \A j \in files : i <= j
    <3>1. /\ \A j \in files : Slot <= j
          /\ \A i \in files : (\A j \in files : i <= j) => i = Slot
      BY <2>1, <2>2 DEF Slot
    <3> QED
      BY <2>2, <3>1
  <2> QED
    BY <2>1, <2>2 DEF Gauge, Title, ShowsWhatIsThere
<1> QED
  BY <1>1, PluginsInvariant, PTL
=============================================================================
