------------------------------ MODULE Plugins ------------------------------
(***************************************************************************)
(* What the plugins in plugins/ compute: cpu.c, battery.c, xmms.c, oom.c   *)
(* and time.c, each by what its create, update and destroy callbacks make  *)
(* of its static variables and of what /proc, XMMS and the clock tell.     *)
(*                                                                         *)
(* The configuration loads one plugin, once or several times; its elements *)
(* share the library and so the static variables.  The host is reduced to  *)
(* the calls it makes (module PlugHost has the host, Schedule the time):   *)
(* create and update for each element while it loads, update for the ones  *)
(* that are due in a draw, destroy for each at the end.  The first fault   *)
(* in a draw ejects the element, every other one is the end.               *)
(*                                                                         *)
(* Left out: the wording of data, and which of AC and BAT battery.c says,  *)
(* which is read from an uninitialised array if the slot is empty.         *)
(***************************************************************************)
EXTENDS Integers

CONSTANTS
  MaxElements, \* bound: elements of the plugin
  MaxDraws,    \* bound: draws
  Clock,       \* the clock when the configuration is read
  Jiffies,     \* what the counters of /proc/stat may add up to by then
  Width,       \* values of an unsigned int, 2^32 in the code
  Capacities,  \* of the batteries one may put into a slot
  Sessions,    \* sessions of XMMS, 0 .. 15 in the code
  MAX          \* of oom.c, 5

ASSUME PluginsAssumption ==
  /\ {MaxElements, MaxDraws, MAX, Clock} \subseteq Nat /\ Jiffies \subseteq Nat
  /\ MAX > 1
  /\ Width \in Nat \ {0} /\ Capacities \subseteq Nat \ {0}
  /\ Sessions \subseteq Nat

VARIABLES
  plugin,    \* which one it is
  st,        \* its static variables
  options,   \* does its node have an options attribute?
  pc,        \* "load", "draw", "destroy", "exited" or "crashed"
  elements,  \* elements in pluglist
  ejected,   \* elements ejected from it
  todo,      \* elements the pass under way has still to visit
  draws,     \* draws so far
  drawn,     \* update_time: the clock at the latest draw, before that 0
  clock,     \* the clock
  jiffies,   \* user + nice + system of /proc/stat, before it wraps around
  files,     \* what can be opened: 0 and 1 are BAT0 and BAT1 to battery.c,
             \* 0 is /proc/stat to cpu.c
  battery,   \* slot -> the capacity of the battery in it, or 0
  playing,   \* sessions of XMMS that run
  ran,       \* history: updates in the latest draw
  readings,  \* history: [at, jiffies, playing] of the latest update, and of
             \* the latest one in the draw before that in which it ran
  swapped    \* history: has a battery been put in or taken out?

fixed == << plugin, options, files >>
world == << clock, jiffies, battery, playing >>
notes == << ran, readings, swapped >>
vars  == << fixed, st, pc, elements, ejected, todo, draws, drawn, world, notes >>

-----------------------------------------------------------------------------
(* cpu.c.  cpu_use is busy / delta / 100.                                  *)
CpuCreate(s) == [s EXCEPT !.last = clock]

(* get_stat: the sum wraps around, cpu_sum is a double.                    *)
Total == IF 0 \in files THEN jiffies % Width ELSE 0

MutCpuLast(s) == s.last
CpuLast(s) == drawn

CpuUpdate(s) ==
  [ fd |-> IF 0 \in files THEN "open" ELSE "null", last |-> CpuLast(s),
    sum |-> Total, busy |-> Total - s.sum, delta |-> drawn - s.last ]

(* battery.c.  shown is what a percentage has been taken of, and what      *)
(* battery was in.  An empty slot has no line with a capacity.             *)
MutSlot == IF 1 \in files THEN 1 ELSE 0
Slot == IF 0 \in files THEN 0 ELSE 1

BatteryCreate(s) ==
  [s EXCEPT !.slot = Slot,
            !.full = IF battery[Slot] # 0 THEN battery[Slot] ELSE @]

BatteryUpdate(s) ==
  IF s.slot \notin files THEN s
  ELSE [s EXCEPT !.fd = "open", !.shown = << s.full, battery[s.slot] >>]

(* xmms.c.  Session -1 never runs; shown is the one data is about.         *)
GetSession ==
  IF playing = {} THEN -1 ELSE CHOOSE i \in playing : \A j \in playing : i <= j

Stays(s) == s.session \in playing

XmmsUpdate(s) ==
  LET session == IF Stays(s) THEN s.session ELSE GetSession
  IN  [session |-> session, shown |-> session]

(* oom.c.  block is the size of what oom points at, in ints; 0 when there  *)
(* is nothing yet, or it has been freed.                                   *)
OomUpdate(s) == [counter |-> s.counter + 1, block |-> s.counter]

MutFaulted(s) == [counter |-> s.counter + 1, block |-> 0]
Faulted(s) == [s EXCEPT !.block = 0]

-----------------------------------------------------------------------------
New ==
  [ cpu |-> [fd |-> "null", last |-> 0, sum |-> 0, busy |-> 0, delta |-> 0],
    battery |-> [fd |-> "null", slot |-> 0, full |-> 0, shown |-> << 0, 0 >>],
    xmms |-> [session |-> 0, shown |-> -1],
    oom |-> [counter |-> 1, block |-> 0],
    time |-> << >> ]

Created(s) ==
  CASE plugin = "cpu"     -> CpuCreate(s)
    [] plugin = "battery" -> BatteryCreate(s)
    [] plugin = "xmms"    -> [s EXCEPT !.session = GetSession]
    [] OTHER              -> s

Updated(s) ==
  CASE plugin = "cpu"     -> CpuUpdate(s)
    [] plugin = "battery" -> BatteryUpdate(s)
    [] plugin = "xmms"    -> XmmsUpdate(s)
    [] plugin = "oom"     -> OomUpdate(s)
    [] OTHER              -> s

(* strcpy to NULL, strftime with a format of NULL                          *)
UpdateFaults(s) ==
  \/ plugin = "oom" /\ s.counter = MAX
  \/ plugin = "time" /\ ~options

(* fclose of what is not NULL, be it closed or not                         *)
HasFile == plugin \in {"cpu", "battery"}
MutDestroyFaults(s) == HasFile /\ s.fd # "open"
DestroyFaults(s) == HasFile /\ s.fd = "closed"
Destroyed(s) ==
  IF HasFile THEN [s EXCEPT !.fd = IF @ = "open" THEN "closed" ELSE @] ELSE s

-----------------------------------------------------------------------------
(* What may vary for one plugin is left at v for the others.               *)
For(name, values, v) == IF plugin = name THEN values ELSE {v}

Batteries ==
  {b \in [{0, 1} -> Capacities \cup {0}] :
     \A i \in {0, 1} : b[i] = 0 \/ (plugin = "battery" /\ i \in files)}

Nothing == [at |-> 0, jiffies |-> 0, playing |-> {}]

Init ==
  /\ plugin \in DOMAIN New /\ st = New[plugin]
  /\ options \in For("time", BOOLEAN, TRUE)
  /\ files \in For("battery", SUBSET {0, 1}, {}) \cup For("cpu", {{}, {0}}, {})
  /\ pc = "load" /\ elements = 0 /\ ejected = 0 /\ todo = 0 /\ draws = 0
  /\ clock = Clock /\ drawn = 0 /\ jiffies \in For("cpu", Jiffies, 0)
  /\ battery \in Batteries
  /\ playing \in For("xmms", SUBSET Sessions, {})
  /\ ran = 0 /\ readings = << Nothing, Nothing >> /\ swapped = FALSE

(* db_plug_load: create and update, before the first draw                  *)
Load ==
  /\ pc = "load" /\ elements < MaxElements
  /\ elements' = elements + 1
  /\ LET s == Created(st)
     IN  \/ UpdateFaults(s)  /\ pc' = "crashed" /\ st' = s
         \/ ~UpdateFaults(s) /\ pc' = "load" /\ st' = Updated(s)
  /\ UNCHANGED << fixed, ejected, todo, draws, drawn, world, notes >>

(* What happens in the world before a draw and between two updates of it:  *)
(* each update reads /proc, the slots and the sessions for itself.         *)
WorldMoves ==
  /\ jiffies' \in For("cpu", jiffies .. jiffies + 2, jiffies)
  /\ battery' \in Batteries
  /\ playing' \in For("xmms", SUBSET Sessions, playing)
  /\ swapped' = (swapped \/ battery' # battery)

TimePasses ==
  /\ clock' \in For("cpu", clock + 1 .. clock + 2, clock + 1)
  /\ WorldMoves

Draw ==
  /\ pc \in {"load", "draw"} /\ todo = 0
  /\ draws < MaxDraws
  /\ TimePasses
  /\ pc' = "draw" /\ draws' = draws + 1 /\ drawn' = clock'
  /\ todo' = elements /\ ran' = 0
  /\ UNCHANGED << fixed, st, elements, ejected, readings >>

Visit ==
  /\ pc = "draw" /\ todo > 0
  /\ todo' = todo - 1
  /\ WorldMoves
  /\ UNCHANGED << fixed, draws, drawn, clock >>

(* update_plug on an element that is not due                               *)
Skip == Visit /\ UNCHANGED << st, pc, elements, ejected, ran, readings >>

Update ==
  /\ Visit /\ ~UpdateFaults(st)
  /\ st' = Updated(st)
  /\ ran' = ran + 1
  /\ readings' =
       << [at |-> drawn, jiffies |-> jiffies, playing |-> playing],
          IF ran > 0 THEN readings[2] ELSE readings[1] >>
  /\ UNCHANGED << pc, elements, ejected >>

(* Without destroy; SIGSEGV stays blocked.                                 *)
Eject ==
  /\ Visit /\ UpdateFaults(st)
  /\ pc' = IF ejected = 0 THEN pc ELSE "crashed"
  /\ st' = Faulted(st)
  /\ elements' = elements - 1 /\ ejected' = ejected + 1
  /\ UNCHANGED << ran, readings >>

(* db_plug_unload_all                                                      *)
Quit ==
  /\ pc \in {"load", "draw"} /\ todo = 0
  /\ pc' = IF elements = 0 THEN "exited" ELSE "destroy"
  /\ todo' = elements
  /\ UNCHANGED << fixed, st, elements, ejected, draws, drawn, world, notes >>

Destroy ==
  /\ pc = "destroy"
  /\ st' = Destroyed(st)
  /\ todo' = todo - 1
  /\ pc' = IF DestroyFaults(st) THEN "crashed"
           ELSE IF todo = 1 THEN "exited" ELSE pc
  /\ UNCHANGED << fixed, elements, ejected, draws, drawn, world, notes >>

Finished == pc \in {"exited", "crashed"} /\ UNCHANGED vars

Next ==
  \/ Load \/ Draw \/ Skip \/ Update \/ Eject \/ Quit \/ Destroy
  \/ Finished

Spec == Init /\ [][Next]_vars

-----------------------------------------------------------------------------
(* Every variable holds a value of its type.                               *)
Files == {"null", "open", "closed"}
Sizes == Capacities \cup {0}

Statics ==
  CASE plugin = "cpu" ->
         [fd : Files, last : Nat, sum : 0 .. Width - 1, busy : Int, delta : Int]
    [] plugin = "battery" ->
         [fd : Files, slot : {0, 1}, full : Sizes, shown : Sizes \X Sizes]
    [] plugin = "xmms" ->
         [session : Sessions \cup {-1, 0}, shown : Sessions \cup {-1}]
    [] plugin = "oom" -> [counter : 1 .. MAX, block : 0 .. MAX - 1]
    [] OTHER -> {<< >>}

TypeOK ==
  /\ plugin \in DOMAIN New /\ options \in BOOLEAN /\ files \subseteq {0, 1}
  /\ st \in Statics
  /\ pc \in {"load", "draw", "destroy", "exited", "crashed"}
  /\ elements \in 0 .. MaxElements /\ ejected \in 0 .. MaxElements - elements
  /\ todo \in 0 .. elements /\ draws \in 0 .. MaxDraws
  /\ clock \in Nat /\ drawn \in 0 .. clock /\ jiffies \in Nat
  /\ battery \in [{0, 1} -> Sizes]
  /\ playing \subseteq Sessions
  /\ ran \in 0 .. MaxElements /\ swapped \in BOOLEAN

(***************************************************************************)
(* What cpu.c divides.  Its first draw divides by all the time since 1970, *)
(* for update_time is 0 while it loads; from then on it shows the use      *)
(* between the two latest draws in which it ran, less 2^32 jiffies when    *)
(* the sum has wrapped around; if two elements run in one draw the second  *)
(* divides by 0.                                                           *)
(***************************************************************************)
Latest == readings[1]
Before == readings[2]
Wraps  == (Latest.jiffies \div Width) - (Before.jiffies \div Width)

CpuReading ==
  plugin = "cpu" /\ 0 \in files =>
    /\ ran > 1 => st.delta = 0
    /\ ran = 1 /\ Before.at = 0 => st.delta = Latest.at
    /\ ran = 1 /\ Before.at # 0 =>
         /\ st.delta = Latest.at - Before.at
         /\ st.busy = Latest.jiffies - Before.jiffies - Wraps * Width

(***************************************************************************)
(* What the others show is about what is there.  The percentage is of the  *)
(* battery in the first slot there is, in place or not, unless one has     *)
(* been put in or taken out: its capacity is read once, by create.  A      *)
(* title is of a session that ran at the update, if any did.               *)
(***************************************************************************)
ShowsWhatIsThere ==
  /\ plugin = "battery" /\ ~swapped /\ st.fd = "open" =>
       LET first == CHOOSE i \in files : \A j \in files : i <= j
       IN  st.shown = << battery[first], battery[first] >>
  /\ plugin = "xmms" /\ ran > 0 =>
       \/ st.shown \in Latest.playing
       \/ st.shown = -1 /\ Latest.playing = {}

(***************************************************************************)
(* The ejection of one element of oom.c frees the block that oom of all of *)
(* them points at; it is never used again, for every later update faults   *)
(* before it gets there.                                                   *)
(***************************************************************************)
FreedBlockUnused == ejected > 0 /\ elements > 0 => UpdateFaults(st)

(***************************************************************************)
(* One element of a plugin never takes the program down, except for time   *)
(* without options.  Two may: oom.c faults for each of them, and cpu.c and *)
(* battery.c close their file for each of them.                            *)
(***************************************************************************)
OneIsSafe ==
  pc = "crashed" =>
    \/ plugin = "time" /\ ~options
    \/ plugin \in {"cpu", "battery", "oom"} /\ elements + ejected > 1
=============================================================================
