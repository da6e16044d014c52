------------------------------ MODULE Schedule ------------------------------
(***************************************************************************)
(* When plugins run: the clock of libdeskbar/times.c, the test of          *)
(* update_plug (deskbar/plug.c) whether an element is due, the stamps that *)
(* db_plug_load and update_plug leave in element->updated, and the event   *)
(* loop of deskbar/display.c, whose draws are the only moments at which    *)
(* plugins run at all.                                                     *)
(*                                                                         *)
(* Time is counted in ticks, S to the second, and as only differences of   *)
(* times matter every time is taken relative to update_last, the reading   *)
(* of the clock at the latest draw:                                        *)
(*   age      is the clock now, minus update_last;                         *)
(*   due[e]   is updated of element e, minus update_last.                  *)
(* Before the first draw update_last is 0, so age is the clock itself.     *)
(*                                                                         *)
(* Module PlugHost has what else a draw does: callbacks that fault and     *)
(* elements that are ejected.                                              *)
(***************************************************************************)
EXTENDS Divisors, Sequences

CONSTANTS
  S,          \* ticks in a second
  Minute,     \* seconds in a minute
  Epoch,      \* the clock when the first plugin is loaded, in ticks
  Elements,   \* the elements of pluglist: 1, 2, ... as they were loaded
  Lib,        \* element -> the library, whose DbPlug struct they share
  Written,    \* element -> the interval its node was given
  Period,     \* the interval of the main loop
  Kinds,      \* kinds of X events that arrive: "expose", "other"
  Steps,      \* by how many ticks the clock may be set back or forward
  MaxLag,     \* bound: ticks until a runnable program runs on
  MaxQueue,   \* bound: X events in the queue
  MaxOthers,  \* bound: other events since the latest draw
  MaxSets     \* bound: how often the clock is set

ASSUME ScheduleAssumption ==
  /\ S \in Nat \ {0} /\ Minute \in Nat \ {0}
  /\ Elements \subseteq Nat
  /\ Written \in [Elements -> Nat \ {0}]
  /\ Period \in Nat
  /\ Kinds \subseteq {"expose", "other"}
  /\ Steps \subseteq Nat \ {0}
  /\ {MaxLag, MaxQueue, MaxOthers, MaxSets} \subseteq Nat

(* The elements of one library share the interval of the last one loaded.  *)
Shares(e) == {f \in Elements : Lib[f] = Lib[e]}
Interval(e) == Written[CHOOSE f \in Shares(e) : \A g \in Shares(e) : g <= f]

(* The clock is past what the load can stamp: any date after 1970-01-01.   *)
ASSUME EpochAssumption ==
  /\ Epoch \in Nat
  /\ \A e \in Elements :
       /\ Interval(e) \in Nat \ {0}
       /\ Epoch >= (Minute + Interval(e) + 1) * S
       /\ Epoch >= (Minute + Written[e] + 1) * S

VARIABLES
  pc,       \* "first" before the first draw, then the event loop: "poll"
            \* (XPending), "select" or "drain" (the while over XPending)
  left,     \* what is left of select's timeout
  lag,      \* ticks the program could have run on
  queue,    \* X events that have arrived
  age, due, \* see above
  delta,    \* update_delta
  elapsed,  \* history: real time since element e was last updated
  lost,     \* history: by how much the clock was set back since then
  gained,   \* history: by how much it was set forward
  pause,    \* history: real time since the latest draw
  others,   \* history: other events handled since the latest draw
  sets      \* history: how often the clock was set

clock == << age, due, delta, elapsed, lost, gained, pause >>
vars  == << pc, left, lag, queue, clock, others, sets >>

-----------------------------------------------------------------------------
(* db_plug_load: updated is the next full minute, plus the interval.       *)
Aligned(t) == (t \div S - ((t \div S) % Minute) + Minute) * S

Init ==
  /\ pc = "first" /\ left = 0 /\ lag = 0 /\ queue = << >>
  /\ age = Epoch
  /\ due = [e \in Elements |-> Aligned(Epoch) + Written[e] * S]
  /\ delta = 0
  /\ elapsed = [e \in Elements |-> 0]
  /\ lost = [e \in Elements |-> 0]
  /\ gained = [e \in Elements |-> 0]
  /\ pause = 0 /\ others = 0 /\ sets = 0

(* update_plug: update_time >= updated + update_diff, where update_diff is *)
(* one second less the time since the draw before.                         *)
MutIsDueLate(e)   == age >= due[e] + S + age
MutIsDueAlways(e) == TRUE
IsDue(e) == age >= due[e] + (S - age)

(* updated, when the element has run and when it has not.                  *)
MutNextDueOld(e) ==
  (IF IsDue(e) THEN due[e] + Interval(e) * S ELSE due[e]) - age
NextDue(e) == IF IsDue(e) THEN Interval(e) * S ELSE due[e] - age

(* db_display_draw, as far as time goes: db_plug_update.                   *)
Draw ==
  /\ delta' = age
  /\ age' = 0
  /\ due' = [e \in Elements |-> NextDue(e)]
  /\ elapsed' = [e \in Elements |-> IF IsDue(e) THEN 0 ELSE elapsed[e]]
  /\ lost' = [e \in Elements |-> IF IsDue(e) THEN 0 ELSE lost[e]]
  /\ gained' = [e \in Elements |-> IF IsDue(e) THEN 0 ELSE gained[e]]
  /\ pause' = 0
  /\ others' = 0

-----------------------------------------------------------------------------
(* main draws once before it enters the loop.                              *)
FirstDraw ==
  /\ pc = "first"
  /\ Draw
  /\ pc' = "poll"
  /\ UNCHANGED << left, lag, queue, sets >>

(* An empty queue arms select with the whole interval.                     *)
MutTimeoutLong == 2 * Period * S
MutTimeoutNone == -1
Timeout == Period * S

Poll ==
  /\ pc = "poll"
  /\ IF queue = << >> THEN pc' = "select" /\ left' = Timeout
                      ELSE pc' = "drain" /\ UNCHANGED left
  /\ lag' = 0
  /\ UNCHANGED << queue, clock, others, sets >>

(* select returns 0.                                                       *)
TimesOut ==
  /\ pc = "select" /\ left = 0 /\ queue = << >>
  /\ Draw
  /\ pc' = "drain" /\ lag' = 0
  /\ UNCHANGED << left, queue, sets >>

(* select returns because of the connection.                               *)
Wakes ==
  /\ pc = "select" /\ queue # << >>
  /\ pc' = "drain" /\ lag' = 0
  /\ UNCHANGED << left, queue, clock, others, sets >>

(* XNextEvent: only an exposure of the root window draws.                  *)
HandleExpose ==
  /\ pc = "drain" /\ queue # << >> /\ Head(queue) = "expose"
  /\ queue' = Tail(queue)
  /\ Draw
  /\ lag' = 0
  /\ UNCHANGED << pc, left, sets >>

HandleOther ==
  /\ pc = "drain" /\ queue # << >> /\ Head(queue) = "other"
  /\ queue' = Tail(queue)
  /\ others' = others + 1
  /\ lag' = 0
  /\ UNCHANGED << pc, left, clock, sets >>

Drained ==
  /\ pc = "drain" /\ queue = << >>
  /\ pc' = "poll"
  /\ UNCHANGED << left, lag, queue, clock, others, sets >>

Loop == Poll \/ TimesOut \/ Wakes \/ HandleExpose \/ HandleOther \/ Drained

-----------------------------------------------------------------------------
(* The environment.                                                        *)

(* A tick passes: of the timeout, or while the program has work to do.     *)
Tick ==
  /\ pc # "first"
  /\ IF pc = "select" /\ left > 0 /\ queue = << >>
     THEN left' = left - 1 /\ UNCHANGED lag
     ELSE lag < MaxLag /\ lag' = lag + 1 /\ UNCHANGED left
  /\ age' = age + 1
  /\ elapsed' = [e \in Elements |-> elapsed[e] + 1]
  /\ pause' = pause + 1
  /\ UNCHANGED << pc, queue, due, delta, lost, gained, others, sets >>

(* The X server sends an event.                                            *)
Arrive(kind) ==
  /\ pc # "first"
  /\ Len(queue) < MaxQueue
  /\ kind = "other" => others + Len(queue) < MaxOthers
  /\ queue' = Append(queue, kind)
  /\ UNCHANGED << pc, left, lag, clock, others, sets >>

(* Somebody sets the clock: back, or forward.                              *)
SetClock ==
  /\ pc # "first" /\ sets < MaxSets
  /\ sets' = sets + 1
  /\ UNCHANGED << pc, left, lag, queue, due, delta, elapsed, pause, others >>

SetBack(d) ==
  /\ SetClock
  /\ age' = age - d
  /\ lost' = [e \in Elements |-> lost[e] + d]
  /\ UNCHANGED gained

SetForward(d) ==
  /\ SetClock
  /\ age' = age + d
  /\ gained' = [e \in Elements |-> gained[e] + d]
  /\ UNCHANGED lost

Next ==
  \/ FirstDraw
  \/ Poll \/ TimesOut \/ Wakes \/ HandleExpose \/ HandleOther \/ Drained
  \/ Tick
  \/ \E kind \in Kinds : Arrive(kind)
  \/ \E d \in Steps : SetBack(d) \/ SetForward(d)

Spec == Init /\ [][Next]_vars

(* Time passes, and a runnable program runs.                               *)
FairSpec == Spec /\ WF_vars(FirstDraw) /\ WF_vars(Loop) /\ WF_vars(Tick)

-----------------------------------------------------------------------------
TypeOK ==
  /\ pc \in {"first", "poll", "select", "drain"}
  /\ left \in 0 .. Period * S
  /\ lag \in 0 .. MaxLag
  /\ queue \in Seq(Kinds) /\ Len(queue) <= MaxQueue
  /\ age \in Int /\ delta \in Int
  /\ due \in [Elements -> Int]
  /\ elapsed \in [Elements -> Nat]
  /\ lost \in [Elements -> Nat] /\ gained \in [Elements -> Nat]
  /\ pause \in Nat
  /\ others \in Nat /\ sets \in 0 .. MaxSets

(***************************************************************************)
(* The stamp in `updated' is always one interval after the latest run of   *)
(* the plugin, on a clock that may be set; in particular nothing is left   *)
(* of the full minute that db_plug_load stamps.                            *)
(***************************************************************************)
StampsFollowRuns ==
  pc # "first" =>
    \A e \in Elements :
      due[e] - age = Interval(e) * S - (elapsed[e] - lost[e] + gained[e])

(***************************************************************************)
(* No plugin starves between draws: the time since its latest run exceeds  *)
(* its interval by less than a second, plus the time since the latest draw *)
(* and what the clock was set back.                                        *)
(***************************************************************************)
RunsInTime ==
  pc # "first" =>
    \A e \in Elements : elapsed[e] < Interval(e) * S + S + pause + lost[e]

(***************************************************************************)
(* The look-ahead of update_diff never makes a plugin run twice as often   *)
(* as its interval says, however many exposures draw in between, and       *)
(* though the clock is set: what it was set forward counts as time that    *)
(* has passed, what it was set back brings no run forward.                 *)
(***************************************************************************)
Since(e) == elapsed[e] + gained[e]

NeverTwiceAsOften ==
  [][pc # "first" =>
       \A e \in Elements :
         Since(e)' = 0 /\ Since(e) > 0 => 2 * Since(e) >= Interval(e) * S + S]_vars

(***************************************************************************)
(* Draws come in time as long as only exposures arrive: every other event  *)
(* makes select start over, and costs at most one more cycle.              *)
(***************************************************************************)
Cycle == Period * S + 3 * MaxLag

DrawsInTime ==
  pc # "first" => pause <= (others + 1) * Cycle

(***************************************************************************)
(* Every plugin runs again and again, whatever is exposed, as long as no   *)
(* more than MaxOthers other events come between two draws.                *)
(***************************************************************************)
RunsForever == \A e \in Elements : []<>(elapsed[e] = 0)
=============================================================================
