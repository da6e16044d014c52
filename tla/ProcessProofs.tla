--------------------------- MODULE ProcessProofs ---------------------------
(***************************************************************************)
(* What the life of the program keeps to, for any number of signals.       *)
(*                                                                         *)
(* The inductive invariant ProcessInv says, beside the types, what each    *)
(* stage has set up (Staged), how the two processes descend (Born), what   *)
(* a process in its handler has behind it (Interrupted), how far a single  *)
(* signal has come (TearsDown), and what may have been printed (Counted).  *)
(***************************************************************************)
EXTENDS Process, TLAPS

Arrival == [to : Procs, sig : Signals, inside : BOOLEAN, at : Stages,
            lists : {"null", "made", "spoiled", "freed"}]

Life == [ at : Stages \cup Ends \cup {"unborn"}, step : Teardown \cup {"none"},
          sig : Signals \cup {"none"}, rows : 0 .. Rows, blocked : SUBSET Signals,
          busy : BOOLEAN, xs : {"null", "made", "open", "freed"},
          lists : {"null", "made", "spoiled", "freed"}, env : {"unset", "stale"},
          pending : SUBSET Messages, queued : BOOLEAN, inStep : BOOLEAN ]

Typed ==
  /\ proc \in [Procs -> Life]
  /\ verbose \in BOOLEAN /\ fg \in BOOLEAN /\ tty \in BOOLEAN
  /\ server \in {"up", "gone"}
  /\ terminal \in [Messages -> Nat]
  /\ arrived \in Seq(Arrival) /\ Len(arrived) <= MaxSignals

Ready == {"open", "plug_init", "parse", "draw", "fork", "leave", "loop"}
Full  == {"parse", "draw", "fork", "leave", "loop"}

(* What the stages have set up when a process is at one of them, and is    *)
(* not in its handler.                                                     *)
Staged(p) ==
  /\ proc[p].at = "options" => proc[p].rows = 0 /\ proc[p].step = "none"
  /\ proc[p].lists # "null" => proc[p].rows = Rows
  /\ proc[p].at \in Ready => proc[p].rows = Rows
  /\ proc[p].at = "fork" => ~proc[p].queued
  /\ proc[p].step = "none" =>
       /\ proc[p].at \in {"unborn", "options", "register", "open", "plug_init"}
            => proc[p].lists = "null"
       /\ proc[p].at \in {"plug_init"} \cup Full => proc[p].xs = "open"
       /\ proc[p].at \in Full => proc[p].lists \in {"made", "spoiled"}
       /\ proc[p].blocked = {} /\ ~proc[p].busy
       /\ (Alive(p) \/ proc[p].at = "unborn") => Came(p) = {}
  /\ Came(p) = {} => proc[p].step = "none"

(* The child is born when the parent leaves, and waits in the event loop.  *)
Born ==
  /\ proc["first"].at # "unborn"
  /\ proc["child"].at \in {"unborn", "loop"} \cup Ends
  /\ proc["child"].at = "unborn" =>
       proc["child"].step = "none" /\ proc["child"].inStep
  /\ proc["child"].at # "unborn" => proc["first"].at \in {"leave"} \cup Ends
  /\ proc["first"].at = "leave" /\ proc["first"].step # "none" =>
       \E k \in Came("first") : arrived[k].at = "leave"

(* A process in its handler blocks the signal it handles.                  *)
Interrupted(p) ==
  proc[p].step # "none" => proc[p].sig \in proc[p].blocked

(* A process that gets a single signal, at a good moment, finds at every   *)
(* step of the teardown what the step needs.                               *)
TearsDown(p) ==
  Orderly(p) =>
    /\ proc[p].step # "none" /\ ~proc[p].busy
    /\ \E k \in Came(p) : proc[p].sig = arrived[k].sig
    /\ proc[p].at \in Stages \cup {"exited", "io_error"}
    /\ proc[p].step \in {"announce", "unload"} => proc[p].lists = "made"
    /\ proc[p].step \in {"announce", "unload", "clear"} => proc[p].xs = "open"
    /\ proc[p].step \in {"clear", "release", "exit"} => proc[p].lists = "freed"
    /\ proc[p].step = "exit" => proc[p].xs = "freed"
    /\ proc[p].at = "exited" => proc[p].xs = "freed" /\ proc[p].lists = "freed"

Over(p) == proc[p].at \in Ends \ Crashes
One(b) == IF b THEN 1 ELSE 0

(* The process has said m, or will never.                                  *)
Spent(p, m) ==
  \/ p = "first" /\ m \in {"version", "usage"} /\ proc[p].at # "options"
  \/ \E s \in proc[p].blocked :
       Named(s) = m /\ (proc[p].step # "announce" \/ proc[p].sig # s)

(* What is printed at once is so by the process that says it; what stdio   *)
(* has kept is by a process at its end.                                    *)
Counted ==
  /\ \A p \in Procs : tty => proc[p].pending = {}
  /\ \A m \in Messages :
       terminal[m] <= IF tty THEN One(Spent("first", m)) + One(Spent("child", m))
                             ELSE One(Over("first")) + One(Over("child"))

(* Only a signal that came is said to have been caught.                    *)
Heard(m) ==
  m \in {"version", "usage"} \/ \E k \in DOMAIN arrived : Named(arrived[k].sig) = m

Told ==
  /\ \A p \in Procs : \A m \in proc[p].pending : Heard(m)
  /\ \A p \in Procs : proc[p].step # "none" =>
       \E k \in Came(p) : arrived[k].sig = proc[p].sig
  /\ \A m \in Messages : terminal[m] > 0 => Heard(m)

ProcessInv ==
  /\ Typed
  /\ \A p \in Procs : Staged(p) /\ Interrupted(p) /\ TearsDown(p)
  /\ Born /\ ChildInStep
  /\ Counted /\ Told

-----------------------------------------------------------------------------
(* The table, its names and the messages.                                  *)
LEMMA TableFacts ==
  /\ Len(Table) = 6 /\ Rows = 5 /\ DOMAIN Table = 1 .. 6
  /\ Signals = {"HUP", "INT", "QUIT", "TERM"}
  /\ Messages = {"version", "usage", "garbage", "SEGV", "HUP", "INT", "TERM",
                 "QUIT", "Unknown"}
<1>1. Len(Table) = 6 /\ DOMAIN Table = 1 .. 6
  BY DEF Table
<1>2. {Table[k] : k \in DOMAIN Table} = {"SEGV", "HUP", "INT", "TERM", "QUIT", "Unknown"}
  BY <1>1 DEF Table
<1>3. Signals = {"HUP", "INT", "QUIT", "TERM"}
  BY DEF Signals, Number
<1> QED
  BY <1>1, <1>2, <1>3 DEF Rows, Messages

(* Every signal that ends the program is in the table.                     *)
LEMMA Handled ==
  \A s \in Signals : \E k \in 1 .. Rows : Table[k] = s
<1>1. /\ Table[2] = "HUP" /\ Table[3] = "INT"
      /\ Table[4] = "TERM" /\ Table[5] = "QUIT"
  BY DEF Table
<1> QED
  BY <1>1, TableFacts

(* What the handler says it has caught.                                    *)
LEMMA NamedFacts ==
  /\ Named("HUP") = "HUP" /\ Named("INT") = "INT"
  /\ Named("QUIT") = "TERM" /\ Named("TERM") = "garbage"
<1>1. Number["HUP"] = 1 /\ Number["INT"] = 2 /\ Number["QUIT"] = 3 /\ Number["TERM"] = 15
  BY DEF Number
<1>2. Table[2] = "HUP" /\ Table[3] = "INT" /\ Table[4] = "TERM"
  BY DEF Table
<1> QED
  BY <1>1, <1>2, TableFacts DEF Named

(* There are two processes.                                                *)
LEMMA Others == Other("first") = "child" /\ Other("child") = "first"
BY DEF Other, Procs

-----------------------------------------------------------------------------
(* What the parts of the actions do to the types.                          *)
LEMMA UpdatedTyped ==
  ASSUME Typed, NEW p \in Procs, NEW r \in Life
  PROVE  [proc EXCEPT ![p] = r] \in [Procs -> Life]
BY DEF Typed

(* What is printed or kept is a message.                                   *)
LEMMA SpokenTyped ==
  ASSUME NEW m \in Messages
  PROVE  Spoken(m) \subseteq Messages /\ Kept(m) \subseteq Messages
BY DEF Spoken, Kept

(* The counts of what has been printed stay numbers.                       *)
LEMMA PrintedTyped ==
  ASSUME Typed, NEW ms
  PROVE  Printed(ms) \in [Messages -> Nat]
BY DEF Typed, Printed

(* A process prints a message.                                             *)
LEMMA SaysTyped ==
  ASSUME Typed, NEW p \in Procs, NEW m \in Messages, NEW r \in Life, Says(p, m, r)
  PROVE  proc' \in [Procs -> Life] /\ terminal' \in [Messages -> Nat]
<1>1. [r EXCEPT !.pending = @ \cup Kept(m)] \in Life
  BY SpokenTyped DEF Life
<1> QED
  BY <1>1, UpdatedTyped, PrintedTyped DEF Says, Typed

(* A process ends.                                                         *)
LEMMA ExitsTyped ==
  ASSUME Typed, NEW p \in Procs, NEW end \in Ends, NEW ms, Exits(p, end, ms)
  PROVE  proc' \in [Procs -> Life] /\ terminal' \in [Messages -> Nat]
<1>1. [proc[p] EXCEPT !.at = end, !.pending = {}] \in Life
  BY DEF Typed, Life
<1>2. proc' = [proc EXCEPT ![p] = [proc[p] EXCEPT !.at = end, !.pending = {}]]
  BY DEF Exits, Typed
<1> QED
  BY <1>1, <1>2, UpdatedTyped, PrintedTyped DEF Exits

(* A process faults.                                                       *)
LEMMA FaultsTyped ==
  ASSUME Typed, NEW p \in Procs, NEW r \in Life, Faults(p, r)
  PROVE  proc' \in [Procs -> Life] /\ terminal' \in [Messages -> Nat]
<1>1. PICK end \in Crashes : proc' = [proc EXCEPT ![p] = [r EXCEPT !.at = end]]
  BY DEF Faults, Crashes
<1>2. [r EXCEPT !.at = end] \in Life
  BY DEF Life, Ends
<1> QED
  BY <1>1, <1>2, UpdatedTyped DEF Faults, Typed

(* A process sends to the server what it has queued.                       *)
LEMMA SendsTyped ==
  ASSUME Typed, NEW p \in Procs, NEW r \in Life, Sends(p, r)
  PROVE  proc' \in [Procs -> Life]
<1> DEFINE q == Other(p)
           f == [proc EXCEPT ![p] = Flushed(r)]
<1>1. q \in Procs /\ q # p
  BY Others DEF Procs
<1>2. Flushed(r) \in Life
  BY DEF Flushed, Life
<1>3. f \in [Procs -> Life] /\ f[q] = proc[q]
  BY <1>1, <1>2 DEF Typed
<1>4. [proc[q] EXCEPT !.inStep = @ /\ proc[q].at = "unborn"] \in Life
  BY <1>1 DEF Typed, Life
<1>5. proc' = [f EXCEPT ![q] = [proc[q] EXCEPT !.inStep = @ /\ proc[q].at = "unborn"]]
  BY <1>1, <1>3 DEF Sends
<1> QED
  BY <1>1, <1>3, <1>4, <1>5

(* A process goes to its next stage.                                       *)
LEMMA MovedTyped ==
  ASSUME Typed, NEW p \in Procs, proc[p].at \in DOMAIN After
  PROVE  Moved(p) \in Life
<1>1. After[proc[p].at] \in Stages
  BY DEF After, Stages
<1> DEFINE to == After[proc[p].at]
<1>2. Moved(p) = [proc[p] EXCEPT !.at = to]
  BY DEF Moved
<1>3. proc[p] \in Life /\ to \in Stages \cup Ends \cup {"unborn"}
  BY <1>1 DEF Typed
<1> HIDE DEF to
<1> QED
  BY <1>2, <1>3 DEF Life

(* Reading and drawing leave the lists in place.                           *)
LEMMA LeftTyped ==
  ASSUME NEW e
  PROVE  Left(e) \subseteq {"made", "spoiled"}
BY DEF Left

-----------------------------------------------------------------------------
(* Every step keeps the types.                                             *)
LEMMA OptionTyped ==
  ASSUME Typed, Option,
         Toggle \/ Foreground \/ Refuse \/ \E m \in {"version", "usage"} : Inform(m)
  PROVE  Typed'
<1>1. CASE Toggle
  BY <1>1 DEF Toggle, Option, Typed
<1>2. CASE Foreground
  BY <1>2 DEF Foreground, Option, Typed
<1>3. CASE Refuse
  <2>1. proc' \in [Procs -> Life] /\ terminal' \in [Messages -> Nat]
    BY <1>3, ExitsTyped DEF Refuse, Procs, Ends
  <2> QED
    BY <1>3, <2>1 DEF Refuse, Option, Typed
<1>4. ASSUME NEW m \in {"version", "usage"}, Inform(m)
      PROVE  Typed'
  <2>1. proc' \in [Procs -> Life] /\ terminal' \in [Messages -> Nat]
    BY <1>4, ExitsTyped DEF Inform, Procs, Ends
  <2> QED
    BY <1>4, <2>1 DEF Inform, Option, Typed
<1> QED
  BY <1>1, <1>2, <1>3, <1>4

(* A step of process p that only changes it and the terminal.              *)
LEMMA StepTyped ==
  ASSUME Typed, UNCHANGED << settings, server, arrived >>,
         proc' \in [Procs -> Life], terminal' \in [Messages -> Nat]
  PROVE  Typed'
BY DEF Typed, settings

(* The steps of main outside the handler and the loop.                     *)
LEMMA StagesTyped ==
  ASSUME Typed, NEW p \in Procs,
         \/ Start(p) \/ Register(p) \/ OpenDisplay(p) \/ PlugInit(p) \/ Parse(p)
         \/ Draw(p) \/ IoError(p) \/ Fork(p) \/ Stay(p) \/ Leave(p) \/ Crash(p)
  PROVE  Typed'
<1> DEFINE Good == proc' \in [Procs -> Life] /\ terminal' \in [Messages -> Nat]
<1>0. proc[p] \in Life /\ terminal \in [Messages -> Nat]
  BY DEF Typed
<1>1. ASSUME Start(p)
      PROVE  Typed'
  <2>1. Moved(p) \in Life
    BY <1>1, MovedTyped DEF Start, Stage, In, After
  <2>2. Good
    BY <1>1, <2>1, SaysTyped DEF Start, Messages
  <2> QED
    BY <1>1, <2>2, StepTyped DEF Start, Stage
<1>2. ASSUME Register(p)
      PROVE  Typed'
  <2>1. Moved(p) \in Life
    BY <1>2, MovedTyped DEF Register, Stage, In, After
  <2>2. proc[p].rows < Rows => [proc[p] EXCEPT !.rows = @ + 1] \in Life
    BY <1>0, TableFacts DEF Life
  <2> DEFINE r == IF proc[p].rows < Rows THEN [proc[p] EXCEPT !.rows = @ + 1]
                                         ELSE Moved(p)
  <2>3. r \in Life /\ proc' = [proc EXCEPT ![p] = r]
    <3>1. CASE proc[p].rows < Rows
      BY <1>2, <2>2, <3>1 DEF Register
    <3>2. CASE ~(proc[p].rows < Rows)
      BY <1>2, <2>1, <3>2 DEF Register
    <3> QED
      BY <3>1, <3>2
  <2> HIDE DEF r
  <2>4. Good
    BY <1>0, <1>2, <2>3, UpdatedTyped DEF Register
  <2> QED
    BY <1>2, <2>4, StepTyped DEF Register, Stage
<1>3. ASSUME OpenDisplay(p)
      PROVE  Typed'
  <2>1. Moved(p) \in Life
    BY <1>3, MovedTyped DEF OpenDisplay, Stage, In, After
  <2>2. [Moved(p) EXCEPT !.xs = "open"] \in Life
    BY <2>1 DEF Life
  <2>3. [proc[p] EXCEPT !.xs = "made"] \in Life
    BY <1>0 DEF Life
  <2>4. Good
    BY <1>0, <1>3, <2>2, <2>3, UpdatedTyped, FaultsTyped DEF OpenDisplay
  <2> QED
    BY <1>3, <2>4, StepTyped DEF OpenDisplay, Stage
<1>4. ASSUME PlugInit(p)
      PROVE  Typed'
  <2>1. Moved(p) \in Life
    BY <1>4, MovedTyped DEF PlugInit, Stage, In, After
  <2>2. [Moved(p) EXCEPT !.lists = "made"] \in Life
    BY <2>1 DEF Life
  <2>3. Good
    BY <1>0, <1>4, <2>2, UpdatedTyped DEF PlugInit
  <2> QED
    BY <1>4, <2>3, StepTyped DEF PlugInit, Stage
<1>5. ASSUME Parse(p)
      PROVE  Typed'
  <2>1. Moved(p) \in Life
    BY <1>5, MovedTyped DEF Parse, Stage, In, After
  <2>2. PICK e \in {"unset", "stale"} : \E l \in Left(e) :
          proc' = [proc EXCEPT ![p] =
                     [Moved(p) EXCEPT !.env = e, !.lists = l, !.queued = TRUE]]
    BY <1>5 DEF Parse
  <2>3. PICK l \in Left(e) :
          proc' = [proc EXCEPT ![p] =
                     [Moved(p) EXCEPT !.env = e, !.lists = l, !.queued = TRUE]]
    BY <2>2
  <2>4. [Moved(p) EXCEPT !.env = e, !.lists = l, !.queued = TRUE] \in Life
    BY <2>1, LeftTyped DEF Life
  <2>5. Good
    BY <1>0, <1>5, <2>3, <2>4, UpdatedTyped DEF Parse
  <2> QED
    BY <1>5, <2>5, StepTyped DEF Parse, Stage
<1>6. ASSUME Draw(p)
      PROVE  Typed'
  <2>1. Moved(p) \in Life
    BY <1>6, MovedTyped DEF Draw, Stage, In, After
  <2>2. PICK l \in Left(proc[p].env) : Sends(p, [Moved(p) EXCEPT !.lists = l])
    BY <1>6 DEF Draw
  <2>3. [Moved(p) EXCEPT !.lists = l] \in Life
    BY <2>1, LeftTyped DEF Life
  <2>4. Good
    BY <1>0, <1>6, <2>2, <2>3, SendsTyped DEF Draw
  <2> QED
    BY <1>6, <2>4, StepTyped DEF Draw, Stage
<1>7. ASSUME IoError(p)
      PROVE  Typed'
  <2>1. Good
    BY <1>7, ExitsTyped DEF IoError, Ends
  <2> QED
    BY <1>7, <2>1, StepTyped DEF IoError
<1>8. ASSUME Fork(p)
      PROVE  Typed'
  <2>1. /\ [proc[p] EXCEPT !.at = "leave"] \in Life
        /\ [proc[p] EXCEPT !.at = "loop", !.inStep = ~proc[p].queued] \in Life
    BY <1>0 DEF Life, Stages
  <2>2. Good
    BY <1>0, <1>8, <2>1 DEF Fork, Procs
  <2> QED
    BY <1>8, <2>2, StepTyped DEF Fork, Stage
<1>9. ASSUME Stay(p)
      PROVE  Typed'
  <2>1. [proc[p] EXCEPT !.at = "loop"] \in Life
    BY <1>0 DEF Life, Stages
  <2>2. Good
    BY <1>0, <1>9, <2>1, UpdatedTyped DEF Stay
  <2> QED
    BY <1>9, <2>2, StepTyped DEF Stay, Stage
<1>10. ASSUME Leave(p)
       PROVE  Typed'
  <2>1. Good
    BY <1>10, ExitsTyped DEF Leave, Ends
  <2> QED
    BY <1>10, <2>1, StepTyped DEF Leave, Stage
<1>11. ASSUME Crash(p)
       PROVE  Typed'
  <2>1. \A e \in {proc[p].env, "stale"} : [proc[p] EXCEPT !.env = e] \in Life
    BY <1>0 DEF Life
  <2>2. Good
    BY <1>11, <2>1, FaultsTyped DEF Crash
  <2> QED
    BY <1>11, <2>2, StepTyped DEF Crash, Stage
<1> QED
  BY <1>1, <1>2, <1>3, <1>4, <1>5, <1>6, <1>7, <1>8, <1>9, <1>10, <1>11

(* A signal arrives, is listed and is blocked.                             *)
LEMMA SignalTyped ==
  ASSUME Typed, NEW p \in Procs, NEW s \in Signals, Signal(p, s)
  PROVE  Typed'
<1>0. proc[p] \in Life /\ proc[p].at \in Stages /\ Stages # {}
  BY DEF Typed, Signal, Alive, Stages
<1>1. PICK inside \in BOOLEAN :
        /\ arrived' = Append(arrived, [to |-> p, sig |-> s, inside |-> inside,
                                       at |-> proc[p].at, lists |-> proc[p].lists])
        /\ proc' = [proc EXCEPT ![p] =
             IF \E k \in 1 .. proc[p].rows : Table[k] = s
             THEN [proc[p] EXCEPT !.step = "announce", !.sig = s,
                                  !.blocked = @ \cup {s}, !.busy = @ \/ inside]
             ELSE [proc[p] EXCEPT !.at = "killed"]]
  BY DEF Signal
<1> DEFINE a == [to |-> p, sig |-> s, inside |-> inside,
                 at |-> proc[p].at, lists |-> proc[p].lists]
           handled == [proc[p] EXCEPT !.step = "announce", !.sig = s,
                         !.blocked = @ \cup {s}, !.busy = @ \/ inside]
           dead == [proc[p] EXCEPT !.at = "killed"]
<1>2. a \in Arrival
  BY <1>0 DEF Arrival, Life
<1>3. arrived' \in Seq(Arrival) /\ Len(arrived') = Len(arrived) + 1
  BY <1>1, <1>2 DEF Typed
<1>4. handled \in Life
  <2>1. proc[p].busy \/ inside \in BOOLEAN
    BY <1>0 DEF Life
  <2> QED
    BY <1>0, <2>1 DEF Life, Teardown
<1>5. dead \in Life
  BY <1>0 DEF Life, Ends, Crashes
<1> DEFINE r == IF \E k \in 1 .. proc[p].rows : Table[k] = s THEN handled ELSE dead
<1>6. r \in Life
  BY <1>4, <1>5
<1>7. proc' = [proc EXCEPT ![p] = r]
  <2>1. CASE \E k \in 1 .. proc[p].rows : Table[k] = s
    BY <1>1, <2>1
  <2>2. CASE ~ \E k \in 1 .. proc[p].rows : Table[k] = s
    BY <1>1, <2>2
  <2> QED
    BY <2>1, <2>2
<1> HIDE DEF r
<1>8. proc' \in [Procs -> Life]
  BY <1>6, <1>7, UpdatedTyped
<1>9. UNCHANGED << settings, server, terminal >> /\ Len(arrived) < MaxSignals
  BY DEF Signal
<1>10. Len(arrived) \in Nat /\ MaxSignals \in Nat
  BY ProcessAssumption DEF Typed
<1> QED
  BY <1>3, <1>8, <1>9, <1>10 DEF Typed, settings

(* The steps of the teardown that go on to the next one.                   *)
LEMMA TeardownTyped ==
  ASSUME Typed, NEW p \in Procs, Interrupted(p),
         Announce(p) \/ Unload(p) \/ Clear(p) \/ Release(p) \/ Exit(p) \/ Reenter(p)
  PROVE  Typed'
<1> DEFINE Good == proc' \in [Procs -> Life] /\ terminal' \in [Messages -> Nat]
<1>0. proc[p] \in Life /\ terminal \in [Messages -> Nat]
  BY DEF Typed
<1>1. \A step \in Teardown : Onward(p, step) \in Life
  BY <1>0 DEF Onward, Life
<1>2. [proc[p] EXCEPT !.at = "undefined"] \in Life
  BY <1>0 DEF Life, Ends, Crashes
<1>3. ASSUME Announce(p)
      PROVE  Typed'
  <2>1. Onward(p, "unload") \in Life
    BY <1>1 DEF Teardown
  <2>2. Named(proc[p].sig) \in Messages
    <3>1. proc[p].sig \in Signals
      BY <1>0, <1>3 DEF Announce, Step, Handling, Interrupted, Life
    <3> QED
      BY <3>1, NamedFacts, TableFacts
  <2>3. Good
    BY <1>0, <1>3, <2>1, <2>2, SaysTyped, FaultsTyped DEF Announce
  <2> QED
    BY <1>3, <2>3, StepTyped DEF Announce, Step
<1>4. ASSUME Unload(p)
      PROVE  Typed'
  <2>1. Onward(p, "clear") \in Life
    BY <1>1 DEF Teardown
  <2>2. [Onward(p, "clear") EXCEPT !.lists = "freed"] \in Life
    BY <2>1 DEF Life
  <2>3. Good
    BY <1>0, <1>2, <1>4, <2>2, UpdatedTyped, FaultsTyped DEF Unload
  <2> QED
    BY <1>4, <2>3, StepTyped DEF Unload, Step
<1>5. ASSUME Clear(p)
      PROVE  Typed'
  <2>1. Onward(p, "release") \in Life
    BY <1>1 DEF Teardown
  <2>2. Good
    BY <1>0, <1>5, <2>1, SendsTyped, FaultsTyped DEF Clear
  <2> QED
    BY <1>5, <2>2, StepTyped DEF Clear, Step
<1>6. ASSUME Release(p)
      PROVE  Typed'
  <2>1. Onward(p, "exit") \in Life
    BY <1>1 DEF Teardown
  <2>2. [Onward(p, "exit") EXCEPT !.xs = "freed"] \in Life
    BY <2>1 DEF Life
  <2>3. Good
    BY <1>0, <1>6, <2>2, UpdatedTyped DEF Release
  <2> QED
    BY <1>6, <2>3, StepTyped DEF Release, Step
<1>7. ASSUME Exit(p)
      PROVE  Typed'
  <2>1. Good
    BY <1>7, ExitsTyped DEF Exit, Ends
  <2> QED
    BY <1>7, <2>1, StepTyped DEF Exit, Step
<1>8. ASSUME Reenter(p)
      PROVE  Typed'
  <2>1. proc' = [proc EXCEPT ![p] = [proc[p] EXCEPT !.at = "undefined"]]
    BY <1>8 DEF Reenter, Typed
  <2>2. Good
    BY <1>0, <1>2, <1>8, <2>1, UpdatedTyped DEF Reenter
  <2> QED
    BY <1>8, <2>2, StepTyped DEF Reenter, Step
<1> QED
  BY <1>3, <1>4, <1>5, <1>6, <1>7, <1>8

(* Every step keeps the types.                                             *)
LEMMA TypedStep ==
  ASSUME Typed, \A p \in Procs : Interrupted(p), [Next]_vars
  PROVE  Typed'
<1>1. CASE Toggle \/ Foreground \/ Refuse \/ \E m \in {"version", "usage"} : Inform(m)
  BY <1>1, OptionTyped DEF Toggle, Foreground, Refuse, Inform
<1>2. ASSUME NEW p \in Procs, Run(p) \/ Crash(p)
      PROVE  Typed'
  BY <1>2, StagesTyped, TeardownTyped DEF Run
<1>3. ASSUME NEW p \in Procs, NEW s \in Signals, Signal(p, s)
      PROVE  Typed'
  BY <1>3, SignalTyped
<1>4. CASE ServerGoes
  BY <1>4 DEF ServerGoes, Typed, settings
<1>5. CASE UNCHANGED vars
  BY <1>5 DEF vars, Typed, settings
<1> QED
  BY <1>1, <1>2, <1>3, <1>4, <1>5, ProcessAssumption DEF Next, Finished

-----------------------------------------------------------------------------
(* What a process keeps when it is the other one's turn: it may only fall  *)
(* behind with the connection.                                             *)
Idle(q) == proc'[q] = [proc[q] EXCEPT !.inStep = proc'[q].inStep]

(* What one process does changes nothing of the other but whether their    *)
(* connections are in step.                                                *)
LEMMA OtherIsIdle ==
  ASSUME Typed, NEW p \in Procs, NEW q \in Procs, p # q,
         \/ Run(p) /\ ~Fork(p)
         \/ Crash(p)
         \/ \E s \in Signals : Signal(p, s)
  PROVE  Idle(q)
<1>0. proc \in [Procs -> Life] /\ proc[q] \in Life /\ proc[p] \in Life
  BY DEF Typed
<1>1. q = Other(p)
  BY Others DEF Procs
<1>2. \A r : proc' = [proc EXCEPT ![p] = r] => Idle(q)
  BY <1>0 DEF Idle, Life
<1>3. \A r : Sends(p, r) => Idle(q)
  BY <1>0, <1>1 DEF Idle, Life, Sends
<1>4. CASE Start(p)
  BY <1>0, <1>2, <1>3, <1>4 DEF Start, Says
<1>5. CASE Register(p)
  BY <1>0, <1>2, <1>3, <1>5 DEF Register
<1>6. CASE OpenDisplay(p)
  BY <1>0, <1>2, <1>3, <1>6 DEF OpenDisplay, Faults
<1>7. CASE PlugInit(p)
  BY <1>0, <1>2, <1>3, <1>7 DEF PlugInit
<1>8. CASE Parse(p)
  BY <1>0, <1>2, <1>3, <1>8 DEF Parse
<1>9. CASE Draw(p)
  BY <1>0, <1>2, <1>3, <1>9 DEF Draw
<1>10. CASE IoError(p)
  BY <1>0, <1>2, <1>3, <1>10 DEF IoError, Exits, Idle, Life
<1>11. CASE Stay(p)
  BY <1>0, <1>2, <1>3, <1>11 DEF Stay, Idle, Life
<1>12. CASE Leave(p)
  BY <1>0, <1>2, <1>3, <1>12 DEF Leave, Exits, Idle, Life
<1>13. CASE Crash(p)
  BY <1>0, <1>2, <1>3, <1>13 DEF Crash, Faults
<1>14. CASE Announce(p)
  BY <1>0, <1>2, <1>3, <1>14 DEF Announce, Says, Faults
<1>15. CASE Unload(p)
  BY <1>0, <1>2, <1>3, <1>15 DEF Unload, Faults
<1>16. CASE Clear(p)
  BY <1>0, <1>2, <1>3, <1>16 DEF Clear, Faults
<1>17. CASE Release(p)
  BY <1>0, <1>2, <1>3, <1>17 DEF Release
<1>18. CASE Exit(p)
  BY <1>0, <1>2, <1>3, <1>18 DEF Exit, Exits, Idle, Life
<1>19. CASE Reenter(p)
  BY <1>0, <1>2, <1>3, <1>19 DEF Reenter, Idle, Life
<1>20. ASSUME NEW s \in Signals, Signal(p, s)
      PROVE  Idle(q)
  BY <1>2, <1>20 DEF Signal
<1> QED
  BY <1>4, <1>5, <1>6, <1>7, <1>8, <1>9, <1>10, <1>11, <1>12, <1>13, <1>14, <1>15, <1>16, <1>17, <1>18, <1>19, <1>20 DEF Run

-----------------------------------------------------------------------------
(* The history of signals.                                                 *)
LEMMA CameSame ==
  ASSUME UNCHANGED arrived, NEW q \in Procs
  PROVE  Came(q)' = Came(q)
BY DEF Came

(* Every signal listed is an arrival.                                      *)
LEMMA ArrivedTyped ==
  ASSUME Typed
  PROVE  \A k \in DOMAIN arrived : arrived[k] \in Arrival
BY DEF Typed

(* A signal extends the list by one arrival, which notes where it found    *)
(* its process.                                                            *)
LEMMA SignalArrives ==
  ASSUME Typed, NEW p \in Procs, NEW s \in Signals, Signal(p, s)
  PROVE  LET n == Len(arrived) + 1 IN
         /\ n \notin DOMAIN arrived /\ DOMAIN arrived' = DOMAIN arrived \cup {n}
         /\ \A k \in DOMAIN arrived : arrived'[k] = arrived[k]
         /\ arrived'[n].to = p /\ arrived'[n].sig = s
         /\ arrived'[n].at = proc[p].at /\ arrived'[n].lists = proc[p].lists
         /\ Came(p)' = Came(p) \cup {n} /\ n \notin Came(p)
         /\ \A q \in Procs \ {p} : Came(q)' = Came(q)
<1> DEFINE n == Len(arrived) + 1
<1>1. PICK inside \in BOOLEAN :
        arrived' = Append(arrived, [to |-> p, sig |-> s, inside |-> inside,
                                    at |-> proc[p].at, lists |-> proc[p].lists])
  BY DEF Signal
<1> DEFINE a == [to |-> p, sig |-> s, inside |-> inside,
                 at |-> proc[p].at, lists |-> proc[p].lists]
<1>2. arrived \in Seq(Arrival) /\ Len(arrived) \in Nat /\ DOMAIN arrived = 1 .. Len(arrived)
  BY DEF Typed
<1>3. proc[p].at \in Stages /\ proc[p].lists \in {"null", "made", "spoiled", "freed"}
  BY DEF Typed, Life, Signal, Alive
<1>4. a \in Arrival
  BY <1>3 DEF Arrival
<1>5. /\ arrived' \in Seq(Arrival) /\ Len(arrived') = n /\ DOMAIN arrived' = 1 .. n
      /\ arrived'[n] = a /\ \A k \in 1 .. Len(arrived) : arrived'[k] = arrived[k]
  BY <1>1, <1>2, <1>4
<1>6. 1 .. n = 1 .. Len(arrived) \cup {n} /\ n \notin 1 .. Len(arrived)
  BY <1>2
<1>7. Came(p)' = Came(p) \cup {n} /\ n \notin Came(p)
  BY <1>2, <1>5, <1>6 DEF Came
<1>8. \A q \in Procs \ {p} : Came(q)' = Came(q)
  BY <1>2, <1>5, <1>6 DEF Came
<1> QED
  BY <1>2, <1>5, <1>6, <1>7, <1>8

(* The steps other than Signal leave the history, the settings and, for    *)
(* another process, everything but the connection alone.                   *)
LEMMA IdleKeeps ==
  ASSUME Typed, NEW q \in Procs, Idle(q), Came(q)' = Came(q), UNCHANGED settings,
         \A k \in Came(q) : arrived'[k] = arrived[k],
         Staged(q), Interrupted(q), TearsDown(q)
  PROVE  Staged(q)' /\ Interrupted(q)' /\ TearsDown(q)'
<1>1. proc[q] \in Life
  BY DEF Typed
<1>2. /\ proc'[q].at = proc[q].at /\ proc'[q].step = proc[q].step
      /\ proc'[q].sig = proc[q].sig /\ proc'[q].rows = proc[q].rows
      /\ proc'[q].blocked = proc[q].blocked /\ proc'[q].busy = proc[q].busy
      /\ proc'[q].xs = proc[q].xs /\ proc'[q].lists = proc[q].lists
      /\ proc'[q].queued = proc[q].queued
  BY <1>1 DEF Idle, Life
<1>3. Orderly(q)' <=> Orderly(q)
  BY DEF Orderly, settings
<1>4. Staged(q)'
  BY <1>2 DEF Staged, Alive
<1>5. Interrupted(q)'
  BY <1>2 DEF Interrupted
<1>6. TearsDown(q)'
  BY <1>2, <1>3 DEF TearsDown
<1> QED
  BY <1>4, <1>5, <1>6

-----------------------------------------------------------------------------
(* What the parts of the actions make of the process.                      *)
LEMMA FaultsEffect ==
  ASSUME Typed, NEW p \in Procs, NEW r \in Life, Faults(p, r)
  PROVE  \E end \in Crashes : proc'[p] = [r EXCEPT !.at = end]
BY DEF Faults, Crashes, Typed

(* What reading makes of the process.                                      *)
LEMMA ParseEffect ==
  ASSUME Typed, NEW p \in Procs, Parse(p)
  PROVE  /\ proc[p].at = "parse" /\ proc[p].step = "none"
         /\ terminal' = terminal /\ UNCHANGED << settings, server, arrived >>
         /\ \E e \in {"unset", "stale"}, l \in {"made", "spoiled"} :
              proc'[p] = [Moved(p) EXCEPT !.env = e, !.lists = l, !.queued = TRUE]
<1>1. PICK e \in {"unset", "stale"} : \E l \in Left(e) :
        proc' = [proc EXCEPT ![p] =
                   [Moved(p) EXCEPT !.env = e, !.lists = l, !.queued = TRUE]]
  BY DEF Parse
<1>2. PICK l \in Left(e) :
        proc' = [proc EXCEPT ![p] =
                   [Moved(p) EXCEPT !.env = e, !.lists = l, !.queued = TRUE]]
  BY <1>1
<1>3. l \in {"made", "spoiled"} /\ proc \in [Procs -> Life]
  BY LeftTyped DEF Typed
<1>4. proc'[p] = [Moved(p) EXCEPT !.env = e, !.lists = l, !.queued = TRUE]
  BY <1>2, <1>3
<1>5. /\ proc[p].at = "parse" /\ proc[p].step = "none"
      /\ terminal' = terminal /\ UNCHANGED << settings, server, arrived >>
  BY DEF Parse, Stage, In
<1> QED
  BY <1>3, <1>4, <1>5

(* Requests that are sent leave the other process out of step, once born.  *)
LEMMA SendsEffect ==
  ASSUME Typed, NEW p \in Procs, NEW r \in Life, Sends(p, r)
  PROVE  /\ proc'[p] = [r EXCEPT !.queued = FALSE]
         /\ proc'[Other(p)].inStep =
              (proc[Other(p)].inStep /\ proc[Other(p)].at = "unborn")
<1> DEFINE q == Other(p)
           f == [proc EXCEPT ![p] = Flushed(r)]
<1>1. q \in Procs /\ q # p
  BY Others DEF Procs
<1>2. f[p] = Flushed(r) /\ f[q] = proc[q] /\ f = [k \in Procs |-> f[k]]
  BY <1>1 DEF Typed
<1>3. proc[q] \in Life
  BY <1>1 DEF Typed
<1>4. proc' = [f EXCEPT ![q] = [proc[q] EXCEPT !.inStep = @ /\ proc[q].at = "unborn"]]
  BY <1>1, <1>2 DEF Sends
<1>5. proc'[p] = Flushed(r)
  BY <1>1, <1>2, <1>4
<1>6. proc'[q] = [proc[q] EXCEPT !.inStep = @ /\ proc[q].at = "unborn"]
  BY <1>1, <1>2, <1>4
<1> QED
  BY <1>3, <1>5, <1>6 DEF Flushed, Life

(* What drawing makes of the process.                                      *)
LEMMA DrawEffect ==
  ASSUME Typed, NEW p \in Procs, Draw(p)
  PROVE  /\ proc[p].at \in {"draw", "loop"} /\ proc[p].step = "none"
         /\ terminal' = terminal /\ UNCHANGED << settings, server, arrived >>
         /\ \E r \in Life : Sends(p, r)
         /\ \E l \in {"made", "spoiled"} :
              proc'[p] = [Moved(p) EXCEPT !.lists = l, !.queued = FALSE]
<1>1. /\ proc[p].at \in {"draw", "loop"} /\ proc[p].step = "none"
      /\ terminal' = terminal /\ UNCHANGED << settings, server, arrived >>
  BY DEF Draw, Stage, In
<1>2. PICK l \in Left(proc[p].env) : Sends(p, [Moved(p) EXCEPT !.lists = l])
  BY DEF Draw
<1>3. Moved(p) \in Life /\ l \in {"made", "spoiled"}
  BY <1>1, MovedTyped, LeftTyped DEF After
<1> DEFINE r == [Moved(p) EXCEPT !.lists = l]
<1>4. r \in Life
  BY <1>3 DEF Life
<1>5. proc'[p] = [r EXCEPT !.queued = FALSE]
  BY <1>2, <1>4, SendsEffect
<1>6. proc'[p] = [Moved(p) EXCEPT !.lists = l, !.queued = FALSE]
  BY <1>3, <1>5 DEF Life
<1> QED
  BY <1>1, <1>2, <1>3, <1>4, <1>6

(* A message that is not printed at once is kept by its process.           *)
LEMMA SaysEffect ==
  ASSUME Typed, NEW p \in Procs, NEW m, NEW r \in Life, Says(p, m, r)
  PROVE  /\ proc'[p] = [r EXCEPT !.pending = @ \cup Kept(m)]
         /\ \A q \in Procs \ {p} : proc'[q] = proc[q]
BY DEF Says, Typed

(* What a step of a process does to what it says of its own stage.         *)
LEMMA StagedStep ==
  ASSUME Typed, Born, NEW p \in Procs, Staged(p), Interrupted(p),
         (Run(p) /\ ~Fork(p)) \/ Crash(p)
  PROVE  Staged(p)' /\ Interrupted(p)'
<1>0. /\ proc \in [Procs -> Life] /\ proc[p] \in Life
      /\ p \in Procs /\ Other(p) \in Procs /\ Other(p) # p
  BY Others DEF Typed, Procs
<1>1. Came(p)' = Came(p)
  BY CameSame DEF Run, Crash, Start, Register, OpenDisplay, PlugInit, Parse, Draw,
     IoError, Stay, Leave, Announce, Unload, Clear, Release, Exit, Reenter, Stage, Step
<1>2. CASE Start(p)
  BY <1>0, <1>1, <1>2, TableFacts
     DEF Start, Says, Staged, Interrupted, Life, Moved, After, Onward,
         Stage, Step, In, Handling, Alive, Stages, Teardown, Ends, Crashes, Ready, Full
<1>3. CASE Register(p)
  BY <1>0, <1>1, <1>3, TableFacts
     DEF Register, Staged, Interrupted, Life, Moved, After, Onward,
         Stage, Step, In, Handling, Alive, Stages, Teardown, Ends, Crashes, Ready, Full
<1>4. CASE OpenDisplay(p)
  <2> DEFINE r == [proc[p] EXCEPT !.xs = "made"]
  <2>1. r \in Life
    BY <1>0 DEF Life
  <2>2. CASE server = "up"
    <3>1. /\ proc[p].at = "open" /\ proc[p].step = "none"
          /\ proc'[p] = [Moved(p) EXCEPT !.xs = "open"]
      BY <1>0, <1>4, <2>2 DEF OpenDisplay, Stage, In
    <3> QED
      BY <1>0, <1>1, <3>1
         DEF Staged, Interrupted, Life, Moved, After, Alive, Stages, Ready, Full
  <2>3. CASE server # "up"
    <3>1. PICK end \in Crashes : proc'[p] = [r EXCEPT !.at = end]
      BY <1>4, <2>1, <2>3, FaultsEffect DEF OpenDisplay
    <3> QED
      BY <1>0, <1>1, <1>4, <3>1
         DEF OpenDisplay, Stage, In, Staged, Interrupted, Life, Alive, Stages, Crashes, Ready, Full
  <2> QED
    BY <2>2, <2>3
<1>5. CASE PlugInit(p)
  BY <1>0, <1>1, <1>5, TableFacts
     DEF PlugInit, Staged, Interrupted, Life, Moved, After, Onward,
         Stage, Step, In, Handling, Alive, Stages, Teardown, Ends, Crashes, Ready, Full
<1>6. CASE Parse(p)
  <2>1. PICK e \in {"unset", "stale"}, l \in {"made", "spoiled"} :
          proc'[p] = [Moved(p) EXCEPT !.env = e, !.lists = l, !.queued = TRUE]
    BY <1>6, ParseEffect
  <2>2. proc[p].at = "parse" /\ proc[p].step = "none"
    BY <1>6, ParseEffect
  <2> QED
    BY <1>0, <1>1, <2>1, <2>2
       DEF Staged, Interrupted, Life, Moved, After, Alive, Stages, Ready, Full
<1>7. CASE Draw(p)
  <2>1. PICK l \in {"made", "spoiled"} :
          proc'[p] = [Moved(p) EXCEPT !.lists = l, !.queued = FALSE]
    BY <1>7, DrawEffect
  <2>2. proc[p].at \in {"draw", "loop"} /\ proc[p].step = "none"
    BY <1>7, DrawEffect
  <2> QED
    BY <1>0, <1>1, <2>1, <2>2
       DEF Staged, Interrupted, Life, Moved, After, Alive, Stages, Ready, Full
<1>8. CASE IoError(p)
  BY <1>0, <1>1, <1>8, TableFacts
     DEF IoError, Exits, Staged, Interrupted, Life, Moved, After, Onward,
         Stage, Step, In, Handling, Alive, Stages, Teardown, Ends, Crashes, Ready, Full
<1>9. CASE Stay(p)
  BY <1>0, <1>1, <1>9, TableFacts
     DEF Stay, Staged, Interrupted, Life, Moved, After, Onward,
         Stage, Step, In, Handling, Alive, Stages, Teardown, Ends, Crashes, Ready, Full
<1>10. CASE Leave(p)
  BY <1>0, <1>1, <1>10, TableFacts
     DEF Leave, Exits, Staged, Interrupted, Life, Moved, After, Onward,
         Stage, Step, In, Handling, Alive, Stages, Teardown, Ends, Crashes, Ready, Full
<1>11. CASE Crash(p)
  <2>1. PICK e \in {proc[p].env, "stale"} : Faults(p, [proc[p] EXCEPT !.env = e])
    BY <1>11 DEF Crash
  <2>2. [proc[p] EXCEPT !.env = e] \in Life
    BY <1>0 DEF Life
  <2>3. PICK end \in Crashes : proc'[p] = [[proc[p] EXCEPT !.env = e] EXCEPT !.at = end]
    BY <2>1, <2>2, FaultsEffect
  <2> QED
    BY <1>0, <1>1, <1>11, <2>3
       DEF Crash, Stage, In, Staged, Interrupted, Life, Alive, Stages, Crashes, Ready, Full
<1>12. CASE Announce(p)
  <2> DEFINE r == Onward(p, "unload")
  <2>1. r \in Life
    BY <1>0 DEF Life, Onward, Teardown
  <2>2. ASSUME Says(p, Named(proc[p].sig), r)
        PROVE  Staged(p)' /\ Interrupted(p)'
    <3>1. proc'[p] = [r EXCEPT !.pending = @ \cup Kept(Named(proc[p].sig))]
      BY <2>1, <2>2, SaysEffect
    <3> QED
      BY <1>0, <1>1, <1>12, <3>1
         DEF Announce, Onward, Step, Handling, Staged, Interrupted, Life, Alive, Teardown
  <2>3. ASSUME Faults(p, proc[p])
        PROVE  Staged(p)' /\ Interrupted(p)'
    <3>1. PICK end \in Crashes : proc'[p] = [proc[p] EXCEPT !.at = end]
      BY <1>0, <2>3, FaultsEffect
    <3> QED
      BY <1>0, <1>1, <1>12, <3>1
         DEF Announce, Step, Handling, Staged, Interrupted, Life, Alive, Ready, Crashes
  <2> QED
    BY <1>12, <2>2, <2>3 DEF Announce
<1>13. CASE Unload(p)
  <2>1. CASE Faults(p, proc[p])
    <3>1. PICK end \in Crashes : proc'[p] = [proc[p] EXCEPT !.at = end]
      BY <1>0, <2>1, FaultsEffect
    <3> QED
      BY <1>0, <1>1, <1>13, <3>1
         DEF Unload, Step, Handling, Staged, Interrupted, Life, Alive, Ready, Crashes
  <2>2. CASE ~Faults(p, proc[p])
    <3>1. /\ proc[p].at \in Stages /\ proc[p].step = "unload"
          /\ \/ /\ proc[p].lists \in {"made", "spoiled"}
                /\ proc'[p] = [Onward(p, "clear") EXCEPT !.lists = "freed"]
             \/ proc'[p] = [proc[p] EXCEPT !.at = "undefined"]
      BY <1>0, <1>13, <2>2 DEF Unload, Step, Handling, Alive
    <3> QED
      BY <1>0, <1>1, <3>1 DEF Onward, Staged, Interrupted, Life, Alive, Stages, Ready
  <2> QED
    BY <2>1, <2>2
<1>14. CASE Clear(p)
  <2> DEFINE r == Onward(p, "release")
  <2>1. r \in Life
    BY <1>0 DEF Life, Onward, Teardown
  <2>2. CASE Sends(p, r)
    <3>1. proc'[p] = [r EXCEPT !.queued = FALSE]
      BY <2>1, <2>2, SendsEffect
    <3> QED
      BY <1>0, <1>1, <1>14, <3>1
         DEF Clear, Onward, Step, Handling, Staged, Interrupted, Life, Alive, Teardown
  <2>3. CASE Faults(p, proc[p])
    <3>1. PICK end \in Crashes : proc'[p] = [proc[p] EXCEPT !.at = end]
      BY <1>0, <2>3, FaultsEffect
    <3> QED
      BY <1>0, <1>1, <1>14, <3>1
         DEF Clear, Step, Handling, Staged, Interrupted, Life, Alive, Ready, Crashes
  <2> QED
    BY <1>14, <2>2, <2>3 DEF Clear
<1>15. CASE Release(p)
  BY <1>0, <1>1, <1>15, TableFacts
     DEF Release, Staged, Interrupted, Life, Moved, After, Onward,
         Stage, Step, In, Handling, Alive, Stages, Teardown, Ends, Crashes, Ready, Full
<1>16. CASE Exit(p)
  BY <1>0, <1>1, <1>16, TableFacts
     DEF Exit, Exits, Staged, Interrupted, Life, Moved, After, Onward,
         Stage, Step, In, Handling, Alive, Stages, Teardown, Ends, Crashes, Ready, Full
<1>17. CASE Reenter(p)
  BY <1>0, <1>1, <1>17, TableFacts
     DEF Reenter, Staged, Interrupted, Life, Moved, After, Onward,
         Stage, Step, In, Handling, Alive, Stages, Teardown, Ends, Crashes, Ready, Full
<1> QED
  BY <1>2, <1>3, <1>4, <1>5, <1>6, <1>7, <1>8, <1>9, <1>10, <1>11, <1>12, <1>13, <1>14, <1>15, <1>16, <1>17 DEF Run

(* What a step of the process leaves of its way through the teardown.      *)
LEMMA TearsDownStep ==
  ASSUME Typed, NEW p \in Procs, TearsDown(p),
         (Run(p) /\ ~Fork(p)) \/ Crash(p)
  PROVE  TearsDown(p)'
<1>0. proc \in [Procs -> Life] /\ proc[p] \in Life
  BY DEF Typed
<1>1. UNCHANGED << settings, arrived >>
  BY DEF Run, Crash, Start, Register, OpenDisplay, PlugInit, Parse, Draw,
     IoError, Stay, Leave, Announce, Unload, Clear, Release, Exit, Reenter, Stage, Step
<1>2. Orderly(p)' <=> Orderly(p)
  BY <1>1 DEF Orderly, Came, settings
<1>3. SUFFICES ASSUME Orderly(p)
               PROVE  TearsDown(p)'
  BY <1>2 DEF TearsDown
<1> DEFINE Way(r) ==
      /\ r.at \in Stages \cup {"exited", "io_error"}
      /\ r.step \in {"announce", "unload"} => r.lists = "made"
      /\ r.step \in {"announce", "unload", "clear"} => r.xs = "open"
      /\ r.step \in {"clear", "release", "exit"} => r.lists = "freed"
      /\ r.step = "exit" => r.xs = "freed"
      /\ r.at = "exited" => r.xs = "freed" /\ r.lists = "freed"
<1>4. /\ proc[p].step # "none" /\ ~proc[p].busy /\ Way(proc[p])
      /\ \E k \in Came(p) : proc[p].sig = arrived[k].sig
  BY <1>3 DEF TearsDown
<1>5. SUFFICES /\ proc'[p].step # "none" /\ ~proc'[p].busy /\ Way(proc'[p])
               /\ proc'[p].sig = proc[p].sig
  BY <1>1, <1>4 DEF TearsDown, Came
<1>6. ~Crash(p) /\ ~Start(p) /\ ~Register(p) /\ ~OpenDisplay(p) /\ ~PlugInit(p)
  BY <1>4 DEF Crash, Start, Register, OpenDisplay, PlugInit, Stage, In
<1>7. ~Parse(p) /\ ~Draw(p) /\ ~Stay(p) /\ ~Leave(p)
  BY <1>4 DEF Parse, Draw, Stay, Leave, Stage, In
<1>8. ~Reenter(p)
  BY <1>4 DEF Reenter
<1>9. CASE IoError(p)
  <2>1. /\ proc[p].step = "clear"
        /\ proc'[p] = [proc[p] EXCEPT !.at = "io_error", !.pending = {}]
    BY <1>0, <1>4, <1>9 DEF IoError, In, Handling, Exits
  <2> QED
    BY <1>0, <1>4, <2>1 DEF Life
<1>10. CASE Announce(p)
  <2> DEFINE r == Onward(p, "unload")
  <2>1. r \in Life /\ proc[p].step = "announce" /\ proc[p].at \in Stages
    BY <1>0, <1>10 DEF Life, Onward, Teardown, Announce, Step, Handling, Alive
  <2>2. ~ (verbose /\ Named(proc[p].sig) = "garbage")
    <3>1. PICK k \in Came(p) : proc[p].sig = arrived[k].sig
      BY <1>4
    <3>2. ~ (proc[p].sig = "TERM" /\ verbose)
      BY <1>3, <3>1 DEF Orderly
    <3>3. proc[p].sig \in Signals
      BY <3>1, ArrivedTyped DEF Came, Arrival
    <3> QED
      BY <3>2, <3>3, NamedFacts, TableFacts
  <2>3. Says(p, Named(proc[p].sig), r)
    BY <1>10, <2>2 DEF Announce
  <2>4. proc'[p] = [r EXCEPT !.pending = @ \cup Kept(Named(proc[p].sig))]
    BY <2>1, <2>3, SaysEffect
  <2> QED
    BY <1>0, <1>4, <2>1, <2>4 DEF Life, Onward, Stages
<1>11. CASE Unload(p)
  <2>1. /\ proc[p].step = "unload" /\ proc[p].at \in Stages
        /\ proc'[p] = [Onward(p, "clear") EXCEPT !.lists = "freed"]
    BY <1>0, <1>4, <1>11 DEF Unload, Step, Handling, Alive
  <2> QED
    BY <1>0, <1>4, <2>1 DEF Life, Onward, Stages
<1>12. CASE Clear(p)
  <2>1. proc[p].step = "clear" /\ proc[p].at \in Stages /\ Sends(p, Onward(p, "release"))
    BY <1>0, <1>4, <1>12 DEF Clear, Step, Handling, Alive
  <2>2. Onward(p, "release") \in Life
    BY <1>0 DEF Life, Onward, Teardown
  <2>3. proc'[p] = [Onward(p, "release") EXCEPT !.queued = FALSE]
    BY <2>1, <2>2, SendsEffect
  <2> QED
    BY <1>0, <1>4, <2>1, <2>3 DEF Life, Onward, Stages
<1>13. CASE Release(p)
  <2>1. /\ proc[p].step = "release" /\ proc[p].at \in Stages
        /\ proc'[p] = [Onward(p, "exit") EXCEPT !.xs = "freed"]
    BY <1>0, <1>13 DEF Release, Step, Handling, Alive
  <2> QED
    BY <1>0, <1>4, <2>1 DEF Life, Onward, Stages
<1>14. CASE Exit(p)
  <2>1. /\ proc[p].step = "exit" /\ proc[p].at \in Stages
        /\ proc'[p] = [proc[p] EXCEPT !.at = "exited", !.pending = {}]
    BY <1>0, <1>14 DEF Exit, Step, Handling, Alive, Exits
  <2> QED
    BY <1>0, <1>4, <2>1 DEF Life
<1> QED
  BY <1>6, <1>7, <1>8, <1>9, <1>10, <1>11, <1>12, <1>13, <1>14 DEF Run

(* A signal finds its handler registered once the plugin lists are made.   *)
LEMMA SignalEffect ==
  ASSUME Typed, NEW p \in Procs, NEW s \in Signals, Signal(p, s)
  PROVE  \/ /\ proc'[p].at = "killed" /\ proc[p].rows < Rows
            /\ proc' = [proc EXCEPT ![p] = [proc[p] EXCEPT !.at = "killed"]]
         \/ \E inside \in BOOLEAN :
              /\ proc' = [proc EXCEPT ![p] =
                   [proc[p] EXCEPT !.step = "announce", !.sig = s,
                      !.blocked = @ \cup {s}, !.busy = @ \/ inside]]
              /\ arrived'[Len(arrived) + 1].inside = inside
<1>0. proc \in [Procs -> Life] /\ proc[p] \in Life /\ proc[p].rows \in 0 .. Rows
  BY DEF Typed, Life
<1>1. PICK inside \in BOOLEAN :
        /\ arrived' = Append(arrived, [to |-> p, sig |-> s, inside |-> inside,
                                       at |-> proc[p].at, lists |-> proc[p].lists])
        /\ proc' = [proc EXCEPT ![p] =
             IF \E k \in 1 .. proc[p].rows : Table[k] = s
             THEN [proc[p] EXCEPT !.step = "announce", !.sig = s,
                                  !.blocked = @ \cup {s}, !.busy = @ \/ inside]
             ELSE [proc[p] EXCEPT !.at = "killed"]]
  BY DEF Signal
<1>2. arrived'[Len(arrived) + 1].inside = inside
  <2> DEFINE a == [to |-> p, sig |-> s, inside |-> inside,
                   at |-> proc[p].at, lists |-> proc[p].lists]
  <2>1. arrived \in Seq(Arrival) /\ Len(arrived) \in Nat
    BY DEF Typed
  <2>2. arrived' = Append(arrived, a)
    BY <1>1
  <2>3. arrived'[Len(arrived) + 1] = a
    BY <2>1, <2>2
  <2> QED
    BY <2>3
<1>3. CASE \E k \in 1 .. proc[p].rows : Table[k] = s
  BY <1>1, <1>2, <1>3
<1>4. CASE ~ \E k \in 1 .. proc[p].rows : Table[k] = s
  <2>1. proc[p].rows # Rows
    BY <1>4, Handled
  <2>2. proc' = [proc EXCEPT ![p] = [proc[p] EXCEPT !.at = "killed"]]
    BY <1>1, <1>4
  <2>3. proc'[p].at = "killed"
    BY <1>0, <2>2 DEF Life
  <2>4. proc[p].rows < Rows
    BY <1>0, <2>1, TableFacts
  <2> QED
    BY <2>2, <2>3, <2>4
<1> QED
  BY <1>3, <1>4

(* A signal meets the stage its process is at.                             *)
LEMMA SignalStep ==
  ASSUME Typed, NEW p \in Procs, NEW s \in Signals, Signal(p, s),
         Staged(p), Interrupted(p), TearsDown(p)
  PROVE  Staged(p)' /\ Interrupted(p)' /\ TearsDown(p)'
<1> DEFINE n == Len(arrived) + 1
<1>0. /\ proc \in [Procs -> Life] /\ proc[p] \in Life
      /\ proc[p].at \in Stages /\ verbose' = verbose
  BY DEF Typed, Signal, Alive, settings
<1>1. /\ Came(p)' = Came(p) \cup {n} /\ n \notin Came(p)
      /\ arrived'[n].sig = s /\ arrived'[n].lists = proc[p].lists
  BY SignalArrives
<1>2. ASSUME Orderly(p)'
      PROVE  /\ Came(p) = {} /\ Came(p)' = {n} /\ ~arrived'[n].inside
             /\ proc[p].lists = "made" /\ proc[p].step = "none"
             /\ ~proc[p].busy /\ proc[p].rows = Rows /\ proc[p].xs = "open"
  <2>1. PICK k \in Came(p)' : /\ Came(p)' = {k}
                             /\ arrived'[k].lists = "made" /\ ~arrived'[k].inside
    BY <1>2 DEF Orderly
  <2>2. k = n /\ Came(p) = {} /\ Came(p)' = {n}
    BY <1>1, <2>1
  <2>3. proc[p].step = "none" /\ proc[p].lists = "made"
    BY <1>1, <2>1, <2>2 DEF Staged
  <2> QED
    BY <1>0, <2>1, <2>2, <2>3 DEF Staged, Stages, Full
<1>3. CASE proc' = [proc EXCEPT ![p] = [proc[p] EXCEPT !.at = "killed"]] /\ proc[p].rows < Rows
  <2>1. proc'[p] = [proc[p] EXCEPT !.at = "killed"]
    BY <1>0, <1>3
  <2>2. Staged(p)' /\ Interrupted(p)'
    BY <1>0, <1>1, <2>1 DEF Staged, Interrupted, Life, Alive, Stages, Ready, Full
  <2>3. ~Orderly(p)'
    BY <1>2, <1>3, TableFacts
  <2> QED
    BY <2>2, <2>3 DEF TearsDown
<1>4. ASSUME NEW inside \in BOOLEAN,
             proc' = [proc EXCEPT ![p] =
                   [proc[p] EXCEPT !.step = "announce", !.sig = s,
                      !.blocked = @ \cup {s}, !.busy = @ \/ inside]],
             arrived'[n].inside = inside
      PROVE  Staged(p)' /\ Interrupted(p)' /\ TearsDown(p)'
  <2>1. /\ proc'[p].at = proc[p].at /\ proc'[p].step = "announce"
        /\ proc'[p].sig = s /\ proc'[p].rows = proc[p].rows
        /\ proc'[p].blocked = proc[p].blocked \cup {s}
        /\ proc'[p].busy = (proc[p].busy \/ inside)
        /\ proc'[p].xs = proc[p].xs /\ proc'[p].lists = proc[p].lists
        /\ proc'[p].queued = proc[p].queued
    BY <1>0, <1>4 DEF Life
  <2>2. proc[p].at # "options"
    <3>1. CASE proc[p].at = "options"
      <4>1. proc[p].rows = 0
        BY <3>1 DEF Staged
      <4>2. ~ \E k \in 1 .. proc[p].rows : Table[k] = s
        BY <4>1
      <4>3. proc' = [proc EXCEPT ![p] = [proc[p] EXCEPT !.at = "killed"]]
        BY <4>2 DEF Signal
      <4> QED
        BY <1>0, <2>1, <3>1, <4>3 DEF Life
    <3> QED
      BY <3>1
  <2>3. Staged(p)' /\ Interrupted(p)'
    BY <1>0, <1>1, <2>1, <2>2 DEF Staged, Interrupted, Alive
  <2>4. TearsDown(p)'
    <3> SUFFICES ASSUME Orderly(p)'
                 PROVE  TearsDown(p)'
      BY DEF TearsDown
    <3>1. /\ Came(p)' = {n} /\ ~inside /\ proc[p].lists = "made"
          /\ ~proc[p].busy /\ proc[p].xs = "open"
      BY <1>2, <1>4
    <3> QED
      BY <1>0, <1>1, <2>1, <3>1 DEF TearsDown, Stages
  <2> QED
    BY <2>3, <2>4
<1> QED
  BY <1>3, <1>4, SignalEffect

(* Forking, the parent leaves and the child waits.                         *)
LEMMA ForkEffect ==
  ASSUME Typed, Born, NEW p \in Procs, Fork(p)
  PROVE  /\ p = "first" /\ proc[p].at = "fork" /\ proc[p].step = "none"
         /\ proc'["first"] = [proc["first"] EXCEPT !.at = "leave"]
         /\ proc'["child"] =
              [proc["first"] EXCEPT !.at = "loop", !.inStep = ~proc["first"].queued]
         /\ proc["child"].at = "unborn" /\ UNCHANGED << settings, server, arrived, terminal >>
<1>1. /\ proc[p].at = "fork" /\ proc[p].step = "none"
      /\ UNCHANGED << settings, server, arrived, terminal >>
  BY DEF Fork, Stage, In
<1>2. p = "first"
  BY <1>1 DEF Born, Ends, Crashes, Procs
<1>3. proc["child"].at = "unborn"
  BY <1>1, <1>2 DEF Born, Ends, Crashes
<1> QED
  BY <1>1, <1>2, <1>3 DEF Fork

(* The child starts with what its parent has set up.                       *)
LEMMA ForkStep ==
  ASSUME Typed, Born, \A q \in Procs : Staged(q) /\ Interrupted(q) /\ TearsDown(q),
         NEW p \in Procs, Fork(p)
  PROVE  \A q \in Procs : Staged(q)' /\ Interrupted(q)' /\ TearsDown(q)'
<1>0. proc["first"] \in Life /\ "first" \in Procs /\ "child" \in Procs
  BY DEF Typed, Procs
<1>1. /\ proc["first"].at = "fork" /\ proc["first"].step = "none"
      /\ proc["child"].at = "unborn" /\ UNCHANGED << settings, arrived >>
  BY ForkEffect
<1>2. /\ proc'["first"] = [proc["first"] EXCEPT !.at = "leave"]
      /\ proc'["child"] =
           [proc["first"] EXCEPT !.at = "loop", !.inStep = ~proc["first"].queued]
  BY ForkEffect
<1>3. Staged("first") /\ Staged("child") /\ proc["child"].step = "none"
  BY <1>0, <1>1 DEF Born
<1>4. Came("first") = {} /\ Came("child") = {}
  BY <1>1, <1>3 DEF Staged, Alive, Stages
<1>5. Came("first")' = {} /\ Came("child")' = {}
  BY <1>0, <1>1, <1>4, CameSame
<1>6. ASSUME NEW q \in Procs
      PROVE  Staged(q)' /\ Interrupted(q)' /\ TearsDown(q)'
  <2>1. /\ proc'[q].at \in {"leave", "loop"} /\ proc'[q].step = "none"
        /\ proc'[q].rows = proc["first"].rows /\ proc'[q].xs = proc["first"].xs
        /\ proc'[q].lists = proc["first"].lists
        /\ proc'[q].blocked = proc["first"].blocked
        /\ proc'[q].busy = proc["first"].busy /\ Came(q)' = {}
    <3>1. CASE q = "first"
      BY <1>0, <1>1, <1>2, <1>5, <3>1 DEF Life
    <3>2. CASE q = "child"
      BY <1>0, <1>1, <1>2, <1>5, <3>2 DEF Life
    <3> QED
      BY <3>1, <3>2 DEF Procs
  <2>2. Staged(q)'
    BY <1>1, <1>3, <2>1 DEF Staged, Alive, Ready, Full
  <2>3. Interrupted(q)' /\ TearsDown(q)'
    BY <2>1 DEF Interrupted, TearsDown, Orderly
  <2> QED
    BY <2>2, <2>3
<1> QED
  BY <1>6

(* An option: nothing has come yet, and there is no child.                 *)
LEMMA OptionEffect ==
  ASSUME Typed, Born, \A q \in Procs : Staged(q),
         Toggle \/ Foreground \/ Refuse \/ \E m \in {"version", "usage"} : Inform(m)
  PROVE  /\ proc["first"].at = "options" /\ proc["child"].at = "unborn"
         /\ \A q \in Procs : Came(q) = {} /\ Came(q)' = {} /\ proc[q].step = "none"
         /\ UNCHANGED << tty, server, arrived >>
         /\ proc'["child"] = proc["child"]
         /\ \/ proc' = proc /\ terminal' = terminal
            \/ /\ proc'["first"].at \in {"exited", "refused"}
               /\ proc'["first"] = [proc["first"] EXCEPT !.at = proc'["first"].at,
                                                        !.pending = {}]
<1>1. /\ proc["first"].at = "options" /\ proc["first"].step = "none"
      /\ UNCHANGED << tty, server, arrived >>
  BY DEF Toggle, Foreground, Refuse, Inform, Option, In
<1>2. proc["child"].at = "unborn" /\ proc["child"].step = "none"
  BY <1>1 DEF Born, Ends, Crashes
<1>3. \A q \in Procs : Came(q) = {} /\ proc[q].step = "none"
  BY <1>1, <1>2 DEF Staged, Alive, Stages, Procs
<1>4. \A q \in Procs : Came(q)' = {}
  BY <1>1, <1>3, CameSame
<1>5. proc \in [Procs -> Life] /\ proc["first"] \in Life
  BY DEF Typed, Procs
<1>6. \A end \in {"exited", "refused"} : \A ms : Exits("first", end, ms) =>
        /\ proc'["child"] = proc["child"]
        /\ proc'["first"] = [proc["first"] EXCEPT !.at = end, !.pending = {}]
  BY <1>5 DEF Exits, Procs
<1>7. CASE Toggle \/ Foreground
  BY <1>1, <1>2, <1>3, <1>4, <1>7 DEF Toggle, Foreground
<1>8. CASE Refuse \/ \E m \in {"version", "usage"} : Inform(m)
  <2>1. PICK end \in {"exited", "refused"} : \E ms : Exits("first", end, ms)
    BY <1>8 DEF Refuse, Inform
  <2>2. proc'["first"] = [proc["first"] EXCEPT !.at = end, !.pending = {}]
    BY <1>6, <2>1
  <2>3. proc'["first"].at = end
    BY <1>5, <2>2 DEF Life
  <2> QED
    BY <1>1, <1>2, <1>3, <1>4, <1>6, <2>1, <2>2, <2>3
<1> QED
  BY <1>7, <1>8

(* The options set up nothing.                                             *)
LEMMA OptionStep ==
  ASSUME Typed, Born, \A q \in Procs : Staged(q) /\ Interrupted(q),
         Toggle \/ Foreground \/ Refuse \/ \E m \in {"version", "usage"} : Inform(m)
  PROVE  \A q \in Procs : Staged(q)' /\ Interrupted(q)' /\ TearsDown(q)'
<1>0. proc["first"] \in Life /\ "first" \in Procs /\ "child" \in Procs
  BY DEF Typed, Procs
<1>1. \A q \in Procs : Came(q)' = {} /\ Came(q) = {} /\ proc[q].step = "none"
  BY OptionEffect
<1>2. ASSUME NEW q \in Procs
      PROVE  /\ proc'[q].at \in {proc[q].at, "exited", "refused"}
             /\ proc'[q].step = "none" /\ proc'[q].rows = proc[q].rows
             /\ proc'[q].blocked = proc[q].blocked /\ proc'[q].busy = proc[q].busy
             /\ proc'[q].xs = proc[q].xs /\ proc'[q].lists = proc[q].lists
             /\ proc'[q].queued = proc[q].queued
  <2>1. CASE proc'[q] = proc[q]
    BY <1>1, <2>1
  <2>2. CASE q = "first" /\ proc'["first"].at \in {"exited", "refused"}
             /\ proc'["first"] = [proc["first"] EXCEPT !.at = proc'["first"].at,
                                                      !.pending = {}]
    BY <1>0, <1>1, <2>2 DEF Life
  <2> QED
    BY <2>1, <2>2, OptionEffect DEF Procs
<1>3. ASSUME NEW q \in Procs
      PROVE  Staged(q)' /\ Interrupted(q)' /\ TearsDown(q)'
  <2>1. Staged(q)'
    BY <1>1, <1>2, <1>3 DEF Staged, Alive, Ready, Full
  <2>2. Interrupted(q)' /\ TearsDown(q)'
    BY <1>1, <1>2, <1>3 DEF Interrupted, TearsDown, Orderly
  <2> QED
    BY <2>1, <2>2
<1> QED
  BY <1>3

(* What a process says of itself, whoever moves.                           *)
LEMMA LocalStep ==
  ASSUME Typed, Born, \A q \in Procs : Staged(q) /\ Interrupted(q) /\ TearsDown(q),
         [Next]_vars
  PROVE  \A q \in Procs : Staged(q)' /\ Interrupted(q)' /\ TearsDown(q)'
<1>1. CASE Toggle \/ Foreground \/ Refuse \/ \E m \in {"version", "usage"} : Inform(m)
  BY <1>1, OptionStep
<1>2. ASSUME NEW p \in Procs, (Run(p) /\ ~Fork(p)) \/ Crash(p), NEW q \in Procs
      PROVE  Staged(q)' /\ Interrupted(q)' /\ TearsDown(q)'
  <2>1. CASE q = p
    BY <1>2, <2>1, StagedStep, TearsDownStep
  <2>2. CASE q # p
    <3>1. Idle(q)
      BY <1>2, <2>2, OtherIsIdle
    <3>2. UNCHANGED << settings, arrived >>
      BY <1>2 DEF Run, Crash, Start, Register, OpenDisplay, PlugInit, Parse, Draw,
         IoError, Stay, Leave, Announce, Unload, Clear, Release, Exit, Reenter, Stage, Step
    <3>3. Came(q)' = Came(q)
      BY <3>2, CameSame
    <3> QED
      BY <3>1, <3>2, <3>3, IdleKeeps
  <2> QED
    BY <2>1, <2>2
<1>3. ASSUME NEW p \in Procs, Fork(p)
      PROVE  \A q \in Procs : Staged(q)' /\ Interrupted(q)' /\ TearsDown(q)'
  BY <1>3, ForkStep
<1>4. ASSUME NEW p \in Procs, NEW s \in Signals, Signal(p, s), NEW q \in Procs
      PROVE  Staged(q)' /\ Interrupted(q)' /\ TearsDown(q)'
  <2>1. CASE q = p
    BY <1>4, <2>1, SignalStep
  <2>2. CASE q # p
    <3>1. Idle(q)
      BY <1>4, <2>2, OtherIsIdle
    <3>2. UNCHANGED settings
      BY <1>4 DEF Signal
    <3>3. Came(q)' = Came(q) /\ \A k \in Came(q) : arrived'[k] = arrived[k]
      BY <1>4, <2>2, SignalArrives DEF Came
    <3> QED
      BY <3>1, <3>2, <3>3, IdleKeeps
  <2> QED
    BY <2>1, <2>2
<1>5. CASE ServerGoes \/ UNCHANGED vars
  <2>1. UNCHANGED << proc, settings, arrived >>
    BY <1>5 DEF ServerGoes, vars
  <2>2. ASSUME NEW q \in Procs
        PROVE  Staged(q)' /\ Interrupted(q)' /\ TearsDown(q)'
    <3>1. Came(q)' = Came(q) /\ (Orderly(q)' <=> Orderly(q))
      BY <2>1 DEF Came, Orderly, settings
    <3>2. Staged(q)' /\ Interrupted(q)'
      BY <2>1, <3>1 DEF Staged, Interrupted, Alive
    <3>3. TearsDown(q)'
      BY <2>1, <3>1 DEF TearsDown
    <3> QED
      BY <3>2, <3>3
  <2> QED
    BY <2>2
<1> QED
  BY <1>1, <1>2, <1>3, <1>4, <1>5, ProcessAssumption DEF Next, Finished

-----------------------------------------------------------------------------
(* Where a process goes from where it is: on, or to its end; the handler   *)
(* is entered by a signal alone.                                           *)
Course(p) ==
  /\ proc[p].at \in Stages
  /\ proc[p].at \in {"loop", "leave"} => proc'[p].at \in {proc[p].at} \cup Ends
  /\ proc'[p].at # "unborn" /\ (proc'[p].at = "leave" => proc[p].at = "leave")
  /\ proc[p].step = "none" => proc'[p].step = "none"
  /\ proc'[p].inStep = proc[p].inStep

(* What a step prints: nothing, one message, or what stdio has kept.       *)
Speaks(p, m) ==
  /\ \/ m = "version" /\ p = "first" /\ proc[p].at = "options"
     \/ m = Named(proc[p].sig) /\ proc[p].step = "announce" /\ proc'[p].step = "unload"
  /\ proc'[p].pending = proc[p].pending \cup Kept(m)
  /\ terminal' = IF tty THEN Printed(Spoken(m)) ELSE terminal

Closes(p, ms) ==
  /\ proc'[p].at \in {"exited", "refused", "io_error"} /\ proc'[p].pending = {}
  /\ terminal' = Printed(proc[p].pending \cup ms)

Output(p) ==
  /\ proc'[p].blocked = proc[p].blocked /\ proc'[p].sig = proc[p].sig
  /\ proc'[p].step = "announce" => proc[p].step = "announce"
  /\ proc'[p].at # "options"
  /\ \/ terminal' = terminal /\ proc'[p].pending = proc[p].pending
     \/ \E m \in Messages : Speaks(p, m)
     \/ Closes(p, {})

(* What any other step of a process may do to its stage and its output.    *)
LEMMA RunEffect ==
  ASSUME Typed, Born, NEW p \in Procs, Staged(p), Interrupted(p),
         (Run(p) /\ ~Fork(p)) \/ Crash(p)
  PROVE  Course(p) /\ Output(p)
<1>0. proc \in [Procs -> Life] /\ proc[p] \in Life
  BY DEF Typed
<1>1. \A r \in Life : Faults(p, r) =>
        /\ \E end \in Crashes : proc'[p] = [r EXCEPT !.at = end]
        /\ terminal' = terminal
  BY FaultsEffect DEF Faults
<1>2. CASE Start(p)
  <2>1. proc[p].at = "options" /\ proc[p].step = "none" /\ Says(p, "version", Moved(p))
    BY <1>2 DEF Start, Stage, In
  <2>2. Moved(p) \in Life
    BY <2>1, MovedTyped DEF After
  <2>3. proc'[p] = [Moved(p) EXCEPT !.pending = @ \cup Kept("version")]
    BY <2>1, <2>2, SaysEffect
  <2>4. p = "first" /\ "version" \in Messages
    BY <2>1 DEF Born, Ends, Crashes, Procs, Messages
  <2>5. Speaks(p, "version")
    BY <1>0, <2>1, <2>3, <2>4 DEF Speaks, Says, Life, Moved
  <2> QED
    BY <1>0, <2>1, <2>3, <2>4, <2>5 DEF Output, Life, Moved, After, Course, Stages, Ends, Crashes
<1>3. CASE Register(p)
  <2>1. /\ proc[p].at = "register" /\ proc[p].step = "none" /\ terminal' = terminal
        /\ \/ proc'[p] = Moved(p)
           \/ proc'[p] = [proc[p] EXCEPT !.rows = @ + 1]
    BY <1>0, <1>3 DEF Register, Stage, In
  <2> QED
    BY <1>0, <2>1 DEF Course, Output, Life, Moved, After, Onward, Stages, Ends, Crashes, Teardown
<1>4. CASE OpenDisplay(p)
  <2> DEFINE r == [proc[p] EXCEPT !.xs = "made"]
  <2>1. r \in Life /\ proc[p].at = "open" /\ proc[p].step = "none"
    BY <1>0, <1>4 DEF Life, OpenDisplay, Stage, In
  <2>2. CASE server = "up"
    <3>1. proc'[p] = [Moved(p) EXCEPT !.xs = "open"] /\ terminal' = terminal
      BY <1>0, <1>4, <2>2 DEF OpenDisplay
    <3> QED
      BY <1>0, <2>1, <3>1 DEF Output, Life, Moved, After, Course, Stages, Ends, Crashes
  <2>3. CASE server # "up"
    <3>1. PICK end \in Crashes : proc'[p] = [r EXCEPT !.at = end] /\ terminal' = terminal
      BY <1>1, <1>4, <2>1, <2>3 DEF OpenDisplay
    <3> QED
      BY <1>0, <2>1, <3>1 DEF Output, Life, Crashes, Course, Stages, Ends
  <2> QED
    BY <2>2, <2>3
<1>5. CASE PlugInit(p)
  <2>1. /\ proc[p].at = "plug_init" /\ proc[p].step = "none" /\ terminal' = terminal
        /\ proc'[p] = [Moved(p) EXCEPT !.lists = "made"]
    BY <1>0, <1>5 DEF PlugInit, Stage, In
  <2> QED
    BY <1>0, <2>1 DEF Course, Output, Life, Moved, After, Onward, Stages, Ends, Crashes, Teardown
<1>6. CASE Parse(p)
  <2>1. /\ proc[p].at = "parse" /\ proc[p].step = "none" /\ terminal' = terminal
        /\ \E e \in {"unset", "stale"}, l \in {"made", "spoiled"} :
             proc'[p] = [Moved(p) EXCEPT !.env = e, !.lists = l, !.queued = TRUE]
    BY <1>6, ParseEffect
  <2> QED
    BY <1>0, <2>1 DEF Course, Output, Life, Moved, After, Onward, Stages, Ends, Crashes, Teardown
<1>7. CASE Draw(p)
  <2>1. PICK l \in {"made", "spoiled"} :
          proc'[p] = [Moved(p) EXCEPT !.lists = l, !.queued = FALSE]
    BY <1>7, DrawEffect
  <2>2. /\ proc[p].at \in {"draw", "loop"} /\ proc[p].step = "none"
        /\ terminal' = terminal
    BY <1>7, DrawEffect
  <2> QED
    BY <1>0, <2>1, <2>2 DEF Output, Life, Moved, After, Course, Stages, Ends, Crashes
<1>8. CASE IoError(p)
  <2>1. /\ proc[p].at \in Stages
        /\ terminal' = Printed(proc[p].pending \cup {})
        /\ proc'[p] = [proc[p] EXCEPT !.at = "io_error", !.pending = {}]
    BY <1>0, <1>8 DEF IoError, In, Handling, Alive, Stages, Exits
  <2>2. Closes(p, {})
    BY <1>0, <2>1 DEF Closes, Life
  <2> QED
    BY <1>0, <2>1, <2>2 DEF Output, Life, Course, Stages, Ends, Crashes
<1>9. CASE Stay(p)
  <2>1. /\ proc[p].at = "fork" /\ proc[p].step = "none" /\ terminal' = terminal
        /\ proc'[p] = [proc[p] EXCEPT !.at = "loop"]
    BY <1>0, <1>9 DEF Stay, Stage, In
  <2> QED
    BY <1>0, <2>1 DEF Course, Output, Life, Moved, After, Onward, Stages, Ends, Crashes, Teardown
<1>10. CASE Leave(p)
  <2>1. /\ proc[p].at = "leave" /\ proc[p].step = "none"
        /\ terminal' = Printed(proc[p].pending \cup {})
        /\ proc'[p] = [proc[p] EXCEPT !.at = "exited", !.pending = {}]
    BY <1>0, <1>10 DEF Leave, Stage, In, Exits
  <2>2. Closes(p, {})
    BY <1>0, <2>1 DEF Closes, Life
  <2> QED
    BY <1>0, <2>1, <2>2 DEF Output, Life, Course, Stages, Ends, Crashes
<1>11. CASE Crash(p)
  <2>1. PICK e \in {proc[p].env, "stale"} : Faults(p, [proc[p] EXCEPT !.env = e])
    BY <1>11 DEF Crash
  <2>2. [proc[p] EXCEPT !.env = e] \in Life
    BY <1>0 DEF Life
  <2>3. PICK end \in Crashes : /\ proc'[p] = [[proc[p] EXCEPT !.env = e] EXCEPT !.at = end]
                               /\ terminal' = terminal
    BY <1>1, <2>1, <2>2
  <2>4. proc[p].at \in Stages /\ proc[p].at # "options"
    BY <1>11 DEF Crash, Stage, In, Stages
  <2> QED
    BY <1>0, <2>3, <2>4 DEF Output, Life, Crashes, Course, Ends
<1>12. ASSUME Faults(p, proc[p]), proc[p].at \in Stages, proc[p].at # "options"
       PROVE  Course(p) /\ Output(p)
  <2>1. PICK end \in Crashes : proc'[p] = [proc[p] EXCEPT !.at = end] /\ terminal' = terminal
    BY <1>0, <1>1, <1>12
  <2> QED
    BY <1>0, <1>12, <2>1 DEF Output, Life, Crashes, Course, Ends
<1>13. CASE Announce(p)
  <2> DEFINE r == Onward(p, "unload")
             m == Named(proc[p].sig)
  <2>1. /\ r \in Life /\ proc[p].step = "announce" /\ proc[p].at \in Stages
        /\ proc[p].at # "options"
    BY <1>0, <1>13 DEF Life, Onward, Teardown, Announce, Step, Handling, Alive, Staged
  <2>2. m \in Messages
    <3>1. proc[p].sig \in Signals
      BY <1>0, <2>1 DEF Interrupted, Life
    <3> QED
      BY <3>1, NamedFacts, TableFacts
  <2>3. ASSUME Says(p, m, r)
        PROVE  Course(p) /\ Output(p)
    <3>1. proc'[p] = [r EXCEPT !.pending = @ \cup Kept(m)]
      BY <2>1, <2>3, SaysEffect
    <3>2. /\ proc'[p].pending = proc[p].pending \cup Kept(m)
          /\ proc'[p].step = "unload" /\ proc'[p].at = proc[p].at
          /\ proc'[p].blocked = proc[p].blocked /\ proc'[p].sig = proc[p].sig
          /\ proc'[p].inStep = proc[p].inStep
      BY <1>0, <2>1, <3>1 DEF Life, Onward
    <3>3. terminal' = IF tty THEN Printed(Spoken(m)) ELSE terminal
      BY <2>3 DEF Says
    <3> HIDE DEF m, r
    <3>4. Speaks(p, m)
      BY <2>1, <3>2, <3>3 DEF Speaks, m
    <3> QED
      BY <2>1, <2>2, <3>2, <3>4 DEF Output, Course, Stages
  <2> QED
    BY <1>12, <1>13, <2>1, <2>3 DEF Announce
<1>14. CASE Unload(p)
  <2>1. proc[p].step = "unload" /\ proc[p].at \in Stages /\ proc[p].at # "options"
    BY <1>14 DEF Unload, Step, Handling, Staged, Alive
  <2>2. CASE ~Faults(p, proc[p])
    <3>1. /\ \/ proc'[p] = [Onward(p, "clear") EXCEPT !.lists = "freed"]
             \/ proc'[p] = [proc[p] EXCEPT !.at = "undefined"]
          /\ terminal' = terminal
      BY <1>0, <1>14, <2>2 DEF Unload
    <3> QED
      BY <1>0, <2>1, <3>1 DEF Output, Life, Onward, Course, Stages, Ends, Crashes
  <2> QED
    BY <1>12, <2>1, <2>2
<1>15. CASE Clear(p)
  <2> DEFINE r == Onward(p, "release")
  <2>1. /\ r \in Life /\ proc[p].step = "clear"
        /\ proc[p].at \in Stages /\ proc[p].at # "options"
    BY <1>0, <1>15 DEF Life, Onward, Teardown, Clear, Step, Handling, Staged, Alive
  <2>2. CASE Sends(p, r) /\ terminal' = terminal
    <3>1. proc'[p] = [r EXCEPT !.queued = FALSE]
      BY <2>1, <2>2, SendsEffect
    <3> QED
      BY <1>0, <2>1, <2>2, <3>1 DEF Output, Life, Onward, Course, Stages, Ends, Crashes
  <2> QED
    BY <1>12, <1>15, <2>1, <2>2 DEF Clear
<1>16. CASE Release(p)
  <2>1. /\ proc[p].at \in Stages /\ proc[p].at # "options" /\ terminal' = terminal
        /\ proc[p].step = "release"
        /\ proc'[p] = [Onward(p, "exit") EXCEPT !.xs = "freed"]
    BY <1>0, <1>16 DEF Release, Step, Handling, Staged, Alive
  <2> QED
    BY <1>0, <2>1 DEF Course, Output, Life, Moved, After, Onward, Stages, Ends, Crashes, Teardown
<1>17. CASE Exit(p)
  <2>1. /\ proc[p].at \in Stages /\ proc[p].at # "options" /\ proc[p].step = "exit"
        /\ terminal' = Printed(proc[p].pending \cup {})
        /\ proc'[p] = [proc[p] EXCEPT !.at = "exited", !.pending = {}]
    BY <1>0, <1>17 DEF Exit, Step, Handling, Staged, Alive, Exits
  <2>2. Closes(p, {})
    BY <1>0, <2>1 DEF Closes, Life
  <2> QED
    BY <1>0, <2>1, <2>2 DEF Output, Life, Course, Stages, Ends, Crashes
<1>18. CASE Reenter(p)
  <2>1. /\ proc[p].at \in Stages /\ terminal' = terminal
        /\ proc'[p] = [proc[p] EXCEPT !.at = "undefined"]
    BY <1>0, <1>18 DEF Reenter, Step, Handling, Alive
  <2> QED
    BY <1>0, <2>1 DEF Course, Output, Life, Moved, After, Onward, Stages, Ends, Crashes, Teardown
<1> QED
  BY <1>2, <1>3, <1>4, <1>5, <1>6, <1>7, <1>8, <1>9, <1>10, <1>11, <1>13, <1>14, <1>15, <1>16, <1>17, <1>18 DEF Run

(* Only what is sent on the connection makes the other process fall behind.*)
LEMMA SilentSteps ==
  ASSUME Typed, NEW p \in Procs, NEW q \in Procs, p # q,
         \/ (Run(p) \/ Crash(p)) /\ ~Fork(p) /\ ~Draw(p) /\ ~Clear(p)
         \/ \E s \in Signals : Signal(p, s)
  PROVE  proc'[q] = proc[q]
<1>0. proc \in [Procs -> Life] /\ p # q
  BY DEF Typed
<1>2. \A r : proc' = [proc EXCEPT ![p] = r] => proc'[q] = proc[q]
  BY <1>0
<1>4. CASE Start(p)
  BY <1>0, <1>2, <1>4 DEF Start, Says
<1>5. CASE Register(p)
  BY <1>0, <1>2, <1>5 DEF Register
<1>6. CASE OpenDisplay(p)
  BY <1>0, <1>2, <1>6 DEF OpenDisplay, Faults
<1>7. CASE PlugInit(p)
  BY <1>0, <1>2, <1>7 DEF PlugInit
<1>8. CASE Parse(p)
  BY <1>0, <1>2, <1>8 DEF Parse
<1>9. CASE IoError(p)
  BY <1>0, <1>2, <1>9 DEF IoError, Exits
<1>10. CASE Stay(p)
  BY <1>0, <1>2, <1>10 DEF Stay
<1>11. CASE Leave(p)
  BY <1>0, <1>2, <1>11 DEF Leave, Exits
<1>12. CASE Crash(p)
  BY <1>0, <1>2, <1>12 DEF Crash, Faults
<1>13. CASE Announce(p)
  BY <1>0, <1>2, <1>13 DEF Announce, Says, Faults
<1>14. CASE Unload(p)
  BY <1>0, <1>2, <1>14 DEF Unload, Faults
<1>15. CASE Release(p)
  BY <1>0, <1>2, <1>15 DEF Release
<1>16. CASE Exit(p)
  BY <1>0, <1>2, <1>16 DEF Exit, Exits
<1>17. CASE Reenter(p)
  BY <1>0, <1>2, <1>17 DEF Reenter
<1>18. ASSUME NEW s \in Signals, Signal(p, s)
      PROVE  proc'[q] = proc[q]
  BY <1>2, <1>18 DEF Signal
<1> QED
  BY <1>4, <1>5, <1>6, <1>7, <1>8, <1>9, <1>10, <1>11, <1>12, <1>13, <1>14, <1>15, <1>16, <1>17, <1>18 DEF Run

(* The first process sends nothing behind the back of its child, unless a  *)
(* signal finds it leaving.                                                *)
LEMMA ChildKnows ==
  ASSUME Typed, Born, Staged("first"), (Run("first") /\ ~Fork("first")) \/ Crash("first")
  PROVE  /\ proc["child"].at = "unborn" => proc'["child"].inStep = proc["child"].inStep
         /\ \/ proc'["child"].inStep = proc["child"].inStep
            \/ \E k \in Came("first") : arrived[k].at = "leave"
<1>0. /\ proc["first"] \in Life /\ proc["child"] \in Life
      /\ "first" \in Procs /\ "child" \in Procs
  BY DEF Typed, Procs
<1>1. CASE ~Draw("first") /\ ~Clear("first")
  <2>1. Fork("first") /\ Crash("first") => FALSE
    BY DEF Fork, Crash, Stage, In
  <2> QED
    BY <1>0, <1>1, <2>1, SilentSteps
<1>2. CASE proc["child"].at = "unborn" /\ \E r \in Life : Sends("first", r)
  BY <1>0, <1>2, SendsEffect, Others DEF Born, Life
<1>3. CASE Draw("first")
  <2>1. /\ proc["first"].at \in {"draw", "loop"}
        /\ \E r \in Life : Sends("first", r)
    BY <1>0, <1>3, DrawEffect
  <2>2. proc["child"].at = "unborn"
    BY <2>1 DEF Born, Ends, Crashes
  <2> QED
    BY <1>2, <2>1, <2>2
<1>4. CASE Clear("first") /\ proc["child"].at = "unborn"
  <2>1. Onward("first", "release") \in Life
    BY <1>0 DEF Life, Onward, Teardown
  <2>2. CASE Sends("first", Onward("first", "release"))
    BY <1>2, <1>4, <2>1, <2>2
  <2>3. CASE Faults("first", proc["first"])
    BY <1>0, <2>3 DEF Faults, Typed
  <2> QED
    BY <1>4, <2>2, <2>3 DEF Clear
<1>5. CASE Clear("first") /\ proc["child"].at # "unborn"
  <2>1. proc["first"].at \in Stages /\ proc["first"].step = "clear"
    BY <1>5 DEF Clear, Step, Handling, Alive
  <2>2. proc["first"].at = "leave"
    BY <1>5, <2>1 DEF Born, Stages, Ends, Crashes
  <2> QED
    BY <1>5, <2>1, <2>2 DEF Born
<1> QED
  BY <1>1, <1>3, <1>4, <1>5

(* Every step keeps how the two processes descend, and the child in step.  *)
LEMMA BornStep ==
  ASSUME Typed, Born, ChildInStep, \A q \in Procs : Staged(q) /\ Interrupted(q),
         [Next]_vars
  PROVE  Born' /\ ChildInStep'
<1>0. /\ proc["first"] \in Life /\ "first" \in Procs /\ "child" \in Procs
      /\ proc["child"] \in Life /\ proc \in [Procs -> Life]
  BY DEF Typed, Procs
<1>1. CASE Toggle \/ Foreground \/ Refuse \/ \E m \in {"version", "usage"} : Inform(m)
  <2>1. /\ proc["first"].at = "options" /\ proc'["child"] = proc["child"]
        /\ \/ proc' = proc
           \/ /\ proc'["first"].at \in {"exited", "refused"}
              /\ proc'["first"] = [proc["first"] EXCEPT !.at = proc'["first"].at,
                                                       !.pending = {}]
        /\ UNCHANGED arrived /\ proc["first"].step = "none"
    BY <1>1, <1>0, OptionEffect
  <2>2. Came("first")' = Came("first")
    BY <1>0, <2>1, CameSame
  <2>3. proc'["first"].step = "none" /\ proc'["first"].at \in {"options"} \cup Ends
    BY <1>0, <2>1 DEF Life, Ends
  <2> QED
    BY <1>0, <2>1, <2>2, <2>3 DEF Born, ChildInStep, Ends, Crashes
<1>2. ASSUME NEW p \in Procs, (Run(p) /\ ~Fork(p)) \/ Crash(p)
      PROVE  Born' /\ ChildInStep'
  <2>1. UNCHANGED arrived
    BY <1>2 DEF Run, Crash, Start, Register, OpenDisplay, PlugInit, Parse, Draw,
       IoError, Stay, Leave, Announce, Unload, Clear, Release, Exit, Reenter, Stage, Step
  <2>2. Came("first")' = Came("first")
    BY <1>0, <2>1, CameSame
  <2>3. Course(p)
    BY <1>2, RunEffect
  <2>4. CASE p = "first"
    <3>1. Idle("child")
      BY <1>0, <1>2, <2>4, OtherIsIdle
    <3>2. /\ proc'["child"].at = proc["child"].at
          /\ proc'["child"].step = proc["child"].step
      BY <1>0, <3>1 DEF Idle, Life
    <3>3. \/ proc'["child"].inStep = proc["child"].inStep
          \/ \E k \in Came("first") : arrived[k].at = "leave"
      BY <1>0, <1>2, <2>4, ChildKnows
    <3>4. proc["child"].at = "unborn" => proc'["child"].inStep
      BY <1>0, <1>2, <2>4, ChildKnows DEF Born
    <3>5. /\ proc'["first"].at \in {"leave"} \cup Ends
             \/ (proc["child"].at = "unborn" /\ proc'["first"].at \notin {"unborn", "leave"})
          /\ proc'["first"].at = "leave" /\ proc'["first"].step # "none" =>
               \E k \in Came("first") : arrived[k].at = "leave"
      BY <2>3, <2>4 DEF Born, Course, Stages, Ends, Crashes
    <3>6. Born'
      BY <2>1, <2>2, <3>2, <3>4, <3>5 DEF Born, Ends, Crashes
    <3>7. ChildInStep'
      BY <2>1, <2>2, <3>3 DEF ChildInStep
    <3> QED
      BY <3>6, <3>7
  <2>5. CASE p = "child"
    <3>1. Idle("first")
      BY <1>0, <1>2, <2>5, OtherIsIdle
    <3>2. /\ proc'["first"].at = proc["first"].at
          /\ proc'["first"].step = proc["first"].step
      BY <1>0, <3>1 DEF Idle, Life
    <3>3. Born' /\ ChildInStep'
      BY <2>1, <2>2, <2>3, <2>5, <3>2 DEF Born, ChildInStep, Course, Stages, Ends, Crashes
    <3> QED
      BY <3>3
  <2> QED
    BY <2>4, <2>5 DEF Procs
<1>3. ASSUME NEW p \in Procs, Fork(p)
      PROVE  Born' /\ ChildInStep'
  <2>1. /\ proc["first"].at = "fork" /\ proc["first"].step = "none"
        /\ proc'["first"] = [proc["first"] EXCEPT !.at = "leave"]
        /\ proc'["child"] =
             [proc["first"] EXCEPT !.at = "loop", !.inStep = ~proc["first"].queued]
    BY <1>3, ForkEffect
  <2>2. ~proc["first"].queued
    BY <1>0, <2>1 DEF Staged
  <2>3. /\ proc'["first"].at = "leave" /\ proc'["first"].step = "none"
        /\ proc'["child"].at = "loop" /\ proc'["child"].inStep
    BY <1>0, <2>1, <2>2 DEF Life
  <2> QED
    BY <2>3 DEF Born, ChildInStep
<1>4. ASSUME NEW p \in Procs, NEW s \in Signals, Signal(p, s)
      PROVE  Born' /\ ChildInStep'
  <2> DEFINE n == Len(arrived) + 1
  <2>1. /\ \A k \in DOMAIN arrived : arrived'[k] = arrived[k]
        /\ arrived'[n].at = proc[p].at /\ n \in Came(p)'
        /\ Came("first") \subseteq Came("first")'
    BY <1>0, <1>4, SignalArrives
  <2>2. \A k \in Came("first") : k \in Came("first")' /\ arrived'[k] = arrived[k]
    BY <2>1 DEF Came
  <2>3. proc[p].at \in Stages
    BY <1>4 DEF Signal, Alive
  <2>4. /\ proc'[p].inStep = proc[p].inStep
        /\ proc'[p].at \in {proc[p].at, "killed"}
    <3>1. CASE proc' = [proc EXCEPT ![p] = [proc[p] EXCEPT !.at = "killed"]]
      BY <1>0, <3>1 DEF Life
    <3>2. ASSUME NEW inside \in BOOLEAN,
                 proc' = [proc EXCEPT ![p] =
                   [proc[p] EXCEPT !.step = "announce", !.sig = s,
                      !.blocked = @ \cup {s}, !.busy = @ \/ inside]]
          PROVE  /\ proc'[p].inStep = proc[p].inStep
                 /\ proc'[p].at \in {proc[p].at, "killed"}
      BY <1>0, <3>2 DEF Life
    <3> QED
      BY <1>4, <3>1, <3>2, SignalEffect
  <2>5. CASE p = "first"
    <3>1. proc'["child"] = proc["child"]
      BY <1>0, <1>4, <2>5, SilentSteps DEF Procs
    <3> QED
      BY <1>0, <2>1, <2>2, <2>3, <2>4, <2>5, <3>1
         DEF Born, ChildInStep, Stages, Ends, Crashes
  <2>6. CASE p = "child"
    <3>1. proc'["first"] = proc["first"]
      BY <1>0, <1>4, <2>6, SilentSteps DEF Procs
    <3> QED
      BY <1>0, <2>1, <2>2, <2>3, <2>4, <2>6, <3>1
         DEF Born, ChildInStep, Stages, Ends, Crashes
  <2> QED
    BY <2>5, <2>6 DEF Procs
<1>5. CASE ServerGoes \/ UNCHANGED vars
  BY <1>5 DEF ServerGoes, vars, Born, ChildInStep, Came
<1> QED
  BY <1>1, <1>2, <1>3, <1>4, <1>5, ProcessAssumption DEF Next, Finished

-----------------------------------------------------------------------------
(* How often a message is printed.                                         *)

(* One process moves: what it prints is paid for by what it has spent, or  *)
(* by its end; the other one's account stands.                             *)
Pays(p) ==
  \A m \in Messages :
    /\ tty => \/ terminal'[m] = terminal[m] /\ (Spent(p, m) => Spent(p, m)')
              \/ terminal'[m] = terminal[m] + 1 /\ ~Spent(p, m) /\ Spent(p, m)'
    /\ ~tty => \/ terminal'[m] = terminal[m]
               \/ terminal'[m] = terminal[m] + 1 /\ Over(p)'

Stands(q) ==
  /\ \A m \in Messages : Spent(q, m) => Spent(q, m)'
  /\ Over(q) => Over(q)'
  /\ tty => proc'[q].pending = {}

(* The count of a message stays right when the step that prints it spends  *)
(* it.                                                                     *)
LEMMA PaidFor ==
  ASSUME Typed, Counted, NEW p \in Procs, NEW q \in Procs, p # q, tty' = tty,
         Pays(p), Stands(q), ~Over(p), tty => proc'[p].pending = {}
  PROVE  Counted'
<1>1. ASSUME NEW m \in Messages
      PROVE  terminal'[m] <= IF tty THEN One(Spent("first", m)') + One(Spent("child", m)')
                                    ELSE One(Over("first")') + One(Over("child")')
  <2> DEFINE paid == IF tty THEN One(Spent(p, m)) + One(Spent(q, m))
                            ELSE One(Over(p)) + One(Over(q))
             due  == IF tty THEN One(Spent(p, m)') + One(Spent(q, m)')
                            ELSE One(Over(p)') + One(Over(q)')
  <2>1. terminal[m] \in Nat
    BY DEF Typed
  <2>2. terminal[m] <= paid
    <3>1. CASE p = "first" /\ q = "child"
      BY <3>1 DEF Counted, One
    <3>2. CASE p = "child" /\ q = "first"
      BY <3>2 DEF Counted, One
    <3> QED
      BY <3>1, <3>2 DEF Procs
  <2>3. terminal'[m] <= due
    <3>1. CASE tty
      <4>1. /\ \/ terminal'[m] = terminal[m] /\ (Spent(p, m) => Spent(p, m)')
               \/ terminal'[m] = terminal[m] + 1 /\ ~Spent(p, m) /\ Spent(p, m)'
            /\ Spent(q, m) => Spent(q, m)'
            /\ terminal[m] <= One(Spent(p, m)) + One(Spent(q, m))
        BY <2>2, <3>1 DEF Pays, Stands
      <4> HIDE DEF paid
      <4>2. terminal'[m] <= One(Spent(p, m)') + One(Spent(q, m)')
        BY <2>1, <4>1 DEF One
      <4> QED
        BY <3>1, <4>2
    <3>2. CASE ~tty
      <4>1. \/ terminal'[m] = terminal[m]
            \/ terminal'[m] = terminal[m] + 1 /\ Over(p)'
        BY <3>2 DEF Pays
      <4>2. terminal[m] <= One(Over(p)) + One(Over(q))
        BY <2>2, <3>2
      <4>3. ~Over(p) /\ (Over(q) => Over(q)')
        BY DEF Stands
      <4>4. terminal'[m] <= One(Over(p)') + One(Over(q)')
        BY <2>1, <4>1, <4>2, <4>3 DEF One
      <4> QED
        BY <3>2, <4>4
    <3> QED
      BY <3>1, <3>2
  <2>4. CASE p = "first" /\ q = "child"
    BY <2>3, <2>4
  <2>5. CASE p = "child" /\ q = "first"
    BY <2>3, <2>5 DEF One
  <2> QED
    BY <2>4, <2>5 DEF Procs
<1>2. \A r \in Procs : tty' => proc'[r].pending = {}
  BY DEF Stands, Procs
<1> QED
  BY <1>1, <1>2 DEF Counted

(* The other process, when one moves.                                      *)
LEMMA IdleStands ==
  ASSUME Typed, NEW q \in Procs, Idle(q), tty => proc[q].pending = {}
  PROVE  Stands(q)
<1>1. proc[q] \in Life
  BY DEF Typed
<1>2. /\ proc'[q].at = proc[q].at /\ proc'[q].step = proc[q].step
      /\ proc'[q].sig = proc[q].sig /\ proc'[q].blocked = proc[q].blocked
      /\ proc'[q].pending = proc[q].pending
  BY <1>1 DEF Idle, Life
<1> QED
  BY <1>2 DEF Stands, Spent, Over

(* A message stays spent.                                                  *)
LEMMA SpentGrows ==
  ASSUME NEW p \in Procs, Output(p), NEW m, Spent(p, m)
  PROVE  Spent(p, m)'
BY DEF Output, Spent

(* What is said is said for the first time, and the last.                  *)
LEMMA SpeaksOnce ==
  ASSUME Typed, NEW p \in Procs, Staged(p), Interrupted(p), Output(p),
         NEW m \in Messages, Speaks(p, m)
  PROVE  ~Spent(p, m) /\ Spent(p, m)'
<1>1. CASE m = "version" /\ p = "first" /\ proc[p].at = "options"
  <2>1. proc[p].blocked = {}
    BY <1>1 DEF Staged
  <2> QED
    BY <1>1, <2>1 DEF Spent, Output
<1>2. CASE m = Named(proc[p].sig) /\ proc[p].step = "announce" /\ proc'[p].step = "unload"
  <2>1. proc[p].sig \in proc[p].blocked /\ proc[p].blocked \subseteq Signals
    BY <1>2 DEF Interrupted, Typed, Life
  <2>2. m \notin {"version", "usage"} /\ \A s \in Signals : Named(s) = m => s = proc[p].sig
    BY <1>2, <2>1, NamedFacts, TableFacts
  <2>3. ~Spent(p, m)
    BY <1>2, <2>1, <2>2 DEF Spent
  <2>4. Spent(p, m)'
    <3>1. /\ proc'[p].blocked = proc[p].blocked /\ proc'[p].step # "announce"
          /\ Named(proc[p].sig) = m
      BY <1>2 DEF Output
    <3> QED
      BY <2>1, <3>1 DEF Spent
  <2> QED
    BY <2>3, <2>4
<1> QED
  BY <1>1, <1>2 DEF Speaks

(* The steps of a process keep the count of what is printed.               *)
LEMMA OutputCounted ==
  ASSUME Typed, Counted, NEW p \in Procs, NEW q \in Procs, p # q, tty' = tty,
         Staged(p), Interrupted(p), Output(p), ~Over(p), Idle(q)
  PROVE  Counted'
<1>0. \A m \in Messages : terminal[m] \in Nat
  BY DEF Typed
<1>1. Stands(q)
  BY IdleStands DEF Counted
<1>2. CASE terminal' = terminal /\ proc'[p].pending = proc[p].pending
  <2>1. Pays(p)
    BY <1>2, SpentGrows DEF Pays
  <2> QED
    BY <1>1, <1>2, <2>1, PaidFor DEF Counted
<1>3. ASSUME NEW m \in Messages, Speaks(p, m)
      PROVE  Counted'
  <2>1. ~Spent(p, m) /\ Spent(p, m)'
    BY <1>3, SpeaksOnce
  <2>2. \A k \in Messages : terminal'[k] =
          IF tty /\ verbose /\ k = m THEN terminal[k] + 1 ELSE terminal[k]
    BY <1>0, <1>3 DEF Speaks, Printed, Spoken, Typed
  <2>3. Pays(p)
    BY <2>1, <2>2, SpentGrows DEF Pays
  <2>4. tty => proc'[p].pending = {}
    BY <1>3 DEF Speaks, Kept, Counted
  <2> QED
    BY <1>1, <2>3, <2>4, PaidFor
<1>4. CASE Closes(p, {})
  <2>1. \A k \in Messages : terminal'[k] =
          IF k \in proc[p].pending THEN terminal[k] + 1 ELSE terminal[k]
    BY <1>0, <1>4 DEF Closes, Printed
  <2>2. Over(p)' /\ proc'[p].pending = {}
    BY <1>4 DEF Closes, Over, Ends, Crashes
  <2>3. Pays(p)
    BY <2>1, <2>2, SpentGrows DEF Pays, Counted
  <2> QED
    BY <1>1, <2>2, <2>3, PaidFor
<1> QED
  BY <1>2, <1>3, <1>4 DEF Output

(* An option that ends the program prints before the table is there.       *)
LEMMA OptionPrints ==
  ASSUME Typed, Born, \A q \in Procs : Staged(q),
         Toggle \/ Foreground \/ Refuse \/ \E m \in {"version", "usage"} : Inform(m)
  PROVE  \/ proc' = proc /\ terminal' = terminal
         \/ \E ms \in SUBSET {"version", "usage"} : Closes("first", ms)
<1>0. proc \in [Procs -> Life] /\ proc["first"] \in Life
  BY DEF Typed, Procs
<1>1. CASE Toggle \/ Foreground
  BY <1>1 DEF Toggle, Foreground
<1>2. CASE Refuse
  BY <1>0, <1>2 DEF Refuse, Exits, Closes, Life, Procs
<1>3. ASSUME NEW m \in {"version", "usage"}, Inform(m)
      PROVE  \E ms \in SUBSET {"version", "usage"} : Closes("first", ms)
  <2>1. Spoken(m) \in SUBSET {"version", "usage"}
    BY DEF Spoken
  <2>2. Closes("first", Spoken(m))
    BY <1>0, <1>3 DEF Inform, Exits, Closes, Life, Procs
  <2> QED
    BY <2>1, <2>2
<1> QED
  BY <1>1, <1>2, <1>3

(* Every step keeps the count of what is printed.                          *)
LEMMA CountedStep ==
  ASSUME Typed, Born, Counted, \A q \in Procs : Staged(q) /\ Interrupted(q), [Next]_vars
  PROVE  Counted'
<1>0. /\ proc["first"] \in Life /\ "first" \in Procs /\ "child" \in Procs
      /\ proc["child"] \in Life /\ proc \in [Procs -> Life]
      /\ \A m \in Messages : terminal[m] \in Nat
  BY DEF Typed, Procs
<1>1. CASE Toggle \/ Foreground \/ Refuse \/ \E m \in {"version", "usage"} : Inform(m)
  <2>1. /\ proc["first"].at = "options" /\ proc["first"].step = "none" /\ tty' = tty
        /\ proc'["child"] = proc["child"]
    BY <1>0, <1>1, OptionEffect
  <2>2. CASE proc' = proc /\ terminal' = terminal
    BY <2>1, <2>2 DEF Counted, Spent, Over
  <2>3. ASSUME NEW ms \in SUBSET {"version", "usage"}, Closes("first", ms)
        PROVE  Counted'
    <3>1. proc["first"].blocked = {} /\ ~Over("first")
      BY <1>0, <2>1 DEF Staged, Over, Ends, Crashes
    <3>2. /\ Over("first")' /\ proc'["first"].pending = {}
          /\ \A m \in {"version", "usage"} : ~Spent("first", m) /\ Spent("first", m)'
      BY <2>1, <2>3, <3>1 DEF Closes, Over, Ends, Crashes, Spent
    <3>3. \A m \in Messages : terminal'[m] =
            IF m \in proc["first"].pending \cup ms THEN terminal[m] + 1 ELSE terminal[m]
      BY <1>0, <2>3 DEF Closes, Printed
    <3>4. \A m \in Messages : ~Spent("first", m)
      BY <2>1, <3>1 DEF Spent
    <3>5. Pays("first")
      BY <1>0, <3>2, <3>3, <3>4 DEF Pays, Counted
    <3>6. Idle("child")
      BY <1>0, <2>1 DEF Idle, Life
    <3>7. Stands("child")
      BY <1>0, <3>6, IdleStands DEF Counted
    <3> QED
      BY <1>0, <2>1, <3>1, <3>2, <3>5, <3>7, PaidFor
  <2> QED
    BY <1>1, <2>2, <2>3, OptionPrints
<1>2. ASSUME NEW p \in Procs, (Run(p) /\ ~Fork(p)) \/ Crash(p)
      PROVE  Counted'
  <2>1. PICK q \in Procs : p # q
    BY DEF Procs
  <2>2. Idle(q) /\ Output(p) /\ Course(p)
    BY <1>2, <2>1, OtherIsIdle, RunEffect
  <2>3. ~Over(p)
    BY <2>2 DEF Course, Over, Stages, Ends, Crashes
  <2>4. tty' = tty
    BY <1>2 DEF Run, Crash, Start, Register, OpenDisplay, PlugInit, Parse, Draw,
       IoError, Stay, Leave, Announce, Unload, Clear, Release, Exit, Reenter, Stage, Step,
       settings
  <2> QED
    BY <1>2, <2>1, <2>2, <2>3, <2>4, OutputCounted
<1>3. ASSUME NEW p \in Procs, Fork(p)
      PROVE  Counted'
  <2>1. /\ proc["first"].at = "fork" /\ proc["first"].step = "none"
        /\ proc'["first"] = [proc["first"] EXCEPT !.at = "leave"]
        /\ proc'["child"] =
             [proc["first"] EXCEPT !.at = "loop", !.inStep = ~proc["first"].queued]
        /\ proc["child"].at = "unborn" /\ tty' = tty /\ terminal' = terminal
    BY <1>3, ForkEffect DEF settings
  <2>2. proc["child"].blocked = {} /\ proc["first"].blocked = {}
    BY <1>0, <2>1 DEF Staged, Born
  <2>3. /\ proc'["first"].at = "leave" /\ proc'["child"].at = "loop"
        /\ proc'["first"].pending = proc["first"].pending
        /\ proc'["child"].pending = proc["first"].pending
        /\ proc'["first"].blocked = {} /\ proc'["child"].blocked = {}
    BY <1>0, <2>1, <2>2 DEF Life
  <2>4. Pays("first") /\ Stands("child") /\ ~Over("first")
    BY <1>0, <2>1, <2>2, <2>3 DEF Pays, Stands, Spent, Over, Counted, Ends, Crashes
  <2> QED
    BY <1>0, <2>1, <2>3, <2>4, PaidFor DEF Counted
<1>4. ASSUME NEW p \in Procs, NEW s \in Signals, Signal(p, s)
      PROVE  Counted'
  <2>1. PICK q \in Procs : p # q
    BY DEF Procs
  <2>2. /\ Idle(q) /\ tty' = tty /\ terminal' = terminal
        /\ s \notin proc[p].blocked /\ proc[p].at \in Stages
    BY <1>4, <2>1, OtherIsIdle DEF Signal, settings, Alive
  <2>3. Stands(q)
    BY <2>2, IdleStands DEF Counted
  <2>4. /\ \A m \in Messages : Spent(p, m) => Spent(p, m)'
        /\ proc'[p].pending = proc[p].pending
    <3>1. CASE proc' = [proc EXCEPT ![p] = [proc[p] EXCEPT !.at = "killed"]]
      BY <1>0, <3>1 DEF Life, Spent
    <3>2. ASSUME NEW inside \in BOOLEAN,
                 proc' = [proc EXCEPT ![p] =
                   [proc[p] EXCEPT !.step = "announce", !.sig = s,
                      !.blocked = @ \cup {s}, !.busy = @ \/ inside]]
          PROVE  /\ \A m \in Messages : Spent(p, m) => Spent(p, m)'
                 /\ proc'[p].pending = proc[p].pending
      <4>1. /\ proc'[p].at = proc[p].at /\ proc'[p].sig = s
            /\ proc'[p].blocked = proc[p].blocked \cup {s}
            /\ proc'[p].pending = proc[p].pending
        BY <1>0, <3>2 DEF Life
      <4> QED
        BY <2>2, <4>1 DEF Spent
    <3> QED
      BY <1>4, <3>1, <3>2, SignalEffect
  <2>5. Pays(p) /\ ~Over(p)
    BY <2>2, <2>4 DEF Pays, Over, Stages, Ends, Crashes
  <2> QED
    BY <2>1, <2>2, <2>3, <2>4, <2>5, PaidFor DEF Counted
<1>5. CASE ServerGoes \/ UNCHANGED vars
  <2>1. UNCHANGED << proc, tty, terminal >>
    BY <1>5 DEF ServerGoes, vars, settings
  <2> QED
    BY <2>1 DEF Counted, Spent, Over
<1> QED
  BY <1>1, <1>2, <1>3, <1>4, <1>5, ProcessAssumption DEF Next, Finished

-----------------------------------------------------------------------------
(* What is said to have come has come.                                     *)
LEMMA HeardStays ==
  ASSUME NEW m, Heard(m),
         \A k \in DOMAIN arrived : k \in DOMAIN arrived' /\ arrived'[k] = arrived[k]
  PROVE  Heard(m)'
BY DEF Heard

(* Everything heard stays so; what is new is heard, or was kept.           *)
LEMMA ToldBy ==
  ASSUME Typed, Told, NEW p \in Procs, NEW q \in Procs, p # q,
         \A k \in DOMAIN arrived : k \in DOMAIN arrived' /\ arrived'[k] = arrived[k],
         proc'[q].pending = proc[q].pending, proc'[q].step = proc[q].step,
         proc'[q].sig = proc[q].sig,
         \A m \in proc'[p].pending : m \in proc[p].pending \/ Heard(m),
         \A m \in Messages : terminal'[m] > 0 =>
           terminal[m] > 0 \/ m \in proc[p].pending \/ Heard(m),
         proc'[p].step # "none" => \E k \in Came(p)' : arrived'[k].sig = proc'[p].sig
  PROVE  Told'
<1>1. \A m : Heard(m) => Heard(m)'
  BY HeardStays
<1>2. \A r \in Procs : \A m \in proc'[r].pending : Heard(m)'
  BY <1>1 DEF Told, Procs
<1>3. \A m \in Messages : terminal'[m] > 0 => Heard(m)'
  BY <1>1 DEF Told
<1>4. \A k \in Came(q) : k \in Came(q)' /\ arrived'[k] = arrived[k]
  BY DEF Came
<1>5. \A r \in Procs : proc'[r].step # "none" =>
        \E k \in Came(r)' : arrived'[k].sig = proc'[r].sig
  BY <1>4 DEF Told, Procs
<1> QED
  BY <1>2, <1>3, <1>5 DEF Told

(* No step says that a signal was caught that did not come.                *)
LEMMA ToldStep ==
  ASSUME Typed, Born, Told, \A q \in Procs : Staged(q) /\ Interrupted(q), [Next]_vars
  PROVE  Told'
<1>0. /\ proc["first"] \in Life /\ "first" \in Procs /\ "child" \in Procs
      /\ proc["child"] \in Life /\ proc \in [Procs -> Life]
      /\ \A m \in Messages : terminal[m] \in Nat
  BY DEF Typed, Procs
<1> DEFINE Old(r) == /\ proc'[r].pending = proc[r].pending
                     /\ proc'[r].step = proc[r].step /\ proc'[r].sig = proc[r].sig
<1>1. \A r \in Procs : Idle(r) => Old(r)
  BY DEF Idle, Typed, Life
<1>2. CASE Toggle \/ Foreground \/ Refuse \/ \E m \in {"version", "usage"} : Inform(m)
  <2>1. /\ UNCHANGED arrived /\ proc["first"].step = "none"
        /\ proc'["child"] = proc["child"]
        /\ proc' = proc \/ proc'["first"] =
              [proc["first"] EXCEPT !.at = proc'["first"].at, !.pending = {}]
    BY <1>0, <1>2, OptionEffect
  <2>2. CASE proc' = proc /\ terminal' = terminal
    BY <2>1, <2>2 DEF Told, Heard, Came
  <2>3. ASSUME NEW ms \in SUBSET {"version", "usage"}, Closes("first", ms)
        PROVE  Told'
    <3>0. \A m \in Messages : terminal'[m] =
            IF m \in proc["first"].pending \cup ms THEN terminal[m] + 1 ELSE terminal[m]
      BY <1>0, <2>3 DEF Closes, Printed
    <3>1. \A m \in Messages : terminal'[m] > 0 =>
            terminal[m] > 0 \/ m \in proc["first"].pending \/ Heard(m)
      BY <3>0 DEF Heard
    <3>2. proc'["first"].pending = {} /\ proc'["first"].step = "none"
      BY <1>0, <2>1, <2>3 DEF Closes, Life
    <3> QED
      BY <1>0, <2>1, <3>1, <3>2, ToldBy
  <2> QED
    BY <1>2, <2>2, <2>3, OptionPrints
<1>3. ASSUME NEW p \in Procs, (Run(p) /\ ~Fork(p)) \/ Crash(p)
      PROVE  Told'
  <2>1. PICK q \in Procs : p # q
    BY DEF Procs
  <2>2. Idle(q) /\ Output(p) /\ Course(p)
    BY <1>3, <2>1, OtherIsIdle, RunEffect
  <2>3. UNCHANGED arrived
    BY <1>3 DEF Run, Crash, Start, Register, OpenDisplay, PlugInit, Parse, Draw,
       IoError, Stay, Leave, Announce, Unload, Clear, Release, Exit, Reenter, Stage, Step
  <2>4. proc'[p].step # "none" => \E k \in Came(p)' : arrived'[k].sig = proc'[p].sig
    <3>1. Came(p)' = Came(p)
      BY <2>3, CameSame
    <3> QED
      BY <2>2, <2>3, <3>1 DEF Told, Course, Output
  <2>5. \A m : Speaks(p, m) => Heard(m)
    BY DEF Speaks, Heard, Told, Came
  <2>6. /\ \A m \in proc'[p].pending : m \in proc[p].pending \/ Heard(m)
        /\ \A m \in Messages : terminal'[m] > 0 =>
             terminal[m] > 0 \/ m \in proc[p].pending \/ Heard(m)
    <3>1. CASE terminal' = terminal /\ proc'[p].pending = proc[p].pending
      BY <3>1
    <3>2. ASSUME NEW m \in Messages, Speaks(p, m)
          PROVE  /\ \A k \in proc'[p].pending : k \in proc[p].pending \/ Heard(k)
                 /\ \A k \in Messages : terminal'[k] > 0 =>
                      terminal[k] > 0 \/ k \in proc[p].pending \/ Heard(k)
      <4>1. Heard(m)
        BY <2>5, <3>2
      <4>2. \A k \in Messages : terminal'[k] > 0 => terminal[k] > 0 \/ k = m
        BY <1>0, <3>2 DEF Speaks, Printed, Spoken
      <4>3. \A k \in proc'[p].pending : k \in proc[p].pending \/ k = m
        BY <3>2 DEF Speaks, Kept, Spoken
      <4> QED
        BY <4>1, <4>2, <4>3
    <3>3. CASE Closes(p, {})
      BY <1>0, <3>3 DEF Closes, Printed
    <3> QED
      BY <2>2, <3>1, <3>2, <3>3 DEF Output
  <2> QED
    BY <1>1, <2>1, <2>2, <2>3, <2>4, <2>6, ToldBy
<1>4. ASSUME NEW p \in Procs, Fork(p)
      PROVE  Told'
  <2>1. /\ proc["first"].step = "none" /\ UNCHANGED << arrived, terminal >>
        /\ proc'["first"] = [proc["first"] EXCEPT !.at = "leave"]
        /\ proc'["child"] =
             [proc["first"] EXCEPT !.at = "loop", !.inStep = ~proc["first"].queued]
    BY <1>4, ForkEffect
  <2>2. \A r \in Procs : proc'[r].step = "none" /\ proc'[r].pending = proc["first"].pending
    <3>1. /\ proc'["first"].step = proc["first"].step
          /\ proc'["first"].pending = proc["first"].pending
      BY <1>0, <2>1 DEF Life
    <3>2. /\ proc'["child"].step = proc["first"].step
          /\ proc'["child"].pending = proc["first"].pending
      BY <1>0, <2>1 DEF Life
    <3> QED
      BY <2>1, <3>1, <3>2 DEF Procs
  <2> QED
    BY <1>0, <2>1, <2>2 DEF Told, Heard
<1>5. ASSUME NEW p \in Procs, NEW s \in Signals, Signal(p, s)
      PROVE  Told'
  <2> DEFINE n == Len(arrived) + 1
  <2>1. PICK q \in Procs : p # q
    BY DEF Procs
  <2>2. Idle(q) /\ terminal' = terminal
    BY <1>5, <2>1, OtherIsIdle DEF Signal
  <2>3. /\ \A k \in DOMAIN arrived : k \in DOMAIN arrived' /\ arrived'[k] = arrived[k]
        /\ n \in Came(p)' /\ arrived'[n].sig = s
        /\ \A k \in Came(p) : k \in Came(p)' /\ arrived'[k] = arrived[k]
    BY <1>5, SignalArrives DEF Came
  <2>4. /\ proc'[p].pending = proc[p].pending
        /\ \/ proc'[p].step = proc[p].step /\ proc'[p].sig = proc[p].sig
           \/ proc'[p].sig = s
    <3>1. CASE proc' = [proc EXCEPT ![p] = [proc[p] EXCEPT !.at = "killed"]]
      BY <1>0, <3>1 DEF Life
    <3>2. ASSUME NEW inside \in BOOLEAN,
                 proc' = [proc EXCEPT ![p] =
                   [proc[p] EXCEPT !.step = "announce", !.sig = s,
                      !.blocked = @ \cup {s}, !.busy = @ \/ inside]]
          PROVE  proc'[p].pending = proc[p].pending /\ proc'[p].sig = s
      BY <1>0, <3>2 DEF Life
    <3> QED
      BY <1>5, <3>1, <3>2, SignalEffect
  <2>5. proc'[p].step # "none" => \E k \in Came(p)' : arrived'[k].sig = proc'[p].sig
    BY <2>3, <2>4 DEF Told
  <2> QED
    BY <1>1, <2>1, <2>2, <2>3, <2>4, <2>5, ToldBy
<1>6. CASE ServerGoes \/ UNCHANGED vars
  BY <1>6 DEF ServerGoes, vars, Told, Heard, Came
<1> QED
  BY <1>2, <1>3, <1>4, <1>5, <1>6, ProcessAssumption DEF Next, Finished

-----------------------------------------------------------------------------
(* The invariant and what follows from it.                                 *)
LEMMA InitInvariant == Init => ProcessInv
<1> SUFFICES ASSUME Init
             PROVE  ProcessInv
  OBVIOUS
<1>1. Unborn \in Life /\ [Unborn EXCEPT !.at = "options"] \in Life
  <2>1. 0 \in 0 .. Rows
    BY TableFacts
  <2>2. Unborn \in Life
    BY <2>1 DEF Unborn, Life
  <2> QED
    BY <2>2 DEF Life, Stages
<1>2. /\ proc["first"] = [Unborn EXCEPT !.at = "options"] /\ proc["child"] = Unborn
      /\ proc \in [Procs -> Life]
  BY <1>1 DEF Init, Procs
<1>3. /\ proc["first"].at = "options" /\ proc["child"].at = "unborn"
      /\ \A p \in Procs :
           /\ proc[p].step = "none" /\ proc[p].rows = 0 /\ proc[p].blocked = {}
           /\ proc[p].busy = FALSE /\ proc[p].lists = "null" /\ proc[p].pending = {}
           /\ proc[p].at \in {"options", "unborn"} /\ proc[p].inStep
  BY <1>2 DEF Unborn, Procs
<1>4. /\ arrived = << >> /\ DOMAIN arrived = {} /\ arrived \in Seq(Arrival)
      /\ Len(arrived) = 0
  BY DEF Init
<1>5. \A m \in Messages : terminal[m] = 0
  BY DEF Init
<1>6. Typed
  <2>1. terminal \in [Messages -> Nat] /\ Len(arrived) <= MaxSignals
    BY <1>4, ProcessAssumption DEF Init
  <2> QED
    BY <1>2, <1>4, <2>1 DEF Init, Typed
<1>7. \A p \in Procs : Came(p) = {}
  BY <1>4 DEF Came
<1>8. \A p \in Procs : Staged(p) /\ Interrupted(p) /\ TearsDown(p)
  BY <1>3, <1>7 DEF Staged, Interrupted, TearsDown, Orderly, Ready, Full
<1>9. Born /\ ChildInStep
  BY <1>3 DEF Born, ChildInStep, Procs
<1>10. Counted
  BY <1>3, <1>5 DEF Counted, Spent, Over, One, Ends, Crashes
<1>11. Told
  BY <1>3, <1>5 DEF Told
<1> QED
  BY <1>6, <1>8, <1>9, <1>10, <1>11 DEF ProcessInv

(* The stages, the handler, the descent of the two processes and what they *)
(* print agree in every state of the program.                              *)
THEOREM ProcessInvariant == Spec => []ProcessInv
<1>1. ProcessInv /\ [Next]_vars => ProcessInv'
  BY TypedStep, LocalStep, BornStep, CountedStep, ToldStep DEF ProcessInv
<1> QED
  BY <1>1, InitInvariant, PTL DEF Spec

(* No message is ever printed more than twice, by the process that was     *)
(* started and by its child, and every variable has a value of its type.   *)
THEOREM ProcessTypes == Spec => []TypeOK
<1>1. ProcessInv => TypeOK
  <2> SUFFICES ASSUME ProcessInv
               PROVE  TypeOK
    OBVIOUS
  <2>1. Typed /\ Counted
    BY DEF ProcessInv
  <2>2. \A m \in Messages : terminal[m] \in 0 .. 2
    <3> TAKE m \in Messages
    <3>1. terminal[m] \in Nat
      BY <2>1 DEF Typed
    <3>2. terminal[m] <= 2
      BY <2>1, <3>1 DEF Counted, One
    <3> QED
      BY <3>1, <3>2
  <2>3. terminal \in [Messages -> 0 .. 2]
    BY <2>1, <2>2 DEF Typed
  <2> QED
    BY <2>1, <2>3, TableFacts DEF Typed, TypeOK, Life, Rows
<1> QED
  BY <1>1, ProcessInvariant, PTL

(* A process that gets a single terminating signal behind db_plug_init,    *)
(* outside of the functions its handler calls, not SIGTERM under -v, and   *)
(* with plugins that can be profiled and destroyed, never crashes, and     *)
(* frees the display and the lists before it exits.                        *)
THEOREM SignalSuffices == Spec => []OneSignalSuffices
<1>1. ProcessInv => OneSignalSuffices
  BY DEF ProcessInv, TearsDown, OneSignalSuffices, Stages, Crashes
<1> QED
  BY <1>1, ProcessInvariant, PTL

(* The child knows of every request that was sent on the connection it     *)
(* shares with its parent, unless a signal caught the parent behind fork.  *)
THEOREM ChildStaysInStep == Spec => []ChildInStep
<1>1. ProcessInv => ChildInStep
  BY DEF ProcessInv
<1> QED
  BY <1>1, ProcessInvariant, PTL

(* The terminal shows the version once, or once for each of two processes  *)
(* that ended in order, and never a signal that did not come.              *)
THEOREM TerminalTellsTruth == Spec => []TerminalIsRight
<1>1. ProcessInv => TerminalIsRight
  <2> SUFFICES ASSUME ProcessInv
               PROVE  TerminalIsRight
    OBVIOUS
  <2>1. Typed /\ Counted /\ Told /\ "version" \in Messages
    BY DEF ProcessInv, Messages
  <2>2. ASSUME terminal["version"] > 1
        PROVE  ~tty /\ \A p \in Procs : proc[p].at \in Ends \ Crashes
    <3>1. terminal["version"] \in Nat
      BY <2>1 DEF Typed
    <3>2. CASE tty
      <4>1. ~Spent("child", "version")
        <5>1. proc["child"].blocked \subseteq Signals
          BY <2>1 DEF Typed, Life, Procs
        <5> QED
          BY <5>1, NamedFacts, TableFacts DEF Spent
      <4> QED
        BY <2>1, <2>2, <3>1, <3>2, <4>1 DEF Counted, One
    <3>3. CASE ~tty
      BY <2>1, <2>2, <3>1, <3>3 DEF Counted, One, Over, Procs
    <3> QED
      BY <3>2, <3>3
  <2>3. ASSUME NEW m \in Messages \ {"version", "usage", "garbage"}, terminal[m] > 0
        PROVE  \E k \in DOMAIN arrived :
                 arrived[k].sig = (IF m = "TERM" THEN "QUIT" ELSE m)
    <3>1. PICK k \in DOMAIN arrived : Named(arrived[k].sig) = m
      BY <2>1, <2>3 DEF Told, Heard
    <3>2. arrived[k].sig \in Signals
      BY <2>1, <3>1, ArrivedTyped DEF Arrival
    <3>3. arrived[k].sig = (IF m = "TERM" THEN "QUIT" ELSE m)
      BY <2>3, <3>1, <3>2, NamedFacts, TableFacts
    <3> QED
      BY <3>3
  <2> QED
    BY <2>2, <2>3 DEF TerminalIsRight
<1> QED
  BY <1>1, ProcessInvariant, PTL
=============================================================================
