------------------------------ MODULE Process ------------------------------
(***************************************************************************)
(* The life of the program: main of deskbar/main.c with its options, the   *)
(* stages of start-up and the fork, the terminating half of                *)
(* deskbar/sig.c, db_display_init and db_display_destroy of                *)
(* deskbar/display.c as far as they set and use what a handler finds, and  *)
(* libdeskbar/log.c.                                                       *)
(*                                                                         *)
(* Two processes may exist, the one that was started and its child, which  *)
(* share the connection to the X server and inherit stdio's buffer.  A     *)
(* signal may come before every stage and before every step of a teardown; *)
(* modules DList, MemPool and PlugHost go into the stages.  The options    *)
(* -c and -p only set what Config and PlugHost take as given.              *)
(***************************************************************************)
EXTENDS Integers, Sequences

CONSTANTS
  MaxSignals,  \* bound: how many terminating signals come from outside
  Sent         \* bound: which of them

Procs == {"first", "child"}

(* The rows of signals[], of which the last only ends the table.           *)
Table == << "SEGV", "HUP", "INT", "TERM", "QUIT", "Unknown" >>
MutRows == Len(Table)
Rows == Len(Table) - 1

(* Signals that end the program, and their numbers.                        *)
Number == [HUP |-> 1, INT |-> 2, QUIT |-> 3, TERM |-> 15]
Signals == DOMAIN Number

ASSUME ProcessAssumption == MaxSignals \in Nat /\ Sent \subseteq Signals

(* What db_log_mesg may print, if -v was given: the version, the usage,    *)
(* and the name of a signal, "garbage" from outside the table.             *)
Messages == {"version", "usage", "garbage"} \cup {Table[i] : i \in DOMAIN Table}

Stages   == {"options", "register", "open", "plug_init", "parse", "draw",
             "fork", "leave", "loop"}
Teardown == {"announce", "unload", "clear", "release", "exit"}
Crashes  == {"killed", "undefined"}
Ends     == {"exited", "refused", "io_error"} \cup Crashes

VARIABLES
  proc,      \* the processes, see TypeOK
  verbose,   \* of log.c
  fg,        \* stay in the foreground?
  tty,       \* is stdout line buffered?
  server,    \* the X server: "up" or "gone"
  terminal,  \* message -> how often it has been printed
  arrived    \* history: the signals that came, and what they found

settings == << verbose, fg, tty >>
vars == << proc, settings, server, terminal, arrived >>

Unborn == [ at |-> "unborn", step |-> "none", sig |-> "none", rows |-> 0,
            blocked |-> {}, busy |-> FALSE, xs |-> "null", lists |-> "null",
            env |-> "unset", pending |-> {}, queued |-> FALSE, inStep |-> TRUE ]

Alive(p) == proc[p].at \in Stages
In(p, stage) == proc[p].at = stage /\ proc[p].step = "none"
Handling(p, step) == Alive(p) /\ proc[p].step = step
Other(p) == CHOOSE q \in Procs : q # p

-----------------------------------------------------------------------------
(* Output: db_log says nothing unless verbose; stdio keeps what it says in *)
(* a buffer unless stdout is a terminal.                                   *)
Spoken(m) == IF verbose THEN {m} ELSE {}
Printed(ms) == [m \in Messages |-> terminal[m] + (IF m \in ms THEN 1 ELSE 0)]

MutKept(m) == Spoken(m)
Kept(m) == IF tty THEN {} ELSE Spoken(m)

(* Process p says m and becomes r.                                         *)
Says(p, m, r) ==
  /\ proc' = [proc EXCEPT ![p] = [r EXCEPT !.pending = @ \cup Kept(m)]]
  /\ terminal' = IF tty THEN Printed(Spoken(m)) ELSE terminal

(* exit, or return from main, flushes the buffer.                          *)
Exits(p, end, last) ==
  /\ terminal' = Printed(proc[p].pending \cup last)
  /\ proc' = [proc EXCEPT ![p].at = end, ![p].pending = {}]

(* Process p flushes its requests, of which only p knows, and becomes r.   *)
MutFlushed(r) == r
Flushed(r) == [r EXCEPT !.queued = FALSE]

Sends(p, r) ==
  proc' = [proc EXCEPT ![p] = Flushed(r),
                       ![Other(p)].inStep = @ /\ proc[Other(p)].at = "unborn"]

(* SIGSEGV outside of safe_call: the handler jumps to env.  A zeroed one   *)
(* faults again, with SIGSEGV blocked by then; a stale one leads into a    *)
(* frame that has returned.                                                *)
Faults(p, r) ==
  /\ \E end \in IF r.env = "unset" THEN {"killed"} ELSE Crashes :
       proc' = [proc EXCEPT ![p] = [r EXCEPT !.at = end]]
  /\ UNCHANGED terminal

-----------------------------------------------------------------------------
Init ==
  /\ proc = [first |-> [Unborn EXCEPT !.at = "options"], child |-> Unborn]
  /\ verbose = FALSE /\ fg = FALSE /\ tty \in BOOLEAN
  /\ server \in {"up", "gone"}
  /\ terminal = [m \in Messages |-> 0]
  /\ arrived = << >>

(* getopt_long returns an option; any may come any number of times.        *)
Option ==
  /\ In("first", "options")
  /\ UNCHANGED << tty, server, arrived >>

Toggle ==
  /\ Option
  /\ verbose' = ~verbose
  /\ UNCHANGED << fg, proc, terminal >>

Foreground ==
  /\ Option
  /\ fg' = TRUE
  /\ UNCHANGED << verbose, proc, terminal >>

(* -V and -h                                                               *)
Inform(m) ==
  /\ Option
  /\ Exits("first", "exited", Spoken(m))
  /\ UNCHANGED << verbose, fg >>

(* An option getopt_long does not know                                     *)
Refuse ==
  /\ Option
  /\ Exits("first", "refused", {})
  /\ UNCHANGED << verbose, fg >>

(* What main calls when.                                                   *)
MutAfter == [ options |-> "register", register |-> "plug_init",
              plug_init |-> "open", open |-> "parse", parse |-> "draw",
              draw |-> "fork", loop |-> "loop" ]
After == [ options |-> "register", register |-> "open", open |-> "plug_init",
           plug_init |-> "parse", parse |-> "draw", draw |-> "fork",
           loop |-> "loop" ]
Moved(p) == [proc[p] EXCEPT !.at = After[@]]

Stage(p, stage) == In(p, stage) /\ UNCHANGED << settings, server, arrived >>

Start(p) == Stage(p, "options") /\ Says(p, "version", Moved(p))

(* db_sig_register, one row of the table after the other                   *)
Register(p) ==
  /\ Stage(p, "register")
  /\ proc' = [proc EXCEPT ![p] = IF proc[p].rows < Rows
                                 THEN [proc[p] EXCEPT !.rows = @ + 1] ELSE Moved(p)]
  /\ UNCHANGED terminal

(* db_display_init does not test what XOpenDisplay returns.                *)
OpenDisplay(p) ==
  /\ Stage(p, "open")
  /\ IF server = "up"
     THEN /\ proc' = [proc EXCEPT ![p] = [Moved(p) EXCEPT !.xs = "open"]]
          /\ UNCHANGED terminal
     ELSE Faults(p, [proc[p] EXCEPT !.xs = "made"])

PlugInit(p) ==
  /\ Stage(p, "plug_init")
  /\ proc' = [proc EXCEPT ![p] = [Moved(p) EXCEPT !.lists = "made"]]
  /\ UNCHANGED terminal

(* What reading and drawing make of the lists: with plugins (of which env  *)
(* tells) they may hold what faults where it is profiled or destroyed, the *)
(* name of a closed library or a destroy that faults: PlugHost and Plugins *)
(* tell when.                                                              *)
Left(e) == IF e = "stale" THEN {"made", "spoiled"} ELSE {"made"}

(* db_xml_parse_file: with a plugin, safe_call has set and left env.       *)
Parse(p) ==
  /\ Stage(p, "parse")
  /\ \E e \in {"unset", "stale"} : \E l \in Left(e) :
       proc' = [proc EXCEPT ![p] =
                  [Moved(p) EXCEPT !.env = e, !.lists = l, !.queued = TRUE]]
  /\ UNCHANGED terminal

(* db_display_draw, the first time and in the event loop                   *)
Draw(p) ==
  /\ Stage(p, "draw") \/ Stage(p, "loop")
  /\ server = "up"
  /\ \E l \in Left(proc[p].env) : Sends(p, [Moved(p) EXCEPT !.lists = l])
  /\ UNCHANGED terminal

(* Reading and drawing may fault: Config and PlugHost tell when.           *)
Crash(p) ==
  /\ \E stage \in {"parse", "draw", "loop"} : Stage(p, stage)
  /\ \E e \in {proc[p].env, "stale"} : Faults(p, [proc[p] EXCEPT !.env = e])

(* Xlib finds the connection closed: it ends the program by exit (1).      *)
IoError(p) ==
  /\ server = "gone"
  /\ \/ \E stage \in {"parse", "draw", "loop"} : In(p, stage)
     \/ Handling(p, "clear")
  /\ Exits(p, "io_error", {})
  /\ UNCHANGED << settings, server, arrived >>

Fork(p) ==
  /\ Stage(p, "fork")
  /\ ~fg
  /\ proc' = [first |-> [proc[p] EXCEPT !.at = "leave"],
              child |-> [proc[p] EXCEPT !.at = "loop", !.inStep = ~proc[p].queued]]
  /\ UNCHANGED terminal

(* -f, or fork fails                                                       *)
Stay(p) ==
  /\ Stage(p, "fork")
  /\ proc' = [proc EXCEPT ![p].at = "loop"]
  /\ UNCHANGED terminal

Leave(p) == Stage(p, "leave") /\ Exits(p, "exited", {})

-----------------------------------------------------------------------------
(* A terminating signal: sig_handler, which blocks its own signal only.    *)

(* The handler finds p inside of a function it calls itself (malloc,       *)
(* stdio, Xlib), or not.                                                   *)
Signal(p, s) ==
  /\ Alive(p) /\ s \notin proc[p].blocked
  /\ Len(arrived) < MaxSignals
  /\ \E inside \in BOOLEAN :
       /\ arrived' = Append(arrived, [to |-> p, sig |-> s, inside |-> inside,
                                      at |-> proc[p].at, lists |-> proc[p].lists])
       /\ proc' = [proc EXCEPT ![p] =
            IF \E i \in 1 .. proc[p].rows : Table[i] = s
            THEN [proc[p] EXCEPT !.step = "announce", !.sig = s,
                                 !.blocked = @ \cup {s}, !.busy = @ \/ inside]
            ELSE [proc[p] EXCEPT !.at = "killed"]]
  /\ UNCHANGED << settings, server, terminal >>

Step(p, step) == Handling(p, step) /\ UNCHANGED << settings, server, arrived >>
Onward(p, step) == [proc[p] EXCEPT !.step = step]

(* signals[sig].name                                                       *)
Named(s) == IF Number[s] < Len(Table) THEN Table[Number[s] + 1] ELSE "garbage"

Announce(p) ==
  /\ Step(p, "announce")
  /\ \/ Says(p, Named(proc[p].sig), Onward(p, "unload"))
     \/ verbose /\ Named(proc[p].sig) = "garbage" /\ Faults(p, proc[p])

(* db_mem_profile and db_plug_unload_all, which call destroy outside of    *)
(* safe_call                                                               *)
Unload(p) ==
  /\ Step(p, "unload")
  /\ \/ /\ proc[p].lists \in {"made", "spoiled"}
        /\ proc' = [proc EXCEPT ![p] = [Onward(p, "clear") EXCEPT !.lists = "freed"]]
        /\ UNCHANGED terminal
     \/ proc[p].lists \in {"null", "spoiled"} /\ Faults(p, proc[p])
     \/ /\ proc[p].lists = "freed"
        /\ proc' = [proc EXCEPT ![p].at = "undefined"]
        /\ UNCHANGED terminal

(* db_display_destroy: XClearWindow and XFlush, then what is freed.        *)
Clear(p) ==
  /\ Step(p, "clear")
  /\ \/ /\ proc[p].xs = "open" /\ server = "up"
        /\ Sends(p, Onward(p, "release")) /\ UNCHANGED terminal
     \/ proc[p].xs # "open" /\ Faults(p, proc[p])

Release(p) ==
  /\ Step(p, "release")
  /\ proc' = [proc EXCEPT ![p] = [Onward(p, "exit") EXCEPT !.xs = "freed"]]
  /\ UNCHANGED terminal

MutExit(p) == Step(p, "exit") /\ proc' = [proc EXCEPT ![p].step = "none"]
                              /\ UNCHANGED terminal
Exit(p) == Step(p, "exit") /\ Exits(p, "exited", {})

(* A function that cannot be entered twice has been.                       *)
Reenter(p) ==
  /\ \E step \in Teardown : Step(p, step)
  /\ proc[p].busy
  /\ proc' = [proc EXCEPT ![p].at = "undefined"]
  /\ UNCHANGED terminal

-----------------------------------------------------------------------------
ServerGoes ==
  /\ server = "up"
  /\ server' = "gone"
  /\ UNCHANGED << proc, settings, terminal, arrived >>

Finished == (\A p \in Procs : ~Alive(p)) /\ UNCHANGED vars

Run(p) ==
  \/ Start(p) \/ Register(p) \/ OpenDisplay(p) \/ PlugInit(p) \/ Parse(p)
  \/ Draw(p) \/ IoError(p) \/ Fork(p) \/ Stay(p) \/ Leave(p)
  \/ Announce(p) \/ Unload(p) \/ Clear(p) \/ Release(p) \/ Exit(p)
  \/ Reenter(p)

Next ==
  \/ Toggle \/ Foreground \/ Refuse
  \/ \E m \in {"version", "usage"} : Inform(m)
  \/ \E p \in Procs : Run(p) \/ Crash(p)
  \/ \E p \in Procs, s \in Sent : Signal(p, s)
  \/ ServerGoes
  \/ Finished

Spec == Init /\ [][Next]_vars

(* The kernel lets every process run.                                      *)
FairSpec == Spec /\ \A p \in Procs : WF_vars(Run(p))

-----------------------------------------------------------------------------
(* Every variable holds a value of its type.                               *)
TypeOK ==
  /\ proc \in [Procs ->
       [ at : Stages \cup Ends \cup {"unborn"},
         step : Teardown \cup {"none"},    \* of the teardown, in the handler
         sig : Signals \cup {"none"},      \* what it handles
         rows : 0 .. Len(Table) - 1,       \* registered rows of the table
         blocked : SUBSET Signals,
         busy : BOOLEAN,                   \* has it interrupted a library?
         xs : {"null", "made", "open", "freed"},
         lists : {"null", "made", "spoiled", "freed"}, \* pluglist, objlist
         env : {"unset", "stale"},
         pending : SUBSET Messages,        \* in stdio's buffer
         queued : BOOLEAN,                 \* requests in Xlib's buffer
         inStep : BOOLEAN ]]               \* knows of every request sent
  /\ verbose \in BOOLEAN /\ fg \in BOOLEAN /\ tty \in BOOLEAN
  /\ server \in {"up", "gone"}
  /\ terminal \in [Messages -> 0 .. 2]
  /\ Len(arrived) <= MaxSignals

Came(p) == {i \in DOMAIN arrived : arrived[i].to = p}

(***************************************************************************)
(* One signal is enough: behind db_plug_init, a process that gets a single *)
(* terminating signal outside of the functions the handler calls, and not  *)
(* SIGTERM with -v, tears down without a crash if its plugins can be       *)
(* profiled and destroyed; if it exits, display and lists have been freed. *)
(* The order of the stages and of the teardown makes this so although      *)
(* neither tests a pointer.                                                *)
(***************************************************************************)
Orderly(p) ==
  \E i \in Came(p) :
    /\ Came(p) = {i}
    /\ arrived[i].lists = "made" /\ ~arrived[i].inside
    /\ ~(arrived[i].sig = "TERM" /\ verbose)

OneSignalSuffices ==
  \A p \in Procs :
    Orderly(p) =>
      /\ proc[p].at \notin Crashes
      /\ proc[p].at = "exited" => proc[p].xs = "freed" /\ proc[p].lists = "freed"

(***************************************************************************)
(* The child knows of every request on the connection it shares: nothing   *)
(* was left in Xlib's buffer for both to send, and the parent sends none,  *)
(* unless it is caught by a signal between fork and exit.                  *)
(***************************************************************************)
ChildInStep ==
  proc["child"].inStep
    \/ \E i \in Came("first") : arrived[i].at = "leave"

(***************************************************************************)
(* What the terminal shows is right: what is said before the fork is there *)
(* once, unless the fork has copied it in stdio's buffer, and both         *)
(* processes lived to flush theirs; and a signal that is said to have been *)
(* caught has come, except that QUIT is called TERM, since the table is    *)
(* indexed with the signal's number.                                       *)
(***************************************************************************)
TerminalIsRight ==
  /\ terminal["version"] > 1 =>
       ~tty /\ \A p \in Procs : proc[p].at \in Ends \ Crashes
  /\ \A m \in Messages \ {"version", "usage", "garbage"} :
       terminal[m] > 0 =>
         \E i \in DOMAIN arrived :
           arrived[i].sig = (IF m = "TERM" THEN "QUIT" ELSE m)

(***************************************************************************)
(* A process ends once a terminating signal has come or the X server has   *)
(* gone, at whatever stage it is, and however it ends.                     *)
(***************************************************************************)
Comes(p) == Came(p) # {} \/ server = "gone"

EndsWhenAsked == \A p \in Procs : (Alive(p) /\ Comes(p)) ~> ~Alive(p)

-----------------------------------------------------------------------------
(* What the usage text promises and the code does not keep.                *)

(* -h and -V "display ... and exit": who is informed has read something.   *)
Informed ==
  proc["first"].at = "exited" /\ proc["first"].rows = 0 =>
    \E m \in {"version", "usage"} : terminal[m] > 0
=============================================================================
