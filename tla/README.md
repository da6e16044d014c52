# deskbar in TLA+

deskbar draws text and meters on the root window of an X display and lets
plugins, shared objects named in an XML file, supply the data.  This directory
holds TLA+ models of its core, the TLC runs that check them on small
instances, and proofs, checked by TLAPS, of what should hold for every
instance.  Paths like `deskbar/plug.c`
are relative to the root of the repository.

    tlc -workers 2 -config MCPlugHost.cfg MCPlugHost     # any run below
    tlapm PlugHostProofs.tla                             # any *Proofs module

`PROJECT.json` is the index: components, runs, mutants, the map from each
definition to the lines it stands for, findings, hazards, theorems.

## 1. Inventory

One thread, and two processes after the fork, of which the parent exits at
once.  What interrupts it: SIGSEGV out of plugin code, terminating signals
(HUP, INT, TERM, QUIT), and the X server and the clock, which it asks through
`select` and `gettimeofday`.

| component | state | operations | what makes it correct |
|---|---|---|---|
| plugin host, `deskbar/plug.c` | `pluglist` of elements (library handle, pointer to the library's `DbPlug`, id, options, `updated`), `interval` | `db_plug_load`, `safe_call`, `update_plug`, `db_plug_unload(_all)`, `db_plug_get_by_name`, `get_gcd` | a fault costs one element only; nothing is used after it is unmapped; the period fits every interval |
| signals, `deskbar/sig.c` | table of names, `jmp_buf env`, the kernel's mask | `sig_handler`, `db_sig_register`, `db_sig_destroy` | the teardown works wherever the signal comes |
| display, `deskbar/display.c` | `xs`, `objlist` of objects with a pointer into plugin data | `db_display_init/draw/event_loop/destroy`, `db_display_obj_new` | every draw reads memory that is there; draws come in time |
| clock, `libdeskbar/times.c` | `update_last`, `update_time`, `update_delta` | `db_time_current`, `db_time_update`, getters | each plugin runs at about its interval |
| memory table, `libdeskbar/mem.c` | `mt` of pools, one for each plugin, each an array of chunks, counters | `db_mem_private_alloc/realloc/free`, `db_mem_pool_destroy`, `db_mem_profile` | the table tells what is allocated; unloading frees it, once |
| list, `libdeskbar/list.c` | nodes with `next`, `prev`, `data`; `first`, `last`, `elements` | insert, remove, foreach, find, destroy | a sequence; a pass survives the removal of the element it is at |
| configuration, `deskbar/xml.c` | none of its own; `content`, the excerpt of a line with an error | `db_xml_parse_file`, `parse_node`, `error_handler` | every document of the DTD gives a host that works |
| hash table, strings, `libdeskbar/` | attributes of the node being read | push, pop, hash, tolower | an attribute is found under its name |
| log, `libdeskbar/log.c` | `verbose`; stdio's buffer | `db_log_toggle`, `db_log` | what was said is read once |
| plugins, `plugins/*.c` | static variables: open files, last readings, slot, session, counter | `create`, `update`, `destroy` | they show what is there now; once loaded, they never fault on their own |
| main, `deskbar/main.c` | options, the process it has become | `getopt_long`, the order of all of the above, the fork | a signal at any stage ends it tidily; the child alone draws |

How they interact.  `main` registers the handlers, opens the display, makes
the list of plugins, reads the file (`parse_node` calls `db_plug_load` for a
plugin and `db_display_obj_new` for an object, which asks
`db_plug_get_by_name` once for a pointer into the plugin's data), draws, forks
and enters the loop.  A draw is `db_plug_update`, a pass of `db_list_foreach`
that may eject elements from the list it goes over, and then the objects.
Plugin code runs between `setjmp` and the return of `safe_call`; a fault in it
comes back by `longjmp` out of the handler, and `db_plug_unload` takes the
element from the list, destroys the pool and closes the library.  All elements
that name one library share its handle, its `DbPlug` (with `interval`), its
data and its pool.  A terminating signal runs the whole teardown inside the
handler, whatever the thread was in the middle of, and exits.

What is hard: foreign code that faults at any call; unwinding through the
host; sharing by libraries; pointers that outlive what they lead to; a signal
at any statement of `mem.c` and `list.c`, at any stage of `main`; a second
signal inside the first one's teardown; a fork that duplicates a connection and
a buffer; a clock that can be set and a timeout that starts over; static
variables that several elements of one library share.

## 2. Modules

    Divisors ── Gcd          SeqList <─ DList         MemPool     Process
        │  └──── Schedule      (refinement)
        └─────── PlugHost     Config ── Excerpt                   Plugins

`Gcd` and `PlugHost` meet in `Divisors`: `Gcd` shows, pass by pass, that
`get_gcd` returns the greatest common divisor, or does not return when one
argument is 0; `PlugHost` uses that as `GreatestDivisor` and `FoldHangs`.
`Process` is the frame: its stages are what the other modules fill in (`parse`
is Config and PlugHost's reading, `draw` and `loop` are PlugHost and Schedule,
`unload` in the teardown is MemPool and DList), and it tells which of them a
signal can find.  `Config` has what the attributes of a node decide, which
`PlugHost` leaves open: what is loaded under which name and what an object finds.
`PlugHost` leaves open which elements are due in a pass, `Schedule` has the
arithmetic; it leaves open what a callback does, `Plugins` has that for the
plugins in the repository.  `PlugHost` takes the list as a set in the order of
loading and the pools as three states; `DList` and `MemPool` have them statement
by statement.  Each `MC*` module instantiates one of them for TLC; each
`*Proofs` module holds theorems.

**Gcd** models `get_gcd` on ints of `IntMax + 1` values to each side, which wrap
around (`Difference`).  One action, `Iterate`, is one pass of the do-while:
swap, subtraction, test.

**PlugHost** models everything between `db_xml_parse_file` and `exit` as far as
elements, libraries, objects and SIGSEGV go.  `pc` says where control is:

| pc | code | actions |
|---|---|---|
| `parse` | `parse_node`, one node after the other | `Load`, `LoadFails`, `LoadBroken`, `ShowValue`, `ShowData`, `Draw` |
| `create`, `load_update`, `stamp` | the end of `db_plug_load` (171-179) | `Create`, `LoadUpdate`, `Stamp` |
| `walk` | `db_list_foreach (pluglist, update_plug)` | `VisitSkip`, `VisitUpdate` |
| `paint` | `db_list_foreach (objlist, draw_objects)` | `Paint` |
| `idle` | the event loop | `Draw`, `Quit` |
| `destroy`, `release`, `close` | `db_plug_unload_all`, `db_display_destroy` | `Destroy`, `DestroyFaults`, `Release`, `CloseDisplay` |

`killed`, `undefined` and `hung` are its bad ends: a signal nobody catches,
freed memory used or a jump into a frame that has returned, an endless loop.
An element's identity is the number of its node.  `refs` is what `dlopen` and
`dlclose` count; memory of a library can be read while that is not 0.
glibc's `setjmp` does not save the signal mask, so the handler left by
`longjmp` leaves SIGSEGV blocked; the constant `MaskRestored` is TRUE for
libraries where it does (BSD).  `todo`, `faults` and `sites` are history.

**Schedule** models the times: every draw reads the clock, `update_plug`
compares with `updated + 1 - delta`, `db_plug_load` stamps the next full
minute, `select` waits for the period, and each event wakes it.  All times are
taken relative to the latest draw, so that the state space is finite while
time is not bounded.  `Tick`, `Arrive`, `SetBack` and `SetForward` are the
environment; `elapsed` and `pause` are real time, `lost` and `gained` how far
the clock was set back and forward since an element ran.

**MemPool** models `mem.c` for a plugin that may call its functions in any
order with any address it has been given, and `Eject`.  `Signal` comes before
every statement that another observer can tell from the next and enters the
teardown (`pc` is `unload`): `PoolDestroy` for one listed element after the
other, in any order, then `Exit`.  `Signal(TRUE)` is a signal just behind a
`realloc` that has moved its block, before the pointer to it is stored.
`left` counts the elements it has still to unload; `gone` are the plugins whose
pool is freed but may be found by its row, `torn` those whose array is freed
but may be found by its pool.

**DList** models `list.c` pointer by pointer, one assignment a step, and up to
two terminating signals, whose handlers walk (`Notify`) and destroy
(`Destroy`, `Release`, `FreeList`) the list as they find it.  **SeqList** is
what the list promises, a sequence and a pass over it; `Seqs` in `DList` is the
refinement mapping: the sequence is what `next` leads to from `first`, the
element handed over is the data of the pass's `cur`, and what lies ahead is
what `next` leads to from the `next` the pass has saved.  `LinkFirst`,
`LinkBehind`, `UnlinkOnly`, `UnlinkHead`, `UnsetNext` and `UnlinkMiddle` are
where the sequence changes; every other step stutters.

**Config** models `parse_node` for documents of any nodes, since nothing
validates them: what `db_plug_load` and `db_display_obj_new` make of attributes
that are there or missing, names as they are converted and hashed, and the
first draw.  One action is one node.  The hash is the loop of `db_strings_hash`
modulo a small `HashSize`, so that names clash as they may, if rarely, in the
code; the attributes' own names are known not to clash.  The properties read the
document itself, without table, conversion and hash.

A file may be missing or end in an error, and the fixed font may not be
installed.  A library may be `Broken` (its entry point returns NULL, like
`bmp.c`'s) or fault in an update without options (`NeedsOptions`, like `time.c`):
then `db_plug_load` uses a `DbPlug` that is not there and start-up dies
(`LoadDies`), unless another element keeps the library mapped (`LoadEjects`).
Other faults of plugins are PlugHost's and Plugins'.  **Excerpt** is the arithmetic
of `error_handler`, on memory in which a character is a newline, a NUL or neither:
where the excerpt begins, how long it is, and where the caret goes.  The buffer holds
no NUL in front of the parser; the memory before it, where the excerpt of a first
line begins, may hold any.

**Process** models the life of the program from the first option to the last
`exit`, for the process that was started and for its child.  `at` is the stage
of `main`, `step` the step of the teardown a handler is at:

| stage | code | actions |
|---|---|---|
| `options` | the loop over `getopt_long` | `Toggle`, `Foreground`, `Inform`, `Refuse`, `Start` |
| `register`, `open`, `plug_init`, `parse`, `draw` | `main.c:109-118` | actions of these names; `Register` is one row of the table |
| `fork`, `leave` | `main.c:120-136` | `Fork`, `Stay`, `Leave` |
| `loop` | `db_display_event_loop` | `Draw`, `Crash`, `IoError` |
| teardown | `sig_handler` from line 44, `db_sig_destroy` | `Announce`, `Unload`, `Clear`, `Release`, `Exit`, `Reenter` |

Each process has the pointers a handler uses (`xs`, `lists`, `env`), the signals
blocked, what stdio and Xlib have buffered, and whether it knows of every
request on the connection (`inStep`).  A signal may find the process inside a
library function that the handler enters as well; then any later step of the
teardown may be the one that breaks (`Reenter`).  The teardown calls `destroy` of
each plugin outside `safe_call` and, with `-p`, prints their names; after a
fault has been caught `lists` may be `spoiled`, holding something that faults there, and
`Unload` then dies or gets away with it.  `killed` and `undefined` are
the bad ends, as in PlugHost; `io_error` is Xlib's own exit.

**Plugins** models `cpu.c`, `battery.c`, `xmms.c`, `oom.c` and `time.c` by what
their callbacks make of their static variables, `st`, one plugin in each
behaviour, with any number of elements that share them.  Around it counters
advance and wrap, batteries are put in and taken out, XMMS sessions come and go,
before a draw and between any two updates of one (`WorldMoves`); the clock is
read once in a draw.
The host is reduced to the order of calls: create and update while loading,
update of some of the elements in a draw, ejection at a fault, destroy of each
that is left.

## 3. Runs

| run | states | what it shows |
|---|---|---|
| `gcd` | 61 thousand | all pairs of 6-bit ints, negative ones and 0 included: the result is the greatest common divisor, never 0, positive arguments never wrap and always return |
| `host` | 2.1 million | three nodes in any order over cpu (create, destroy, data), oom (create) and bmp (entry point returns NULL), intervals 0, 4 and 6, two faults anywhere, with and without `-p` |
| `host_survives` | 104 thousand | a what-if: three faults in draws would be survived if `longjmp` restored the mask; and reading, draws and teardown come to an end |
| `repeated_fault` | | with glibc's `setjmp` the second kills the program: a finding |
| `schedule` | 749 thousand | a plugin of 1 s and two elements of a library of 2 and 3 s, exposures and other events, lags and a clock set back or forward: stamps, lateness, pace, rate, and that each runs forever |
| `pools` | 96 thousand | two plugins of up to two elements, three addresses, a signal everywhere |
| `config` | 327 thousand | documents of three nodes, missing files and fonts, plugins broken or without options, errors in memory of up to six characters, NULs in front of the buffer included: who is loaded and shown, what is reported, and why start-up dies |
| `config_deskbarrc` | | with the `deskbarrc` of the repository start-up dies at the fourth line, for `time` has a format and no options: a finding |
| `process` | 743 thousand | all options, two signals anywhere in both processes, an X server that goes, stdout a terminal or not |
| `silent_help` | | `-h` and `-V` say nothing unless `-v` came first: a finding |
| `plugins` | 7.5 million | each plugin with up to three elements and four draws, in a world that moves between any two updates: what it shows and when it faults |
| `list` | 2.2 million | lists of up to three nodes, removal during a pass, two signals everywhere, and `DList` implements `SeqList` |

Types.  That every variable keeps its type (`TypeOK`, in Gcd `GcdTypeOK`) is a
theorem about each module but SeqList; that of MemPool, DList and Config is the
first conjunct of `TableMatchesHeap`, `WellLinked` and `NodesSettled` as well, so the
runs check it.

Why the bounds are enough.  *host*: three nodes allow two elements of one
library and a third of another, an object before and behind its plugin, and
the removal of the first, middle and last element of a pass; two faults are
one more than glibc's mask lets the host survive.  The theorems of section 5
lift these bounds.  *schedule*: two ticks to a second are needed to tell
"within a second" from "at once"; the plugin of 1 s is due at every draw, the
others, which share the interval written last, at some; a step of three
ticks, back or forward, is more than one period; the clock is set once.  *pools*: a second element and a second plugin
are what sharing and shifting of rows need; three addresses let an array close a
gap in the middle.  *config*: three nodes let an object stand before, between
and behind two plugins that go by the same name or hash; an array of four
characters (81 in the code) is shorter than the longest of the lines, by more
than one character.  *process*: the second signal can come inside the first
one's handler or to the other process; a third finds what the second one has
found, since two levels of the handler already leave nothing to tear down.
`Sent` are the signals that come: INT, QUIT (whose name is wrong) and TERM (whose name is
outside of the table); HUP is handled like INT and left to the theorems.
*plugins*: two elements share the static variables and a third comes after both;
four draws let a counter of width 4 wrap and `oom.c` reach its MAX of 5, and
fault a second time.  Section 5 lifts these bounds as well.  *list*: three
nodes are the smallest list with an inner node; the handler does the same
whether it is the second or a later one, so two signals suffice.

Deadlock is checked in every run; the modules of programs that end have a last
action that stutters there.

### What the properties say

- `HandlesMatchElements`, `PoolsRescued`: references and pools balance, however
  elements that share a library come and go.
- `EveryElementVisited`: a pass owes a visit to exactly the elements from its
  cursor on, although the callback may eject the one it is at.
- `Contained`: the complete list of ways in which the host goes down.  Each
  disjunct is a thing the code does not handle: a second fault, a fault during
  loading or in `destroy`, an object whose data is gone, a profile that names
  an unmapped plugin.
- `SoundUntilFault`: without a fault and with data for every name none happens.
- `PeriodDividesIntervals`: the loop wakes at every plugin's times.
- `ReturnsGcd`: the greatest common divisor for positive intervals, and for no
  intervals 0, with which `select` would not wait.
- `SpinsOnlyWithoutPlugins`: where the period is 0, so that `select` does not
  wait, every library has an interval of 0, whatever was folded in which order.
- `RightData`: an object gets the data of the first plugin in front of it that goes
  by exactly the name it asks for and survives its own load, for ASCII names whose
  hashes differ.
- `FaultExplained`, `NodesSettled`: why start-up dies, and what is left behind.
- `ExcerptFits`, `CaretUnderCursor`: the report of an error stays in its array
  and points at the character, or at its left neighbour in a line that was cut,
  although the test that should stop it (`cur > base`, with `base` NULL) does not;
  only a NUL in the memory in front of the buffer, on the first line, ends excerpt and
  caret early, at that NUL.
- `OneSignalSuffices`: behind `db_plug_init`, one terminating signal outside library
  calls, not TERM under `-v`, tears everything down and crashes nothing, as long as
  no plugin has spoiled what the teardown profiles and destroys (when it has, PlugHost and
  Plugins tell).
- `ChildInStep`: the fork leaves no request for both processes to send, and the
  parent sends none, unless a signal meets it before its exit.
- `TerminalIsRight`: what is printed twice, and which name a signal is given.
- `EndsWhenAsked`: a signal, or the loss of the X server, ends a process.
- `CpuReading`: what `cpu.c` divides by what, with the three cases in which that
  is not the use since the last draw; a second update in a draw divides by 0.
- `ShowsWhatIsThere`: a percentage is of the capacity of the same battery until
  one is exchanged; a title is of a session that ran at the update.
- `FreedBlockUnused`, `OneIsSafe`: no element of `oom.c` uses the block another
  one's ejection has freed; loaded once, no plugin takes the host down.
- `StampsFollowRuns`, `RunsInTime`, `NeverTwiceAsOften`, `DrawsInTime`: the
  look-ahead of `1 - delta` makes a plugin neither late by a second or more nor
  twice as frequent, on a clock that is set back or forward, and how far events other than exposures put off a draw,
  since each makes `select` start over.
- `TableMatchesHeap`, `StaleOnlyBySharing`: between calls the table is the heap,
  and a plugin's own addresses are in it unless an element sharing its library
  was ejected, which frees what the other one still uses.
- `CorruptOnlyInWindows`, `LeaksOnlyInFlight`: exactly in which windows of
  `mem.c` a signal makes the teardown free something twice or leak.
- `IntactUntilLate`, `OneLeftAtMost`: `list.c` can be interrupted anywhere by
  one signal, and leaves at most the element in flight; only a second signal
  behind the first `free` finds freed memory.

### Fairness

`FairSpec` of PlugHost and Process (for each process), and `GcdFairSpec`, are weak
fairness of the program's own steps:
nothing in it blocks except `select`, which times out, and plugin callbacks,
which are taken to return or fault.  In Process it leaves out options, crashes
and signals; the loop of a process without an X server or a signal goes on.  For Schedule it is weak fairness of the
program's steps and of `Tick`, since time passes.  No fairness is assumed of
arrivals, faults, signals or changes of the clock.  `EveryWalkEnds` is stated
for positive intervals only, because the fold does not return for 0, and run
with the mask restored: without, the same behaviours end sooner, killed.
`RunsForever` holds as long as no more than `MaxOthers` events that draw nothing
come between two draws: a stream of them puts off the timeout for good.

## 4. What the documentation says and the code does not do

The three violation runs quote the page and line (`findings`).  Others, met
while modelling, which properties and guards describe without a run of their own:

- `data="CPU"` finds no plugin `cpu`, for names are hashed as they are spelled and the
  conversion to lower case leaves ASCII alone (`RightData`): the deskbarrc of
  the repository would die of that at its first draw, did it get there.
- `get_gcd` never returns for an interval of 0, which `atoi` makes of any word;
  an element whose library is loaded again runs at the later interval.
- `db_plug_load` goes on with an element that a fault in its `create` or `update`
  has freed (`StartsUp`, `Contained`); a signal between `malloc` and `mp->n++` leaks the
  chunk (`LeaksOnlyInFlight`).
- An object in front of its plugin, which the DTD allows, gets NULL; so does
  `atoi` for a `size` or `height` that the DTD makes optional.
- Objects are painted from an ejected plugin's data in the draw that ejects it;
  the profile reads the name of an unmapped plugin.
- The usage text and the options differ: `-V` is the version and `-v` the
  toggle of messages.  SIGQUIT is called TERM, and SIGTERM is looked up outside
  of the table.  The first line is printed by both processes when stdout is not
  a terminal.
- `battery.c` says "Disabling further checks!" (line 39) and tries again at every
  update; `cpu.c` reads the time in `create` and overwrites it in `update`.
- Each X event starts the period over.
- `db_mem_profile` never resets `size` (mem.c:295), so the bytes of a plugin are a
  running total; `allocs` counts reallocations, which `frees` does not match.

## 5. Proofs

Every theorem is for all values of the constants under the named assumptions
of its module, with faults, nodes and queues bounded by constants of any size.

*DivisorProofs*: lemmas on `Divides` and that a greatest common divisor exists.
It also has `LeastExists` and `GreatestExists`, from which the other modules
argue where induction would do: by the least counterexample.

*PlugHostProofs*: the inductive invariant `IInv` adds to the checked
properties `Registry` (every listed element has a library), `Ledger`
(references count elements; a pool with chunks
belongs to a mapped library), `Control` (where `cur` is with respect to the
list at each `pc`) and `Blame` (SIGSEGV is blocked only behind a fault, and the
element being loaded has left the list only by a fault during the load).  Without
`Blame` the step to `undefined` would not be excused, without `Control` the
cursor of a walk could lead out of the list.  From it: `HostTypes`,
`HandlesBalance`, `MemoryRescued`, `FaultsContained`, `WalksComplete`.
`SoundWithoutFaults` adds that without faults every pointer shown leads to a
mapped library; `PeriodDivides` that an interval of 0 means all plugins so far
have 0; `SpinsForNobody` that the period is 0 only while all intervals are.
The last part is about `get_gcd`, hence
about Gcd: `GcdInv` says that for positive arguments the pair is in range
and has the arguments' common divisors, that the loop is left with a 0, and for
any arguments that the two are never both 0, so that the one returned is not; `GcdTypes`, `DivisorsKept`, `GcdCorrect` and
`GcdNeverWraps` follow.  That the loop ends is TLC's.

*ScheduleProofs*: `ScheduleInv` joins the stamps, how far each turn of the loop
is behind the latest draw (`Pace`), and the fact that the first draw runs every
plugin, since a clock past 1970 is larger than any stamp plus the look-ahead.
The clock may be set at any time: what it was set back or forward enters each bound.
`ScheduleTypes` and the properties follow; `RateIsBounded` is an action property,
from the same invariant.

*PluginsProofs*: `PluginsInv` joins to the types how far a pass has come
(`Passes`: no more updates than visits), what must hold before a fault (`Sound`:
`oom`'s counter is the number of elements while loading, and at MAX behind an
ejection; a closed file means that an element has been destroyed), and what the
static variables remember: `Meter` (`cpu_last` and `cpu_sum` are the latest
draw's, once there has been one), `Gauge` (`slot` and `full` are those of the
first slot there is) and `Title`.  `CpuReading` alone is not inductive, since
it says nothing of `cpu_sum`; it holds for every width because sums that have
wrapped differ by a multiple of it (`WrappedDifference`).  From it: `PluginTypes`,
`FreedBlockNeverUsed`, `OneElementIsSafe`, `CpuReads`, `ShowsRight`.

*ProcessProofs*: `ProcessInv` joins to the types what each stage has set up
(`Staged`), how the two processes descend (`Born`), that a process in its handler
blocks the signal it handles (`Interrupted`), how far a single signal has come
(`TearsDown`), and what may have been printed (`Counted`, `Told`).
`OneSignalSuffices` is not inductive: it says what has become of a process at the
end, and a step of the teardown that found no list or no display would break it,
so `TearsDown` tells for each step what the steps before have left.
`TerminalIsRight` counts what is printed; `Counted` bounds it by what a process has
said already, or, when stdout is not a terminal, by the processes that have ended.
From it: `ProcessTypes`, `SignalSuffices`, `ChildStaysInStep`, `TerminalTellsTruth`.

*MemPoolProofs*: `TableMatchesHeap` speaks of the table between calls and is not
inductive, for inside a call an array has a gap, or one chunk twice while the gap
is closed.  `MemPoolInv` says for each `pc` which places of the arrays count, the
rows (`Row`) and the slots (`Slot`), and then: where a call is (`Placed`), that a
plugin has one row at most, and one if it has chunks (`OneRow`, `Pooled`), that the
slots hold what is allocated, each block once (`OneSlot`, `Backed`, `Listed`), what a
plugin remembers (`Remembered`), and what the handler still finds (`Unloading`) and
will never find (`Accounted`).  Lengths are bounded because slots hold different
members of a finite set.  From it: `MemPoolTypes`, `TableTellsTruth`,
`StaleBySharing`, `CorruptInWindows`, `LeaksInFlight`.

*DListProofs*: that the nodes are well linked is the existence of a sequence which
`next` follows.  The invariant carries that sequence as a witness.  Up to the
first signal it is linked forwards (`Chained`), all that is allocated but for
the node in flight (`Stored`, `Placed`, `Tallied`), linked backwards (`Backward`),
ended by `last` (`EndRight`), and a pass is at a place of it (`Passing`), each with
the exceptions of the pc at hand; in a handler what is walked and what
is freed are a sequence each (`Walked`, `Freeing`); behind a late second signal
only `Doomed` is left.  The walk in `WellLinked` and in the refinement mapping is the recursive
function `Path`; `PathIs` shows that it yields the sequence, by the least place at
which it would not.  From it: `DListTypes`, `LinksAgree`, `IntactThroughout`,
`LeavesOne` and `ImplementsSeqList`, the refinement: every assignment that
unlinks a node is `TakeOut`, every one that links a node is `Add`, the pass's are
`Begin`, `HandOver` and `Finish`, a signal is `End`, and any other step changes
nothing of what `SeqList` sees.

*ConfigProofs*: `ConfigInv` ties both lists to the document: an element is made of a
plugin node behind the reader, with the converted name as its library and the hash
of its id (`Made`), an object of a text or meter node, with what it needs to be drawn
(`Drawn`), and every node behind the reader is in a list, left behind or neither as it
should be (`Settled`).  `RightData` alone is not inductive: that the search by hash
finds the right element needs that the elements are exactly the nodes that may be asked for
(`CandidatesListed`), in their order.  Table, conversion and hash enter by
`PopIsWritten`, `PlainStays` and `HashType`; the last shows, again by the least place
at which it would fail, that the recursive function of the hash has a value and
that the value is in range.  The assumption says what libxml2's reader reports: nodes
with no attribute twice.  The report is arithmetic (`StepsToIs`, `LengthIs`, `CaretAt`),
with any NULs in front of the buffer, for any line that has a character other than a
newline in front, and any size of the array.  From it: `ConfigTypes`, `NodesAreSettled`, `GetsRightData`,
`FaultsAreExplained`, `ExcerptStaysInside`, `CaretPoints`.

With that every invariant, every action property and the refinement the passing runs check
is a theorem, but for `SurvivesRepeatedFaults`: where it holds it needs
`MaskRestored`, which glibc's `setjmp` does not do, so it is only model-checked.  Only
model-checked, too, is liveness (`PositiveReturns`, `EveryWalkEnds`,
`RunsForever`, `EndsWhenAsked`), since fairness and ENABLED are out of the prover's
reach.

## 6. Abstractions, and what is not modelled

- `dlopen`, `malloc` and `free` succeed; memory that runs out is left out,
  although `mem.c` and `list.c` log it and go on.
- `malloc` and `free` are atomic: a signal inside them is the C library's.
- In Plugins the world stands still while the configuration is read, and within one
  update: a session of XMMS does not end between the test for it and its use.
- A fault leaves the plugin's pool in a state between two calls of `mem.c`.
- In PlugHost a terminating signal comes while the loop waits, in Process before
  every stage and step, in MemPool and DList before every statement of theirs.
  Process takes `db_xml_parse_file` and a draw as one stage each.
- `db_mem_table_destroy`, the last call of the teardown, only writes a line to the
  log; the table itself is never freed.
- `db_list_find` only reads; `PlugHost!Lookup` has what it finds.
- Negative intervals, with which `select` fails and the loop spins: `Gcd` has
  them, `PlugHost` and `Schedule` have none.
- The last four lines of `db_strings_hash`, which map equal hashes to equal
  ones; libxml; `db_htable`'s links, which are those of the list.
- Sizes and the printed counters of `mem.c`; geometry and colours, which are only
  handed to Xlib; the wording of logs and of what plugins show; `time.c`'s
  strftime; which of AC and BAT `battery.c` says.
- `lpng.c`, which no makefile lists; `htable.c`'s `remove_element` and two of the
  functions of `strings.c`, which nothing calls; libltdl and build files.

## 7. Plan

1. Errors of `select` and negative periods in Schedule.
2. Reading as a refinement: Config against the nodes of PlugHost.
3. The sizes and running totals of `db_mem_profile`.
