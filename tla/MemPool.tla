------------------------------ MODULE MemPool -------------------------------
(***************************************************************************)
(* The memory table of libdeskbar/mem.c: what a plugin allocates with      *)
(* db_mem_alloc, db_mem_realloc and db_mem_free is a chunk in its pool, so *)
(* that db_mem_pool_destroy can free what an ejected plugin leaves behind  *)
(* and db_sig_destroy what is left at the end of the program.              *)
(*                                                                         *)
(* A call is modelled statement by statement as far as another observer    *)
(* can tell: a terminating signal runs db_sig_destroy (deskbar/sig.c) in   *)
(* the middle of it, on the table as it is at that moment.  The windows of *)
(* realloc are steps too, since the block a pointer still leads to may be  *)
(* gone before the result is stored.  malloc and free themselves are taken *)
(* to be atomic, and memory never runs out.                                *)
(*                                                                         *)
(* Arrays are sequences of the length the counter n says; sizes and the    *)
(* counters that are only printed are left out.                            *)
(***************************************************************************)
EXTENDS Naturals, FiniteSets, Sequences, SequencesExt

CONSTANTS
  Ids,        \* DbPlug structs, one of each library
  Addrs,      \* addresses malloc may return
  None,
  MaxUsers    \* bound: elements of one library

ASSUME MemPoolAssumption ==
  /\ None \notin Ids \cup Addrs
  /\ IsFiniteSet(Ids) /\ IsFiniteSet(Addrs)
  /\ MaxUsers \in Nat

VARIABLES
  pc,       \* "idle" outside the calls, see Windows, or how it ended
  who, i,   \* the plugin and the row or chunk a call is at
  new,      \* what malloc or realloc has returned
  mt,       \* the rows of the table: whose pool is in each
  mc,       \* plugin -> the chunks of its pool
  live,     \* addresses malloc has handed out and free has not got back
  users,    \* plugin -> its elements in pluglist
  held,     \* plugin -> the addresses its code remembers
  spoiled,  \* history: plugins one of whose elements was ejected while
            \* another one stayed
  hit,      \* history: where control was when the signal came
  left,     \* plugin -> its elements the handler has still to unload
  gone,     \* plugins whose pool is freed and may still be in a row
  torn      \* plugins whose mp->mc leads to freed memory

regs == << who, i, new >>
walk == << left, gone, torn >>
vars == << pc, regs, mt, mc, live, users, held, spoiled, hit, walk >>

(* Where a signal can come while a call is under way.                      *)
Windows == {"row", "chunks", "chunk", "moved", "shift", "shrink",
            "rescue", "close", "rows", "last"}
Ends    == {"exited", "corrupt", "undefined", "aborted"}

-----------------------------------------------------------------------------
Init ==
  /\ pc = "idle" /\ who = None /\ i = 0 /\ new = None
  /\ mt = << >>
  /\ mc = [id \in Ids |-> << >>]
  /\ live = {}
  /\ users \in [Ids -> 0 .. MaxUsers]
  /\ held = [id \in Ids |-> {}]
  /\ spoiled = {} /\ hit = "idle"
  /\ left = [id \in Ids |-> 0] /\ gone = {} /\ torn = {}

(* get_pool_by_id finds a pool.                                            *)
HasPool(id) == id \in ToSet(mt)

(* The first place of x in the sequence s.                                 *)
Place(s, x) == CHOOSE k \in DOMAIN s : s[k] = x /\ \A j \in 1 .. k - 1 : s[j] # x

(* One step of the loops that close a gap: s[k - 1] = s[k].                *)
MutCloseUp(s, k) == s
CloseUp(s, k) == [s EXCEPT ![k - 1] = s[k]]

(* n--                                                                     *)
DropLast(s) == SubSeq(s, 1, Len(s) - 1)

-----------------------------------------------------------------------------
(* db_mem_private_alloc                                                    *)

(* The call, up to the realloc that is to make room in mt or in mp->mc.    *)
StartAlloc(id) ==
  /\ who' = id
  /\ pc' = IF HasPool(id) THEN "chunks" ELSE "row"
  /\ UNCHANGED << i, new, mt, mc, live, users, held, spoiled, hit, walk >>

Alloc(id) == pc = "idle" /\ users[id] > 0 /\ StartAlloc(id)

(* mem_pool_new stores its row and counts it.                              *)
NewPool ==
  /\ pc = "row"
  /\ pc' = "chunks"
  /\ mt' = Append(mt, who)
  /\ UNCHANGED << regs, mc, live, users, held, spoiled, hit, walk >>

(* The room is there; malloc.                                              *)
Malloc ==
  /\ pc = "chunks"
  /\ pc' = "chunk"
  /\ new' \in Addrs \ live
  /\ live' = live \cup {new'}
  /\ UNCHANGED << who, i, mt, mc, users, held, spoiled, hit, walk >>

(* mp->n++, and the address is returned.                                   *)
Commit ==
  /\ pc = "chunk"
  /\ pc' = "idle"
  /\ mc' = [mc EXCEPT ![who] = Append(@, new)]
  /\ held' = [held EXCEPT ![who] = @ \cup {new}]
  /\ who' = None /\ new' = None
  /\ UNCHANGED << i, mt, live, users, spoiled, hit, walk >>

-----------------------------------------------------------------------------
(* db_mem_private_realloc on an address the plugin remembers; NULL is the  *)
(* same as Alloc.                                                          *)

(* There is no pool: the address is forgotten and a new one allocated.     *)
ReallocAnew(id, addr) ==
  /\ pc = "idle" /\ users[id] > 0 /\ addr \in held[id] /\ ~HasPool(id)
  /\ held' = [held EXCEPT ![id] = @ \ {addr}]
  /\ who' = id /\ pc' = "row"
  /\ UNCHANGED << i, new, mt, mc, live, users, spoiled, hit, walk >>

(* realloc of the chunk, which may move it.                                *)
Realloc(id, addr) ==
  /\ pc = "idle" /\ users[id] > 0 /\ addr \in held[id] /\ HasPool(id)
  /\ addr \in ToSet(mc[id])
  /\ pc' = "moved"
  /\ who' = id /\ i' = Place(mc[id], addr)
  /\ new' \in (Addrs \ live) \cup {addr}
  /\ live' = (live \ {addr}) \cup {new'}
  /\ held' = [held EXCEPT ![id] = (@ \ {addr}) \cup {new'}]
  /\ UNCHANGED << mt, mc, users, spoiled, hit, walk >>

StoreMoved ==
  /\ pc = "moved"
  /\ pc' = "idle"
  /\ mc' = [mc EXCEPT ![who][i] = new]
  /\ who' = None /\ i' = 0 /\ new' = None
  /\ UNCHANGED << mt, live, users, held, spoiled, hit, walk >>

(* No chunk has the address: what is returned is behind the last one.      *)
ReallocUnknown(id, addr) ==
  /\ pc = "idle" /\ users[id] > 0 /\ addr \in held[id] /\ HasPool(id)
  /\ addr \notin ToSet(mc[id])
  /\ pc' = "undefined"
  /\ UNCHANGED << regs, mt, mc, live, users, held, spoiled, hit, walk >>

-----------------------------------------------------------------------------
(* db_mem_private_free on an address the plugin remembers.                 *)

FreeWithoutPool(id, addr) ==
  /\ pc = "idle" /\ users[id] > 0 /\ addr \in held[id] /\ ~HasPool(id)
  /\ pc' = "aborted"
  /\ UNCHANGED << regs, mt, mc, live, users, held, spoiled, hit, walk >>

FreeUnknown(id, addr) ==
  /\ pc = "idle" /\ users[id] > 0 /\ addr \in held[id] /\ HasPool(id)
  /\ addr \notin ToSet(mc[id])
  /\ held' = [held EXCEPT ![id] = @ \ {addr}]
  /\ UNCHANGED << pc, regs, mt, mc, live, users, spoiled, hit, walk >>

Free(id, addr) ==
  /\ pc = "idle" /\ users[id] > 0 /\ addr \in held[id] /\ HasPool(id)
  /\ addr \in ToSet(mc[id])
  /\ pc' = "shift"
  /\ who' = id /\ i' = Place(mc[id], addr) + 1
  /\ live' = live \ {addr}
  /\ held' = [held EXCEPT ![id] = @ \ {addr}]
  /\ UNCHANGED << new, mt, mc, users, spoiled, hit, walk >>

ShiftChunk ==
  /\ pc = "shift" /\ i <= Len(mc[who])
  /\ mc' = [mc EXCEPT ![who] = CloseUp(@, i)]
  /\ i' = i + 1
  /\ UNCHANGED << pc, who, new, mt, live, users, held, spoiled, hit, walk >>

(* mp->n--, and the realloc of mp->mc.                                     *)
DropChunk ==
  /\ pc = "shift" /\ i > Len(mc[who])
  /\ pc' = "shrink"
  /\ mc' = [mc EXCEPT ![who] = DropLast(@)]
  /\ i' = 0
  /\ UNCHANGED << who, new, mt, live, users, held, spoiled, hit, walk >>

StoreShrunk ==
  /\ pc = "shrink"
  /\ pc' = "idle" /\ who' = None
  /\ UNCHANGED << i, new, mt, mc, live, users, held, spoiled, hit, walk >>

-----------------------------------------------------------------------------
(* db_plug_unload of an ejected element: db_list_remove takes it out of    *)
(* the list before destroy_data calls db_mem_pool_destroy; then dlclose.   *)

Unlisted(id) == [users EXCEPT ![id] = @ - 1]

(* Behind dlclose the plugin's variables are gone with the last element.   *)
Forget(id, others) == IF others = 0 THEN [held EXCEPT ![id] = {}] ELSE held

Eject(id) ==
  /\ pc = "idle" /\ users[id] > 0
  /\ users' = Unlisted(id)
  /\ spoiled' = IF users[id] > 1 THEN spoiled \cup {id} ELSE spoiled
  /\ IF HasPool(id) /\ mc[id] # << >>
     THEN pc' = "rescue" /\ who' = id /\ i' = 1 /\ UNCHANGED held
     ELSE held' = Forget(id, users[id] - 1) /\ UNCHANGED << pc, who, i >>
  /\ UNCHANGED << new, mt, mc, live, hit, walk >>

RescueChunk ==
  /\ pc = "rescue" /\ i <= Len(mc[who])
  /\ live' = live \ {mc[who][i]}
  /\ i' = i + 1
  /\ UNCHANGED << pc, who, new, mt, mc, users, held, spoiled, hit, walk >>

(* free (mp->mc)                                                           *)
FreeChunks ==
  /\ pc = "rescue" /\ i > Len(mc[who])
  /\ pc' = "close"
  /\ i' = Place(mt, who) + 1
  /\ UNCHANGED << who, new, mt, mc, live, users, held, spoiled, hit, walk >>

ShiftRow ==
  /\ pc = "close" /\ i <= Len(mt)
  /\ mt' = CloseUp(mt, i)
  /\ i' = i + 1
  /\ UNCHANGED << pc, who, new, mc, live, users, held, spoiled, hit, walk >>

(* realloc of mt                                                           *)
ShrinkTable ==
  /\ pc = "close" /\ i > Len(mt)
  /\ pc' = "rows"
  /\ UNCHANGED << regs, mt, mc, live, users, held, spoiled, hit, walk >>

(* free (mp)                                                               *)
FreePool ==
  /\ pc = "rows"
  /\ pc' = "last"
  /\ UNCHANGED << regs, mt, mc, live, users, held, spoiled, hit, walk >>

(* n--                                                                     *)
DropRow ==
  /\ pc = "last"
  /\ pc' = "idle"
  /\ mt' = DropLast(mt)
  /\ mc' = [mc EXCEPT ![who] = << >>]
  /\ held' = Forget(who, users[who])
  /\ who' = None /\ i' = 0
  /\ UNCHANGED << new, live, users, spoiled, hit, walk >>

-----------------------------------------------------------------------------
(* A terminating signal: db_sig_destroy unloads every listed element, one  *)
(* after the other, as long as no freed memory is used.                    *)

(* free of all of s, in order, frees nothing twice.                        *)
FreesOnce(s) == IsInjective(s) /\ ToSet(s) \subseteq live

(* What its loop over s frees, and the rows it leaves.                     *)
MutRescuedSkip(s) == ToSet(Tail(s))
Rescued(s) == ToSet(s)

MutRowsKept(rows, id) == rows
RowsWithout(rows, id) == RemoveAt(rows, Place(rows, id))

(* The handler is entered; moved: a realloc that has just returned has     *)
(* given another block.                                                    *)
Signal(moved) ==
  /\ pc \notin Ends \cup {"unload"}
  /\ hit' = pc
  /\ left' = users
  /\ gone' = IF pc = "last" THEN {who} ELSE {}
  /\ torn' = IF pc = "close" \/ (moved /\ pc \in {"chunks", "shrink"})
             THEN {who} ELSE {}
  /\ pc' = IF moved /\ pc \in {"row", "rows"} /\ mt # << >>
              /\ \E id \in Ids : users[id] > 0
           THEN "corrupt" ELSE "unload"
  /\ UNCHANGED << regs, mt, mc, live, users, held, spoiled >>

(* db_mem_pool_destroy for the next element of the list                    *)
PoolDestroy(id) ==
  /\ pc = "unload" /\ left[id] > 0
  /\ left' = [left EXCEPT ![id] = @ - 1]
  /\ \/ /\ ~HasPool(id) \/ (id \notin gone /\ mc[id] = << >>)
        /\ UNCHANGED << pc, mt, live, gone >>
     \/ /\ HasPool(id) /\ id \in gone
        /\ pc' = "corrupt"
        /\ UNCHANGED << mt, live, gone >>
     \/ /\ HasPool(id) /\ id \notin gone /\ mc[id] # << >>
        /\ pc' = IF id \in torn \/ ~FreesOnce(mc[id]) THEN "corrupt" ELSE pc
        /\ mt' = RowsWithout(mt, id)
        /\ live' = live \ Rescued(mc[id])
        /\ gone' = gone \cup {id}
  /\ UNCHANGED << regs, mc, users, held, spoiled, hit, torn >>

Exit ==
  /\ pc = "unload" /\ \A id \in Ids : left[id] = 0
  /\ pc' = "exited"
  /\ UNCHANGED << regs, mt, mc, live, users, held, spoiled, hit, walk >>

Ended == pc \in Ends /\ UNCHANGED vars

-----------------------------------------------------------------------------
Next ==
  \/ \E id \in Ids : Alloc(id) \/ Eject(id)
  \/ \E id \in Ids, addr \in Addrs :
       \/ ReallocAnew(id, addr) \/ Realloc(id, addr) \/ ReallocUnknown(id, addr)
       \/ FreeWithoutPool(id, addr) \/ FreeUnknown(id, addr) \/ Free(id, addr)
  \/ NewPool \/ Malloc \/ Commit
  \/ StoreMoved
  \/ ShiftChunk \/ DropChunk \/ StoreShrunk
  \/ RescueChunk \/ FreeChunks \/ ShiftRow \/ ShrinkTable \/ FreePool \/ DropRow
  \/ \E moved \in BOOLEAN : Signal(moved)
  \/ \E id \in Ids : PoolDestroy(id)
  \/ Exit
  \/ Ended

Spec == Init /\ [][Next]_vars

-----------------------------------------------------------------------------
(* Every variable holds a value of its type.                               *)
TypeOK ==
  /\ pc \in {"idle", "unload"} \cup Windows \cup Ends
  /\ who \in Ids \cup {None} /\ i \in Nat /\ new \in Addrs \cup {None}
  /\ mt \in Seq(Ids) /\ Len(mt) <= Cardinality(Ids)
  /\ mc \in [Ids -> Seq(Addrs)]
  /\ \A id \in Ids : Len(mc[id]) <= Cardinality(Addrs)
  /\ live \subseteq Addrs
  /\ users \in [Ids -> 0 .. MaxUsers]
  /\ held \in [Ids -> SUBSET Addrs]
  /\ spoiled \subseteq Ids
  /\ hit \in {"idle"} \cup Windows
  /\ left \in [Ids -> 0 .. MaxUsers] /\ gone \subseteq Ids /\ torn \subseteq Ids

(***************************************************************************)
(* Between two calls the table tells the truth: every block that has been  *)
(* handed out is a chunk of exactly one pool, once, and no pool lists a    *)
(* block that is not there; a plugin has one row at most.                  *)
(***************************************************************************)
TableMatchesHeap ==
  /\ TypeOK
  /\ pc = "idle" =>
       /\ IsInjective(mt)
       /\ \A id \in Ids : IsInjective(mc[id]) /\ (mc[id] # << >> => HasPool(id))
       /\ \A id, jd \in Ids : id # jd => ToSet(mc[id]) \cap ToSet(mc[jd]) = {}
       /\ live = UNION {ToSet(mc[id]) : id \in Ids}

(***************************************************************************)
(* What a plugin remembers is in its pool, unless an element that shares   *)
(* its library has been ejected: then alone can a call of db_mem_free      *)
(* abort the program, or db_mem_realloc read behind its chunks.            *)
(***************************************************************************)
StaleOnlyBySharing ==
  /\ pc = "idle" => \A id \in Ids \ spoiled : held[id] = ToSet(mc[id])
  /\ pc \in {"undefined", "aborted"} => spoiled # {}

(***************************************************************************)
(* A signal that comes between two calls, or while db_mem_alloc is between *)
(* malloc and counting, never makes the unloading free anything twice.     *)
(* While an element is being ejected it does so only if the table is being *)
(* reallocated, if another element has the same library, or, once the rows *)
(* are being shifted, if there is any library with two elements.           *)
(***************************************************************************)
CorruptOnlyInWindows ==
  pc = "corrupt" =>
    \/ hit \in {"row", "chunks", "moved", "shift", "shrink", "rows"}
    \/ hit \in {"rescue", "close", "last"} /\ users[who] > 0
    \/ hit \in {"close", "last"} /\ \E id \in Ids : users[id] > 1

(***************************************************************************)
(* What is still allocated when the signal's unloading is done and nothing *)
(* was freed twice is the chunk of the call it interrupted, or what the    *)
(* ejection it interrupted had still to free.                              *)
(***************************************************************************)
LeaksOnlyInFlight ==
  pc = "exited" =>
    \/ live = {}
    \/ hit = "chunk" /\ live = {new}
    \/ hit = "rescue" /\ live \subseteq {mc[who][j] : j \in i .. Len(mc[who])}
=============================================================================
