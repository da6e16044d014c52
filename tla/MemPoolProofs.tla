--------------------------- MODULE MemPoolProofs ----------------------------
(***************************************************************************)
(* The memory table tells the truth between two calls, whatever a plugin   *)
(* calls and whenever the signal comes: for any number of plugins,         *)
(* elements and addresses.                                                 *)
(*                                                                         *)
(* In the middle of a call the arrays have a gap, a chunk is in no pool    *)
(* yet or an ejected pool is half freed.  The inductive invariant          *)
(* MemPoolInv therefore speaks of the slots that count: the places of an   *)
(* array that hold a chunk, or a row, at this moment.  The parts below the *)
(* rows and slots say where a call is (Placed), what a plugin remembers    *)
(* (Remembered), and what the handler still finds (Unloading, Accounted).  *)
(***************************************************************************)
EXTENDS MemPool, DivisorProofs, SequenceTheorems

Running  == pc \in {"idle"} \cup Windows
Ejecting == pc \in {"rescue", "close", "rows", "last"}

(* The chunks of a pool that hold a block, and the rows that hold a pool.  *)
Slot(id, a) ==
  /\ a \in DOMAIN mc[id]
  /\ id = who =>
       /\ pc = "shift" => a # i - 1
       /\ pc = "moved" => a # i
       /\ pc = "rescue" => a >= i
       /\ pc \notin {"close", "rows", "last"}

Row(a) ==
  /\ a \in DOMAIN mt
  /\ pc = "close" => a # i - 1
  /\ pc \in {"rows", "last"} => a # Len(mt)

(* A slot of the pool holds the block x.                                   *)
Holds(id, x) == \E a \in DOMAIN mc[id] : Slot(id, a) /\ mc[id][a] = x

(* The block a call has been given and not stored yet.                     *)
InFlight(x) == pc \in {"chunk", "moved"} /\ x = new

(* Where a call is, and what it has made sure of.                          *)
Placed ==
  /\ pc \in Windows => who \in Ids
  /\ pc = "row" => ~HasPool(who)
  /\ pc \in {"chunks", "chunk", "moved", "shift", "rescue"} => HasPool(who)
  /\ pc \in {"row", "chunks", "chunk"} => users[who] > 0
  /\ pc \in {"chunk", "moved"} => new \in live
  /\ pc = "moved" =>
       i \in DOMAIN mc[who] /\ (new # mc[who][i] => mc[who][i] \notin live)
  /\ pc = "shift" => i \in 2 .. Len(mc[who]) + 1
  /\ pc = "rescue" => i \in 1 .. Len(mc[who]) + 1
  /\ pc = "close" => i \in 2 .. Len(mt) + 1
  /\ pc \in {"rows", "last"} => mt # << >>

(* A plugin has one row at most, and one if it has chunks: then one of its *)
(* elements is listed too.                                                 *)
OneRow ==
  Running => \A a, b \in DOMAIN mt : Row(a) /\ Row(b) /\ mt[a] = mt[b] => a = b

Pooled ==
  Running => \A id \in Ids : mc[id] # << >> /\ ~(id = who /\ Ejecting) =>
    users[id] > 0 /\ \E a \in DOMAIN mt : Row(a) /\ mt[a] = id

(* The slots hold the blocks that are allocated, each of them once.        *)
OneSlot ==
  Running => \A id, jd \in Ids : \A a \in DOMAIN mc[id], b \in DOMAIN mc[jd] :
    Slot(id, a) /\ Slot(jd, b) /\ mc[id][a] = mc[jd][b] => id = jd /\ a = b

Backed ==
  Running => \A id \in Ids : \A a \in DOMAIN mc[id] :
    Slot(id, a) => mc[id][a] \in live /\ ~InFlight(mc[id][a])

Listed ==
  Running => \A x \in live : InFlight(x) \/ \E id \in Ids : Holds(id, x)

(* What a plugin remembers, unless an element of it was ejected before.    *)
Remembers(id, x) ==
  (id = who /\ pc = "moved" /\ x = new) \/ Holds(id, x)

Remembered ==
  /\ Running => \A id \in Ids \ spoiled : ~(id = who /\ Ejecting) =>
       \A x \in Addrs : x \in held[id] <=> Remembers(id, x)
  /\ Ejecting /\ who \notin spoiled => users[who] = 0
  /\ pc \in {"undefined", "aborted"} => spoiled # {}

(* The signals CorruptOnlyInWindows excepts.                               *)
Excused ==
  \/ hit \in {"row", "chunks", "moved", "shift", "shrink", "rows"}
  \/ hit \in {"rescue", "close", "last"} /\ users[who] > 0
  \/ hit \in {"close", "last"} /\ \E id \in Ids : users[id] > 1

(* A pool the handler has still to free, and that it will find.            *)
Due(id) == left[id] > 0 /\ HasPool(id)

Unloading ==
  pc = "unload" /\ ~Excused =>
    /\ \A id \in Ids : Due(id) => id \notin gone /\ id \notin torn
    /\ IsInjective(mt) \/ \A id \in Ids : left[id] <= 1
    /\ \A id, jd \in Ids : Due(id) /\ Due(jd) =>
         \A a \in DOMAIN mc[id], b \in DOMAIN mc[jd] :
           mc[id][a] = mc[jd][b] => id = jd /\ a = b
    /\ \A id \in Ids : Due(id) => \A a \in DOMAIN mc[id] : mc[id][a] \in live

(* What the interrupted call keeps from being freed: for a block realloc   *)
(* has just moved, only as long as the pool with its old address is due.   *)
Lost(x) ==
  \/ hit = "chunk" /\ x = new
  \/ hit = "rescue" /\ \E j \in i .. Len(mc[who]) : x = mc[who][j]
  \/ /\ hit = "moved" /\ x = new
     /\ who \in Ids /\ Due(who) /\ who \notin gone
     /\ i \in DOMAIN mc[who] /\ mc[who][i] \notin live

Accounted ==
  /\ pc \in {"unload", "exited"} => \A x \in live :
       Lost(x) \/ \E id \in Ids : /\ Due(id) /\ id \notin gone
                                  /\ \E a \in DOMAIN mc[id] : mc[id][a] = x
  /\ pc = "exited" => \A id \in Ids : left[id] = 0

MemPoolInv ==
  /\ TypeOK
  /\ Placed /\ OneRow /\ Pooled
  /\ OneSlot /\ Backed /\ Listed /\ Remembered
  /\ Unloading /\ CorruptOnlyInWindows /\ Accounted

-----------------------------------------------------------------------------
(* The operations on the arrays.                                           *)

(* What a sequence of elements of S is.                                    *)
LEMMA SeqFacts ==
  ASSUME NEW S, NEW s \in Seq(S)
  PROVE  /\ Len(s) \in Nat
         /\ DOMAIN s = 1 .. Len(s)
         /\ \A k \in 1 .. Len(s) : s[k] \in S
         /\ s = << >> <=> Len(s) = 0
BY LenProperties, ElementOfSeq, EmptySeq

(* The loops that look for an address or a row stop at one that has it.    *)
LEMMA PlaceFound ==
  ASSUME NEW S, NEW s \in Seq(S), NEW x \in ToSet(s)
  PROVE  Place(s, x) \in DOMAIN s /\ s[Place(s, x)] = x
<1> DEFINE T == {k \in DOMAIN s : s[k] = x}
<1>1. DOMAIN s = 1 .. Len(s) /\ Len(s) \in Nat
  BY SeqFacts
<1>2. T \in SUBSET Nat /\ T # {}
  BY <1>1 DEF ToSet
<1>3. PICK e \in T : \A f \in T : e <= f
  BY <1>2, LeastExists
<1>4. e \in DOMAIN s /\ s[e] = x /\ \A j \in 1 .. e - 1 : s[j] # x
  <2> SUFFICES ASSUME NEW j \in 1 .. e - 1, s[j] = x
               PROVE  FALSE
    BY <1>3
  <2>1. e \in 1 .. Len(s)
    BY <1>1, <1>3
  <2>2. j \in DOMAIN s
    BY <1>1, <2>1
  <2> QED
    BY <1>3, <2>1, <2>2
<1> QED
  BY <1>4 DEF Place

(* One step of a loop that closes a gap moves one element down.            *)
LEMMA CloseUpMoves ==
  ASSUME NEW S, NEW s \in Seq(S), NEW k \in 2 .. Len(s)
  PROVE  /\ CloseUp(s, k) \in Seq(S)
         /\ Len(CloseUp(s, k)) = Len(s)
         /\ \A j \in 1 .. Len(s) :
              CloseUp(s, k)[j] = IF j = k - 1 THEN s[k] ELSE s[j]
<1>1. Len(s) \in Nat /\ k - 1 \in 1 .. Len(s) /\ k \in 1 .. Len(s)
  BY SeqFacts
<1>2. s[k] \in S
  BY <1>1, SeqFacts
<1> QED
  BY <1>1, <1>2, ExceptSeq DEF CloseUp

(* n-- forgets the last element and no other.                              *)
LEMMA DropLastKeeps ==
  ASSUME NEW S, NEW s \in Seq(S), s # << >>
  PROVE  /\ DropLast(s) \in Seq(S)
         /\ Len(s) \in Nat \ {0}
         /\ Len(DropLast(s)) = Len(s) - 1
         /\ \A j \in 1 .. Len(s) - 1 : DropLast(s)[j] = s[j]
<1> DEFINE d == SubSeq(s, 1, Len(s) - 1)
<1>1. Len(s) \in Nat \ {0} /\ \A j \in 1 .. Len(s) : s[j] \in S
  BY SeqFacts
<1>2. \A j \in 1 .. Len(s) - 1 : s[j] \in S
  BY <1>1
<1>3. /\ d \in Seq(S)
      /\ Len(d) = IF 1 <= Len(s) - 1 THEN (Len(s) - 1) - 1 + 1 ELSE 0
      /\ \A j \in 1 .. (Len(s) - 1) - 1 + 1 : d[j] = s[1 + j - 1]
  <2>1. 1 \in Int /\ Len(s) - 1 \in Int
    BY <1>1
  <2> QED
    BY <1>2, <2>1, SubSeqProperties
<1> HIDE DEF d
<1>4. Len(d) = Len(s) - 1
  <2>1. ASSUME NEW n \in Nat \ {0}
        PROVE  (IF 1 <= n - 1 THEN (n - 1) - 1 + 1 ELSE 0) = n - 1
    OBVIOUS
  <2> QED
    BY <1>1, <1>3, <2>1
<1>5. \A j \in 1 .. Len(s) - 1 : d[j] = s[j]
  BY <1>1, <1>3
<1> QED
  BY <1>1, <1>3, <1>4, <1>5 DEF DropLast, d

(* An array that holds nothing twice has room in S.                        *)
LEMMA OnceFits ==
  ASSUME NEW S, IsFiniteSet(S), NEW s \in Seq(S),
         \A a, b \in DOMAIN s : s[a] = s[b] => a = b
  PROVE  Len(s) <= Cardinality(S)
<1>1. Len(s) \in Nat /\ DOMAIN s = 1 .. Len(s) /\ s \in [1 .. Len(s) -> S]
  BY SeqFacts, LenProperties
<1>2. s \in Injection(1 .. Len(s), S)
  BY <1>1 DEF Injection, IsInjective
<1>3. Cardinality(1 .. Len(s)) <= Cardinality(S)
  BY <1>2, FS_Injection
<1>4. Cardinality(1 .. Len(s)) = Len(s)
  BY <1>1, FS_Interval
<1> QED
  BY <1>3, <1>4

(* db_mem_pool_destroy takes one row out and leaves the others in order.   *)
LEMMA RowsLeft ==
  ASSUME NEW S, NEW s \in Seq(S), NEW x \in ToSet(s)
  PROVE  /\ RowsWithout(s, x) \in Seq(S)
         /\ Len(RowsWithout(s, x)) = Len(s) - 1
         /\ \A j \in 1 .. Len(s) - 1 : RowsWithout(s, x)[j] =
              IF j < Place(s, x) THEN s[j] ELSE s[j + 1]
<1> DEFINE k == Place(s, x)
           l == SubSeq(s, 1, k - 1)
           r == SubSeq(s, k + 1, Len(s))
<1>1. Len(s) \in Nat /\ k \in 1 .. Len(s) /\ \A j \in 1 .. Len(s) : s[j] \in S
  BY SeqFacts, PlaceFound
<1>2. l \in Seq(S) /\ Len(l) = k - 1 /\ \A j \in 1 .. k - 1 : l[j] = s[j]
  <2> HIDE DEF k
  <2>1. k - 1 \in Int /\ 1 \in Int /\ \A j \in 1 .. k - 1 : s[j] \in S
    BY <1>1
  <2>2. /\ l \in Seq(S)
        /\ Len(l) = IF 1 <= k - 1 THEN (k - 1) - 1 + 1 ELSE 0
        /\ \A j \in 1 .. (k - 1) - 1 + 1 : l[j] = s[1 + j - 1]
    BY <2>1, SubSeqProperties
  <2> HIDE DEF l
  <2> QED
    BY <1>1, <2>2
<1>3. /\ r \in Seq(S) /\ Len(r) = Len(s) - k
      /\ \A j \in 1 .. Len(s) - k : r[j] = s[k + j]
  <2> HIDE DEF k
  <2>1. k + 1 \in Int /\ Len(s) \in Int /\ \A j \in k + 1 .. Len(s) : s[j] \in S
    BY <1>1
  <2>2. /\ r \in Seq(S)
        /\ Len(r) = IF k + 1 <= Len(s) THEN Len(s) - (k + 1) + 1 ELSE 0
        /\ \A j \in 1 .. Len(s) - (k + 1) + 1 : r[j] = s[k + 1 + j - 1]
    BY <2>1, SubSeqProperties
  <2> HIDE DEF r
  <2> QED
    BY <1>1, <2>2
<1>4. RowsWithout(s, x) = l \o r
  BY DEF RowsWithout, RemoveAt
<1> HIDE DEF l, r, k
<1>5. /\ l \o r \in Seq(S)
      /\ Len(l \o r) = Len(l) + Len(r)
      /\ \A j \in 1 .. Len(l) + Len(r) :
           (l \o r)[j] = IF j <= Len(l) THEN l[j] ELSE r[j - Len(l)]
  BY <1>2, <1>3, ConcatProperties
<1>6. Len(l) + Len(r) = Len(s) - 1
  BY <1>1, <1>2, <1>3
<1>7. ASSUME NEW j \in 1 .. Len(s) - 1
      PROVE  (l \o r)[j] = IF j < k THEN s[j] ELSE s[j + 1]
  <2>1. CASE j < k
    <3>1. j <= Len(l) /\ j \in 1 .. k - 1
      BY <1>1, <1>2, <2>1
    <3> QED
      BY <1>2, <1>5, <1>6, <2>1, <3>1
  <2>2. CASE ~(j < k)
    <3>1. ~(j <= Len(l)) /\ j - Len(l) \in 1 .. Len(s) - k /\ k + (j - Len(l)) = j + 1
      BY <1>1, <1>2, <2>2
    <3> QED
      BY <1>3, <1>5, <1>6, <2>2, <3>1
  <2> QED
    BY <2>1, <2>2
<1> QED
  BY <1>4, <1>5, <1>6, <1>7 DEF k

(* Every other row is still there; of a plugin with one row, none is.      *)
LEMMA RowsLeftOver ==
  ASSUME NEW S, NEW s \in Seq(S), NEW x \in ToSet(s)
  PROVE  /\ ToSet(RowsWithout(s, x)) \subseteq ToSet(s)
         /\ \A y \in ToSet(s) : y # x => y \in ToSet(RowsWithout(s, x))
         /\ IsInjective(s) => /\ IsInjective(RowsWithout(s, x))
                              /\ x \notin ToSet(RowsWithout(s, x))
<1> DEFINE r == RowsWithout(s, x)
           k == Place(s, x)
<1>1. Len(s) \in Nat /\ DOMAIN s = 1 .. Len(s) /\ k \in 1 .. Len(s) /\ s[k] = x
  BY SeqFacts, PlaceFound
<1>2. /\ DOMAIN r = 1 .. Len(s) - 1
      /\ \A j \in 1 .. Len(s) - 1 : r[j] = IF j < k THEN s[j] ELSE s[j + 1]
  <2>1. r \in Seq(S) /\ Len(r) = Len(s) - 1
    BY RowsLeft
  <2> QED
    BY <2>1, RowsLeft, SeqFacts
<1> HIDE DEF r, k
<1>3. ASSUME NEW j \in DOMAIN r
      PROVE  \E l \in DOMAIN s : r[j] = s[l] /\ l # k
  <2>1. j \in 1 .. Len(s) - 1 /\ j \in DOMAIN s /\ j + 1 \in DOMAIN s
    BY <1>1, <1>2
  <2>2. CASE j < k
    BY <1>1, <1>2, <2>1, <2>2
  <2>3. CASE ~(j < k)
    <3>1. j + 1 # k
      BY <1>1, <2>1, <2>3
    <3> QED
      BY <1>2, <2>1, <2>3, <3>1
  <2> QED
    BY <2>2, <2>3
<1>4. ASSUME NEW l \in DOMAIN s, l # k
      PROVE  \E j \in DOMAIN r : r[j] = s[l]
  <2>1. CASE l < k
    <3>1. l \in 1 .. Len(s) - 1
      BY <1>1, <2>1
    <3> QED
      BY <1>2, <2>1, <3>1
  <2>2. CASE l > k
    <3>1. l - 1 \in 1 .. Len(s) - 1 /\ ~(l - 1 < k) /\ (l - 1) + 1 = l
      BY <1>1, <2>2
    <3> QED
      BY <1>2, <3>1
  <2> QED
    BY <1>1, <1>4, <2>1, <2>2
<1>5. ToSet(r) \subseteq ToSet(s)
  BY <1>3 DEF ToSet
<1>6. \A y \in ToSet(s) : y # x => y \in ToSet(r)
  BY <1>1, <1>4 DEF ToSet
<1>7. ASSUME IsInjective(s)
      PROVE  IsInjective(r) /\ x \notin ToSet(r)
  <2>1. x \notin ToSet(r)
    BY <1>1, <1>3, <1>7 DEF ToSet, IsInjective
  <2>2. ASSUME NEW a \in DOMAIN r, NEW b \in DOMAIN r, r[a] = r[b]
        PROVE  a = b
    <3>1. a \in 1 .. Len(s) - 1 /\ b \in 1 .. Len(s) - 1
      BY <1>2
    <3>2. /\ a \in DOMAIN s /\ a + 1 \in DOMAIN s
          /\ b \in DOMAIN s /\ b + 1 \in DOMAIN s
      BY <1>1, <3>1
    <3>3. CASE a < k /\ b < k
      BY <1>2, <1>7, <2>2, <3>1, <3>2, <3>3 DEF IsInjective
    <3>4. CASE ~(a < k) /\ ~(b < k)
      <4>1. a + 1 = b + 1
        BY <1>2, <1>7, <2>2, <3>1, <3>2, <3>4 DEF IsInjective
      <4> QED
        BY <3>1, <4>1
    <3>5. CASE a < k /\ ~(b < k)
      <4>1. a = b + 1
        BY <1>2, <1>7, <2>2, <3>1, <3>2, <3>5 DEF IsInjective
      <4> QED
        BY <1>1, <3>1, <3>5, <4>1
    <3>6. CASE ~(a < k) /\ b < k
      <4>1. a + 1 = b
        BY <1>2, <1>7, <2>2, <3>1, <3>2, <3>6 DEF IsInjective
      <4> QED
        BY <1>1, <3>1, <3>6, <4>1
    <3> QED
      BY <3>3, <3>4, <3>5, <3>6
  <2> QED
    BY <2>1, <2>2 DEF IsInjective
<1> QED
  BY <1>5, <1>6, <1>7 DEF r

-----------------------------------------------------------------------------
(* The types.  Shifting leaves the lengths alone; where an element is      *)
(* appended nothing is twice in the array, so it fits.                     *)

(* What TypeOK says of one plugin's arrays and of the table.               *)
LEMMA TypesOf ==
  ASSUME TypeOK, NEW id \in Ids
  PROVE  /\ mc[id] \in Seq(Addrs) /\ Len(mc[id]) \in Nat
         /\ DOMAIN mc[id] = 1 .. Len(mc[id])
         /\ \A a \in DOMAIN mc[id] : mc[id][a] \in Addrs
         /\ mc[id] = << >> <=> Len(mc[id]) = 0
         /\ users[id] \in Nat /\ left[id] \in Nat /\ held[id] \subseteq Addrs
         /\ mt \in Seq(Ids) /\ Len(mt) \in Nat /\ DOMAIN mt = 1 .. Len(mt)
         /\ \A a \in DOMAIN mt : mt[a] \in Ids
         /\ mt = << >> <=> Len(mt) = 0
<1>1. mc[id] \in Seq(Addrs) /\ mt \in Seq(Ids)
  BY DEF TypeOK
<1>2. users[id] \in Nat /\ left[id] \in Nat /\ held[id] \subseteq Addrs
  BY MemPoolAssumption DEF TypeOK, MemPoolAssumption
<1>3. /\ Len(mc[id]) \in Nat /\ DOMAIN mc[id] = 1 .. Len(mc[id])
      /\ \A a \in 1 .. Len(mc[id]) : mc[id][a] \in Addrs
      /\ mc[id] = << >> <=> Len(mc[id]) = 0
  BY <1>1, SeqFacts
<1>4. /\ Len(mt) \in Nat /\ DOMAIN mt = 1 .. Len(mt)
      /\ \A a \in 1 .. Len(mt) : mt[a] \in Ids
      /\ mt = << >> <=> Len(mt) = 0
  BY <1>1, SeqFacts
<1> QED
  BY <1>1, <1>2, <1>3, <1>4

(* Every step keeps the types.                                             *)
LEMMA TypeStep ==
  ASSUME MemPoolInv, Next
  PROVE  TypeOK'
<1> USE DEF regs, walk
<1>1. TypeOK /\ Placed
  BY DEF MemPoolInv
<1>2. ASSUME NEW id \in Ids, Alloc(id)
      PROVE  TypeOK'
  BY <1>1, <1>2 DEF Alloc, StartAlloc, TypeOK, Windows
<1>3. ASSUME NEW id \in Ids, Eject(id)
      PROVE  TypeOK'
  <2>1. users[id] \in 1 .. MaxUsers
    BY <1>1, <1>3, TypesOf DEF Eject, TypeOK
  <2>2. users[id] - 1 \in 0 .. MaxUsers
    BY <2>1, MemPoolAssumption DEF MemPoolAssumption
  <2>3. users' \in [Ids -> 0 .. MaxUsers]
    BY <1>1, <1>3, <2>2 DEF Eject, Unlisted, TypeOK
  <2>4. /\ pc' \in {"idle", "rescue"} /\ who' \in Ids \cup {None} /\ i' \in Nat
        /\ held' \in [Ids -> SUBSET Addrs] /\ spoiled' \subseteq Ids
    <3>1. held' = held \/ held' = [held EXCEPT ![id] = {}]
      BY <1>3 DEF Eject, Forget
    <3>2. held' \in [Ids -> SUBSET Addrs]
      BY <1>1, <3>1 DEF TypeOK
    <3>3. /\ pc' \in {pc, "rescue"} /\ pc = "idle"
          /\ who' \in {who, id} /\ i' \in {i, 1}
          /\ spoiled' \in {spoiled, spoiled \cup {id}}
      BY <1>3 DEF Eject
    <3> QED
      BY <1>1, <3>2, <3>3 DEF TypeOK
  <2> QED
    BY <1>1, <1>3, <2>3, <2>4 DEF Eject, TypeOK, Windows
<1>4. ASSUME NEW id \in Ids, NEW addr \in Addrs,
             \/ ReallocAnew(id, addr) \/ ReallocUnknown(id, addr)
             \/ FreeWithoutPool(id, addr) \/ FreeUnknown(id, addr)
      PROVE  TypeOK'
  <2>1. /\ pc' \in {"row", "undefined", "aborted", "idle"}
        /\ who' \in Ids \cup {None}
        /\ held' \in [Ids -> SUBSET Addrs]
    BY <1>1, <1>4
       DEF ReallocAnew, ReallocUnknown, FreeWithoutPool, FreeUnknown, TypeOK
  <2>2. UNCHANGED << i, new, mt, mc, live, users, spoiled, hit, walk >>
    BY <1>4 DEF ReallocAnew, ReallocUnknown, FreeWithoutPool, FreeUnknown
  <2> QED
    BY <1>1, <2>1, <2>2 DEF TypeOK, Windows, Ends
<1>5. ASSUME NEW id \in Ids, NEW addr \in Addrs, Realloc(id, addr)
      PROVE  TypeOK'
  <2>1. i' \in Nat
    BY <1>1, <1>5, TypesOf, PlaceFound DEF Realloc
  <2>2. /\ new' \in Addrs /\ live' \subseteq Addrs
        /\ held' \in [Ids -> SUBSET Addrs] /\ pc' = "moved" /\ who' = id
    BY <1>1, <1>5 DEF Realloc, TypeOK
  <2> QED
    BY <1>1, <1>5, <2>1, <2>2 DEF Realloc, TypeOK, Windows
<1>6. ASSUME NEW id \in Ids, NEW addr \in Addrs, Free(id, addr)
      PROVE  TypeOK'
  <2>1. Place(mc[id], addr) \in Nat
    BY <1>1, <1>6, TypesOf, PlaceFound DEF Free
  <2>2. /\ live' \subseteq Addrs /\ i' \in Nat
        /\ held' \in [Ids -> SUBSET Addrs] /\ pc' = "shift" /\ who' = id
    BY <1>1, <1>6, <2>1 DEF Free, TypeOK
  <2> QED
    BY <1>1, <1>6, <2>2 DEF Free, TypeOK, Windows
<1>7. CASE NewPool
  <2>1. who \in Ids /\ pc = "row" /\ mt' = Append(mt, who)
    BY <1>1, <1>7 DEF NewPool, Placed, Windows
  <2>2. mt \in Seq(Ids) /\ mt' \in Seq(Ids) /\ Len(mt) \in Nat
    BY <1>1, <2>1, TypesOf
  <2>3. /\ DOMAIN mt = 1 .. Len(mt) /\ DOMAIN mt' = 1 .. Len(mt) + 1
        /\ mt'[Len(mt) + 1] = who
        /\ \A a \in 1 .. Len(mt) : mt'[a] = mt[a] /\ mt[a] # who
    <3>1. \A a \in DOMAIN mt : mt[a] # who
      BY <1>1, <2>1 DEF Placed, HasPool, ToSet
    <3> QED
      BY <2>1, <2>2, <3>1, AppendProperties, SeqFacts
  <2>4. \A a, b \in DOMAIN mt : mt[a] = mt[b] => a = b
    BY <2>1 DEF MemPoolInv, OneRow, Running, Windows, Row
  <2>5. \A a, b \in DOMAIN mt' : mt'[a] = mt'[b] => a = b
    BY <2>2, <2>3, <2>4
  <2>6. Len(mt') <= Cardinality(Ids)
    BY <2>2, <2>5, OnceFits, MemPoolAssumption DEF MemPoolAssumption
  <2> QED
    BY <1>1, <1>7, <2>2, <2>6 DEF NewPool, TypeOK, Windows
<1>8. CASE Malloc
  BY <1>1, <1>8 DEF Malloc, TypeOK, Windows
<1>9. CASE Commit
  <2>1. who \in Ids /\ pc = "chunk" /\ new \in Addrs
    BY <1>1, <1>9 DEF Commit, Placed, Windows, TypeOK
  <2>2. /\ mc' = [mc EXCEPT ![who] = Append(mc[who], new)]
        /\ held' = [held EXCEPT ![who] = held[who] \cup {new}]
    BY <1>9 DEF Commit
  <2>3. mc'[who] = Append(mc[who], new) /\ mc'[who] \in Seq(Addrs)
    BY <1>1, <2>1, <2>2 DEF TypeOK
  <2>4. /\ DOMAIN mc[who] = 1 .. Len(mc[who]) /\ Len(mc[who]) \in Nat
        /\ DOMAIN mc'[who] = 1 .. Len(mc[who]) + 1
        /\ mc'[who][Len(mc[who]) + 1] = new
        /\ \A a \in 1 .. Len(mc[who]) : mc'[who][a] = mc[who][a]
    BY <1>1, <2>1, <2>3, TypesOf, SeqFacts, AppendProperties
  <2>5. \A a \in DOMAIN mc[who] : mc[who][a] # new
    BY <2>1 DEF MemPoolInv, Backed, Running, Windows, Slot, InFlight
  <2>6. \A a, b \in DOMAIN mc[who] : mc[who][a] = mc[who][b] => a = b
    BY <2>1 DEF MemPoolInv, OneSlot, Running, Windows, Slot
  <2>7. \A a, b \in DOMAIN mc'[who] : mc'[who][a] = mc'[who][b] => a = b
    BY <2>4, <2>5, <2>6
  <2>8. Len(mc'[who]) <= Cardinality(Addrs)
    BY <2>3, <2>7, OnceFits, MemPoolAssumption DEF MemPoolAssumption
  <2>9. /\ mc' \in [Ids -> Seq(Addrs)]
        /\ \A id \in Ids : Len(mc'[id]) <= Cardinality(Addrs)
    BY <1>1, <2>1, <2>2, <2>3, <2>8 DEF TypeOK
  <2>10. held' \in [Ids -> SUBSET Addrs]
    BY <1>1, <2>1, <2>2 DEF TypeOK
  <2> QED
    BY <1>1, <1>9, <2>9, <2>10 DEF Commit, TypeOK
<1>10. CASE StoreMoved
  <2>1. who \in Ids /\ pc = "moved" /\ i \in DOMAIN mc[who] /\ new \in live
    BY <1>1, <1>10 DEF StoreMoved, Placed, Windows
  <2>2. new \in Addrs /\ i \in 1 .. Len(mc[who]) /\ mc[who] \in Seq(Addrs)
    BY <1>1, <2>1, TypesOf DEF TypeOK
  <2>3. mc' = [mc EXCEPT ![who] = [mc[who] EXCEPT ![i] = new]]
    BY <1>10 DEF StoreMoved
  <2>4. /\ [mc[who] EXCEPT ![i] = new] \in Seq(Addrs)
        /\ Len([mc[who] EXCEPT ![i] = new]) = Len(mc[who])
    BY <2>2, ExceptSeq
  <2>5. /\ mc' \in [Ids -> Seq(Addrs)]
        /\ \A id \in Ids : Len(mc'[id]) = Len(mc[id])
    BY <1>1, <2>1, <2>3, <2>4 DEF TypeOK
  <2> QED
    BY <1>1, <1>10, <2>5 DEF StoreMoved, TypeOK
<1>11. CASE ShiftChunk
  <2>1. who \in Ids /\ pc = "shift" /\ i \in 2 .. Len(mc[who]) /\ i \in Nat
    BY <1>1, <1>11 DEF ShiftChunk, Placed, Windows, TypeOK
  <2>2. mc' = [mc EXCEPT ![who] = CloseUp(mc[who], i)]
    BY <1>11 DEF ShiftChunk
  <2>3. /\ CloseUp(mc[who], i) \in Seq(Addrs)
        /\ Len(CloseUp(mc[who], i)) = Len(mc[who])
    BY <1>1, <2>1, CloseUpMoves, TypesOf
  <2>4. /\ mc' \in [Ids -> Seq(Addrs)]
        /\ \A id \in Ids : Len(mc'[id]) = Len(mc[id])
    BY <1>1, <2>1, <2>2, <2>3 DEF TypeOK
  <2>5. i' \in Nat
    BY <1>11, <2>1 DEF ShiftChunk
  <2> QED
    BY <1>1, <1>11, <2>4, <2>5 DEF ShiftChunk, TypeOK
<1>12. CASE DropChunk
  <2>1. who \in Ids /\ pc = "shift" /\ i \in 2 .. Len(mc[who]) + 1
    BY <1>1, <1>12 DEF DropChunk, Placed, Windows
  <2>2. mc' = [mc EXCEPT ![who] = DropLast(mc[who])]
    BY <1>12 DEF DropChunk
  <2>3. mc[who] # << >> /\ Len(mc[who]) \in Nat \ {0}
    BY <1>1, <2>1, TypesOf
  <2>4. /\ DropLast(mc[who]) \in Seq(Addrs)
        /\ Len(DropLast(mc[who])) = Len(mc[who]) - 1
    BY <1>1, <2>1, <2>3, DropLastKeeps, TypesOf
  <2>5. Cardinality(Addrs) \in Nat
    BY FS_CardinalityType, MemPoolAssumption DEF MemPoolAssumption
  <2>6. Len(DropLast(mc[who])) <= Cardinality(Addrs)
    BY <1>1, <2>1, <2>3, <2>4, <2>5 DEF TypeOK
  <2>7. /\ mc' \in [Ids -> Seq(Addrs)]
        /\ \A id \in Ids : Len(mc'[id]) <= Cardinality(Addrs)
    BY <1>1, <2>1, <2>2, <2>4, <2>6 DEF TypeOK
  <2> QED
    BY <1>1, <1>12, <2>7 DEF DropChunk, TypeOK, Windows
<1>13. CASE StoreShrunk
  BY <1>1, <1>13 DEF StoreShrunk, TypeOK
<1>14. CASE RescueChunk
  <2>1. i' \in Nat /\ live' \subseteq Addrs
    BY <1>1, <1>14 DEF RescueChunk, TypeOK
  <2> QED
    BY <1>1, <1>14, <2>1 DEF RescueChunk, TypeOK
<1>15. CASE FreeChunks
  <2>1. who \in Ids /\ HasPool(who)
    BY <1>1, <1>15 DEF FreeChunks, Placed, Windows
  <2>2. i' \in Nat
    BY <1>1, <1>15, <2>1, TypesOf, PlaceFound DEF FreeChunks, HasPool
  <2> QED
    BY <1>1, <1>15, <2>2 DEF FreeChunks, TypeOK, Windows
<1>16. CASE ShiftRow
  <2>1. who \in Ids /\ i \in 2 .. Len(mt) /\ i \in Nat
    BY <1>1, <1>16 DEF ShiftRow, Placed, Windows, TypeOK
  <2>2. mt' \in Seq(Ids) /\ Len(mt') = Len(mt) /\ i' \in Nat
    BY <1>1, <1>16, <2>1, CloseUpMoves, TypesOf DEF ShiftRow
  <2> QED
    BY <1>1, <1>16, <2>2 DEF ShiftRow, TypeOK
<1>17. CASE ShrinkTable \/ FreePool
  BY <1>1, <1>17 DEF ShrinkTable, FreePool, TypeOK, Windows
<1>18. CASE DropRow
  <2>1. who \in Ids /\ mt # << >> /\ mt' = DropLast(mt)
    BY <1>1, <1>18 DEF DropRow, Placed, Windows
  <2>2. mt' \in Seq(Ids) /\ Len(mt') = Len(mt) - 1 /\ Len(mt) \in Nat \ {0}
    BY <1>1, <2>1, DropLastKeeps, TypesOf
  <2>3. Cardinality(Ids) \in Nat /\ Cardinality(Addrs) \in Nat
    BY FS_CardinalityType, MemPoolAssumption DEF MemPoolAssumption
  <2>4. Len(mt') <= Cardinality(Ids)
    BY <1>1, <2>2, <2>3 DEF TypeOK
  <2>5. /\ mc' \in [Ids -> Seq(Addrs)]
        /\ \A id \in Ids : Len(mc'[id]) <= Cardinality(Addrs)
    <3>1. << >> \in Seq(Addrs) /\ Len(<< >>) = 0
      BY EmptySeq
    <3>2. mc' = [mc EXCEPT ![who] = << >>]
      BY <1>18 DEF DropRow
    <3> QED
      BY <1>1, <2>1, <2>3, <3>1, <3>2 DEF TypeOK
  <2>6. held' \in [Ids -> SUBSET Addrs]
    BY <1>1, <1>18 DEF DropRow, Forget, TypeOK
  <2> QED
    BY <1>1, <1>18, <2>2, <2>4, <2>5, <2>6 DEF DropRow, TypeOK
<1>19. ASSUME NEW moved \in BOOLEAN, Signal(moved)
      PROVE  TypeOK'
  <2>1. /\ pc' \in {"unload", "corrupt"}
        /\ hit' = pc /\ left' = users
    BY <1>19 DEF Signal
  <2>2. pc \in {"idle"} \cup Windows
    BY <1>1, <1>19 DEF Signal, TypeOK
  <2>3. gone' \subseteq Ids /\ torn' \subseteq Ids
    BY <1>1, <1>19 DEF Signal, Placed, Windows
  <2> QED
    BY <1>1, <1>19, <2>1, <2>2, <2>3 DEF Signal, TypeOK, Ends
<1>20. ASSUME NEW id \in Ids, PoolDestroy(id)
      PROVE  TypeOK'
  <2>1. left[id] \in 1 .. MaxUsers
    BY <1>1, <1>20, TypesOf DEF PoolDestroy, TypeOK
  <2>2. left[id] - 1 \in 0 .. MaxUsers
    BY <2>1, MemPoolAssumption DEF MemPoolAssumption
  <2>3. left' \in [Ids -> 0 .. MaxUsers]
    BY <1>1, <1>20, <2>2 DEF PoolDestroy, TypeOK
  <2>4. pc' \in {"unload", "corrupt"} /\ live' \subseteq Addrs /\ gone' \subseteq Ids
    BY <1>1, <1>20 DEF PoolDestroy, TypeOK
  <2>5. mt' \in Seq(Ids) /\ Len(mt') <= Cardinality(Ids)
    <3>1. mt' = mt \/ (id \in ToSet(mt) /\ mt' = RowsWithout(mt, id))
      BY <1>20 DEF PoolDestroy, HasPool
    <3>2. CASE mt' = mt
      BY <1>1, <3>2 DEF TypeOK
    <3>3. CASE id \in ToSet(mt) /\ mt' = RowsWithout(mt, id)
      <4>1. mt' \in Seq(Ids) /\ Len(mt') = Len(mt) - 1 /\ Len(mt) \in Nat
        BY <1>1, <3>3, RowsLeft, TypesOf
      <4>2. Cardinality(Ids) \in Nat
        BY FS_CardinalityType, MemPoolAssumption DEF MemPoolAssumption
      <4> QED
        BY <1>1, <4>1, <4>2 DEF TypeOK
    <3> QED
      BY <3>1, <3>2, <3>3
  <2> QED
    BY <1>1, <1>20, <2>3, <2>4, <2>5 DEF PoolDestroy, TypeOK, Ends
<1>21. CASE Exit
  BY <1>1, <1>21 DEF Exit, TypeOK, Ends
<1>22. CASE Ended
  BY <1>1, <1>22 DEF Ended, vars, TypeOK
<1> QED
  BY <1>2, <1>3, <1>4, <1>5, <1>6, <1>7, <1>8, <1>9, <1>10, <1>11, <1>12, <1>13,
     <1>14, <1>15, <1>16, <1>17, <1>18, <1>19, <1>20, <1>21, <1>22 DEF Next

-----------------------------------------------------------------------------
(* Where a call is, and the rows.                                          *)

(* The steps behind which no call is under way, or none ever will be.      *)
LEMMA Resting ==
  ASSUME MemPoolInv, Next, pc' \notin Windows
  PROVE  Placed'
BY DEF Placed, Windows

(* Every step of a call leaves it where it finds what it needs next.       *)
LEMMA PlacedStep ==
  ASSUME MemPoolInv, Next
  PROVE  Placed'
<1> USE DEF regs, walk
<1>1. TypeOK /\ Placed
  BY DEF MemPoolInv
<1>2. ASSUME NEW id \in Ids, Alloc(id)
      PROVE  Placed'
  BY <1>2 DEF Alloc, StartAlloc, Placed, HasPool, Windows
<1>3. ASSUME NEW id \in Ids, Eject(id)
      PROVE  Placed'
  <2>1. CASE HasPool(id) /\ mc[id] # << >>
    <3>1. pc' = "rescue" /\ who' = id /\ i' = 1 /\ mc' = mc /\ mt' = mt
      BY <1>3, <2>1 DEF Eject
    <3>2. 1 \in 1 .. Len(mc[id]) + 1
      BY <1>1, TypesOf
    <3> QED
      BY <2>1, <3>1, <3>2 DEF Placed, HasPool
  <2>2. CASE ~(HasPool(id) /\ mc[id] # << >>)
    <3>1. pc' = "idle"
      BY <1>3, <2>2 DEF Eject
    <3> QED
      BY <3>1, Resting DEF Windows
  <2> QED
    BY <2>1, <2>2
<1>4. ASSUME NEW id \in Ids, NEW addr \in Addrs,
             \/ ReallocUnknown(id, addr)
             \/ FreeWithoutPool(id, addr) \/ FreeUnknown(id, addr)
      PROVE  Placed'
  <2>1. pc' \in {"undefined", "aborted", "idle"}
    BY <1>4 DEF ReallocUnknown, FreeWithoutPool, FreeUnknown
  <2> QED
    BY <2>1, Resting DEF Windows
<1>5. ASSUME NEW id \in Ids, NEW addr \in Addrs, ReallocAnew(id, addr)
      PROVE  Placed'
  BY <1>5 DEF ReallocAnew, Placed, HasPool, Windows
<1>6. ASSUME NEW id \in Ids, NEW addr \in Addrs, Realloc(id, addr)
      PROVE  Placed'
  <2>1. Place(mc[id], addr) \in DOMAIN mc[id] /\ mc[id][Place(mc[id], addr)] = addr
    BY <1>1, <1>6, TypesOf, PlaceFound DEF Realloc
  <2>2. /\ pc' = "moved" /\ who' = id /\ mc' = mc /\ mt' = mt
        /\ i' = Place(mc[id], addr) /\ HasPool(id)
        /\ live' = (live \ {addr}) \cup {new'}
    BY <1>6 DEF Realloc
  <2>3. new' \in live' /\ (new' # addr => addr \notin live')
    BY <2>2
  <2> QED
    BY <2>1, <2>2, <2>3 DEF Placed, HasPool
<1>7. ASSUME NEW id \in Ids, NEW addr \in Addrs, Free(id, addr)
      PROVE  Placed'
  <2>1. Place(mc[id], addr) \in 1 .. Len(mc[id]) /\ Len(mc[id]) \in Nat
    BY <1>1, <1>7, TypesOf, PlaceFound DEF Free
  <2>2. /\ pc' = "shift" /\ who' = id /\ mc' = mc /\ mt' = mt
        /\ i' = Place(mc[id], addr) + 1 /\ HasPool(id)
    BY <1>7 DEF Free
  <2>3. i' \in 2 .. Len(mc[id]) + 1
    BY <2>1, <2>2
  <2> QED
    BY <2>2, <2>3 DEF Placed, HasPool
<1>8. CASE NewPool
  <2>1. /\ pc' = "chunks" /\ who' = who /\ who \in Ids /\ users'[who] > 0
        /\ mt' = Append(mt, who)
    BY <1>1, <1>8 DEF NewPool, Placed, Windows
  <2>2. who \in ToSet(mt')
    <3>1. mt \in Seq(Ids) /\ Len(mt) \in Nat
      BY <1>1, <2>1, TypesOf
    <3>2. /\ mt' \in Seq(Ids) /\ Len(mt') = Len(mt) + 1
          /\ mt'[Len(mt) + 1] = who
      BY <2>1, <3>1, AppendProperties
    <3>3. Len(mt) + 1 \in DOMAIN mt'
      BY <3>1, <3>2, SeqFacts
    <3> QED
      BY <3>2, <3>3 DEF ToSet
  <2> QED
    BY <2>1, <2>2 DEF Placed, HasPool
<1>9. CASE Malloc
  BY <1>1, <1>9 DEF Malloc, Placed, HasPool, Windows
<1>10. CASE Commit \/ StoreMoved \/ StoreShrunk \/ DropRow \/ Exit
  <2>1. pc' \in {"idle", "exited"}
    BY <1>10 DEF Commit, StoreMoved, StoreShrunk, DropRow, Exit
  <2> QED
    BY <2>1, Resting DEF Windows
<1>11. CASE ShiftChunk
  <2>1. /\ pc' = "shift" /\ who' = who /\ who \in Ids /\ mt' = mt /\ HasPool(who)
        /\ i \in 2 .. Len(mc[who]) /\ i' = i + 1 /\ Len(mc[who]) \in Nat
        /\ mc' = [mc EXCEPT ![who] = CloseUp(mc[who], i)]
    <3>1. who \in Ids /\ HasPool(who) /\ i \in 2 .. Len(mc[who]) + 1
      BY <1>1, <1>11 DEF ShiftChunk, Placed, Windows
    <3>2. Len(mc[who]) \in Nat
      BY <1>1, <3>1, TypesOf
    <3> QED
      BY <1>11, <3>1, <3>2 DEF ShiftChunk
  <2>2. Len(mc'[who]) = Len(mc[who])
    BY <1>1, <2>1, CloseUpMoves, TypesOf DEF TypeOK
  <2>3. i' \in 2 .. Len(mc'[who]) + 1
    BY <2>1, <2>2
  <2> QED
    BY <2>1, <2>3 DEF Placed, HasPool
<1>12. CASE DropChunk
  BY <1>1, <1>12 DEF DropChunk, Placed, Windows
<1>13. CASE RescueChunk
  <2>1. /\ pc' = "rescue" /\ who' = who /\ who \in Ids /\ mt' = mt /\ HasPool(who)
        /\ i \in 1 .. Len(mc[who]) /\ i' = i + 1 /\ mc' = mc
    BY <1>1, <1>13 DEF RescueChunk, Placed, Windows, TypeOK
  <2>2. i' \in 1 .. Len(mc[who]) + 1
    BY <1>1, <2>1, TypesOf
  <2> QED
    BY <2>1, <2>2 DEF Placed, HasPool
<1>14. CASE FreeChunks
  <2>1. /\ pc' = "close" /\ who' = who /\ who \in Ids /\ mt' = mt /\ HasPool(who)
        /\ i' = Place(mt, who) + 1
    BY <1>1, <1>14 DEF FreeChunks, Placed, Windows
  <2>2. Place(mt, who) \in 1 .. Len(mt) /\ Len(mt) \in Nat
    BY <1>1, <2>1, TypesOf, PlaceFound DEF HasPool
  <2>3. i' \in 2 .. Len(mt) + 1
    BY <2>1, <2>2
  <2> QED
    BY <2>1, <2>3 DEF Placed
<1>15. CASE ShiftRow
  <2>1. /\ pc' = "close" /\ who' = who /\ who \in Ids
        /\ i \in 2 .. Len(mt) /\ i' = i + 1 /\ mt' = CloseUp(mt, i)
    BY <1>1, <1>15 DEF ShiftRow, Placed, Windows, TypeOK
  <2>2. Len(mt') = Len(mt) /\ Len(mt) \in Nat
    BY <1>1, <2>1, CloseUpMoves, TypesOf
  <2>3. i' \in 2 .. Len(mt') + 1
    BY <2>1, <2>2
  <2> QED
    BY <2>1, <2>3 DEF Placed
<1>16. CASE ShrinkTable
  <2>1. /\ pc' = "rows" /\ who' = who /\ who \in Ids /\ mt' = mt
        /\ i \in 2 .. Len(mt) + 1
    BY <1>1, <1>16 DEF ShrinkTable, Placed, Windows
  <2>2. mt # << >>
    BY <1>1, <2>1, TypesOf
  <2> QED
    BY <2>1, <2>2 DEF Placed
<1>17. CASE FreePool
  BY <1>1, <1>17 DEF FreePool, Placed, Windows
<1>18. ASSUME NEW moved \in BOOLEAN, Signal(moved)
      PROVE  Placed'
  <2>1. pc' \in {"unload", "corrupt"}
    BY <1>18 DEF Signal
  <2> QED
    BY <2>1, Resting DEF Windows
<1>19. ASSUME NEW id \in Ids, PoolDestroy(id)
      PROVE  Placed'
  <2>1. pc' \in {"unload", "corrupt"}
    BY <1>19 DEF PoolDestroy
  <2> QED
    BY <2>1, Resting DEF Windows
<1>20. CASE Ended
  BY <1>20, Resting DEF Ended, vars, Ends, Windows
<1> QED
  BY <1>2, <1>3, <1>4, <1>5, <1>6, <1>7, <1>8, <1>9, <1>10, <1>11, <1>12, <1>13,
     <1>14, <1>15, <1>16, <1>17, <1>18, <1>19, <1>20 DEF Next

(* What a step leaves of Running, and whose rows it can touch.             *)
LEMMA RunningBefore ==
  ASSUME Next, Running'
  PROVE  Running /\ ~Exit /\ ~Ended
         /\ (\A moved \in BOOLEAN : ~Signal(moved))
         /\ (\A id \in Ids : ~PoolDestroy(id))
<1>1. pc' \in {"idle"} \cup Windows
  BY DEF Running
<1>2. ~Exit
  BY <1>1 DEF Exit, Windows
<1>3. ~Ended
  BY <1>1 DEF Ended, vars, Ends, Windows
<1>4. ASSUME NEW moved \in BOOLEAN
      PROVE  ~Signal(moved)
  BY <1>1 DEF Signal, Windows
<1>5. ASSUME NEW id \in Ids
      PROVE  ~PoolDestroy(id)
  BY <1>1 DEF PoolDestroy, Windows
<1>6. pc \in {"idle"} \cup Windows
  <2> USE DEF Windows
  <2>1. ASSUME NEW id \in Ids, Alloc(id) \/ Eject(id)
        PROVE  pc \in {"idle"} \cup Windows
    BY <2>1 DEF Alloc, Eject
  <2>2. ASSUME NEW id \in Ids, NEW addr \in Addrs,
               \/ ReallocAnew(id, addr) \/ Realloc(id, addr)
               \/ ReallocUnknown(id, addr) \/ FreeWithoutPool(id, addr)
               \/ FreeUnknown(id, addr) \/ Free(id, addr)
        PROVE  pc \in {"idle"} \cup Windows
    BY <2>2 DEF ReallocAnew, Realloc, ReallocUnknown, FreeWithoutPool, FreeUnknown, Free
  <2>3. CASE \/ NewPool \/ Malloc \/ Commit \/ StoreMoved
             \/ ShiftChunk \/ DropChunk \/ StoreShrunk
             \/ RescueChunk \/ FreeChunks \/ ShiftRow \/ ShrinkTable
             \/ FreePool \/ DropRow
    BY <2>3 DEF NewPool, Malloc, Commit, StoreMoved, ShiftChunk, DropChunk,
                StoreShrunk, RescueChunk, FreeChunks, ShiftRow, ShrinkTable,
                FreePool, DropRow
  <2> QED
    BY <1>2, <1>3, <1>4, <1>5, <2>1, <2>2, <2>3 DEF Next
<1> QED
  BY <1>2, <1>3, <1>4, <1>5, <1>6 DEF Running

(* The steps of a call that leave every row where it is.                   *)
AwayFromRows ==
  \/ \E id \in Ids : Alloc(id) \/ Eject(id)
  \/ \E id \in Ids, addr \in Addrs :
       ReallocAnew(id, addr) \/ Realloc(id, addr) \/ FreeUnknown(id, addr) \/ Free(id, addr)
  \/ Malloc \/ Commit \/ StoreMoved \/ ShiftChunk \/ DropChunk \/ StoreShrunk
  \/ RescueChunk

(* The steps that move rows of the table.                                  *)
LEMMA RowSteps ==
  ASSUME Next, Running'
  PROVE  \/ AwayFromRows
         \/ NewPool \/ FreeChunks \/ ShiftRow \/ ShrinkTable \/ FreePool \/ DropRow
<1>1. ASSUME NEW id \in Ids, NEW addr \in Addrs
      PROVE  ~ReallocUnknown(id, addr) /\ ~FreeWithoutPool(id, addr)
  BY DEF ReallocUnknown, FreeWithoutPool, Running, Windows
<1> QED
  BY <1>1, RunningBefore DEF Next, AwayFromRows

(* The other steps keep the rows as they are.                              *)
LEMMA RowsStay ==
  ASSUME AwayFromRows
  PROVE  mt' = mt /\ \A a : (Row(a) <=> a \in DOMAIN mt) /\ (Row(a)' <=> a \in DOMAIN mt)
<1> DEFINE Still == {"idle", "row", "chunks", "chunk", "moved", "shift", "shrink",
                     "rescue"}
<1>1. mt' = mt /\ pc \in Still /\ pc' \in Still
  <2>1. CASE \E id \in Ids : Alloc(id) \/ Eject(id)
    BY <2>1 DEF Alloc, StartAlloc, Eject
  <2>2. CASE \E id \in Ids, addr \in Addrs :
               \/ ReallocAnew(id, addr) \/ Realloc(id, addr)
               \/ FreeUnknown(id, addr) \/ Free(id, addr)
    BY <2>2 DEF ReallocAnew, Realloc, FreeUnknown, Free
  <2>3. CASE Malloc \/ Commit \/ StoreMoved
    BY <2>3 DEF Malloc, Commit, StoreMoved
  <2>4. CASE ShiftChunk \/ DropChunk \/ StoreShrunk \/ RescueChunk
    BY <2>4 DEF ShiftChunk, DropChunk, StoreShrunk, RescueChunk
  <2> HIDE DEF Still
  <2> QED
    BY <2>1, <2>2, <2>3, <2>4 DEF AwayFromRows
<1> QED
  BY <1>1 DEF Row

(* The steps that move rows, or change which of them count.                *)
LEMMA RowsMove ==
  ASSUME TypeOK, Placed
  PROVE  /\ NewPool =>
              /\ \A a : (Row(a) <=> a \in 1 .. Len(mt))
                     /\ (Row(a)' <=> a \in 1 .. Len(mt) + 1)
              /\ mt'[Len(mt) + 1] = who
              /\ \A a \in 1 .. Len(mt) : mt'[a] = mt[a] /\ mt[a] # who
              /\ mc' = mc /\ users' = users /\ who' = who
         /\ FreeChunks =>
              /\ mt' = mt /\ mc' = mc /\ users' = users /\ who' = who
              /\ mt[Place(mt, who)] = who
              /\ \A a : (Row(a) <=> a \in 1 .. Len(mt))
                     /\ (Row(a)' <=> a \in 1 .. Len(mt) /\ a # Place(mt, who))
         /\ ShiftRow =>
              /\ mc' = mc /\ users' = users /\ who' = who /\ i \in 2 .. Len(mt)
              /\ \A a : (Row(a) <=> a \in 1 .. Len(mt) /\ a # i - 1)
                     /\ (Row(a)' <=> a \in 1 .. Len(mt) /\ a # i)
              /\ \A a \in 1 .. Len(mt) : mt'[a] = IF a = i - 1 THEN mt[i] ELSE mt[a]
         /\ ShrinkTable \/ FreePool =>
              /\ mt' = mt /\ mc' = mc /\ users' = users /\ who' = who
              /\ \A a : Row(a)' <=> Row(a)
         /\ DropRow =>
              /\ who \in Ids /\ mc' = [mc EXCEPT ![who] = << >>] /\ users' = users
              /\ \A a : (Row(a) <=> a \in 1 .. Len(mt) - 1)
                     /\ (Row(a)' <=> a \in 1 .. Len(mt) - 1)
              /\ \A a \in 1 .. Len(mt) - 1 : mt'[a] = mt[a]
<1> USE DEF regs
<1>1. mt \in Seq(Ids) /\ Len(mt) \in Nat /\ DOMAIN mt = 1 .. Len(mt)
  BY SeqFacts DEF TypeOK
<1>2. ASSUME NewPool
      PROVE  /\ \A a : (Row(a) <=> a \in 1 .. Len(mt))
                    /\ (Row(a)' <=> a \in 1 .. Len(mt) + 1)
             /\ mt'[Len(mt) + 1] = who
             /\ \A a \in 1 .. Len(mt) : mt'[a] = mt[a] /\ mt[a] # who
             /\ mc' = mc /\ users' = users /\ who' = who
  <2>1. /\ pc = "row" /\ pc' = "chunks" /\ who \in Ids /\ mt' = Append(mt, who)
        /\ mc' = mc /\ users' = users /\ who' = who
    BY <1>2 DEF NewPool, Placed, Windows
  <2>2. \A a \in DOMAIN mt : mt[a] # who
    BY <2>1 DEF Placed, HasPool, ToSet
  <2>3. /\ mt' \in Seq(Ids) /\ Len(mt') = Len(mt) + 1
        /\ mt'[Len(mt) + 1] = who
        /\ \A a \in 1 .. Len(mt) : mt'[a] = mt[a]
    BY <1>1, <2>1, AppendProperties
  <2>4. DOMAIN mt' = 1 .. Len(mt) + 1
    BY <2>3, SeqFacts
  <2>5. \A a : (Row(a) <=> a \in DOMAIN mt) /\ (Row(a)' <=> a \in DOMAIN mt')
    BY <2>1 DEF Row
  <2> QED
    BY <1>1, <2>1, <2>2, <2>3, <2>4, <2>5
<1>3. ASSUME FreeChunks
      PROVE  /\ mt' = mt /\ mc' = mc /\ users' = users /\ who' = who
             /\ mt[Place(mt, who)] = who
             /\ \A a : (Row(a) <=> a \in 1 .. Len(mt))
                    /\ (Row(a)' <=> a \in 1 .. Len(mt) /\ a # Place(mt, who))
  <2>1. /\ pc = "rescue" /\ pc' = "close" /\ who \in Ids /\ HasPool(who)
        /\ mt' = mt /\ mc' = mc /\ users' = users /\ who' = who
        /\ i' = Place(mt, who) + 1
    BY <1>3 DEF FreeChunks, Placed, Windows
  <2>2. Place(mt, who) \in 1 .. Len(mt) /\ mt[Place(mt, who)] = who
    BY <1>1, <2>1, PlaceFound DEF HasPool
  <2>3. i' - 1 = Place(mt, who)
    BY <2>1, <2>2
  <2>4. \A a : (Row(a) <=> a \in DOMAIN mt)
            /\ (Row(a)' <=> a \in DOMAIN mt /\ a # i' - 1)
    BY <2>1 DEF Row
  <2> QED
    BY <1>1, <2>1, <2>2, <2>3, <2>4
<1>4. ASSUME ShiftRow
      PROVE  /\ mc' = mc /\ users' = users /\ who' = who /\ i \in 2 .. Len(mt)
             /\ \A a : (Row(a) <=> a \in 1 .. Len(mt) /\ a # i - 1)
                    /\ (Row(a)' <=> a \in 1 .. Len(mt) /\ a # i)
             /\ \A a \in 1 .. Len(mt) : mt'[a] = IF a = i - 1 THEN mt[i] ELSE mt[a]
  <2>1. /\ pc = "close" /\ pc' = "close" /\ i \in 2 .. Len(mt) + 1 /\ i <= Len(mt)
        /\ mt' = CloseUp(mt, i) /\ i' = i + 1
        /\ mc' = mc /\ users' = users /\ who' = who
    BY <1>4 DEF ShiftRow, Placed, Windows
  <2>2. i \in 2 .. Len(mt) /\ i' - 1 = i
    BY <1>1, <2>1
  <2>3. /\ mt' \in Seq(Ids) /\ Len(mt') = Len(mt)
        /\ \A a \in 1 .. Len(mt) : mt'[a] = IF a = i - 1 THEN mt[i] ELSE mt[a]
    BY <1>1, <2>1, <2>2, CloseUpMoves
  <2>4. DOMAIN mt' = 1 .. Len(mt)
    BY <2>3, SeqFacts
  <2>5. \A a : (Row(a) <=> a \in DOMAIN mt /\ a # i - 1)
            /\ (Row(a)' <=> a \in DOMAIN mt' /\ a # i' - 1)
    BY <2>1 DEF Row
  <2> QED
    BY <1>1, <2>1, <2>2, <2>3, <2>4, <2>5
<1>5. ASSUME ShrinkTable \/ FreePool
      PROVE  /\ mt' = mt /\ mc' = mc /\ users' = users /\ who' = who
             /\ \A a : Row(a)' <=> Row(a)
  <2>1. mt' = mt /\ mc' = mc /\ users' = users /\ who' = who
    BY <1>5 DEF ShrinkTable, FreePool
  <2>2. CASE ShrinkTable
    <3>1. /\ pc = "close" /\ pc' = "rows" /\ i \in 2 .. Len(mt) + 1 /\ i > Len(mt)
      BY <2>2 DEF ShrinkTable, Placed
    <3>2. i - 1 = Len(mt)
      BY <1>1, <3>1
    <3> QED
      BY <2>1, <3>1, <3>2 DEF Row
  <2>3. CASE FreePool
    <3>1. pc = "rows" /\ pc' = "last"
      BY <2>3 DEF FreePool
    <3> QED
      BY <2>1, <3>1 DEF Row
  <2> QED
    BY <1>5, <2>2, <2>3
<1>6. ASSUME DropRow
      PROVE  /\ who \in Ids /\ mc' = [mc EXCEPT ![who] = << >>] /\ users' = users
             /\ \A a : (Row(a) <=> a \in 1 .. Len(mt) - 1)
                    /\ (Row(a)' <=> a \in 1 .. Len(mt) - 1)
             /\ \A a \in 1 .. Len(mt) - 1 : mt'[a] = mt[a]
  <2>1. /\ pc = "last" /\ pc' = "idle" /\ who \in Ids /\ mt # << >>
        /\ mt' = DropLast(mt)
        /\ mc' = [mc EXCEPT ![who] = << >>] /\ users' = users
    BY <1>6 DEF DropRow, Placed, Windows
  <2>2. /\ mt' \in Seq(Ids) /\ Len(mt') = Len(mt) - 1 /\ Len(mt) \in Nat \ {0}
        /\ \A a \in 1 .. Len(mt) - 1 : mt'[a] = mt[a]
    BY <1>1, <2>1, DropLastKeeps
  <2>3. DOMAIN mt' = 1 .. Len(mt) - 1
    BY <2>2, SeqFacts
  <2>4. \A a : (Row(a) <=> a \in DOMAIN mt /\ a # Len(mt))
            /\ (Row(a)' <=> a \in DOMAIN mt')
    BY <2>1 DEF Row
  <2> QED
    BY <1>1, <2>1, <2>2, <2>3, <2>4
<1> QED
  BY <1>2, <1>3, <1>4, <1>5, <1>6

(* No step lists a plugin twice.                                           *)
LEMMA OneRowStep ==
  ASSUME MemPoolInv, Next
  PROVE  OneRow'
<1> SUFFICES ASSUME Running',
                    NEW a, NEW b, Row(a)', Row(b)', mt'[a] = mt'[b]
             PROVE  a = b
  BY DEF OneRow
<1>1. TypeOK /\ Placed
  BY DEF MemPoolInv
<1>2. \A c, d : Row(c) /\ Row(d) /\ mt[c] = mt[d] => c = d
  BY RunningBefore DEF MemPoolInv, OneRow, Row
<1>3. CASE AwayFromRows
  BY <1>2, <1>3, RowsStay
<1>4. CASE NewPool
  <2>1. Len(mt) \in Nat
    BY <1>1, SeqFacts DEF TypeOK
  <2> QED
    BY <1>1, <1>2, <1>4, <2>1, RowsMove
<1>5. CASE FreeChunks
  BY <1>1, <1>2, <1>5, RowsMove
<1>6. CASE ShiftRow
  <2> DEFINE f(c) == IF c = i - 1 THEN i ELSE c
  <2>1. /\ i \in 2 .. Len(mt) /\ a \in 1 .. Len(mt) /\ b \in 1 .. Len(mt)
        /\ a # i /\ b # i
        /\ mt'[a] = mt[f(a)] /\ mt'[b] = mt[f(b)]
    BY <1>1, <1>6, RowsMove
  <2>2. Row(f(a)) /\ Row(f(b))
    BY <1>1, <1>6, <2>1, RowsMove
  <2>3. f(a) = f(b)
    <3> HIDE DEF f
    <3> QED
      BY <1>2, <2>1, <2>2
  <2> QED
    BY <2>1, <2>3
<1>7. CASE ShrinkTable \/ FreePool \/ DropRow
  BY <1>1, <1>2, <1>7, RowsMove
<1> QED
  BY <1>3, <1>4, <1>5, <1>6, <1>7, RowSteps

(* No step leaves chunks of a plugin that is not listed.                   *)
LEMMA PooledStep ==
  ASSUME MemPoolInv, Next
  PROVE  Pooled'
<1> USE DEF regs, walk
<1> SUFFICES ASSUME Running',
                    NEW id \in Ids, mc'[id] # << >>, ~(id = who' /\ Ejecting')
             PROVE  users'[id] > 0 /\ \E a \in DOMAIN mt' : Row(a)' /\ mt'[a] = id
  BY DEF Pooled
<1>1. TypeOK /\ Placed /\ mc \in [Ids -> Seq(Addrs)]
  BY DEF MemPoolInv, TypeOK
<1>2. mc[id] # << >> /\ ~(id = who /\ Ejecting) =>
        users[id] > 0 /\ \E a : Row(a) /\ mt[a] = id
  BY RunningBefore DEF MemPoolInv, Pooled
<1>3. SUFFICES users'[id] > 0 /\ \E a : Row(a)' /\ mt'[a] = id
  BY DEF Row
<1>4. CASE AwayFromRows
  <2>1. mt' = mt /\ \A a : Row(a) <=> Row(a)'
    BY <1>4, RowsStay
  <2>2. HasPool(id) => \E a : Row(a)' /\ mt'[a] = id
    BY <1>4, RowsStay DEF HasPool, ToSet
  <2> DEFINE Stays == mc[id] # << >> /\ ~(id = who /\ Ejecting) /\ users'[id] = users[id]
             Found == users'[id] > 0 /\ HasPool(id)
  <2>3. SUFFICES Stays \/ Found
    BY <1>2, <2>1, <2>2
  <2>4. ASSUME NEW jd \in Ids, Alloc(jd)
        PROVE  Stays \/ Found
    BY <2>4 DEF Alloc, StartAlloc, Ejecting
  <2>5. ASSUME NEW jd \in Ids, Eject(jd)
        PROVE  Stays \/ Found
    <3>1. /\ pc = "idle" /\ mc' = mc /\ users' = [users EXCEPT ![jd] = @ - 1]
          /\ \/ HasPool(jd) /\ mc[jd] # << >> /\ pc' = "rescue" /\ who' = jd
             \/ ~(HasPool(jd) /\ mc[jd] # << >>)
      BY <2>5 DEF Eject, Unlisted
    <3>2. mc[id] # << >> /\ ~(id = who /\ Ejecting)
      BY <3>1 DEF Ejecting
    <3>3. HasPool(id)
      BY <1>2, <3>2 DEF Row, HasPool, ToSet
    <3>4. id # jd
      BY <3>1, <3>2, <3>3 DEF Ejecting
    <3> QED
      BY <1>1, <3>1, <3>2, <3>4 DEF TypeOK
  <2>6. ASSUME NEW jd \in Ids, NEW addr \in Addrs,
               \/ ReallocAnew(jd, addr) \/ Realloc(jd, addr)
               \/ FreeUnknown(jd, addr) \/ Free(jd, addr)
        PROVE  Stays \/ Found
    BY <2>6 DEF ReallocAnew, Realloc, FreeUnknown, Free, Ejecting
  <2>7. CASE Malloc \/ StoreShrunk
    BY <2>7 DEF Malloc, StoreShrunk, Ejecting
  <2>8. CASE Commit
    <3>1. /\ who \in Ids /\ users[who] > 0 /\ HasPool(who) /\ pc = "chunk"
          /\ mc' = [mc EXCEPT ![who] = Append(mc[who], new)] /\ users' = users
      BY <1>1, <2>8 DEF Commit, Placed, Windows
    <3> QED
      BY <1>1, <3>1 DEF Ejecting
  <2>9. CASE StoreMoved
    <3>1. /\ who \in Ids /\ pc = "moved" /\ users' = users /\ i \in DOMAIN mc[who]
          /\ mc' = [mc EXCEPT ![who] = [mc[who] EXCEPT ![i] = new]]
      BY <1>1, <2>9 DEF StoreMoved, Placed, Windows
    <3>2. mc[who] # << >>
      BY <1>1, <3>1, TypesOf
    <3> QED
      BY <1>1, <3>1, <3>2 DEF Ejecting
  <2>10. CASE ShiftChunk \/ DropChunk
    <3>1. /\ who \in Ids /\ pc = "shift" /\ users' = users
          /\ i \in 2 .. Len(mc[who]) + 1
          /\ \A jd \in Ids : jd # who => mc'[jd] = mc[jd]
      BY <1>1, <2>10 DEF ShiftChunk, DropChunk, Placed, Windows
    <3>2. mc[who] # << >>
      BY <1>1, <3>1, TypesOf
    <3> QED
      BY <3>1, <3>2 DEF Ejecting
  <2>11. CASE RescueChunk
    BY <2>11 DEF RescueChunk, Ejecting
  <2> QED
    BY <1>4, <2>4, <2>5, <2>6, <2>7, <2>8, <2>9, <2>10, <2>11 DEF AwayFromRows
<1>5. CASE NewPool
  <2>1. pc = "row" /\ Len(mt) \in Nat
    BY <1>1, <1>5, SeqFacts DEF NewPool, TypeOK
  <2>2. PICK a : Row(a) /\ mt[a] = id /\ users[id] > 0
    BY <1>1, <1>2, <1>5, <2>1, RowsMove DEF Ejecting
  <2>3. Row(a)' /\ mt'[a] = id /\ users'[id] > 0
    BY <1>1, <1>5, <2>1, <2>2, RowsMove
  <2> QED
    BY <2>3
<1>6. CASE FreeChunks
  <2>1. id # who /\ mc[id] # << >>
    BY <1>6 DEF FreeChunks, Ejecting
  <2>2. PICK a : Row(a) /\ mt[a] = id /\ users[id] > 0
    BY <1>2, <2>1
  <2>3. Row(a)' /\ mt'[a] = id /\ users'[id] > 0
    BY <1>1, <1>6, <2>1, <2>2, RowsMove
  <2> QED
    BY <2>3
<1>7. CASE ShiftRow
  <2>1. id # who /\ mc[id] # << >>
    BY <1>7 DEF ShiftRow, Ejecting
  <2>2. PICK a : Row(a) /\ mt[a] = id /\ users[id] > 0
    BY <1>2, <2>1
  <2>3. /\ users' = users /\ i \in 2 .. Len(mt) /\ a \in 1 .. Len(mt) /\ a # i - 1
        /\ \A c : Row(c)' <=> c \in 1 .. Len(mt) /\ c # i
        /\ \A c \in 1 .. Len(mt) : mt'[c] = IF c = i - 1 THEN mt[i] ELSE mt[c]
    BY <1>1, <1>7, <2>2, RowsMove
  <2>4. \E b \in 1 .. Len(mt) : b # i /\ mt'[b] = mt[a]
    <3>1. CASE a = i
      <4>1. i - 1 \in 1 .. Len(mt) /\ i - 1 # i
        BY <2>3
      <4> QED
        BY <2>3, <3>1, <4>1
    <3>2. CASE a # i
      BY <2>3, <3>2
    <3> QED
      BY <3>1, <3>2
  <2> QED
    BY <2>2, <2>3, <2>4
<1>8. CASE ShrinkTable \/ FreePool
  <2>1. id # who /\ mc[id] # << >>
    BY <1>8 DEF ShrinkTable, FreePool, Ejecting
  <2>2. PICK a : Row(a) /\ mt[a] = id /\ users[id] > 0
    BY <1>2, <2>1
  <2>3. Row(a)' /\ mt'[a] = id /\ users'[id] > 0
    BY <1>1, <1>8, <2>2, RowsMove
  <2> QED
    BY <2>3
<1>9. CASE DropRow
  <2>1. id # who /\ mc[id] # << >>
    BY <1>1, <1>9, RowsMove
  <2>2. PICK a : Row(a) /\ mt[a] = id /\ users[id] > 0
    BY <1>2, <2>1
  <2>3. Row(a)' /\ mt'[a] = id /\ users'[id] > 0
    BY <1>1, <1>9, <2>2, RowsMove
  <2> QED
    BY <2>3
<1> QED
  BY <1>4, <1>5, <1>6, <1>7, <1>8, <1>9, RowSteps

-----------------------------------------------------------------------------
(* The slots.  Most steps leave them alone, if not the arrays they are in. *)

AwayFromSlots ==
  \/ \E id \in Ids : Alloc(id) \/ Eject(id)
  \/ \E id \in Ids, addr \in Addrs : ReallocAnew(id, addr) \/ FreeUnknown(id, addr)
  \/ NewPool \/ DropChunk \/ StoreShrunk
  \/ FreeChunks \/ ShiftRow \/ ShrinkTable \/ FreePool \/ DropRow

(* The steps that move chunks or blocks.                                   *)
LEMMA SlotSteps ==
  ASSUME Next, Running'
  PROVE  \/ AwayFromSlots
         \/ \E id \in Ids, addr \in Addrs : Realloc(id, addr) \/ Free(id, addr)
         \/ Malloc \/ Commit \/ StoreMoved \/ ShiftChunk \/ RescueChunk
<1>1. ASSUME NEW id \in Ids, NEW addr \in Addrs
      PROVE  ~ReallocUnknown(id, addr) /\ ~FreeWithoutPool(id, addr)
  BY DEF ReallocUnknown, FreeWithoutPool, Running, Windows
<1> QED
  BY <1>1, RunningBefore DEF Next, AwayFromSlots

(* The other steps keep the slots as they are.                             *)
LEMMA SlotsStay ==
  ASSUME TypeOK, Placed, AwayFromSlots
  PROVE  /\ live' = live
         /\ \A x : ~InFlight(x) /\ ~InFlight(x)'
         /\ \A id \in Ids : \A a : /\ Slot(id, a)' <=> Slot(id, a)
                                   /\ Slot(id, a) => mc'[id][a] = mc[id][a]
<1> USE DEF regs, walk
<1>1. /\ mc \in [Ids -> Seq(Addrs)]
      /\ \A id \in Ids : Len(mc[id]) \in Nat /\ DOMAIN mc[id] = 1 .. Len(mc[id])
  BY TypesOf DEF TypeOK
<1>2. live' = live
  BY DEF AwayFromSlots, Alloc, StartAlloc, Eject, ReallocAnew, FreeUnknown, NewPool,
         DropChunk, StoreShrunk, FreeChunks, ShiftRow, ShrinkTable, FreePool, DropRow
<1>3. /\ pc \notin {"chunk", "moved"} /\ pc' \notin {"chunk", "moved"}
  BY DEF AwayFromSlots, Alloc, StartAlloc, Eject, ReallocAnew, FreeUnknown, NewPool,
         DropChunk, StoreShrunk, FreeChunks, ShiftRow, ShrinkTable, FreePool, DropRow
<1>4. \A x : ~InFlight(x) /\ ~InFlight(x)'
  BY <1>3 DEF InFlight
<1> DEFINE Kept == \A id \in Ids : \A a : /\ Slot(id, a)' <=> Slot(id, a)
                                          /\ Slot(id, a) => mc'[id][a] = mc[id][a]
           Whole == {"idle", "row", "chunks", "shrink"}
<1>5. SUFFICES Kept
  <2> HIDE DEF Kept
  <2> QED
    BY <1>2, <1>4 DEF Kept
<1>6. ASSUME mc' = mc, pc \in Whole, pc' \in Whole
      PROVE  Kept
  BY <1>6 DEF Slot
<1>7. ASSUME NEW jd \in Ids, Alloc(jd)
      PROVE  Kept
  <2>1. mc' = mc /\ pc \in Whole /\ pc' \in Whole
    BY <1>7 DEF Alloc, StartAlloc
  <2> QED
    BY <1>6, <2>1
<1>8. ASSUME NEW jd \in Ids, Eject(jd)
      PROVE  Kept
  <2>1. CASE pc' = "rescue"
    <3>1. /\ pc = "idle" /\ pc' = "rescue" /\ mc' = mc /\ i' = 1
      BY <1>8, <2>1 DEF Eject
    <3>2. \A id \in Ids : \A a \in DOMAIN mc[id] : a >= 1
      BY <1>1
    <3> QED
      BY <3>1, <3>2 DEF Slot
  <2>2. CASE pc' # "rescue"
    <3>1. mc' = mc /\ pc \in Whole /\ pc' \in Whole
      BY <1>8, <2>2 DEF Eject
    <3> QED
      BY <1>6, <3>1
  <2> QED
    BY <2>1, <2>2
<1>9. ASSUME NEW jd \in Ids, NEW addr \in Addrs,
             ReallocAnew(jd, addr) \/ FreeUnknown(jd, addr)
      PROVE  Kept
  <2>1. mc' = mc /\ pc \in Whole /\ pc' \in Whole
    BY <1>9 DEF ReallocAnew, FreeUnknown
  <2> QED
    BY <1>6, <2>1
<1>10. CASE NewPool \/ StoreShrunk
  <2>1. mc' = mc /\ pc \in Whole /\ pc' \in Whole
    BY <1>10 DEF NewPool, StoreShrunk
  <2> QED
    BY <1>6, <2>1
<1>11. CASE DropChunk
  <2>1. /\ pc = "shift" /\ pc' = "shrink" /\ who' = who /\ who \in Ids
        /\ i \in 2 .. Len(mc[who]) + 1 /\ i > Len(mc[who])
        /\ mc' = [mc EXCEPT ![who] = DropLast(mc[who])]
    BY <1>11 DEF DropChunk, Placed, Windows
  <2>2. i - 1 = Len(mc[who]) /\ mc[who] # << >> /\ mc[who] \in Seq(Addrs)
    BY <1>1, <2>1, TypesOf
  <2>3. /\ mc'[who] = DropLast(mc[who])
        /\ \A id \in Ids : id # who => mc'[id] = mc[id]
    BY <1>1, <2>1
  <2>4. /\ DOMAIN mc'[who] = 1 .. Len(mc[who]) - 1
        /\ \A a \in 1 .. Len(mc[who]) - 1 : mc'[who][a] = mc[who][a]
    BY <2>2, <2>3, DropLastKeeps, SeqFacts
  <2>5. \A a : Slot(who, a) <=> a \in 1 .. Len(mc[who]) - 1
    BY <1>1, <2>1, <2>2 DEF Slot
  <2>6. \A a : Slot(who, a)' <=> a \in 1 .. Len(mc[who]) - 1
    BY <2>1, <2>4 DEF Slot
  <2>7. \A id \in Ids : \A a : id # who => (Slot(id, a)' <=> Slot(id, a))
    BY <2>1, <2>3 DEF Slot
  <2> QED
    BY <2>1, <2>3, <2>4, <2>5, <2>6, <2>7
<1>12. CASE FreeChunks
  <2>1. /\ pc = "rescue" /\ pc' = "close" /\ who' = who /\ who \in Ids /\ mc' = mc
        /\ i > Len(mc[who]) /\ i \in Nat
    BY <1>12 DEF FreeChunks, Placed, Windows, TypeOK
  <2>2. \A a \in DOMAIN mc[who] : ~(a >= i)
    BY <1>1, <2>1
  <2> QED
    BY <2>1, <2>2 DEF Slot
<1>13. CASE ShiftRow \/ ShrinkTable \/ FreePool
  <2>1. /\ pc \in {"close", "rows", "last"} /\ pc' \in {"close", "rows", "last"}
        /\ who' = who /\ mc' = mc
    BY <1>13 DEF ShiftRow, ShrinkTable, FreePool
  <2> QED
    BY <2>1 DEF Slot
<1>14. CASE DropRow
  <2>1. /\ pc = "last" /\ pc' = "idle" /\ who \in Ids
        /\ mc' = [mc EXCEPT ![who] = << >>]
    BY <1>14 DEF DropRow, Placed, Windows
  <2>2. DOMAIN mc'[who] = {} /\ \A id \in Ids : id # who => mc'[id] = mc[id]
    <3>1. mc'[who] = << >>
      BY <1>1, <2>1
    <3>2. DOMAIN << >> = {}
      OBVIOUS
    <3> QED
      BY <1>1, <2>1, <3>1, <3>2
  <2> QED
    BY <2>1, <2>2 DEF Slot
<1> QED
  BY <1>7, <1>8, <1>9, <1>10, <1>11, <1>12, <1>13, <1>14 DEF AwayFromSlots

(* What the others do with them: a slot moves, opens or is vacated, and    *)
(* the block in it is handed on or freed.                                  *)
LEMMA MallocSlots ==
  ASSUME Malloc
  PROVE  /\ mc' = mc /\ live' = live \cup {new'} /\ new' \notin live
         /\ \A x : ~InFlight(x) /\ (InFlight(x)' <=> x = new')
         /\ \A id, a : Slot(id, a)' <=> Slot(id, a)
<1>1. /\ pc = "chunks" /\ pc' = "chunk" /\ mc' = mc /\ who' = who
      /\ new' \in Addrs \ live /\ live' = live \cup {new'}
  BY DEF Malloc
<1> QED
  BY <1>1 DEF Slot, InFlight

(* malloc stores its block in a new slot at the end.                       *)
LEMMA CommitSlots ==
  ASSUME TypeOK, Placed, Commit
  PROVE  /\ live' = live /\ who \in Ids
         /\ \A x : (InFlight(x) <=> x = new) /\ ~InFlight(x)'
         /\ \A id \in Ids : \A a : Slot(id, a) <=> a \in DOMAIN mc[id]
         /\ \A id \in Ids : \A a : id # who =>
              mc'[id] = mc[id] /\ (Slot(id, a)' <=> Slot(id, a))
         /\ Len(mc[who]) \in Nat /\ DOMAIN mc[who] = 1 .. Len(mc[who])
         /\ \A id \in Ids : \A a : id = who =>
              (Slot(id, a)' <=> a \in 1 .. Len(mc[who]) + 1)
         /\ \A a \in 1 .. Len(mc[who]) : mc'[who][a] = mc[who][a]
         /\ mc'[who][Len(mc[who]) + 1] = new
<1>1. /\ pc = "chunk" /\ pc' = "idle" /\ live' = live /\ who \in Ids
      /\ mc' = [mc EXCEPT ![who] = Append(mc[who], new)]
      /\ new \in live
  BY DEF Commit, Placed, Windows
<1>2. /\ mc'[who] = Append(mc[who], new)
      /\ \A id \in Ids : id # who => mc'[id] = mc[id]
  BY <1>1 DEF TypeOK
<1>3. /\ mc[who] \in Seq(Addrs) /\ new \in Addrs
      /\ Len(mc[who]) \in Nat /\ DOMAIN mc[who] = 1 .. Len(mc[who])
  BY <1>1, TypesOf DEF TypeOK
<1>4. /\ mc'[who] \in Seq(Addrs) /\ Len(mc'[who]) = Len(mc[who]) + 1
      /\ \A a \in 1 .. Len(mc[who]) : mc'[who][a] = mc[who][a]
      /\ mc'[who][Len(mc[who]) + 1] = new
  BY <1>2, <1>3, AppendProperties
<1>5. DOMAIN mc'[who] = 1 .. Len(mc[who]) + 1
  BY <1>4, SeqFacts
<1>6. \A x : (InFlight(x) <=> x = new) /\ ~InFlight(x)'
  BY <1>1 DEF InFlight
<1>7. \A id, a : (Slot(id, a) <=> a \in DOMAIN mc[id])
              /\ (Slot(id, a)' <=> a \in DOMAIN mc'[id])
  BY <1>1 DEF Slot
<1>8. /\ \A id \in Ids : \A a : Slot(id, a) <=> a \in DOMAIN mc[id]
      /\ \A id \in Ids : \A a : id # who =>
           mc'[id] = mc[id] /\ (Slot(id, a)' <=> Slot(id, a))
  BY <1>2, <1>7
<1>9. \A id \in Ids : \A a : id = who =>
        (Slot(id, a)' <=> a \in 1 .. Len(mc[who]) + 1)
  BY <1>5, <1>7
<1> QED
  BY <1>1, <1>3, <1>4, <1>6, <1>8, <1>9

(* realloc takes a slot away, and has its block in flight.                 *)
LEMMA ReallocSlots ==
  ASSUME TypeOK, NEW id \in Ids, NEW addr \in Addrs, Realloc(id, addr)
  PROVE  /\ mc' = mc /\ live' = (live \ {addr}) \cup {new'}
         /\ who' = id /\ pc' = "moved" /\ pc = "idle"
         /\ new' \in (Addrs \ live) \cup {addr}
         /\ i' \in DOMAIN mc[id] /\ mc[id][i'] = addr
         /\ \A x : ~InFlight(x) /\ (InFlight(x)' <=> x = new')
         /\ \A jd, a : Slot(jd, a) <=> a \in DOMAIN mc[jd]
         /\ \A jd, a : Slot(jd, a)' <=> a \in DOMAIN mc[jd] /\ ~(jd = id /\ a = i')
<1>1. /\ pc = "idle" /\ pc' = "moved" /\ mc' = mc /\ who' = id
      /\ live' = (live \ {addr}) \cup {new'} /\ new' \in (Addrs \ live) \cup {addr}
  BY DEF Realloc
<1>2. i' \in DOMAIN mc[id] /\ mc[id][i'] = addr
  <2>1. mc[id] \in Seq(Addrs) /\ addr \in ToSet(mc[id]) /\ i' = Place(mc[id], addr)
    BY TypesOf DEF Realloc
  <2> QED
    BY <2>1, PlaceFound
<1> QED
  BY <1>1, <1>2 DEF Slot, InFlight

(* realloc gives the slot back, with the block it has been given.          *)
LEMMA StoreMovedSlots ==
  ASSUME TypeOK, Placed, StoreMoved
  PROVE  /\ live' = live /\ who \in Ids /\ i \in DOMAIN mc[who] /\ pc = "moved"
         /\ \A x : (InFlight(x) <=> x = new) /\ ~InFlight(x)'
         /\ \A jd \in Ids : \A a :
              Slot(jd, a) <=> a \in DOMAIN mc[jd] /\ ~(jd = who /\ a = i)
         /\ \A jd \in Ids : \A a : Slot(jd, a)' <=> a \in DOMAIN mc[jd]
         /\ \A jd \in Ids : \A a \in DOMAIN mc[jd] :
              mc'[jd][a] = IF jd = who /\ a = i THEN new ELSE mc[jd][a]
<1>1. /\ pc = "moved" /\ pc' = "idle" /\ live' = live /\ who \in Ids
      /\ i \in DOMAIN mc[who]
      /\ mc' = [mc EXCEPT ![who] = [mc[who] EXCEPT ![i] = new]]
  BY DEF StoreMoved, Placed, Windows
<1>2. /\ mc'[who] = [mc[who] EXCEPT ![i] = new]
      /\ \A jd \in Ids : jd # who => mc'[jd] = mc[jd]
  BY <1>1 DEF TypeOK
<1>3. /\ DOMAIN mc'[who] = DOMAIN mc[who]
      /\ \A a \in DOMAIN mc[who] : mc'[who][a] = IF a = i THEN new ELSE mc[who][a]
  BY <1>2
<1>4. \A jd, a : (Slot(jd, a) <=> a \in DOMAIN mc[jd] /\ ~(jd = who /\ a = i))
              /\ (Slot(jd, a)' <=> a \in DOMAIN mc'[jd])
  BY <1>1 DEF Slot
<1>5. \A x : (InFlight(x) <=> x = new) /\ ~InFlight(x)'
  BY <1>1 DEF InFlight
<1> QED
  BY <1>1, <1>2, <1>3, <1>4, <1>5

(* free takes a slot away, with its block.                                 *)
LEMMA FreeSlots ==
  ASSUME TypeOK, NEW id \in Ids, NEW addr \in Addrs, Free(id, addr)
  PROVE  /\ mc' = mc /\ live' = live \ {addr}
         /\ who' = id /\ pc' = "shift" /\ pc = "idle"
         /\ i' - 1 \in DOMAIN mc[id] /\ mc[id][i' - 1] = addr
         /\ \A x : ~InFlight(x) /\ ~InFlight(x)'
         /\ \A jd, a : Slot(jd, a) <=> a \in DOMAIN mc[jd]
         /\ \A jd, a : Slot(jd, a)' <=> a \in DOMAIN mc[jd] /\ ~(jd = id /\ a = i' - 1)
<1>1. /\ pc = "idle" /\ pc' = "shift" /\ mc' = mc /\ who' = id
      /\ live' = live \ {addr}
  BY DEF Free
<1>2. i' - 1 \in DOMAIN mc[id] /\ mc[id][i' - 1] = addr
  <2>1. mc[id] \in Seq(Addrs) /\ addr \in ToSet(mc[id]) /\ i' = Place(mc[id], addr) + 1
    BY TypesOf DEF Free
  <2>2. Place(mc[id], addr) \in DOMAIN mc[id] /\ mc[id][Place(mc[id], addr)] = addr
    BY <2>1, PlaceFound
  <2>3. Place(mc[id], addr) \in Nat
    BY <2>1, <2>2, SeqFacts
  <2>4. i' - 1 = Place(mc[id], addr)
    BY <2>1, <2>3
  <2> QED
    BY <2>2, <2>4
<1> QED
  BY <1>1, <1>2 DEF Slot, InFlight

(* free moves the gap up by one.                                           *)
LEMMA ShiftChunkSlots ==
  ASSUME TypeOK, Placed, ShiftChunk
  PROVE  /\ live' = live /\ who \in Ids /\ who' = who /\ pc = "shift" /\ pc' = "shift"
         /\ i \in 2 .. Len(mc[who])
         /\ \A x : ~InFlight(x) /\ ~InFlight(x)'
         /\ DOMAIN mc[who] = 1 .. Len(mc[who]) /\ Len(mc[who]) \in Nat
         /\ \A jd \in Ids : \A a : jd # who =>
              mc'[jd] = mc[jd] /\ (Slot(jd, a)' <=> Slot(jd, a))
         /\ \A a : Slot(who, a) <=> a \in 1 .. Len(mc[who]) /\ a # i - 1
         /\ \A jd \in Ids : \A a : jd = who =>
              (Slot(jd, a)' <=> a \in 1 .. Len(mc[who]) /\ a # i)
         /\ \A a \in 1 .. Len(mc[who]) :
              mc'[who][a] = IF a = i - 1 THEN mc[who][i] ELSE mc[who][a]
<1>1. /\ pc = "shift" /\ pc' = "shift" /\ live' = live /\ who \in Ids /\ who' = who
      /\ i \in 2 .. Len(mc[who]) + 1 /\ i <= Len(mc[who]) /\ i' = i + 1
      /\ mc' = [mc EXCEPT ![who] = CloseUp(mc[who], i)]
  BY DEF ShiftChunk, Placed, Windows
<1>2. /\ mc'[who] = CloseUp(mc[who], i)
      /\ \A jd \in Ids : jd # who => mc'[jd] = mc[jd]
  BY <1>1 DEF TypeOK
<1>3. /\ mc[who] \in Seq(Addrs) /\ Len(mc[who]) \in Nat
      /\ DOMAIN mc[who] = 1 .. Len(mc[who])
      /\ i \in 2 .. Len(mc[who]) /\ i' - 1 = i
  BY <1>1, TypesOf
<1>4. /\ mc'[who] \in Seq(Addrs) /\ Len(mc'[who]) = Len(mc[who])
      /\ \A a \in 1 .. Len(mc[who]) :
           mc'[who][a] = IF a = i - 1 THEN mc[who][i] ELSE mc[who][a]
  BY <1>2, <1>3, CloseUpMoves
<1>5. DOMAIN mc'[who] = 1 .. Len(mc[who])
  BY <1>4, SeqFacts
<1>6. \A jd, a : (Slot(jd, a) <=> a \in DOMAIN mc[jd] /\ (jd = who => a # i - 1))
              /\ (Slot(jd, a)' <=> a \in DOMAIN mc'[jd] /\ (jd = who => a # i' - 1))
  BY <1>1 DEF Slot
<1>7. \A x : ~InFlight(x) /\ ~InFlight(x)'
  BY <1>1 DEF InFlight
<1>8. \A jd \in Ids : \A a : jd # who =>
        mc'[jd] = mc[jd] /\ (Slot(jd, a)' <=> Slot(jd, a))
  BY <1>2, <1>6
<1>9. \A a : Slot(who, a) <=> a \in 1 .. Len(mc[who]) /\ a # i - 1
  BY <1>3, <1>6
<1>10. \A jd \in Ids : \A a : jd = who =>
         (Slot(jd, a)' <=> a \in 1 .. Len(mc[who]) /\ a # i)
  BY <1>3, <1>5, <1>6
<1> QED
  BY <1>1, <1>3, <1>4, <1>7, <1>8, <1>9, <1>10

(* The ejection of an element frees one block, and its slot goes.          *)
LEMMA RescueChunkSlots ==
  ASSUME TypeOK, Placed, RescueChunk
  PROVE  /\ mc' = mc /\ live' = live \ {mc[who][i]}
         /\ who \in Ids /\ who' = who /\ pc = "rescue" /\ pc' = "rescue"
         /\ i \in DOMAIN mc[who]
         /\ \A x : ~InFlight(x) /\ ~InFlight(x)'
         /\ Slot(who, i)
         /\ \A jd \in Ids : \A a : Slot(jd, a)' <=> Slot(jd, a) /\ ~(jd = who /\ a = i)
<1>1. /\ pc = "rescue" /\ pc' = "rescue" /\ mc' = mc /\ who \in Ids /\ who' = who
      /\ live' = live \ {mc[who][i]}
      /\ i \in 1 .. Len(mc[who]) + 1 /\ i <= Len(mc[who]) /\ i' = i + 1
  BY DEF RescueChunk, Placed, Windows
<1>2. /\ Len(mc[who]) \in Nat /\ DOMAIN mc[who] = 1 .. Len(mc[who])
      /\ i \in DOMAIN mc[who] /\ i \in Nat
      /\ \A a \in DOMAIN mc[who] : a >= i' <=> a >= i /\ a # i
  BY <1>1, TypesOf
<1>3. /\ \A jd, a : Slot(jd, a) <=> a \in DOMAIN mc[jd] /\ (jd = who => a >= i)
      /\ \A jd, a : Slot(jd, a)' <=> a \in DOMAIN mc[jd] /\ (jd = who => a >= i')
  BY <1>1 DEF Slot
<1>4. \A x : ~InFlight(x) /\ ~InFlight(x)'
  BY <1>1 DEF InFlight
<1>5. i >= i
  BY <1>2
<1> QED
  BY <1>1, <1>2, <1>3, <1>4, <1>5

(* What the invariant says of the slots a running call starts from.        *)
LEMMA SlotsBefore ==
  ASSUME MemPoolInv, Next, Running'
  PROVE  /\ TypeOK /\ Placed
         /\ \A id, jd \in Ids : \A a, b :
              Slot(id, a) /\ Slot(jd, b) /\ mc[id][a] = mc[jd][b] => id = jd /\ a = b
         /\ \A id \in Ids : \A a :
              Slot(id, a) => mc[id][a] \in live /\ ~InFlight(mc[id][a])
         /\ \A x \in live : InFlight(x) \/ \E id \in Ids : Holds(id, x)
<1>1. Running /\ TypeOK /\ Placed
  BY RunningBefore DEF MemPoolInv
<1>2. \A id, jd \in Ids : \A a, b :
        Slot(id, a) /\ Slot(jd, b) /\ mc[id][a] = mc[jd][b] => id = jd /\ a = b
  BY <1>1 DEF MemPoolInv, OneSlot, Slot
<1>3. \A id \in Ids : \A a :
        Slot(id, a) => mc[id][a] \in live /\ ~InFlight(mc[id][a])
  BY <1>1 DEF MemPoolInv, Backed, Slot
<1>4. \A x \in live : InFlight(x) \/ \E id \in Ids : Holds(id, x)
  BY <1>1 DEF MemPoolInv, Listed
<1> QED
  BY <1>1, <1>2, <1>3, <1>4

(* No step puts a block into two slots.                                    *)
LEMMA OneSlotStep ==
  ASSUME MemPoolInv, Next
  PROVE  OneSlot'
<1> SUFFICES ASSUME Running', NEW id \in Ids, NEW jd \in Ids, NEW a, NEW b,
                    Slot(id, a)', Slot(jd, b)', mc'[id][a] = mc'[jd][b]
             PROVE  id = jd /\ a = b
  BY DEF OneSlot
<1>1. TypeOK /\ Placed
  BY SlotsBefore
<1>2. \A kd, ld \in Ids : \A c, d :
        Slot(kd, c) /\ Slot(ld, d) /\ mc[kd][c] = mc[ld][d] => kd = ld /\ c = d
  BY SlotsBefore
<1>3. \A kd \in Ids : \A c :
        Slot(kd, c) => mc[kd][c] \in live /\ ~InFlight(mc[kd][c])
  BY SlotsBefore
<1>4. CASE AwayFromSlots
  <2>1. /\ Slot(id, a) /\ mc'[id][a] = mc[id][a]
        /\ Slot(jd, b) /\ mc'[jd][b] = mc[jd][b]
    BY <1>1, <1>4, SlotsStay
  <2> QED
    BY <1>2, <2>1
<1>5. CASE Malloc
  BY <1>2, <1>5, MallocSlots
<1>6. ASSUME NEW kd \in Ids, NEW addr \in Addrs, Realloc(kd, addr)
      PROVE  id = jd /\ a = b
  <2>1. Slot(id, a) /\ Slot(jd, b) /\ mc' = mc
    BY <1>1, <1>6, ReallocSlots
  <2> QED
    BY <1>2, <2>1
<1>7. ASSUME NEW kd \in Ids, NEW addr \in Addrs, Free(kd, addr)
      PROVE  id = jd /\ a = b
  <2>1. Slot(id, a) /\ Slot(jd, b) /\ mc' = mc
    BY <1>1, <1>7, FreeSlots
  <2> QED
    BY <1>2, <2>1
<1>8. CASE Commit
  <2>1. \A kd \in Ids : \A c : Slot(kd, c)' =>
          \/ Slot(kd, c) /\ mc'[kd][c] = mc[kd][c] /\ mc'[kd][c] # new
          \/ kd = who /\ c = Len(mc[who]) + 1 /\ mc'[kd][c] = new
    <3> TAKE kd \in Ids
    <3> TAKE c
    <3> HAVE Slot(kd, c)'
    <3>1. CASE kd # who
      <4>1. Slot(kd, c) /\ mc'[kd] = mc[kd]
        BY <1>1, <1>8, <3>1, CommitSlots
      <4>2. mc[kd][c] # new
        BY <1>1, <1>3, <1>8, <4>1, CommitSlots
      <4> QED
        BY <4>1, <4>2
    <3>2. CASE kd = who /\ c # Len(mc[who]) + 1
      <4>1. c \in 1 .. Len(mc[who])
        BY <1>1, <1>8, <3>2, CommitSlots
      <4>2. Slot(kd, c) /\ mc'[kd][c] = mc[kd][c]
        BY <1>1, <1>8, <3>2, <4>1, CommitSlots
      <4>3. mc[kd][c] # new
        BY <1>1, <1>3, <1>8, <4>2, CommitSlots
      <4> QED
        BY <4>2, <4>3
    <3>3. CASE kd = who /\ c = Len(mc[who]) + 1
      BY <1>1, <1>8, <3>3, CommitSlots
    <3> QED
      BY <3>1, <3>2, <3>3
  <2> QED
    BY <1>2, <2>1
<1>9. CASE StoreMoved
  <2>1. \A kd \in Ids : \A c : Slot(kd, c)' =>
          \/ Slot(kd, c) /\ mc'[kd][c] = mc[kd][c] /\ mc'[kd][c] # new
          \/ kd = who /\ c = i /\ mc'[kd][c] = new
    <3> TAKE kd \in Ids
    <3> TAKE c
    <3> HAVE Slot(kd, c)'
    <3>1. c \in DOMAIN mc[kd]
      BY <1>1, <1>9, StoreMovedSlots
    <3>2. CASE kd = who /\ c = i
      BY <1>1, <1>9, <3>1, <3>2, StoreMovedSlots
    <3>3. CASE ~(kd = who /\ c = i)
      <4>1. Slot(kd, c) /\ mc'[kd][c] = mc[kd][c]
        BY <1>1, <1>9, <3>1, <3>3, StoreMovedSlots
      <4>2. mc[kd][c] # new
        BY <1>1, <1>3, <1>9, <4>1, StoreMovedSlots
      <4> QED
        BY <4>1, <4>2
    <3> QED
      BY <3>2, <3>3
  <2> QED
    BY <1>2, <2>1
<1>10. CASE ShiftChunk
  <2>1. \A kd \in Ids : \A c : Slot(kd, c)' =>
          \/ Slot(kd, c) /\ ~(kd = who /\ c = i) /\ mc'[kd][c] = mc[kd][c]
          \/ kd = who /\ c = i - 1 /\ Slot(kd, i) /\ mc'[kd][c] = mc[kd][i]
    <3> TAKE kd \in Ids
    <3> TAKE c
    <3> HAVE Slot(kd, c)'
    <3>1. CASE kd # who
      BY <1>1, <1>10, <3>1, ShiftChunkSlots
    <3>2. CASE kd = who
      <4>1. /\ i \in 2 .. Len(mc[who]) /\ Len(mc[who]) \in Nat
            /\ c \in 1 .. Len(mc[who]) /\ c # i
            /\ mc'[who][c] = IF c = i - 1 THEN mc[who][i] ELSE mc[who][c]
            /\ \A e : Slot(who, e) <=> e \in 1 .. Len(mc[who]) /\ e # i - 1
        BY <1>1, <1>10, <3>2, ShiftChunkSlots
      <4>2. Slot(who, i)
        BY <4>1
      <4> QED
        BY <3>2, <4>1, <4>2
    <3> QED
      BY <3>1, <3>2
  <2> QED
    BY <1>2, <2>1
<1>11. CASE RescueChunk
  <2>1. Slot(id, a) /\ Slot(jd, b) /\ mc' = mc
    BY <1>1, <1>11, RescueChunkSlots
  <2> QED
    BY <1>2, <2>1
<1> QED
  BY <1>4, <1>5, <1>6, <1>7, <1>8, <1>9, <1>10, <1>11, SlotSteps

(* No step leaves a slot with a block that is not allocated.               *)
LEMMA BackedStep ==
  ASSUME MemPoolInv, Next
  PROVE  Backed'
<1> SUFFICES ASSUME Running', NEW id \in Ids, NEW a, Slot(id, a)'
             PROVE  mc'[id][a] \in live' /\ ~InFlight(mc[id][a])'
  BY DEF Backed
<1>1. TypeOK /\ Placed
  BY SlotsBefore
<1>2. \A kd, ld \in Ids : \A c, d :
        Slot(kd, c) /\ Slot(ld, d) /\ mc[kd][c] = mc[ld][d] => kd = ld /\ c = d
  BY SlotsBefore
<1>3. \A kd \in Ids : \A c :
        Slot(kd, c) => mc[kd][c] \in live /\ ~InFlight(mc[kd][c])
  BY SlotsBefore
<1>4. CASE AwayFromSlots
  BY <1>1, <1>3, <1>4, SlotsStay
<1>5. CASE Malloc
  BY <1>3, <1>5, MallocSlots
<1>6. ASSUME NEW kd \in Ids, NEW addr \in Addrs, Realloc(kd, addr)
      PROVE  mc'[id][a] \in live' /\ ~InFlight(mc[id][a])'
  <2>1. /\ Slot(id, a) /\ ~(id = kd /\ a = i') /\ Slot(kd, i') /\ mc[kd][i'] = addr
        /\ mc' = mc /\ live' = (live \ {addr}) \cup {new'}
        /\ new' \notin live \/ new' = addr
    BY <1>1, <1>6, ReallocSlots
  <2>2. mc[id][a] \in live /\ mc[id][a] # addr
    BY <1>2, <1>3, <2>1
  <2>3. mc'[id][a] \in live' /\ mc'[id][a] # new'
    BY <2>1, <2>2
  <2>4. \A x : InFlight(x)' => x = new'
    BY <1>1, <1>6, ReallocSlots
  <2> QED
    BY <2>1, <2>3, <2>4
<1>7. ASSUME NEW kd \in Ids, NEW addr \in Addrs, Free(kd, addr)
      PROVE  mc'[id][a] \in live' /\ ~InFlight(mc[id][a])'
  <2>1. /\ Slot(id, a) /\ ~(id = kd /\ a = i' - 1) /\ Slot(kd, i' - 1)
        /\ mc[kd][i' - 1] = addr /\ mc' = mc /\ live' = live \ {addr}
        /\ \A x : ~InFlight(x)'
    BY <1>1, <1>7, FreeSlots
  <2> QED
    BY <1>2, <1>3, <2>1
<1>8. CASE Commit
  <2>1. /\ live' = live /\ new \in live /\ \A x : ~InFlight(x)'
    BY <1>1, <1>8, CommitSlots DEF Commit, Placed
  <2>2. mc'[id][a] \in live
    <3>1. CASE id # who
      <4>1. Slot(id, a) /\ mc'[id] = mc[id]
        BY <1>1, <1>8, <3>1, CommitSlots
      <4> QED
        BY <1>3, <4>1
    <3>2. CASE id = who /\ a # Len(mc[who]) + 1
      <4>1. a \in 1 .. Len(mc[who])
        BY <1>1, <1>8, <3>2, CommitSlots
      <4>2. Slot(id, a) /\ mc'[id][a] = mc[id][a]
        BY <1>1, <1>8, <3>2, <4>1, CommitSlots
      <4> QED
        BY <1>3, <4>2
    <3>3. CASE id = who /\ a = Len(mc[who]) + 1
      BY <1>1, <1>8, <2>1, <3>3, CommitSlots
    <3> QED
      BY <3>1, <3>2, <3>3
  <2> QED
    BY <2>1, <2>2
<1>9. CASE StoreMoved
  <2>1. /\ live' = live /\ new \in live /\ \A x : ~InFlight(x)'
    BY <1>1, <1>9, StoreMovedSlots DEF StoreMoved, Placed
  <2>2. mc'[id][a] \in live
    <3>1. a \in DOMAIN mc[id]
      BY <1>1, <1>9, StoreMovedSlots
    <3>2. CASE id = who /\ a = i
      BY <1>1, <1>9, <2>1, <3>1, <3>2, StoreMovedSlots
    <3>3. CASE ~(id = who /\ a = i)
      <4>1. Slot(id, a) /\ mc'[id][a] = mc[id][a]
        BY <1>1, <1>9, <3>1, <3>3, StoreMovedSlots
      <4> QED
        BY <1>3, <4>1
    <3> QED
      BY <3>2, <3>3
  <2> QED
    BY <2>1, <2>2
<1>10. CASE ShiftChunk
  <2>1. live' = live /\ \A x : ~InFlight(x)'
    BY <1>1, <1>10, ShiftChunkSlots
  <2>2. mc'[id][a] \in live
    <3>1. CASE id # who
      <4>1. Slot(id, a) /\ mc'[id] = mc[id]
        BY <1>1, <1>10, <3>1, ShiftChunkSlots
      <4> QED
        BY <1>3, <4>1
    <3>2. CASE id = who
      <4>1. /\ i \in 2 .. Len(mc[who]) /\ Len(mc[who]) \in Nat
            /\ a \in 1 .. Len(mc[who]) /\ a # i
            /\ mc'[who][a] = IF a = i - 1 THEN mc[who][i] ELSE mc[who][a]
            /\ \A e : Slot(who, e) <=> e \in 1 .. Len(mc[who]) /\ e # i - 1
        BY <1>1, <1>10, <3>2, ShiftChunkSlots
      <4>2. Slot(who, i) /\ (a # i - 1 => Slot(who, a))
        BY <4>1
      <4>3. mc[who][i] \in live /\ (a # i - 1 => mc[who][a] \in live)
        BY <1>3, <3>2, <4>2
      <4> QED
        BY <3>2, <4>1, <4>3
    <3> QED
      BY <3>1, <3>2
  <2> QED
    BY <2>1, <2>2
<1>11. CASE RescueChunk
  <2>1. /\ Slot(id, a) /\ ~(id = who /\ a = i) /\ Slot(who, i) /\ who \in Ids
        /\ mc' = mc /\ live' = live \ {mc[who][i]}
        /\ \A x : ~InFlight(x)'
    BY <1>1, <1>11, RescueChunkSlots
  <2> QED
    BY <1>2, <1>3, <2>1
<1> QED
  BY <1>4, <1>5, <1>6, <1>7, <1>8, <1>9, <1>10, <1>11, SlotSteps

(* What the slots of a pool hold after a step.                             *)
LEMMA HoldsAfter ==
  ASSUME MemPoolInv, Next, Running'
  PROVE  /\ AwayFromSlots \/ Malloc \/ ShiftChunk =>
              \A id \in Ids : \A x : Holds(id, x)' <=> Holds(id, x)
         /\ Commit \/ StoreMoved => \A id \in Ids : \A x :
              Holds(id, x)' <=> Holds(id, x) \/ (id = who /\ x = new)
         /\ \A jd \in Ids, addr \in Addrs : Realloc(jd, addr) \/ Free(jd, addr) =>
              \A id \in Ids : \A x : Holds(id, x)' <=> Holds(id, x) /\ x # addr
         /\ RescueChunk => \A id \in Ids : \A x :
              Holds(id, x)' <=> Holds(id, x) /\ x # mc[who][i]
<1>1. TypeOK /\ Placed
  BY SlotsBefore
<1>2. \A id, jd \in Ids : \A a, b :
        Slot(id, a) /\ Slot(jd, b) /\ mc[id][a] = mc[jd][b] => id = jd /\ a = b
  BY SlotsBefore
<1>3. \A id, x : Holds(id, x) <=> \E a : Slot(id, a) /\ mc[id][a] = x
  BY DEF Holds, Slot
<1>4. \A id, x : Holds(id, x)' <=> \E a : Slot(id, a)' /\ mc'[id][a] = x
  BY DEF Holds, Slot
<1>5. ASSUME AwayFromSlots, NEW id \in Ids, NEW x
      PROVE  Holds(id, x)' <=> Holds(id, x)
  BY <1>1, <1>3, <1>4, <1>5, SlotsStay
<1>6. ASSUME Malloc, NEW id \in Ids, NEW x
      PROVE  Holds(id, x)' <=> Holds(id, x)
  BY <1>3, <1>4, <1>6, MallocSlots
<1>7. ASSUME ShiftChunk, NEW id \in Ids, NEW x
      PROVE  Holds(id, x)' <=> Holds(id, x)
  <2>1. CASE id # who
    <3>1. mc'[id] = mc[id] /\ \A a : Slot(id, a)' <=> Slot(id, a)
      BY <1>1, <1>7, <2>1, ShiftChunkSlots
    <3> QED
      BY <1>3, <1>4, <3>1
  <2>2. CASE id = who
    <3>1. /\ i \in 2 .. Len(mc[id]) /\ Len(mc[id]) \in Nat
          /\ \A a : Slot(id, a) <=> a \in 1 .. Len(mc[id]) /\ a # i - 1
          /\ \A a : Slot(id, a)' <=> a \in 1 .. Len(mc[id]) /\ a # i
          /\ \A a \in 1 .. Len(mc[id]) :
               mc'[id][a] = IF a = i - 1 THEN mc[id][i] ELSE mc[id][a]
      BY <1>1, <1>7, <2>2, ShiftChunkSlots
    <3>2. ASSUME Holds(id, x)
          PROVE  Holds(id, x)'
      <4>1. PICK a : Slot(id, a) /\ mc[id][a] = x
        BY <1>3, <3>2
      <4>2. CASE a = i
        <5>1. i - 1 \in 1 .. Len(mc[id]) /\ i - 1 # i
          BY <3>1
        <5>2. \E b : Slot(id, b)' /\ mc'[id][b] = x
          BY <3>1, <4>1, <4>2, <5>1
        <5> QED
          BY <1>4, <5>2
      <4>3. CASE a # i
        <5>1. Slot(id, a)' /\ mc'[id][a] = x
          BY <3>1, <4>1, <4>3
        <5> QED
          BY <1>4, <5>1
      <4> QED
        BY <4>2, <4>3
    <3>3. ASSUME Holds(id, x)'
          PROVE  Holds(id, x)
      <4>1. PICK a : Slot(id, a)' /\ mc'[id][a] = x
        BY <1>4, <3>3
      <4>2. CASE a = i - 1
        <5>1. Slot(id, i) /\ mc[id][i] = x
          BY <3>1, <4>1, <4>2
        <5> QED
          BY <1>3, <5>1
      <4>3. CASE a # i - 1
        <5>1. Slot(id, a) /\ mc[id][a] = x
          BY <3>1, <4>1, <4>3
        <5> QED
          BY <1>3, <5>1
      <4> QED
        BY <4>2, <4>3
    <3> QED
      BY <3>2, <3>3
  <2> QED
    BY <2>1, <2>2
<1>8. ASSUME Commit, NEW id \in Ids, NEW x
      PROVE  Holds(id, x)' <=> Holds(id, x) \/ (id = who /\ x = new)
  <2>1. CASE id # who
    <3>1. mc'[id] = mc[id] /\ \A a : Slot(id, a)' <=> Slot(id, a)
      BY <1>1, <1>8, <2>1, CommitSlots
    <3> QED
      BY <1>3, <1>4, <2>1, <3>1
  <2>2. CASE id = who
    <3>1. /\ Len(mc[id]) \in Nat
          /\ \A a : Slot(id, a) <=> a \in 1 .. Len(mc[id])
          /\ \A a : Slot(id, a)' <=> a \in 1 .. Len(mc[id]) + 1
          /\ \A a \in 1 .. Len(mc[id]) : mc'[id][a] = mc[id][a]
          /\ mc'[id][Len(mc[id]) + 1] = new
      BY <1>1, <1>8, <2>2, CommitSlots
    <3>2. \A a : a \in 1 .. Len(mc[id]) + 1 <=>
                 a \in 1 .. Len(mc[id]) \/ a = Len(mc[id]) + 1
      BY <3>1
    <3> QED
      BY <1>3, <1>4, <2>2, <3>1, <3>2
  <2> QED
    BY <2>1, <2>2
<1>9. ASSUME StoreMoved, NEW id \in Ids, NEW x
      PROVE  Holds(id, x)' <=> Holds(id, x) \/ (id = who /\ x = new)
  <2>1. /\ i \in DOMAIN mc[who] /\ who \in Ids
        /\ \A a : Slot(id, a) <=> a \in DOMAIN mc[id] /\ ~(id = who /\ a = i)
        /\ \A a : Slot(id, a)' <=> a \in DOMAIN mc[id]
        /\ \A a \in DOMAIN mc[id] :
             mc'[id][a] = IF id = who /\ a = i THEN new ELSE mc[id][a]
    BY <1>1, <1>9, StoreMovedSlots
  <2>2. CASE id # who
    BY <1>3, <1>4, <2>1, <2>2
  <2>3. CASE id = who
    BY <1>3, <1>4, <2>1, <2>3
  <2> QED
    BY <2>2, <2>3
<1>10. ASSUME NEW jd \in Ids, NEW addr \in Addrs, Realloc(jd, addr) \/ Free(jd, addr),
              NEW id \in Ids, NEW x
       PROVE  Holds(id, x)' <=> Holds(id, x) /\ x # addr
  <2>1. PICK k \in DOMAIN mc[jd] :
          /\ mc' = mc /\ mc[jd][k] = addr
          /\ \A a : Slot(id, a) <=> a \in DOMAIN mc[id]
          /\ Slot(jd, k)
          /\ \A a : Slot(id, a)' <=> a \in DOMAIN mc[id] /\ ~(id = jd /\ a = k)
    <3>1. CASE Realloc(jd, addr)
      BY <1>1, <3>1, ReallocSlots
    <3>2. CASE Free(jd, addr)
      BY <1>1, <3>2, FreeSlots
    <3> QED
      BY <1>10, <3>1, <3>2
  <2>2. \A a : Slot(id, a) => (mc[id][a] = addr <=> id = jd /\ a = k)
    BY <1>2, <2>1
  <2> QED
    BY <1>3, <1>4, <2>1, <2>2
<1>11. ASSUME RescueChunk, NEW id \in Ids, NEW x
       PROVE  Holds(id, x)' <=> Holds(id, x) /\ x # mc[who][i]
  <2>1. /\ mc' = mc /\ Slot(who, i) /\ who \in Ids
        /\ \A a : Slot(id, a)' <=> Slot(id, a) /\ ~(id = who /\ a = i)
    BY <1>1, <1>11, RescueChunkSlots
  <2>2. \A a : Slot(id, a) => (mc[id][a] = mc[who][i] <=> id = who /\ a = i)
    BY <1>2, <2>1
  <2> QED
    BY <1>3, <1>4, <2>1, <2>2
<1> QED
  BY <1>5, <1>6, <1>7, <1>8, <1>9, <1>10, <1>11

(* No step loses a block that is allocated.                                *)
LEMMA ListedStep ==
  ASSUME MemPoolInv, Next
  PROVE  Listed'
<1> SUFFICES ASSUME Running', NEW x \in live', ~InFlight(x)'
             PROVE  \E id \in Ids : Holds(id, x)'
  BY DEF Listed
<1>1. TypeOK /\ Placed
  BY SlotsBefore
<1>2. \A y \in live : InFlight(y) \/ \E id \in Ids : Holds(id, y)
  BY SlotsBefore
<1>3. CASE AwayFromSlots
  <2>1. live' = live /\ ~InFlight(x)
    BY <1>1, <1>3, SlotsStay
  <2> QED
    BY <1>2, <1>3, <2>1, HoldsAfter
<1>4. CASE Malloc
  <2>1. x \in live /\ ~InFlight(x)
    BY <1>4, MallocSlots
  <2> QED
    BY <1>2, <1>4, <2>1, HoldsAfter
<1>5. CASE ShiftChunk
  <2>1. live' = live /\ ~InFlight(x)
    BY <1>1, <1>5, ShiftChunkSlots
  <2> QED
    BY <1>2, <1>5, <2>1, HoldsAfter
<1>6. CASE Commit \/ StoreMoved
  <2>1. live' = live /\ (InFlight(x) => x = new) /\ who \in Ids
    BY <1>1, <1>6, CommitSlots, StoreMovedSlots
  <2> QED
    BY <1>2, <1>6, <2>1, HoldsAfter
<1>7. ASSUME NEW jd \in Ids, NEW addr \in Addrs, Realloc(jd, addr) \/ Free(jd, addr)
      PROVE  \E id \in Ids : Holds(id, x)'
  <2>1. x \in live /\ ~InFlight(x) /\ x # addr
    <3>1. CASE Realloc(jd, addr)
      <4>1. /\ live' = (live \ {addr}) \cup {new'} /\ ~InFlight(x)
            /\ InFlight(x)' <=> x = new'
        BY <1>1, <3>1, ReallocSlots
      <4> QED
        BY <4>1
    <3>2. CASE Free(jd, addr)
      BY <1>1, <3>2, FreeSlots
    <3> QED
      BY <1>7, <3>1, <3>2
  <2> QED
    BY <1>2, <1>7, <2>1, HoldsAfter
<1>8. CASE RescueChunk
  <2>1. x \in live /\ ~InFlight(x) /\ x # mc[who][i]
    BY <1>1, <1>8, RescueChunkSlots
  <2> QED
    BY <1>2, <1>8, <2>1, HoldsAfter
<1> QED
  BY <1>3, <1>4, <1>5, <1>6, <1>7, <1>8, SlotSteps

-----------------------------------------------------------------------------
(* What the plugins remember.                                              *)

(* A plugin none of whose elements was ejected while another one stayed    *)
(* remembers its chunks between two calls, and nothing without a row.      *)
LEMMA RemembersIdle ==
  ASSUME MemPoolInv, pc = "idle", NEW id \in Ids \ spoiled
  PROVE  /\ \A x \in Addrs : x \in held[id] <=> x \in ToSet(mc[id])
         /\ ~HasPool(id) => mc[id] = << >> /\ held[id] = {}
<1>1. Running /\ ~Ejecting /\ TypeOK
  BY DEF Running, Ejecting, MemPoolInv
<1>2. \A a : Slot(id, a) <=> a \in DOMAIN mc[id]
  BY DEF Slot
<1>3. \A x \in Addrs : x \in held[id] <=> Holds(id, x)
  BY <1>1 DEF MemPoolInv, Remembered, Remembers
<1>4. \A x : Holds(id, x) <=> x \in ToSet(mc[id])
  BY <1>2 DEF Holds, ToSet
<1>5. ASSUME ~HasPool(id)
      PROVE  mc[id] = << >> /\ held[id] = {}
  <2>1. mc[id] = << >>
    BY <1>1, <1>5 DEF MemPoolInv, Pooled, HasPool, ToSet
  <2>2. DOMAIN mc[id] = {}
    BY <1>1, <2>1, TypesOf
  <2>3. \A x \in Addrs : x \notin held[id]
    BY <1>3, <2>2 DEF Holds
  <2> QED
    BY <1>1, <2>1, <2>3, TypesOf
<1> QED
  BY <1>3, <1>4, <1>5

(* A plugin that was never ejected remembers its slots and no others.      *)
LEMMA RemembersStep ==
  ASSUME MemPoolInv, Next, Running', NEW id \in Ids \ spoiled',
         ~(id = who' /\ Ejecting'), NEW x \in Addrs
  PROVE  x \in held'[id] <=> Remembers(id, x)'
<1> USE DEF regs, walk
<1>1. TypeOK /\ Placed /\ held \in [Ids -> SUBSET Addrs]
  BY SlotsBefore DEF TypeOK
<1>2. spoiled \subseteq spoiled'
  <2>1. CASE \E jd \in Ids : Alloc(jd) \/ Eject(jd)
    BY <2>1 DEF Alloc, StartAlloc, Eject
  <2>2. CASE \E jd \in Ids, addr \in Addrs : ReallocAnew(jd, addr) \/ FreeUnknown(jd, addr)
    BY <2>2 DEF ReallocAnew, FreeUnknown
  <2>3. CASE \E jd \in Ids, addr \in Addrs : Realloc(jd, addr) \/ Free(jd, addr)
    BY <2>3 DEF Realloc, Free
  <2>4. CASE NewPool \/ Malloc \/ Commit \/ StoreMoved
    BY <2>4 DEF NewPool, Malloc, Commit, StoreMoved
  <2>5. CASE ShiftChunk \/ DropChunk \/ StoreShrunk \/ RescueChunk
    BY <2>5 DEF ShiftChunk, DropChunk, StoreShrunk, RescueChunk
  <2>6. CASE FreeChunks \/ ShiftRow \/ ShrinkTable \/ FreePool \/ DropRow
    BY <2>6 DEF FreeChunks, ShiftRow, ShrinkTable, FreePool, DropRow
  <2> QED
    BY <2>1, <2>2, <2>3, <2>4, <2>5, <2>6, SlotSteps DEF AwayFromSlots
<1>3. id \notin spoiled
  BY <1>2
<1>4. ~(id = who /\ Ejecting) => (x \in held[id] <=> Remembers(id, x))
  BY <1>3, RunningBefore DEF MemPoolInv, Remembered
<1>5. ASSUME AwayFromSlots, held'[id] = held[id], ~(id = who /\ Ejecting)
      PROVE  x \in held'[id] <=> Remembers(id, x)'
  <2>1. ~InFlight(new) /\ ~InFlight(new)'
    BY <1>1, <1>5, SlotsStay
  <2>2. pc # "moved" /\ pc' # "moved"
    BY <2>1 DEF InFlight
  <2>3. Holds(id, x)' <=> Holds(id, x)
    BY <1>5, HoldsAfter
  <2> QED
    BY <1>4, <1>5, <2>2, <2>3 DEF Remembers
<1>6. ASSUME NEW jd \in Ids, Alloc(jd)
      PROVE  x \in held'[id] <=> Remembers(id, x)'
  <2>1. held'[id] = held[id] /\ ~(id = who /\ Ejecting)
    BY <1>6 DEF Alloc, StartAlloc, Ejecting
  <2> QED
    BY <1>5, <1>6, <2>1 DEF AwayFromSlots
<1>7. ASSUME NEW jd \in Ids, Eject(jd)
      PROVE  x \in held'[id] <=> Remembers(id, x)'
  <2>1. pc = "idle" /\ ~(id = who /\ Ejecting)
    BY <1>7 DEF Eject, Ejecting
  <2>2. CASE id # jd
    <3>1. held'[id] = held[id]
      BY <1>1, <1>7, <2>2 DEF Eject, Forget
    <3> QED
      BY <1>5, <1>7, <2>1, <3>1 DEF AwayFromSlots
  <2>3. CASE id = jd
    <3>1. /\ users[id] \in Nat /\ users[id] > 0 /\ ~(users[id] > 1)
          /\ pc' # "rescue" /\ ~(HasPool(id) /\ mc[id] # << >>)
          /\ held' = Forget(id, users[id] - 1) /\ mc' = mc /\ pc' = "idle"
      <4>1. ~(users[id] > 1)
        BY <1>7, <2>3 DEF Eject
      <4>2. ~(HasPool(id) /\ mc[id] # << >>)
        BY <1>7, <2>3 DEF Eject, Ejecting
      <4> QED
        BY <1>1, <1>7, <2>3, <4>1, <4>2, TypesOf DEF Eject
    <3>2. users[id] - 1 = 0
      BY <3>1
    <3>3. held'[id] = {}
      BY <1>1, <3>1, <3>2 DEF Forget
    <3>4. mc[id] = << >>
      BY <1>3, <2>1, <3>1, RemembersIdle
    <3>5. DOMAIN mc'[id] = {}
      BY <1>1, <3>1, <3>4, TypesOf
    <3>6. ~Remembers(id, x)'
      BY <3>1, <3>5 DEF Remembers, Holds
    <3> QED
      BY <3>3, <3>6
  <2> QED
    BY <2>2, <2>3
<1>8. ASSUME NEW jd \in Ids, NEW addr \in Addrs,
             ReallocAnew(jd, addr) \/ FreeUnknown(jd, addr)
      PROVE  x \in held'[id] <=> Remembers(id, x)'
  <2>1. /\ pc = "idle" /\ ~(id = who /\ Ejecting)
        /\ addr \in held[jd] /\ held' = [held EXCEPT ![jd] = held[jd] \ {addr}]
        /\ ~HasPool(jd) \/ addr \notin ToSet(mc[jd])
    BY <1>8 DEF ReallocAnew, FreeUnknown, Ejecting
  <2>2. id # jd
    BY <1>3, <2>1, RemembersIdle
  <2>3. held'[id] = held[id]
    BY <1>1, <2>1, <2>2
  <2> QED
    BY <1>5, <1>8, <2>1, <2>3 DEF AwayFromSlots
<1>9. CASE NewPool \/ DropChunk \/ StoreShrunk
  <2>1. held'[id] = held[id] /\ ~(id = who /\ Ejecting)
    BY <1>9 DEF NewPool, DropChunk, StoreShrunk, Ejecting
  <2> QED
    BY <1>5, <1>9, <2>1 DEF AwayFromSlots
<1>10. CASE FreeChunks \/ ShiftRow \/ ShrinkTable \/ FreePool
  <2>1. held'[id] = held[id] /\ ~(id = who /\ Ejecting)
    BY <1>10 DEF FreeChunks, ShiftRow, ShrinkTable, FreePool, Ejecting
  <2> QED
    BY <1>5, <1>10, <2>1 DEF AwayFromSlots
<1>11. CASE DropRow
  <2>1. /\ pc = "last" /\ pc' = "idle" /\ who \in Ids /\ held' = Forget(who, users[who])
        /\ mc' = [mc EXCEPT ![who] = << >>]
    BY <1>1, <1>11 DEF DropRow, Placed, Windows
  <2>2. CASE id # who
    <3>1. held'[id] = held[id]
      BY <1>1, <2>1, <2>2 DEF Forget
    <3> QED
      BY <1>5, <1>11, <2>2, <3>1 DEF AwayFromSlots
  <2>3. CASE id = who
    <3>1. users[who] = 0
      BY <1>3, <2>1, <2>3 DEF MemPoolInv, Remembered, Ejecting
    <3>2. held'[id] = {}
      BY <1>1, <2>1, <2>3, <3>1 DEF Forget
    <3>3. ~Holds(id, x)'
      <4>1. \A a : ~Slot(id, a)
        BY <2>1, <2>3 DEF Slot
      <4>2. ~Holds(id, x)
        BY <4>1 DEF Holds
      <4> QED
        BY <1>11, <4>2, HoldsAfter DEF AwayFromSlots
    <3> QED
      BY <2>1, <3>2, <3>3 DEF Remembers
  <2> QED
    BY <2>2, <2>3
<1>12. CASE Malloc \/ ShiftChunk
  <2>1. /\ held' = held /\ pc # "moved" /\ pc' # "moved"
        /\ ~(id = who /\ Ejecting)
    BY <1>12 DEF Malloc, ShiftChunk, Ejecting
  <2>2. Holds(id, x)' <=> Holds(id, x)
    BY <1>12, HoldsAfter
  <2> QED
    BY <1>4, <2>1, <2>2 DEF Remembers
<1>13. CASE RescueChunk
  <2>1. /\ held' = held /\ pc = "rescue" /\ pc' = "rescue" /\ who' = who /\ who \in Ids
        /\ mc' = mc
    BY <1>1, <1>13 DEF RescueChunk, Placed, Windows
  <2>2. id # who
    BY <2>1 DEF Ejecting
  <2>3. Holds(id, x)' <=> Holds(id, x)
    BY <2>1, <2>2 DEF Holds, Slot
  <2> QED
    BY <1>4, <2>1, <2>2, <2>3 DEF Remembers
<1>14. CASE Commit
  <2>1. /\ pc = "chunk" /\ pc' = "idle" /\ who \in Ids
        /\ held' = [held EXCEPT ![who] = held[who] \cup {new}]
    BY <1>1, <1>14 DEF Commit, Placed, Windows
  <2>2. held'[id] = IF id = who THEN held[id] \cup {new} ELSE held[id]
    BY <1>1, <2>1
  <2>3. Holds(id, x)' <=> Holds(id, x) \/ (id = who /\ x = new)
    BY <1>14, HoldsAfter
  <2> QED
    BY <1>4, <2>1, <2>2, <2>3 DEF Remembers, Ejecting
<1>15. CASE StoreMoved
  <2>1. pc = "moved" /\ pc' = "idle" /\ held' = held
    BY <1>15 DEF StoreMoved
  <2>2. Holds(id, x)' <=> Holds(id, x) \/ (id = who /\ x = new)
    BY <1>15, HoldsAfter
  <2> QED
    BY <1>4, <2>1, <2>2 DEF Remembers, Ejecting
<1>16. ASSUME NEW jd \in Ids, NEW addr \in Addrs, Realloc(jd, addr) \/ Free(jd, addr)
       PROVE  x \in held'[id] <=> Remembers(id, x)'
  <2>1. pc = "idle" /\ who' = jd /\ addr \in ToSet(mc[jd])
    BY <1>16 DEF Realloc, Free
  <2>2. Holds(id, x)' <=> Holds(id, x) /\ x # addr
    BY <1>16, HoldsAfter
  <2>3. x \in held[id] <=> Holds(id, x)
    BY <1>4, <2>1 DEF Remembers, Ejecting
  <2>4. id # jd => ~Holds(id, addr)
    <3>1. \A kd, a : Slot(kd, a) <=> a \in DOMAIN mc[kd]
      BY <2>1 DEF Slot
    <3>2. PICK k : Slot(jd, k) /\ mc[jd][k] = addr
      BY <2>1, <3>1 DEF ToSet
    <3> QED
      BY <3>2, SlotsBefore DEF Holds
  <2>5. CASE Realloc(jd, addr)
    <3>1. pc' = "moved" /\ held' = [held EXCEPT ![jd] = (held[jd] \ {addr}) \cup {new'}]
      BY <2>5 DEF Realloc
    <3>2. held'[id] = IF id = jd THEN (held[id] \ {addr}) \cup {new'} ELSE held[id]
      BY <1>1, <3>1
    <3>3. CASE id = jd
      BY <2>1, <2>2, <2>3, <3>1, <3>2, <3>3 DEF Remembers
    <3>4. CASE id # jd
      BY <2>1, <2>2, <2>3, <2>4, <3>2, <3>4 DEF Remembers
    <3> QED
      BY <3>3, <3>4
  <2>6. CASE Free(jd, addr)
    <3>1. pc' = "shift" /\ held' = [held EXCEPT ![jd] = held[jd] \ {addr}]
      BY <2>6 DEF Free
    <3>2. held'[id] = IF id = jd THEN held[id] \ {addr} ELSE held[id]
      BY <1>1, <3>1
    <3> QED
      BY <2>2, <2>3, <2>4, <3>1, <3>2 DEF Remembers
  <2> QED
    BY <1>16, <2>5, <2>6
<1> QED
  BY <1>6, <1>7, <1>8, <1>9, <1>10, <1>11, <1>12, <1>13, <1>14, <1>15, <1>16,
     SlotSteps DEF AwayFromSlots

(* Every step keeps what the plugins remember.                             *)
LEMMA RememberedStep ==
  ASSUME MemPoolInv, Next
  PROVE  Remembered'
<1> USE DEF regs, walk
<1>1. TypeOK /\ Placed
  BY DEF MemPoolInv
<1>2. Running' => \A id \in Ids \ spoiled' : ~(id = who' /\ Ejecting') =>
        \A x \in Addrs : x \in held'[id] <=> Remembers(id, x)'
  BY RemembersStep
<1>3. ASSUME Ejecting', who' \notin spoiled'
      PROVE  users'[who'] = 0
  <2>1. Running'
    BY <1>3 DEF Ejecting, Running, Windows
  <2>2. \/ \E id \in Ids : Eject(id)
        \/ RescueChunk \/ FreeChunks \/ ShiftRow \/ ShrinkTable \/ FreePool
    <3>1. ASSUME NEW id \in Ids
          PROVE  ~Alloc(id)
      BY <1>3 DEF Alloc, StartAlloc, Ejecting
    <3>2. ASSUME NEW id \in Ids, NEW addr \in Addrs
          PROVE  /\ ~ReallocAnew(id, addr) /\ ~FreeUnknown(id, addr)
                 /\ ~Realloc(id, addr) /\ ~Free(id, addr)
      BY <1>3 DEF ReallocAnew, FreeUnknown, Realloc, Free, Ejecting
    <3>3. /\ ~NewPool /\ ~Malloc /\ ~Commit /\ ~StoreMoved
          /\ ~ShiftChunk /\ ~DropChunk /\ ~StoreShrunk /\ ~DropRow
      BY <1>3 DEF NewPool, Malloc, Commit, StoreMoved, ShiftChunk, DropChunk,
                  StoreShrunk, DropRow, Ejecting
    <3> QED
      BY <2>1, <3>1, <3>2, <3>3, SlotSteps DEF AwayFromSlots
  <2>3. ASSUME NEW id \in Ids, Eject(id)
        PROVE  users'[who'] = 0
    <3>1. /\ who' = id /\ users[id] > 0 /\ ~(users[id] > 1)
          /\ users' = [users EXCEPT ![id] = users[id] - 1]
      BY <1>3, <2>3 DEF Eject, Unlisted, Ejecting
    <3>2. users[id] \in Nat /\ users \in [Ids -> 0 .. MaxUsers]
      BY <1>1, TypesOf DEF TypeOK
    <3>3. users[id] - 1 = 0
      BY <3>1, <3>2
    <3> QED
      BY <3>1, <3>2, <3>3
  <2>4. CASE RescueChunk \/ FreeChunks \/ ShiftRow \/ ShrinkTable \/ FreePool
    <3>1. Ejecting /\ who' = who /\ users' = users /\ spoiled' = spoiled
      BY <2>4 DEF RescueChunk, FreeChunks, ShiftRow, ShrinkTable, FreePool, Ejecting
    <3> QED
      BY <1>3, <3>1 DEF MemPoolInv, Remembered
  <2> QED
    BY <2>2, <2>3, <2>4
<1>4. ASSUME pc' \in {"undefined", "aborted"}
      PROVE  spoiled' # {}
  <2>1. ASSUME NEW id \in Ids, NEW addr \in Addrs,
               ReallocUnknown(id, addr) \/ FreeWithoutPool(id, addr)
        PROVE  spoiled' # {}
    <3>1. /\ pc = "idle" /\ addr \in held[id] /\ spoiled' = spoiled
          /\ ~HasPool(id) \/ addr \notin ToSet(mc[id])
      BY <2>1 DEF ReallocUnknown, FreeWithoutPool
    <3>2. id \in spoiled
      BY <3>1, RemembersIdle
    <3> QED
      BY <3>1, <3>2
  <2>2. CASE Ended
    BY <1>4, <2>2 DEF Ended, vars, MemPoolInv, Remembered
  <2>3. CASE Next /\ ~Ended /\ \A id \in Ids, addr \in Addrs :
                ~ReallocUnknown(id, addr) /\ ~FreeWithoutPool(id, addr)
    <3>1. ASSUME NEW id \in Ids
          PROVE  ~Alloc(id) /\ ~Eject(id) /\ ~PoolDestroy(id)
      <4>1. ~Alloc(id)
        BY <1>4 DEF Alloc, StartAlloc
      <4>2. ~Eject(id)
        BY <1>4 DEF Eject
      <4>3. ~PoolDestroy(id)
        BY <1>4 DEF PoolDestroy
      <4> QED
        BY <4>1, <4>2, <4>3
    <3>2. ASSUME NEW id \in Ids, NEW addr \in Addrs
          PROVE  /\ ~ReallocAnew(id, addr) /\ ~FreeUnknown(id, addr)
                 /\ ~Realloc(id, addr) /\ ~Free(id, addr)
      BY <1>4 DEF ReallocAnew, FreeUnknown, Realloc, Free
    <3>3. /\ ~NewPool /\ ~Malloc /\ ~Commit /\ ~StoreMoved
          /\ ~ShiftChunk /\ ~DropChunk /\ ~StoreShrunk
      BY <1>4 DEF NewPool, Malloc, Commit, StoreMoved, ShiftChunk, DropChunk, StoreShrunk
    <3>4. /\ ~RescueChunk /\ ~FreeChunks /\ ~ShiftRow /\ ~ShrinkTable /\ ~FreePool
          /\ ~DropRow /\ ~Exit
      BY <1>4 DEF RescueChunk, FreeChunks, ShiftRow, ShrinkTable, FreePool, DropRow, Exit
    <3>5. ASSUME NEW moved \in BOOLEAN
          PROVE  ~Signal(moved)
      BY <1>4 DEF Signal
    <3> QED
      BY <2>3, <3>1, <3>2, <3>3, <3>4, <3>5 DEF Next
  <2> QED
    BY <2>1, <2>2, <2>3
<1> QED
  BY <1>2, <1>3, <1>4 DEF Remembered

-----------------------------------------------------------------------------
(* The handler.                                                            *)

(* The steps of the handler, the normal end and the signal.                *)
LEMMA HandlerSteps ==
  ASSUME Next, pc' \in {"unload", "corrupt", "exited"}
  PROVE  \/ \E moved \in BOOLEAN : Signal(moved)
         \/ \E id \in Ids : PoolDestroy(id)
         \/ Exit \/ Ended
<1>1. ASSUME NEW id \in Ids
      PROVE  ~Alloc(id) /\ ~Eject(id)
  <2>1. ~Alloc(id)
    BY DEF Alloc, StartAlloc
  <2>2. ~Eject(id)
    BY DEF Eject
  <2> QED
    BY <2>1, <2>2
<1>2. ASSUME NEW id \in Ids, NEW addr \in Addrs
      PROVE  /\ ~ReallocAnew(id, addr) /\ ~FreeUnknown(id, addr)
             /\ ~Realloc(id, addr) /\ ~Free(id, addr)
             /\ ~ReallocUnknown(id, addr) /\ ~FreeWithoutPool(id, addr)
  BY DEF ReallocAnew, FreeUnknown, Realloc, Free, ReallocUnknown, FreeWithoutPool
<1>3. /\ ~NewPool /\ ~Malloc /\ ~Commit /\ ~StoreMoved
      /\ ~ShiftChunk /\ ~DropChunk /\ ~StoreShrunk
  BY DEF NewPool, Malloc, Commit, StoreMoved, ShiftChunk, DropChunk, StoreShrunk
<1>4. /\ ~RescueChunk /\ ~FreeChunks /\ ~ShiftRow /\ ~ShrinkTable /\ ~FreePool
      /\ ~DropRow
  BY DEF RescueChunk, FreeChunks, ShiftRow, ShrinkTable, FreePool, DropRow
<1> QED
  BY <1>1, <1>2, <1>3, <1>4 DEF Next

(* The handler starts from the table and the list as the signal finds them *)
LEMMA SignalFinds ==
  ASSUME MemPoolInv, NEW moved \in BOOLEAN, Signal(moved)
  PROVE  /\ Running /\ TypeOK /\ Placed
         /\ hit' = pc /\ left' = users /\ mt' = mt /\ mc' = mc /\ live' = live
         /\ who' = who /\ i' = i /\ new' = new /\ users' = users
         /\ gone' = IF pc = "last" THEN {who} ELSE {}
         /\ torn' = IF pc = "close" \/ (moved /\ pc \in {"chunks", "shrink"})
                    THEN {who} ELSE {}
         /\ pc' = "corrupt" => pc \in {"row", "rows"}
<1>1. pc \in {"idle"} \cup Windows
  BY DEF MemPoolInv, TypeOK, Signal
<1> QED
  BY <1>1 DEF Signal, regs, Running, MemPoolInv

(* What mem_pool_destroy does for one element in the teardown.             *)
LEMMA Destroyed ==
  ASSUME TypeOK, NEW id \in Ids, PoolDestroy(id)
  PROVE  /\ pc = "unload" /\ pc' \in {"unload", "corrupt"} /\ left[id] > 0
         /\ mc' = mc /\ who' = who /\ i' = i /\ new' = new
         /\ users' = users /\ hit' = hit /\ torn' = torn
         /\ \A jd \in Ids : /\ left[jd] \in Nat
                            /\ left'[jd] = IF jd = id THEN left[jd] - 1 ELSE left[jd]
         /\ \/ /\ ~HasPool(id) \/ (id \notin gone /\ mc[id] = << >>)
               /\ UNCHANGED << pc, mt, live, gone >>
            \/ HasPool(id) /\ id \in gone /\ pc' = "corrupt"
            \/ /\ HasPool(id) /\ id \notin gone /\ mc[id] # << >>
               /\ pc' = "corrupt" <=> id \in torn \/ ~FreesOnce(mc[id])
               /\ mt' = RowsWithout(mt, id)
               /\ live' = live \ ToSet(mc[id])
               /\ gone' = gone \cup {id}
<1>1. left \in [Ids -> 0 .. MaxUsers] /\ \A jd \in Ids : left[jd] \in Nat
  BY TypesOf DEF TypeOK
<1>2. left' = [left EXCEPT ![id] = left[id] - 1]
  BY DEF PoolDestroy
<1>3. \A jd \in Ids : left'[jd] = IF jd = id THEN left[jd] - 1 ELSE left[jd]
  BY <1>1, <1>2
<1>4. /\ pc = "unload" /\ pc' \in {"unload", "corrupt"} /\ left[id] > 0
      /\ mc' = mc /\ who' = who /\ i' = i /\ new' = new
      /\ users' = users /\ hit' = hit /\ torn' = torn
  BY DEF PoolDestroy, regs
<1>5. \/ /\ ~HasPool(id) \/ (id \notin gone /\ mc[id] = << >>)
         /\ UNCHANGED << pc, mt, live, gone >>
      \/ HasPool(id) /\ id \in gone /\ pc' = "corrupt"
      \/ /\ HasPool(id) /\ id \notin gone /\ mc[id] # << >>
         /\ pc' = "corrupt" <=> id \in torn \/ ~FreesOnce(mc[id])
         /\ mt' = RowsWithout(mt, id)
         /\ live' = live \ ToSet(mc[id])
         /\ gone' = gone \cup {id}
  BY <1>4 DEF PoolDestroy, Rescued
<1> QED
  BY <1>1, <1>3, <1>4, <1>5

(* A pool that is due holds what is allocated, each chunk once.            *)
LEMMA DueFreesOnce ==
  ASSUME MemPoolInv, pc = "unload", ~Excused, NEW id \in Ids, Due(id)
  PROVE  FreesOnce(mc[id]) /\ id \notin gone /\ id \notin torn
<1>1. \A a, b \in DOMAIN mc[id] : mc[id][a] = mc[id][b] => a = b
  BY DEF MemPoolInv, Unloading
<1>2. \A a \in DOMAIN mc[id] : mc[id][a] \in live
  BY DEF MemPoolInv, Unloading
<1>3. id \notin gone /\ id \notin torn
  BY DEF MemPoolInv, Unloading
<1> QED
  BY <1>1, <1>2, <1>3 DEF FreesOnce, IsInjective, ToSet

(* The handler frees a block twice only after a signal in a window.        *)
LEMMA CorruptStep ==
  ASSUME MemPoolInv, Next
  PROVE  CorruptOnlyInWindows'
<1> SUFFICES ASSUME pc' = "corrupt"
             PROVE  Excused'
  BY DEF CorruptOnlyInWindows, Excused
<1>1. TypeOK
  BY DEF MemPoolInv
<1>2. ASSUME NEW moved \in BOOLEAN, Signal(moved)
      PROVE  Excused'
  BY <1>2, SignalFinds DEF Excused
<1>3. ASSUME NEW id \in Ids, PoolDestroy(id)
      PROVE  Excused'
  <2>1. pc = "unload" /\ left[id] > 0
        /\ who' = who /\ users' = users /\ hit' = hit
    BY <1>1, <1>3, Destroyed
  <2>2. Excused
    <3> SUFFICES ASSUME ~Excused
                 PROVE  FALSE
      OBVIOUS
    <3>1. HasPool(id) /\ (id \in gone \/ id \in torn \/ ~FreesOnce(mc[id]))
      BY <1>1, <1>3, <2>1, Destroyed
    <3>2. Due(id)
      BY <2>1, <3>1 DEF Due
    <3> QED
      BY <2>1, <3>1, <3>2, DueFreesOnce
  <2> QED
    BY <2>1, <2>2 DEF Excused
<1>4. CASE Exit
  BY <1>4 DEF Exit
<1>5. CASE Ended
  <2>1. pc = "corrupt" /\ who' = who /\ users' = users /\ hit' = hit
    BY <1>5 DEF Ended, vars, regs
  <2> QED
    BY <2>1 DEF MemPoolInv, CorruptOnlyInWindows, Excused
<1> QED
  BY <1>2, <1>3, <1>4, <1>5, HandlerSteps

(* Every step of the teardown leaves the pools that are due whole.         *)
LEMMA UnloadingStep ==
  ASSUME MemPoolInv, Next
  PROVE  Unloading'
<1> SUFFICES ASSUME pc' = "unload", ~Excused'
             PROVE  /\ \A id \in Ids : Due(id)' => id \notin gone' /\ id \notin torn'
                    /\ IsInjective(mt') \/ \A id \in Ids : left'[id] <= 1
                    /\ \A id, jd \in Ids : Due(id)' /\ Due(jd)' =>
                         \A a \in DOMAIN mc'[id], b \in DOMAIN mc'[jd] :
                           mc'[id][a] = mc'[jd][b] => id = jd /\ a = b
                    /\ \A id \in Ids : Due(id)' =>
                         \A a \in DOMAIN mc'[id] : mc'[id][a] \in live'
  BY DEF Unloading
<1>1. TypeOK
  BY DEF MemPoolInv
<1> DEFINE Goal == /\ \A id \in Ids : Due(id)' => id \notin gone' /\ id \notin torn'
                   /\ IsInjective(mt') \/ \A id \in Ids : left'[id] <= 1
                   /\ \A id, jd \in Ids : Due(id)' /\ Due(jd)' =>
                        \A a \in DOMAIN mc'[id], b \in DOMAIN mc'[jd] :
                          mc'[id][a] = mc'[jd][b] => id = jd /\ a = b
                   /\ \A id \in Ids : Due(id)' =>
                        \A a \in DOMAIN mc'[id] : mc'[id][a] \in live'
<1>2. ASSUME NEW moved \in BOOLEAN, Signal(moved)
      PROVE  Goal
  <2>1. /\ Running /\ Placed /\ TypeOK
        /\ hit' = pc /\ left' = users /\ mt' = mt /\ mc' = mc /\ live' = live
        /\ who' = who /\ users' = users
        /\ gone' = IF pc = "last" THEN {who} ELSE {}
        /\ torn' = IF pc = "close" \/ (moved /\ pc \in {"chunks", "shrink"})
                   THEN {who} ELSE {}
    BY <1>2, SignalFinds
  <2>2. /\ pc \notin {"row", "chunks", "moved", "shift", "shrink", "rows"}
        /\ pc \in {"rescue", "close", "last"} => ~(users[who] > 0)
        /\ pc \in {"close", "last"} => \A id \in Ids : ~(users[id] > 1)
    BY <2>1 DEF Excused
  <2>3. pc \in {"idle", "chunk", "rescue", "close", "last"}
    BY <2>1, <2>2 DEF Running, Windows
  <2>4. \A id : Due(id)' <=> users[id] > 0 /\ HasPool(id)
    BY <2>1 DEF Due, HasPool
  <2>5. ASSUME NEW id \in Ids, Due(id)'
        PROVE  id \notin gone' /\ id \notin torn' /\ \A a \in DOMAIN mc[id] : Slot(id, a)
    <3>1. CASE pc \in {"idle", "chunk"}
      BY <2>1, <3>1 DEF Slot
    <3>2. CASE pc \in {"rescue", "close", "last"}
      <4>1. id # who
        BY <2>2, <2>4, <2>5, <3>2
      <4> QED
        BY <2>1, <3>2, <4>1 DEF Slot
    <3> QED
      BY <2>3, <3>1, <3>2
  <2>6. IsInjective(mt') \/ \A id \in Ids : left'[id] <= 1
    <3>1. CASE pc \in {"idle", "chunk", "rescue"}
      <4>1. \A a \in DOMAIN mt : Row(a)
        BY <3>1 DEF Row
      <4> QED
        BY <2>1, <4>1 DEF MemPoolInv, OneRow, IsInjective
    <3>2. CASE pc \in {"close", "last"}
      <4>1. \A id \in Ids : users[id] \in Nat
        BY <1>1, TypesOf
      <4> QED
        BY <2>1, <2>2, <3>2, <4>1
    <3> QED
      BY <2>3, <3>1, <3>2
  <2>7. \A id, jd \in Ids : Due(id)' /\ Due(jd)' =>
          \A a \in DOMAIN mc'[id], b \in DOMAIN mc'[jd] :
            mc'[id][a] = mc'[jd][b] => id = jd /\ a = b
    BY <2>1, <2>5 DEF MemPoolInv, OneSlot
  <2>8. \A id \in Ids : Due(id)' => \A a \in DOMAIN mc'[id] : mc'[id][a] \in live'
    BY <2>1, <2>5 DEF MemPoolInv, Backed
  <2> QED
    BY <2>5, <2>6, <2>7, <2>8
<1>3. ASSUME NEW kd \in Ids, PoolDestroy(kd)
      PROVE  Goal
  <2>1. /\ pc = "unload" /\ left[kd] > 0 /\ mc' = mc /\ who' = who
        /\ users' = users /\ hit' = hit /\ torn' = torn
        /\ \A jd \in Ids : /\ left[jd] \in Nat
                           /\ left'[jd] = IF jd = kd THEN left[jd] - 1 ELSE left[jd]
    BY <1>1, <1>3, Destroyed
  <2>2. ~Excused
    BY <2>1 DEF Excused
  <2>3. /\ \A id \in Ids : Due(id) => id \notin gone /\ id \notin torn
        /\ IsInjective(mt) \/ \A id \in Ids : left[id] <= 1
        /\ \A id, jd \in Ids : Due(id) /\ Due(jd) =>
             \A a \in DOMAIN mc[id], b \in DOMAIN mc[jd] :
               mc[id][a] = mc[jd][b] => id = jd /\ a = b
        /\ \A id \in Ids : Due(id) => \A a \in DOMAIN mc[id] : mc[id][a] \in live
    BY <2>1, <2>2 DEF MemPoolInv, Unloading
  <2>4. CASE mt' = mt /\ live' = live /\ gone' = gone
    <3>1. \A id \in Ids : Due(id)' => Due(id)
      BY <2>1, <2>4 DEF Due, HasPool
    <3>2. (\A id \in Ids : left[id] <= 1) => \A id \in Ids : left'[id] <= 1
      BY <2>1
    <3> QED
      BY <2>1, <2>3, <2>4, <3>1, <3>2
  <2>5. CASE /\ HasPool(kd) /\ mt' = RowsWithout(mt, kd)
             /\ live' = live \ ToSet(mc[kd]) /\ gone' = gone \cup {kd}
    <3>1. mt \in Seq(Ids) /\ kd \in ToSet(mt)
      BY <1>1, <2>5 DEF TypeOK, HasPool
    <3>2. /\ ToSet(mt') \subseteq ToSet(mt)
          /\ IsInjective(mt) => IsInjective(mt') /\ kd \notin ToSet(mt')
      BY <2>5, <3>1, RowsLeftOver
    <3>3. \A id \in Ids : Due(id)' => Due(id) /\ id # kd
      <4> TAKE id \in Ids
      <4>1. Due(id)' => Due(id)
        BY <2>1, <3>2 DEF Due, HasPool
      <4>2. ~Due(kd)'
        <5>1. CASE IsInjective(mt)
          BY <3>2, <5>1 DEF Due, HasPool
        <5>2. CASE left[kd] <= 1
          <6>1. ~(left'[kd] > 0)
            BY <2>1, <5>2
          <6> QED
            BY <6>1 DEF Due
        <5> QED
          BY <2>3, <5>1, <5>2
      <4> QED
        BY <4>1, <4>2
    <3>4. Due(kd)
      BY <2>1, <2>5 DEF Due
    <3>5. ASSUME NEW id \in Ids, Due(id)', NEW a \in DOMAIN mc[id]
          PROVE  mc[id][a] \in live'
      <4>1. mc[id][a] \in live /\ mc[id][a] \notin ToSet(mc[kd])
        BY <2>3, <3>3, <3>4, <3>5 DEF ToSet
      <4> QED
        BY <2>5, <4>1
    <3>6. IsInjective(mt') \/ \A id \in Ids : left'[id] <= 1
      BY <2>1, <2>3, <3>2
    <3>7. \A id \in Ids : Due(id)' => id \notin gone' /\ id \notin torn'
      BY <2>1, <2>3, <2>5, <3>3
    <3>8. \A id, jd \in Ids : Due(id)' /\ Due(jd)' =>
            \A a \in DOMAIN mc'[id], b \in DOMAIN mc'[jd] :
              mc'[id][a] = mc'[jd][b] => id = jd /\ a = b
      BY <2>1, <2>3, <3>3
    <3> QED
      BY <2>1, <3>5, <3>6, <3>7, <3>8
  <2> QED
    BY <1>1, <1>3, <2>4, <2>5, Destroyed
<1>4. CASE Exit
  BY <1>4 DEF Exit
<1>5. CASE Ended
  BY <1>5 DEF Ended, vars, Ends
<1> QED
  BY <1>2, <1>3, <1>4, <1>5, HandlerSteps

(* A block still allocated in the teardown is due, or lost by the signal.  *)
LEMMA AccountedStep ==
  ASSUME MemPoolInv, Next
  PROVE  Accounted'
<1>1. TypeOK
  BY DEF MemPoolInv
<1>2. ASSUME pc' = "exited"
      PROVE  \A id \in Ids : left'[id] = 0
  <2>1. CASE \E moved \in BOOLEAN : Signal(moved)
    BY <1>2, <2>1 DEF Signal
  <2>2. CASE \E id \in Ids : PoolDestroy(id)
    BY <1>1, <1>2, <2>2, Destroyed
  <2>3. CASE Exit
    BY <2>3 DEF Exit, walk
  <2>4. CASE Ended
    <3>1. pc = "exited" /\ left' = left
      BY <1>2, <2>4 DEF Ended, vars, walk
    <3> QED
      BY <3>1 DEF MemPoolInv, Accounted
  <2> QED
    BY <1>2, <2>1, <2>2, <2>3, <2>4, HandlerSteps
<1> SUFFICES ASSUME pc' \in {"unload", "exited"}, NEW x \in live', ~Lost(x)'
             PROVE  \E id \in Ids : /\ Due(id)' /\ id \notin gone'
                                    /\ \E a \in DOMAIN mc'[id] : mc'[id][a] = x
  BY <1>2 DEF Accounted
<1> DEFINE Goal == \E id \in Ids : /\ Due(id)' /\ id \notin gone'
                                   /\ \E a \in DOMAIN mc'[id] : mc'[id][a] = x
<1>3. ASSUME NEW moved \in BOOLEAN, Signal(moved)
      PROVE  Goal
  <2>1. /\ Running /\ Placed
        /\ hit' = pc /\ left' = users /\ mt' = mt /\ mc' = mc /\ live' = live
        /\ who' = who /\ i' = i /\ new' = new /\ users' = users
        /\ gone' = IF pc = "last" THEN {who} ELSE {}
    BY <1>3, SignalFinds
  <2>2. ASSUME NEW id \in Ids, mc[id] # << >>, ~(id = who /\ Ejecting)
        PROVE  Due(id)' /\ id \notin gone'
    <3>1. users[id] > 0 /\ \E a \in DOMAIN mt : Row(a) /\ mt[a] = id
      BY <2>1, <2>2 DEF MemPoolInv, Pooled
    <3>2. Due(id)'
      BY <2>1, <3>1 DEF Due, HasPool, ToSet
    <3> QED
      BY <2>1, <2>2, <3>2 DEF Ejecting
  <2>3. CASE InFlight(x)
    <3>1. pc = "moved" /\ x = new
      BY <2>1, <2>3 DEF InFlight, Lost
    <3>2. who \in Ids /\ i \in DOMAIN mc[who] /\ ~Ejecting
      BY <2>1, <3>1 DEF Placed, Windows, Ejecting
    <3>3. mc[who] # << >>
      BY <1>1, <3>2, TypesOf
    <3>4. Due(who)' /\ who \notin gone'
      <4>1. \A id \in Ids : id = who => Due(id)' /\ id \notin gone'
        BY <2>2, <3>2, <3>3
      <4> QED
        BY <2>1, <3>2, <4>1
    <3>5. mc[who][i] = new
      BY <2>1, <3>1, <3>2, <3>4 DEF Placed, Lost
    <3> QED
      BY <2>1, <2>2, <3>1, <3>2, <3>3, <3>5
  <2>4. CASE \E id \in Ids : Holds(id, x)
    <3>1. PICK id \in Ids : Holds(id, x)
      BY <2>4
    <3>2. PICK a \in DOMAIN mc[id] : Slot(id, a) /\ mc[id][a] = x
      BY <3>1 DEF Holds
    <3>3. mc[id] # << >>
      BY <1>1, <3>2, TypesOf
    <3>4. ~(id = who /\ Ejecting)
      <4> SUFFICES ASSUME id = who, Ejecting
                   PROVE  FALSE
        OBVIOUS
      <4>1. pc = "rescue" /\ a >= i
        BY <3>2 DEF Slot, Ejecting
      <4>2. a \in i .. Len(mc[who]) /\ x = mc[who][a]
        BY <1>1, <3>2, <4>1, TypesOf DEF TypeOK
      <4> QED
        BY <2>1, <4>1, <4>2 DEF Lost
    <3> QED
      BY <2>1, <2>2, <3>2, <3>3, <3>4
  <2> QED
    BY <2>1, <2>3, <2>4 DEF MemPoolInv, Listed
<1>4. ASSUME NEW kd \in Ids, PoolDestroy(kd)
      PROVE  Goal
  <2>1. /\ pc = "unload" /\ left[kd] > 0 /\ mc' = mc /\ who' = who /\ i' = i
        /\ new' = new /\ hit' = hit /\ pc' # "corrupt"
        /\ \A jd \in Ids : /\ left[jd] \in Nat
                           /\ left'[jd] = IF jd = kd THEN left[jd] - 1 ELSE left[jd]
    BY <1>1, <1>4, Destroyed
  <2>2. \/ /\ ~HasPool(kd) \/ (kd \notin gone /\ mc[kd] = << >>)
           /\ mt' = mt /\ live' = live /\ gone' = gone
        \/ /\ HasPool(kd) /\ kd \notin gone /\ mc[kd] # << >> /\ FreesOnce(mc[kd])
           /\ mt' = RowsWithout(mt, kd)
           /\ live' = live \ ToSet(mc[kd]) /\ gone' = gone \cup {kd}
    BY <1>1, <1>4, <2>1, Destroyed
  <2>3. live' \subseteq live /\ x \in live
    BY <2>2
  <2>4. ASSUME NEW jd \in Ids, jd # kd, Due(jd), jd \notin gone
        PROVE  Due(jd)' /\ jd \notin gone'
    <3>1. left'[jd] > 0 /\ jd \in ToSet(mt)
      BY <2>1, <2>4 DEF Due, HasPool
    <3>2. jd \in ToSet(mt')
      <4>1. CASE mt' = mt
        BY <3>1, <4>1
      <4>2. CASE HasPool(kd) /\ mt' = RowsWithout(mt, kd)
        <5>1. mt \in Seq(Ids) /\ kd \in ToSet(mt)
          BY <1>1, <4>2 DEF TypeOK, HasPool
        <5> QED
          BY <2>4, <3>1, <4>2, <5>1, RowsLeftOver
      <4> QED
        BY <2>2, <4>1, <4>2
    <3> QED
      BY <2>2, <2>4, <3>1, <3>2 DEF Due, HasPool
  <2>5. ASSUME Due(kd), kd \notin gone, NEW a \in DOMAIN mc[kd], mc[kd][a] \in live'
        PROVE  FALSE
    <3>1. HasPool(kd) /\ mc[kd] # << >>
      BY <1>1, <2>5, TypesOf DEF Due
    <3> QED
      BY <2>2, <2>5, <3>1 DEF ToSet
  <2>6. ASSUME Lost(x)
        PROVE  FALSE
    <3>1. CASE \/ hit = "chunk" /\ x = new
               \/ hit = "rescue" /\ \E j \in i .. Len(mc[who]) : x = mc[who][j]
      BY <2>1, <3>1 DEF Lost
    <3>2. CASE /\ hit = "moved" /\ x = new
               /\ who \in Ids /\ Due(who) /\ who \notin gone
               /\ i \in DOMAIN mc[who] /\ mc[who][i] \notin live
      <4>1. CASE who = kd
        <5>1. HasPool(kd) /\ mc[kd] # << >> /\ ~FreesOnce(mc[kd])
          BY <1>1, <3>2, <4>1, TypesOf DEF Due, FreesOnce, ToSet
        <5> QED
          BY <2>2, <3>2, <4>1, <5>1
      <4>2. CASE who # kd
        <5>1. \A jd \in Ids : jd = who => Due(jd)' /\ jd \notin gone'
          BY <2>4, <3>2, <4>2
        <5>2. Due(who)' /\ who \notin gone'
          BY <2>1, <3>2, <5>1
        <5> QED
          BY <2>1, <2>3, <3>2, <5>2 DEF Lost
      <4> QED
        BY <4>1, <4>2
    <3> QED
      BY <2>6, <3>1, <3>2 DEF Lost
  <2>7. PICK id \in Ids : /\ Due(id) /\ id \notin gone
                          /\ \E a \in DOMAIN mc[id] : mc[id][a] = x
    BY <2>1, <2>3, <2>6 DEF MemPoolInv, Accounted
  <2>8. id # kd
    BY <2>5, <2>7
  <2> QED
    BY <2>1, <2>4, <2>7, <2>8
<1>5. CASE Exit \/ Ended
  <2>1. /\ pc \in {"unload", "exited"} /\ live' = live /\ mc' = mc /\ mt' = mt
        /\ left' = left /\ gone' = gone /\ hit' = hit /\ who' = who /\ i' = i
        /\ new' = new
    BY <1>5 DEF Exit, Ended, vars, regs, walk
  <2>2. ~Lost(x)
    BY <2>1 DEF Lost, Due, HasPool
  <2>3. PICK id \in Ids : /\ Due(id) /\ id \notin gone
                          /\ \E a \in DOMAIN mc[id] : mc[id][a] = x
    BY <2>1, <2>2 DEF MemPoolInv, Accounted
  <2>4. Due(id)'
    BY <2>1, <2>3 DEF Due, HasPool
  <2> QED
    BY <2>1, <2>3, <2>4
<1> QED
  BY <1>3, <1>4, <1>5, HandlerSteps

-----------------------------------------------------------------------------
(* What holds before the first call.                                       *)
LEMMA InitInvariant == Init => MemPoolInv
<1> SUFFICES ASSUME Init
             PROVE  MemPoolInv
  OBVIOUS
<1>1. /\ pc = "idle" /\ who = None /\ i = 0 /\ new = None /\ mt = << >>
      /\ mc = [id \in Ids |-> << >>] /\ live = {} /\ users \in [Ids -> 0 .. MaxUsers]
      /\ held = [id \in Ids |-> {}] /\ spoiled = {} /\ hit = "idle"
      /\ left = [id \in Ids |-> 0] /\ gone = {} /\ torn = {}
  BY DEF Init
<1>2. /\ << >> \in Seq(Addrs) /\ << >> \in Seq(Ids) /\ Len(<< >>) = 0
      /\ DOMAIN << >> = {}
  BY EmptySeq
<1>3. Cardinality(Ids) \in Nat /\ Cardinality(Addrs) \in Nat
  BY FS_CardinalityType, MemPoolAssumption DEF MemPoolAssumption
<1>4. TypeOK
  <2>1. left \in [Ids -> 0 .. MaxUsers]
    BY <1>1, MemPoolAssumption DEF MemPoolAssumption
  <2>2. mc \in [Ids -> Seq(Addrs)] /\ \A id \in Ids : Len(mc[id]) <= Cardinality(Addrs)
    BY <1>1, <1>2, <1>3
  <2>3. mt \in Seq(Ids) /\ Len(mt) <= Cardinality(Ids)
    BY <1>1, <1>2, <1>3
  <2> QED
    BY <1>1, <2>1, <2>2, <2>3 DEF TypeOK
<1>5. \A id \in Ids : mc[id] = << >> /\ DOMAIN mc[id] = {} /\ \A x : ~Holds(id, x)
  BY <1>1, <1>2 DEF Holds
<1>6. Placed
  BY <1>1 DEF Placed, Windows
<1>7. OneRow /\ Pooled
  BY <1>1, <1>2, <1>5 DEF OneRow, Pooled
<1>8. OneSlot /\ Backed /\ Listed
  BY <1>1, <1>5 DEF OneSlot, Backed, Listed
<1>9. Remembered
  BY <1>1, <1>5 DEF Remembered, Remembers, Ejecting
<1>10. Unloading /\ CorruptOnlyInWindows /\ Accounted
  BY <1>1 DEF Unloading, CorruptOnlyInWindows, Accounted
<1> QED
  BY <1>4, <1>6, <1>7, <1>8, <1>9, <1>10 DEF MemPoolInv

(* Every step keeps the invariant.                                         *)
LEMMA NextInvariant == MemPoolInv /\ [Next]_vars => MemPoolInv'
<1> SUFFICES ASSUME MemPoolInv, [Next]_vars
             PROVE  MemPoolInv'
  OBVIOUS
<1>1. CASE Next
  <2>1. TypeOK' /\ Placed' /\ OneRow' /\ Pooled'
    BY <1>1, TypeStep, PlacedStep, OneRowStep, PooledStep
  <2>2. OneSlot' /\ Backed' /\ Listed' /\ Remembered'
    BY <1>1, OneSlotStep, BackedStep, ListedStep, RememberedStep
  <2>3. Unloading' /\ CorruptOnlyInWindows' /\ Accounted'
    BY <1>1, UnloadingStep, CorruptStep, AccountedStep
  <2> QED
    BY <2>1, <2>2, <2>3 DEF MemPoolInv
<1>2. CASE UNCHANGED vars
  <2>1. UNCHANGED << pc, who, i, new, mt, mc, live, users, held, spoiled, hit,
                     left, gone, torn >>
    BY <1>2 DEF vars, regs, walk
  <2>2. TypeOK' /\ Placed' /\ OneRow' /\ Pooled'
    BY <2>1 DEF MemPoolInv, TypeOK, Placed, OneRow, Pooled, Running, Ejecting,
                Row, HasPool
  <2>3. OneSlot' /\ Backed' /\ Listed' /\ Remembered'
    BY <2>1 DEF MemPoolInv, OneSlot, Backed, Listed, Remembered, Remembers, Running,
                Ejecting, Slot, Holds, InFlight
  <2>4. Unloading' /\ CorruptOnlyInWindows' /\ Accounted'
    BY <2>1 DEF MemPoolInv, Unloading, CorruptOnlyInWindows, Accounted, Excused, Due,
                HasPool, Lost
  <2> QED
    BY <2>2, <2>3, <2>4 DEF MemPoolInv
<1> QED
  BY <1>1, <1>2

-----------------------------------------------------------------------------
(* At every moment of every call the slots that count hold the blocks that *)
(* are allocated, each once, and the handler finds what it may free.       *)
THEOREM MemPoolInvariant == Spec => []MemPoolInv
<1>1. MemPoolInv /\ [Next]_vars => MemPoolInv'
  BY NextInvariant
<1> QED
  BY <1>1, InitInvariant, PTL DEF Spec

(* Every variable keeps its type; no array outgrows what it lists.         *)
THEOREM MemPoolTypes == Spec => []TypeOK
<1>1. MemPoolInv => TypeOK
  BY DEF MemPoolInv
<1> QED
  BY <1>1, MemPoolInvariant, PTL

(* Between two calls each allocated block is a chunk of one pool, once, and *)
(* each pool has one row: db_mem_alloc, db_mem_realloc, db_mem_free and     *)
(* db_mem_pool_destroy leave the table as true as they find it.             *)
THEOREM TableTellsTruth == Spec => []TableMatchesHeap
<1>1. ASSUME MemPoolInv
      PROVE  TableMatchesHeap
  <2>1. TypeOK
    BY <1>1 DEF MemPoolInv
  <2> SUFFICES ASSUME pc = "idle"
               PROVE  /\ IsInjective(mt)
                      /\ \A id \in Ids : /\ IsInjective(mc[id])
                                         /\ mc[id] # << >> => HasPool(id)
                      /\ \A id, jd \in Ids : id # jd =>
                           ToSet(mc[id]) \cap ToSet(mc[jd]) = {}
                      /\ live = UNION {ToSet(mc[id]) : id \in Ids}
    BY <2>1 DEF TableMatchesHeap
  <2>2. /\ Running /\ ~Ejecting
        /\ \A a : Row(a) <=> a \in DOMAIN mt
        /\ \A id, a : Slot(id, a) <=> a \in DOMAIN mc[id]
        /\ \A x : ~InFlight(x)
    BY DEF Running, Ejecting, Row, Slot, InFlight
  <2>3. IsInjective(mt)
    BY <1>1, <2>2 DEF MemPoolInv, OneRow, IsInjective
  <2>4. \A id, jd \in Ids : \A a \in DOMAIN mc[id], b \in DOMAIN mc[jd] :
          mc[id][a] = mc[jd][b] => id = jd /\ a = b
    BY <1>1, <2>2 DEF MemPoolInv, OneSlot
  <2>5. \A id \in Ids : IsInjective(mc[id]) /\ (mc[id] # << >> => HasPool(id))
    <3>1. \A id \in Ids : mc[id] # << >> => HasPool(id)
      BY <1>1, <2>2 DEF MemPoolInv, Pooled, HasPool, ToSet
    <3> QED
      BY <2>4, <3>1 DEF IsInjective
  <2>6. \A id, jd \in Ids : id # jd => ToSet(mc[id]) \cap ToSet(mc[jd]) = {}
    BY <2>4 DEF ToSet
  <2>7. \A id \in Ids : ToSet(mc[id]) \subseteq live
    BY <1>1, <2>2 DEF MemPoolInv, Backed, ToSet
  <2>8. \A x \in live : \E id \in Ids : x \in ToSet(mc[id])
    BY <1>1, <2>2 DEF MemPoolInv, Listed, Holds, ToSet
  <2>9. live = UNION {ToSet(mc[id]) : id \in Ids}
    BY <2>7, <2>8
  <2> QED
    BY <2>3, <2>5, <2>6, <2>9
<1> QED
  BY <1>1, MemPoolInvariant, PTL

(* A call of db_mem_free aborts, and db_mem_realloc reads behind the chunks, *)
(* only for a plugin one of whose elements was ejected while another stayed. *)
THEOREM StaleBySharing == Spec => []StaleOnlyBySharing
<1>1. ASSUME MemPoolInv
      PROVE  StaleOnlyBySharing
  <2>1. ASSUME pc = "idle", NEW id \in Ids \ spoiled
        PROVE  held[id] = ToSet(mc[id])
    <3>1. \A x \in Addrs : x \in held[id] <=> x \in ToSet(mc[id])
      BY <1>1, <2>1, RemembersIdle
    <3>2. held[id] \subseteq Addrs /\ ToSet(mc[id]) \subseteq Addrs
      BY <1>1, TypesOf DEF MemPoolInv, ToSet
    <3> QED
      BY <3>1, <3>2
  <2> QED
    BY <1>1, <2>1 DEF StaleOnlyBySharing, MemPoolInv, Remembered
<1> QED
  BY <1>1, MemPoolInvariant, PTL

(* The unloading a terminating signal starts frees nothing twice, unless the *)
(* signal came in one of the excepted windows.                               *)
THEOREM CorruptInWindows == Spec => []CorruptOnlyInWindows
<1>1. MemPoolInv => CorruptOnlyInWindows
  BY DEF MemPoolInv
<1> QED
  BY <1>1, MemPoolInvariant, PTL

(* What that unloading leaves allocated belongs to the interrupted call.   *)
THEOREM LeaksInFlight == Spec => []LeaksOnlyInFlight
<1>1. ASSUME MemPoolInv
      PROVE  LeaksOnlyInFlight
  <2> SUFFICES ASSUME pc = "exited"
               PROVE  \/ live = {}
                      \/ hit = "chunk" /\ live = {new}
                      \/ hit = "rescue"
                         /\ live \subseteq {mc[who][j] : j \in i .. Len(mc[who])}
    BY DEF LeaksOnlyInFlight
  <2>1. \A id \in Ids : ~Due(id)
    BY <1>1 DEF MemPoolInv, Accounted, Due
  <2>2. \A x \in live : Lost(x)
    BY <1>1, <2>1 DEF MemPoolInv, Accounted
  <2>3. \A x \in live : \/ hit = "chunk" /\ x = new
                        \/ hit = "rescue" /\ \E j \in i .. Len(mc[who]) : x = mc[who][j]
    BY <2>1, <2>2 DEF Lost
  <2> QED
    BY <2>3
<1> QED
  BY <1>1, MemPoolInvariant, PTL
=============================================================================
