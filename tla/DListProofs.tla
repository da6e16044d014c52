---------------------------- MODULE DListProofs -----------------------------
(***************************************************************************)
(* The list of libdeskbar/list.c is in order at whatever statement it is   *)
(* looked at, and is the sequence SeqList promises: for any number of      *)
(* nodes and signals.                                                      *)
(*                                                                         *)
(* The inductive invariant DListInv has the sequence of nodes as a witness *)
(* and says of each field how it differs from that sequence in the middle  *)
(* of a call: by the element of the call, or by the one link about to be   *)
(* set (Linked).  In the handler it says how far the list is freed         *)
(* (Walked).  PathIs ties the sequence to the recursive Path of the model. *)
(***************************************************************************)
EXTENDS DList, DivisorProofs, FiniteSetTheorems, SequenceTheorems

(* s is what succ leads to from e, node after node, up to NULL.            *)
Runs(s, succ, e) ==
  /\ s \in Seq(Nodes)
  /\ \A a, b \in 1 .. Len(s) : s[a] = s[b] => a = b
  /\ e = IF Len(s) = 0 THEN NULL ELSE s[1]
  /\ \A a \in 1 .. Len(s) : succ[s[a]] = IF a = Len(s) THEN NULL ELSE s[a + 1]

(* Where control can be before the first signal.                           *)
Adding   == {"back", "last", "count"}
Outside  == {"link", "unlast", "unprev", "data", "node"}
Dropping == {"unlast", "unprev", "data", "node", "uncount"}
Calls    == {"idle", "unlink", "unnext"} \cup Adding \cup Outside \cup Dropping

-----------------------------------------------------------------------------
(* What holds of the list, the sequence s of nodes, before the first       *)
(* signal.                                                                 *)

(* next leads from first through s; all data differ.                       *)
Chained(s) ==
  /\ Runs(s, next, first)
  /\ \A a \in 1 .. Len(s) : data[s[a]] \in Data
  /\ \A a, b \in 1 .. Len(s) : data[s[a]] = data[s[b]] => a = b

(* What is allocated: the list, and cur while it is not in it.             *)
Stored(s) ==
  /\ nodes = {s[a] : a \in 1 .. Len(s)} \cup
             (IF pc \in Outside THEN {cur} ELSE {})
  /\ payload = {data[s[a]] : a \in 1 .. Len(s)} \cup
               (IF pc \in Outside \ {"node"} THEN {data[cur]} ELSE {})

(* Where the element of the call is.                                       *)
Placed(s) ==
  /\ pc = "idle" => cur = NULL
  /\ pc \in Outside \cup Dropping =>
       cur \in Nodes /\ \A a \in 1 .. Len(s) : s[a] # cur /\ data[s[a]] # data[cur]
  /\ pc \in Adding \cup {"unnext"} => Len(s) > 0 /\ cur = s[Len(s)]
  /\ pc \in {"back", "unnext"} => Len(s) > 1
  /\ pc = "unlink" => \E a \in 1 .. Len(s) : cur = s[a]
  /\ pc = "link" => next[cur] = NULL /\ prev[cur] = NULL /\ data[cur] \in Data
  /\ pc = "unlast" => Len(s) = 0

(* The count is behind by the element of the call.                         *)
Tallied(s) ==
  elements = Len(s) + (IF pc \in Adding THEN -1 ELSE IF pc \in Dropping THEN 1 ELSE 0)

(* prev leads back, but for the one link that is about to be set.          *)
Before(s, a) == IF a = 1 THEN NULL ELSE s[a - 1]

Backward(s) ==
  /\ \A a \in 1 .. Len(s) :
       \/ prev[s[a]] = Before(s, a)
       \/ pc = "back" /\ a = Len(s)
       \/ pc = "unprev" /\ s[a] = next[cur]
  /\ pc = "unprev" =>
       \E a \in 1 .. Len(s) : s[a] = next[cur] /\ prev[cur] = Before(s, a)

(* The end of the list, but while it is about to be set.                   *)
EndRight(s) ==
  /\ pc \notin {"back", "last", "unlast", "unnext"} =>
       last = IF Len(s) = 0 THEN NULL ELSE s[Len(s)]
  /\ pc \in {"back", "unnext"} => last = s[Len(s) - 1]

(* A pass goes on with an element of the list, the one behind its own if   *)
(* that is still in the list, and no other has the same data.              *)
Passing(s) ==
  /\ wcur = NULL => wnext = NULL
  /\ wcur # NULL =>
       /\ pc \notin Adding \cup {"link"}
       /\ data[wcur] \in Data
       /\ pc \in {"unlink", "unnext"} => cur = wcur
       /\ wnext = NULL \/ \E a \in 1 .. Len(s) : s[a] = wnext
       /\ \A a \in 1 .. Len(s) : data[s[a]] = data[wcur] => s[a] = wcur
       /\ \A a \in 1 .. Len(s) :
            s[a] = wcur => wnext = IF a = Len(s) THEN NULL ELSE s[a + 1]

Linked(s) ==
  /\ Chained(s) /\ Stored(s) /\ Placed(s) /\ Tallied(s) /\ Backward(s)
  /\ EndRight(s) /\ Passing(s)

-----------------------------------------------------------------------------
(* What holds of it in the handler, until a signal comes too late.         *)

(* The handler is at the p-th element: those in front are freed, those     *)
(* behind are there.                                                       *)
Freeing(s, p) ==
  /\ hcur = IF p > Len(s) THEN NULL ELSE s[p]
  /\ \A a \in 1 .. Len(s) : a < p => s[a] \notin nodes
  /\ \A a \in 1 .. Len(s) : a > p => Intact(s[a])
  /\ pc = "destroy" /\ p <= Len(s) => Intact(s[p])
  /\ pc = "release" => p <= Len(s) /\ s[p] \in nodes /\ data[s[p]] \notin payload

Walked(s) ==
  /\ Runs(s, next, first)
  /\ \A a, b \in 1 .. Len(s) : data[s[a]] = data[s[b]] => a = b
  /\ nodes \subseteq {s[a] : a \in 1 .. Len(s)} \cup {cur}
  /\ payload \subseteq {data[n] : n \in nodes}
  /\ ~bad
  /\ freed <=> pc \in {"exit", "exited"}
  /\ pc = "notify" =>
       /\ hcur = NULL \/ \E a \in 1 .. Len(s) : s[a] = hcur
       /\ \A a \in 1 .. Len(s) : Intact(s[a])
  /\ pc \in {"destroy", "release"} => \E p \in 1 .. Len(s) + 1 : Freeing(s, p)
  /\ pc \in {"exit", "exited"} => \A a \in 1 .. Len(s) : s[a] \notin nodes

(* Once one has, freed memory is used, at the latest by the first step.    *)
Doomed ==
  bad \/ (pc = "notify" /\ first # NULL /\ hcur = first /\ ~Intact(first))

(* The inductive invariant.                                                *)
DListInv ==
  /\ TypeOK
  /\ pc = "release" => hcur # NULL
  /\ signals = 0 => /\ pc \in Calls /\ ~bad /\ ~freed /\ ~late
                    /\ \E s \in Seq(Nodes) : Linked(s)
  /\ signals > 0 => /\ pc \in Handler \cup {"exited"}
                    /\ late => Doomed
                    /\ ~late => \E s \in Seq(Nodes) : Walked(s)

(* The sequence s without its k-th element.                                *)
Without(s, k) == SubSeq(s, 1, k - 1) \o SubSeq(s, k + 1, Len(s))

(* One step of Path.                                                       *)
Onward(succ, e, s) ==
  LET n == IF s = << >> THEN e ELSE succ[s[Len(s)]]
  IN  IF n = NULL THEN s ELSE Append(s, n)

-----------------------------------------------------------------------------
(* Sequences.                                                              *)

(* What a sequence of elements of S is.                                    *)
LEMMA SeqFacts ==
  ASSUME NEW S, NEW s \in Seq(S)
  PROVE  /\ Len(s) \in Nat
         /\ DOMAIN s = 1 .. Len(s)
         /\ \A k \in 1 .. Len(s) : s[k] \in S
         /\ s = << >> <=> Len(s) = 0
BY LenProperties, ElementOfSeq, EmptySeq

(* A sequence without repetition is as long as it has elements, and has    *)
(* room in S.                                                              *)
LEMMA OnceFits ==
  ASSUME NEW S, IsFiniteSet(S), NEW s \in Seq(S),
         \A a, b \in 1 .. Len(s) : s[a] = s[b] => a = b
  PROVE  /\ Len(s) <= Cardinality(S)
         /\ Cardinality({s[a] : a \in 1 .. Len(s)}) = Len(s)
<1> DEFINE R == {s[a] : a \in 1 .. Len(s)}
<1>1. Len(s) \in Nat /\ DOMAIN s = 1 .. Len(s) /\ s \in [1 .. Len(s) -> S]
  BY SeqFacts, LenProperties
<1>2. s \in Bijection(1 .. Len(s), R)
  BY <1>1 DEF Bijection, Injection, Surjection, IsInjective
<1>3. IsFiniteSet(1 .. Len(s)) /\ Cardinality(1 .. Len(s)) = Len(s)
  BY <1>1, FS_Interval
<1>4. Cardinality(R) = Len(s)
  <2>1. ExistsBijection(1 .. Len(s), R)
    BY <1>2 DEF ExistsBijection
  <2> QED
    BY <1>3, <2>1, FS_Bijection
<1>5. R \in SUBSET S
  BY <1>1
<1>6. Cardinality(R) <= Cardinality(S)
  BY <1>5, FS_Subset
<1> QED
  BY <1>4, <1>6

(* An initial part of s, and the element behind it.                        *)
LEMMA Grows ==
  ASSUME NEW S, NEW s \in Seq(S), NEW k \in 1 .. Len(s)
  PROVE  Append(SubSeq(s, 1, k - 1), s[k]) = SubSeq(s, 1, k)
<1> DEFINE l == SubSeq(s, 1, k - 1)
           m == SubSeq(s, 1, k)
<1>1. Len(s) \in Nat /\ k \in Nat /\ k <= Len(s) /\ 1 <= k /\ \A a \in 1 .. Len(s) : s[a] \in S
  BY SeqFacts
<1>2. l \in Seq(S) /\ Len(l) = k - 1 /\ \A a \in 1 .. k - 1 : l[a] = s[a]
  <2>1. k - 1 \in Int /\ 1 \in Int /\ \A a \in 1 .. k - 1 : s[a] \in S
    BY <1>1
  <2>2. /\ l \in Seq(S)
        /\ Len(l) = IF 1 <= k - 1 THEN (k - 1) - 1 + 1 ELSE 0
        /\ \A a \in 1 .. (k - 1) - 1 + 1 : l[a] = s[1 + a - 1]
    BY <2>1, SubSeqProperties
  <2> HIDE DEF l
  <2> QED
    BY <1>1, <2>2
<1>3. m \in Seq(S) /\ Len(m) = k /\ \A a \in 1 .. k : m[a] = s[a]
  <2>1. k \in Int /\ 1 \in Int /\ \A a \in 1 .. k : s[a] \in S
    BY <1>1
  <2>2. /\ m \in Seq(S)
        /\ Len(m) = IF 1 <= k THEN k - 1 + 1 ELSE 0
        /\ \A a \in 1 .. k - 1 + 1 : m[a] = s[1 + a - 1]
    BY <2>1, SubSeqProperties
  <2> HIDE DEF m
  <2> QED
    BY <1>1, <2>2
<1> HIDE DEF l, m
<1> DEFINE n == Append(l, s[k])
<1>4. n \in Seq(S) /\ Len(n) = k /\ n[k] = s[k] /\ \A a \in 1 .. k - 1 : n[a] = s[a]
  <2>1. s[k] \in S
    BY <1>1
  <2>2. /\ n \in Seq(S) /\ Len(n) = Len(l) + 1
        /\ \A a \in 1 .. Len(l) : n[a] = l[a]
        /\ n[Len(l) + 1] = s[k]
    BY <1>2, <2>1, AppendProperties
  <2> HIDE DEF n
  <2> QED
    BY <1>1, <1>2, <2>2
<1> HIDE DEF n
<1>5. \A a \in 1 .. k : n[a] = m[a]
  <2> TAKE a \in 1 .. k
  <2>1. CASE a = k
    BY <1>3, <1>4, <2>1
  <2>2. CASE a \in 1 .. k - 1
    BY <1>3, <1>4, <2>2
  <2> QED
    BY <1>1, <2>1, <2>2
<1>6. n = m
  BY <1>3, <1>4, <1>5, SeqEqual
<1> QED
  BY <1>6 DEF n, l, m

(* Path computes the sequence that runs from e.                            *)
LEMMA PathIs ==
  ASSUME NEW succ, NEW e, NEW s, Runs(s, succ, e)
  PROVE  Path(succ, e) = s
<1> DEFINE N == Cardinality(Nodes)
           F(w) == [k \in 0 .. N |-> IF k = 0 THEN << >>
                                     ELSE Onward(succ, e, w[k - 1])]
           walk == CHOOSE w : w = F(w)
           w0   == [k \in 0 .. N |-> IF k <= Len(s) THEN SubSeq(s, 1, k) ELSE s]
<1>1. /\ s \in Seq(Nodes) /\ Len(s) \in Nat /\ N \in Nat /\ Len(s) <= N
      /\ \A a \in 1 .. Len(s) : s[a] \in Nodes
      /\ s = << >> <=> Len(s) = 0
  BY SeqFacts, OnceFits, FS_CardinalityType, DListAssumption DEF Runs
<1>2. Path(succ, e) = walk[N]
  BY DEF Path, Onward
<1>3. \A k \in 0 .. Len(s) :
        /\ SubSeq(s, 1, k) \in Seq(Nodes) /\ Len(SubSeq(s, 1, k)) = k
        /\ \A a \in 1 .. k : SubSeq(s, 1, k)[a] = s[a]
  <2> TAKE k \in 0 .. Len(s)
  <2> DEFINE m == SubSeq(s, 1, k)
  <2>1. k \in Int /\ 1 \in Int /\ \A a \in 1 .. k : s[a] \in Nodes
    BY <1>1
  <2>2. /\ m \in Seq(Nodes)
        /\ Len(m) = IF 1 <= k THEN k - 1 + 1 ELSE 0
        /\ \A a \in 1 .. k - 1 + 1 : m[a] = s[1 + a - 1]
    BY <2>1, SubSeqProperties
  <2> HIDE DEF m
  <2>3. m \in Seq(Nodes) /\ Len(m) = k /\ \A a \in 1 .. k : m[a] = s[a]
    BY <1>1, <2>2
  <2> QED
    BY <2>3 DEF m
<1>4. Onward(succ, e, s) = s
  <2>1. CASE Len(s) = 0
    BY <1>1, <2>1 DEF Runs, Onward
  <2>2. CASE Len(s) # 0
    <3>1. Len(s) \in 1 .. Len(s)
      BY <1>1, <2>2
    <3>2. succ[s[Len(s)]] = NULL
      BY <3>1 DEF Runs
    <3> QED
      BY <1>1, <2>2, <3>2 DEF Onward
  <2> QED
    BY <2>1, <2>2
<1>5. \A k \in 1 .. Len(s) : Onward(succ, e, SubSeq(s, 1, k - 1)) = SubSeq(s, 1, k)
  <2> TAKE k \in 1 .. Len(s)
  <2> DEFINE l == SubSeq(s, 1, k - 1)
  <2>1. /\ k \in Nat /\ k - 1 \in 0 .. Len(s) /\ s[k] \in Nodes
    BY <1>1
  <2>2. l \in Seq(Nodes) /\ Len(l) = k - 1 /\ \A a \in 1 .. k - 1 : l[a] = s[a]
    BY <1>3, <2>1
  <2>3. l = << >> <=> k - 1 = 0
    BY <2>2, SeqFacts
  <2> HIDE DEF l
  <2>4. (IF l = << >> THEN e ELSE succ[l[Len(l)]]) = s[k]
    <3>1. CASE k = 1
      BY <1>1, <2>3, <3>1 DEF Runs
    <3>2. CASE k # 1
      <4>1. k - 1 \in 1 .. k - 1 /\ k - 1 \in 1 .. Len(s) /\ k - 1 # Len(s) /\ (k - 1) + 1 = k
        BY <1>1, <2>1, <3>2
      <4>2. l[Len(l)] = s[k - 1] /\ succ[s[k - 1]] = s[k]
        BY <2>2, <4>1 DEF Runs
      <4> QED
        BY <2>1, <2>3, <3>2, <4>2
    <3> QED
      BY <3>1, <3>2
  <2>5. s[k] # NULL
    BY <2>1, DListAssumption
  <2>6. Onward(succ, e, l) = Append(l, s[k])
    BY <2>4, <2>5 DEF Onward
  <2> QED
    BY <1>1, <2>6, Grows DEF l
<1>6. SubSeq(s, 1, Len(s)) = s /\ SubSeq(s, 1, 0) = << >>
  BY <1>1, SubSeqFull, SubSeqEmpty
<1> HIDE DEF N
<1>7. \A k \in 1 .. N : Onward(succ, e, w0[k - 1]) = w0[k]
  <2> TAKE k \in 1 .. N
  <2>1. k \in 0 .. N /\ k - 1 \in 0 .. N /\ k \in Nat
    BY <1>1
  <2>2. CASE k <= Len(s)
    <3>1. k \in 1 .. Len(s) /\ k - 1 <= Len(s)
      BY <1>1, <2>1, <2>2
    <3>2. w0[k] = SubSeq(s, 1, k) /\ w0[k - 1] = SubSeq(s, 1, k - 1)
      BY <2>1, <2>2, <3>1
    <3> QED
      BY <1>5, <3>1, <3>2
  <2>3. CASE ~(k <= Len(s))
    <3>1. w0[k] = s
      BY <2>1, <2>3
    <3>2. w0[k - 1] = s
      <4>1. CASE k - 1 = Len(s)
        BY <1>1, <1>6, <2>1, <4>1
      <4>2. CASE k - 1 # Len(s)
        BY <1>1, <2>1, <2>3, <4>2
      <4> QED
        BY <4>1, <4>2
    <3> QED
      BY <1>4, <3>1, <3>2
  <2> QED
    BY <2>2, <2>3
<1>8. w0[0] = << >> /\ w0[N] = s
  <2>1. 0 \in 0 .. N /\ N \in 0 .. N /\ 0 <= Len(s)
    BY <1>1
  <2>2. w0[0] = << >>
    BY <1>6, <2>1
  <2>3. CASE N = Len(s)
    BY <1>6, <2>1, <2>2, <2>3
  <2>4. CASE N # Len(s)
    <3>1. ~(N <= Len(s))
      BY <1>1, <2>4
    <3>2. w0[N] = s
      BY <2>1, <3>1
    <3> QED
      BY <2>2, <3>2
  <2> QED
    BY <2>3, <2>4
<1>9. w0 = F(w0)
  <2> HIDE DEF w0
  <2>1. w0 = [k \in 0 .. N |-> w0[k]]
    BY DEF w0
  <2>2. \A k \in 0 .. N : w0[k] = IF k = 0 THEN << >> ELSE Onward(succ, e, w0[k - 1])
    BY <1>1, <1>7, <1>8
  <2> QED
    BY <2>1, <2>2
<1>10. walk = F(walk)
  <2> HIDE DEF F, w0
  <2> QED
    BY <1>9
<1> HIDE DEF w0, walk
<1>11. \A k \in 0 .. N : walk[k] = w0[k]
  <2> SUFFICES ASSUME \E k \in 0 .. N : walk[k] # w0[k]
               PROVE  FALSE
    OBVIOUS
  <2> DEFINE T == {k \in 0 .. N : walk[k] # w0[k]}
  <2>1. T \in SUBSET Nat /\ T # {}
    BY <1>1
  <2>2. PICK k \in T : \A j \in T : k <= j
    BY <2>1, LeastExists
  <2>3. walk[0] = << >>
    BY <1>1, <1>10
  <2>4. k \in 1 .. N
    BY <1>1, <1>8, <2>2, <2>3
  <2>5. k - 1 \in 0 .. N /\ k - 1 \notin T
    BY <1>1, <2>2, <2>4
  <2>6. walk[k] = Onward(succ, e, walk[k - 1])
    BY <1>1, <1>10, <2>4
  <2> QED
    BY <1>7, <2>2, <2>4, <2>5, <2>6
<1> QED
  BY <1>1, <1>2, <1>8, <1>11

(* What is left of s without its k-th element.                             *)
LEMMA LeftOut ==
  ASSUME NEW S, NEW s \in Seq(S), NEW k \in 1 .. Len(s)
  PROVE  /\ Without(s, k) \in Seq(S)
         /\ Len(Without(s, k)) = Len(s) - 1
         /\ \A j \in 1 .. Len(s) - 1 :
              Without(s, k)[j] = IF j < k THEN s[j] ELSE s[j + 1]
<1> DEFINE l == SubSeq(s, 1, k - 1)
           r == SubSeq(s, k + 1, Len(s))
<1>1. Len(s) \in Nat /\ k \in Nat /\ \A j \in 1 .. Len(s) : s[j] \in S
  BY SeqFacts
<1>2. l \in Seq(S) /\ Len(l) = k - 1 /\ \A j \in 1 .. k - 1 : l[j] = s[j]
  <2>1. k - 1 \in Int /\ 1 \in Int /\ \A j \in 1 .. k - 1 : s[j] \in S
    BY <1>1
  <2>2. /\ l \in Seq(S)
        /\ Len(l) = IF 1 <= k - 1 THEN (k - 1) - 1 + 1 ELSE 0
        /\ \A j \in 1 .. (k - 1) - 1 + 1 : l[j] = s[1 + j - 1]
    BY <2>1, SubSeqProperties
  <2> HIDE DEF l
  <2> QED
    BY <1>1, <2>2
<1>3. /\ r \in Seq(S) /\ Len(r) = Len(s) - k
      /\ \A j \in 1 .. Len(s) - k : r[j] = s[k + j]
  <2>1. k + 1 \in Int /\ Len(s) \in Int /\ \A j \in k + 1 .. Len(s) : s[j] \in S
    BY <1>1
  <2>2. /\ r \in Seq(S)
        /\ Len(r) = IF k + 1 <= Len(s) THEN Len(s) - (k + 1) + 1 ELSE 0
        /\ \A j \in 1 .. Len(s) - (k + 1) + 1 : r[j] = s[k + 1 + j - 1]
    BY <2>1, SubSeqProperties
  <2> HIDE DEF r
  <2> QED
    BY <1>1, <2>2
<1>4. Without(s, k) = l \o r
  BY DEF Without
<1> HIDE DEF l, r
<1>5. /\ l \o r \in Seq(S) /\ Len(l \o r) = Len(l) + Len(r)
      /\ \A j \in 1 .. Len(l) + Len(r) :
           (l \o r)[j] = IF j <= Len(l) THEN l[j] ELSE r[j - Len(l)]
  BY <1>2, <1>3, ConcatProperties
<1>6. \A j \in 1 .. Len(s) - 1 : (l \o r)[j] = IF j < k THEN s[j] ELSE s[j + 1]
  <2> TAKE j \in 1 .. Len(s) - 1
  <2>1. (l \o r)[j] = IF j <= k - 1 THEN l[j] ELSE r[j - (k - 1)]
    BY <1>1, <1>2, <1>3, <1>5
  <2>2. CASE j < k
    BY <1>1, <1>2, <2>1, <2>2
  <2>3. CASE ~(j < k)
    <3>1. j - (k - 1) \in 1 .. Len(s) - k /\ k + (j - (k - 1)) = j + 1
      BY <1>1, <2>3
    <3>2. r[j - (k - 1)] = s[j + 1]
      BY <1>3, <3>1
    <3> QED
      BY <1>1, <2>1, <2>3, <3>2
  <2> QED
    BY <2>2, <2>3
<1> QED
  BY <1>1, <1>2, <1>3, <1>4, <1>5, <1>6

(* Its elements are the others.                                            *)
LEMMA OthersLeft ==
  ASSUME NEW s \in Seq(Nodes), NEW k \in 1 .. Len(s)
  PROVE  /\ \A j \in 1 .. Len(Without(s, k)) :
              \E a \in 1 .. Len(s) : a # k /\ Without(s, k)[j] = s[a]
         /\ \A a \in 1 .. Len(s) :
              a # k => \E j \in 1 .. Len(Without(s, k)) : Without(s, k)[j] = s[a]
<1> PICK t : t = Without(s, k)
  OBVIOUS
<1>1. /\ Len(s) \in Nat /\ k \in Nat /\ Len(t) = Len(s) - 1
      /\ \A j \in 1 .. Len(s) - 1 : t[j] = IF j < k THEN s[j] ELSE s[j + 1]
  BY SeqFacts, LeftOut
<1>2. \A j \in 1 .. Len(t) : \E a \in 1 .. Len(s) : a # k /\ t[j] = s[a]
  <2> TAKE j \in 1 .. Len(t)
  <2>1. CASE j < k
    <3>1. j \in 1 .. Len(s) /\ j # k /\ t[j] = s[j]
      BY <1>1, <2>1
    <3> QED
      BY <3>1
  <2>2. CASE ~(j < k)
    <3>1. j + 1 \in 1 .. Len(s) /\ j + 1 # k /\ t[j] = s[j + 1]
      BY <1>1, <2>2
    <3> QED
      BY <3>1
  <2> QED
    BY <2>1, <2>2
<1>3. \A a \in 1 .. Len(s) : a # k => \E j \in 1 .. Len(t) : t[j] = s[a]
  <2> SUFFICES ASSUME NEW a \in 1 .. Len(s), a # k
               PROVE  \E j \in 1 .. Len(t) : t[j] = s[a]
    OBVIOUS
  <2>1. CASE a < k
    <3>1. a \in 1 .. Len(t) /\ t[a] = s[a]
      BY <1>1, <2>1
    <3> QED
      BY <3>1
  <2>2. CASE ~(a < k)
    <3>1. a - 1 \in 1 .. Len(t) /\ ~(a - 1 < k) /\ (a - 1) + 1 = a
      BY <1>1, <2>2
    <3>2. t[a - 1] = s[a]
      BY <1>1, <3>1
    <3> QED
      BY <3>1, <3>2
  <2> QED
    BY <2>1, <2>2
<1> QED
  BY <1>2, <1>3

-----------------------------------------------------------------------------
(* How the sequence changes with its links.                                *)

(* It grows at the end.                                                    *)
LEMMA RunsOn ==
  ASSUME NEW succ \in [Nodes -> Ref], NEW e, NEW s, Runs(s, succ, e),
         NEW n \in Nodes, \A a \in 1 .. Len(s) : s[a] # n,
         succ[n] = NULL, Len(s) > 0
  PROVE  Runs(Append(s, n), [succ EXCEPT ![s[Len(s)]] = n], e)
<1> DEFINE t == Append(s, n)
           f == [succ EXCEPT ![s[Len(s)]] = n]
<1>1. /\ s \in Seq(Nodes) /\ Len(s) \in Nat /\ \A a \in 1 .. Len(s) : s[a] \in Nodes
  BY SeqFacts DEF Runs
<1>2. /\ t \in Seq(Nodes) /\ Len(t) = Len(s) + 1
      /\ \A a \in 1 .. Len(s) : t[a] = s[a]
      /\ t[Len(s) + 1] = n
  BY <1>1, AppendProperties
<1>3. Len(s) \in 1 .. Len(s) /\ s[Len(s)] \in Nodes /\ s[Len(s)] # n
  BY <1>1
<1>4. f[s[Len(s)]] = n /\ f[n] = NULL
  BY <1>3
<1>5. \A a \in 1 .. Len(s) - 1 : f[s[a]] = s[a + 1]
  <2> TAKE a \in 1 .. Len(s) - 1
  <2>1. a \in 1 .. Len(s) /\ a # Len(s)
    BY <1>1
  <2>2. s[a] # s[Len(s)] /\ succ[s[a]] = s[a + 1]
    BY <1>3, <2>1 DEF Runs
  <2> QED
    BY <1>1, <2>1, <2>2
<1> HIDE DEF t, f
<1>6. \A a, b \in 1 .. Len(t) : t[a] = t[b] => a = b
  <2> SUFFICES ASSUME NEW a \in 1 .. Len(t), NEW b \in 1 .. Len(t), t[a] = t[b]
               PROVE  a = b
    OBVIOUS
  <2>1. \A c \in 1 .. Len(t) : c \in 1 .. Len(s) \/ c = Len(s) + 1
    BY <1>1, <1>2
  <2>2. CASE a \in 1 .. Len(s) /\ b \in 1 .. Len(s)
    BY <1>2, <2>2 DEF Runs
  <2>3. CASE a = Len(s) + 1 /\ b = Len(s) + 1
    BY <2>3
  <2>4. CASE a \in 1 .. Len(s) /\ b = Len(s) + 1
    BY <1>2, <2>4
  <2>5. CASE a = Len(s) + 1 /\ b \in 1 .. Len(s)
    BY <1>2, <2>5
  <2> QED
    BY <2>1, <2>2, <2>3, <2>4, <2>5
<1>7. e = IF Len(t) = 0 THEN NULL ELSE t[1]
  <2>1. 1 \in 1 .. Len(s) /\ Len(t) # 0
    BY <1>1, <1>2
  <2> QED
    BY <1>1, <1>2, <2>1 DEF Runs
<1>8. \A a \in 1 .. Len(t) : f[t[a]] = IF a = Len(t) THEN NULL ELSE t[a + 1]
  <2> TAKE a \in 1 .. Len(t)
  <2>1. CASE a = Len(s) + 1
    BY <1>2, <1>4, <2>1
  <2>2. CASE a = Len(s)
    <3>1. a # Len(t) /\ t[a] = s[a] /\ t[a + 1] = n
      BY <1>1, <1>2, <1>3, <2>2
    <3> QED
      BY <1>4, <2>2, <3>1
  <2>3. CASE a \in 1 .. Len(s) - 1
    <3>1. a # Len(t) /\ a \in 1 .. Len(s) /\ a + 1 \in 1 .. Len(s)
      BY <1>1, <1>2, <2>3
    <3> QED
      BY <1>2, <1>5, <2>3, <3>1
  <2> QED
    BY <1>1, <1>2, <2>1, <2>2, <2>3
<1>9. Runs(t, f, e)
  BY <1>2, <1>6, <1>7, <1>8 DEF Runs
<1> QED
  BY <1>9 DEF t, f

(* It closes over an element that is bypassed.                             *)
LEMMA RunsWithout ==
  ASSUME NEW succ, NEW e, NEW s, Runs(s, succ, e), NEW k \in 1 .. Len(s),
         NEW f, NEW g, NEW t, t = Without(s, k),
         \A a \in 1 .. Len(s) : a # k /\ a + 1 # k => f[s[a]] = succ[s[a]],
         k # 1 => f[s[k - 1]] = (IF k = Len(s) THEN NULL ELSE s[k + 1]) /\ g = e,
         k = 1 => g = succ[s[1]]
  PROVE  Runs(t, f, g)
<1>1. /\ s \in Seq(Nodes) /\ Len(s) \in Nat /\ k \in Nat /\ 1 <= k /\ k <= Len(s)
      /\ \A a \in 1 .. Len(s) : s[a] \in Nodes
  BY SeqFacts DEF Runs
<1>2. /\ t \in Seq(Nodes) /\ Len(t) = Len(s) - 1
      /\ \A j \in 1 .. Len(t) : t[j] = IF j < k THEN s[j] ELSE s[j + 1]
  BY <1>1, LeftOut
<1>3. \A a, b \in 1 .. Len(t) : t[a] = t[b] => a = b
  <2> SUFFICES ASSUME NEW a \in 1 .. Len(t), NEW b \in 1 .. Len(t), t[a] = t[b]
               PROVE  a = b
    OBVIOUS
  <2>1. /\ a \in 1 .. Len(s) /\ a + 1 \in 1 .. Len(s)
        /\ b \in 1 .. Len(s) /\ b + 1 \in 1 .. Len(s)
    BY <1>1, <1>2
  <2>2. CASE a < k /\ b < k
    BY <1>2, <2>1, <2>2 DEF Runs
  <2>3. CASE a < k /\ ~(b < k)
    <3>1. s[a] = s[b + 1]
      BY <1>2, <2>3
    <3>2. a = b + 1
      BY <2>1, <3>1 DEF Runs
    <3> QED
      BY <1>1, <2>1, <2>3, <3>2
  <2>4. CASE ~(a < k) /\ b < k
    <3>1. s[a + 1] = s[b]
      BY <1>2, <2>4
    <3>2. a + 1 = b
      BY <2>1, <3>1 DEF Runs
    <3> QED
      BY <1>1, <2>1, <2>4, <3>2
  <2>5. CASE ~(a < k) /\ ~(b < k)
    <3>1. s[a + 1] = s[b + 1]
      BY <1>2, <2>5
    <3>2. a + 1 = b + 1
      BY <2>1, <3>1 DEF Runs
    <3> QED
      BY <1>1, <2>1, <3>2
  <2> QED
    BY <2>2, <2>3, <2>4, <2>5
<1>4. g = IF Len(t) = 0 THEN NULL ELSE t[1]
  <2>1. 1 \in 1 .. Len(s)
    BY <1>1
  <2>2. CASE k = 1
    <3>1. g = IF 1 = Len(s) THEN NULL ELSE s[1 + 1]
      BY <2>1, <2>2 DEF Runs
    <3>2. CASE Len(t) = 0
      BY <1>1, <1>2, <3>1, <3>2
    <3>3. CASE Len(t) # 0
      <4>1. 1 \in 1 .. Len(t) /\ 1 # Len(s) /\ ~(1 < k)
        BY <1>1, <1>2, <2>2, <3>3
      <4> QED
        BY <1>2, <3>1, <3>3, <4>1
    <3> QED
      BY <3>2, <3>3
  <2>3. CASE k # 1
    <3>1. 1 \in 1 .. Len(t) /\ 1 < k /\ Len(t) # 0 /\ Len(s) # 0
      BY <1>1, <1>2, <2>3
    <3> QED
      BY <1>2, <2>3, <3>1 DEF Runs
  <2> QED
    BY <2>2, <2>3
<1>5. \A a \in 1 .. Len(t) : f[t[a]] = IF a = Len(t) THEN NULL ELSE t[a + 1]
  <2> TAKE a \in 1 .. Len(t)
  <2>1. /\ a \in 1 .. Len(s) /\ a + 1 \in 1 .. Len(s) /\ a \in Nat
        /\ a # Len(t) => a + 1 \in 1 .. Len(t)
    BY <1>1, <1>2
  <2>2. CASE a + 1 < k
    <3>1. a < k /\ a # Len(t) /\ a # Len(s) /\ a # k /\ a + 1 # k
      BY <1>1, <1>2, <2>1, <2>2
    <3>2. f[s[a]] = s[a + 1]
      BY <2>1, <3>1 DEF Runs
    <3> QED
      BY <1>2, <2>1, <2>2, <3>1, <3>2
  <2>3. CASE a + 1 = k
    <3>1. a < k /\ k # 1 /\ k - 1 = a
      BY <1>1, <2>1, <2>3
    <3>2. f[t[a]] = IF k = Len(s) THEN NULL ELSE s[k + 1]
      BY <1>2, <3>1
    <3>3. CASE k = Len(s)
      BY <1>1, <1>2, <2>1, <2>3, <3>2, <3>3
    <3>4. CASE k # Len(s)
      <4>1. a # Len(t) /\ ~(a + 1 < k)
        BY <1>1, <1>2, <2>1, <2>3, <3>4
      <4> QED
        BY <1>2, <2>1, <2>3, <3>2, <3>4, <4>1
    <3> QED
      BY <3>3, <3>4
  <2>4. CASE ~(a + 1 < k) /\ a + 1 # k
    <3>1. ~(a < k) /\ a + 1 # k /\ (a + 1) + 1 # k
      BY <1>1, <2>1, <2>4
    <3>2. f[s[a + 1]] = IF a + 1 = Len(s) THEN NULL ELSE s[(a + 1) + 1]
      BY <2>1, <3>1 DEF Runs
    <3>3. CASE a = Len(t)
      BY <1>1, <1>2, <2>1, <3>1, <3>2, <3>3
    <3>4. CASE a # Len(t)
      <4>1. a + 1 # Len(s)
        BY <1>1, <1>2, <2>1, <3>4
      <4> QED
        BY <1>2, <2>1, <2>4, <3>1, <3>2, <3>4, <4>1
    <3> QED
      BY <3>3, <3>4
  <2> QED
    BY <2>2, <2>3, <2>4
<1> QED
  BY <1>2, <1>3, <1>4, <1>5 DEF Runs

-----------------------------------------------------------------------------
(* What every step of the program proper starts from.                      *)
LEMMA Listed ==
  ASSUME TypeOK, NEW s \in Seq(Nodes), Linked(s)
  PROVE  /\ Len(s) \in Nat
         /\ \A a \in 1 .. Len(s) : /\ s[a] \in Nodes /\ s[a] \in nodes
                                   /\ data[s[a]] \in payload
                                   /\ data[s[a]] \in Data
         /\ \A a, b \in 1 .. Len(s) : s[a] = s[b] => a = b
         /\ Runs(s, next, first)
         /\ NULL \notin Nodes /\ NULL \notin Data
BY SeqFacts, DListAssumption DEF Linked, Chained, Stored, Runs

(* Where neither next nor first nor data change, the chain is as it was.   *)
LEMMA SameChain ==
  ASSUME NEW s, Chained(s), UNCHANGED << next, first, data >>
  PROVE  Chained(s)'
BY DEF Chained, Runs

(* Outside of a pass nothing is owed.                                      *)
LEMMA NoPass ==
  ASSUME NEW s, Passing(s), wcur = NULL, UNCHANGED << wcur, wnext >>
  PROVE  Passing(s)'
BY DEF Passing

(* In the middle of a removal the pass owes what it did.                   *)
LEMMA SamePass ==
  ASSUME NEW s, Passing(s), UNCHANGED << data, wcur, wnext, cur >>,
         pc \notin Adding \cup {"link"} => pc' \notin Adding \cup {"link"},
         pc' \in {"unlink", "unnext"} => pc \in {"unlink", "unnext"}
  PROVE  Passing(s)'
BY DEF Passing

-----------------------------------------------------------------------------
(* db_list_insert                                                          *)

(* The element is made and filled.                                         *)
LEMMA InsertStep ==
  ASSUME TypeOK, NEW s \in Seq(Nodes), Linked(s), NEW d \in Data, Insert(d)
  PROVE  Linked(s)'
<1>1. /\ pc = "idle" /\ pc' = "link" /\ wcur = NULL
      /\ d \notin payload /\ payload' = payload \cup {d}
      /\ cur' \in Nodes /\ cur' \notin nodes /\ nodes' = nodes \cup {cur'}
      /\ data' = [data EXCEPT ![cur'] = d]
      /\ prev' = [prev EXCEPT ![cur'] = NULL]
      /\ next' = [next EXCEPT ![cur'] = NULL]
      /\ UNCHANGED << first, last, elements, wcur, wnext >>
  BY DEF Insert, Go
<1>2. next \in [Nodes -> Ref] /\ prev \in [Nodes -> Ref] /\ data \in [Nodes -> Data \cup {NULL}]
  BY DEF TypeOK
<1>3. /\ Len(s) \in Nat
      /\ \A a \in 1 .. Len(s) : s[a] \in Nodes /\ s[a] \in nodes /\ data[s[a]] \in payload
  BY Listed
<1>4. \A a \in 1 .. Len(s) :
        /\ s[a] # cur' /\ data[s[a]] # d
        /\ next'[s[a]] = next[s[a]] /\ prev'[s[a]] = prev[s[a]]
        /\ data'[s[a]] = data[s[a]]
  BY <1>1, <1>2, <1>3
<1>5. data'[cur'] = d /\ next'[cur'] = NULL /\ prev'[cur'] = NULL
  BY <1>1, <1>2
<1>6. Chained(s)'
  BY <1>1, <1>4 DEF Linked, Chained, Runs
<1>7. Stored(s)'
  <2>1. /\ nodes = {s[a] : a \in 1 .. Len(s)}
        /\ payload = {data[s[a]] : a \in 1 .. Len(s)}
    BY <1>1 DEF Linked, Stored, Outside
  <2>2. {data'[s[a]] : a \in 1 .. Len(s)} = {data[s[a]] : a \in 1 .. Len(s)}
    BY <1>4
  <2> QED
    BY <1>1, <1>5, <2>1, <2>2 DEF Stored, Outside
<1>8. Placed(s)'
  BY <1>1, <1>4, <1>5 DEF Placed, Outside, Dropping, Adding
<1>9. Tallied(s)'
  BY <1>1 DEF Linked, Tallied, Adding, Dropping
<1>10. Backward(s)'
  BY <1>1, <1>4 DEF Linked, Backward, Before
<1>11. EndRight(s)'
  BY <1>1 DEF Linked, EndRight
<1>12. Passing(s)'
  BY <1>1, NoPass DEF Linked
<1> QED
  BY <1>6, <1>7, <1>8, <1>9, <1>10, <1>11, <1>12 DEF Linked

(* The first element of an empty list.                                     *)
LEMMA LinkFirstStep ==
  ASSUME TypeOK, NEW s \in Seq(Nodes), Linked(s), LinkFirst
  PROVE  \E t \in Seq(Nodes) : Linked(t)'
<1>1. /\ pc = "link" /\ pc' = "last" /\ first = NULL /\ first' = cur
      /\ UNCHANGED << last, elements, next, prev, data, nodes, payload, cur, wcur, wnext >>
  BY DEF LinkFirst, Go
<1>2. Len(s) \in Nat /\ Len(s) = 0
  <2>1. CASE Len(s) # 0
    <3>1. first = s[1] /\ 1 \in 1 .. Len(s) /\ s[1] \in Nodes
      BY <2>1, Listed DEF Runs
    <3> QED
      BY <1>1, <3>1, DListAssumption
  <2> QED
    BY <2>1, Listed
<1>3. cur \in Nodes /\ next[cur] = NULL /\ prev[cur] = NULL /\ data[cur] \in Data
  BY <1>1 DEF Linked, Placed, Outside
<1> DEFINE t == << cur >>
<1>4. PICK u : u = t
  OBVIOUS
<1>5. u \in Seq(Nodes) /\ Len(u) = 1 /\ u[1] = cur
  BY <1>3, <1>4
<1>6. \A a \in 1 .. Len(u) : a = 1
  BY <1>5
<1> HIDE DEF t
<1>7. Chained(u)'
  BY <1>1, <1>3, <1>5, <1>6 DEF Chained, Runs
<1>8. Stored(u)'
  <2>1. nodes = {cur} /\ payload = {data[cur]}
    BY <1>1, <1>2 DEF Linked, Stored, Outside
  <2>2. {u[a] : a \in 1 .. Len(u)} = {cur} /\ {data[u[a]] : a \in 1 .. Len(u)} = {data[cur]}
    BY <1>5, <1>6
  <2> QED
    BY <1>1, <2>1, <2>2 DEF Stored, Outside
<1>9. Placed(u)'
  BY <1>1, <1>5, <1>6 DEF Placed, Outside, Dropping, Adding
<1>10. Tallied(u)'
  BY <1>1, <1>2, <1>5 DEF Linked, Tallied, Adding, Dropping
<1>11. Backward(u)'
  BY <1>1, <1>3, <1>5, <1>6 DEF Backward, Before
<1>12. EndRight(u)'
  BY <1>1 DEF EndRight
<1>13. Passing(u)'
  BY <1>1 DEF Linked, Passing
<1> QED
  BY <1>5, <1>7, <1>8, <1>9, <1>10, <1>11, <1>12, <1>13 DEF Linked

(* The element is linked behind the last one.                              *)
LEMMA LinkBehindStep ==
  ASSUME TypeOK, NEW s \in Seq(Nodes), Linked(s), LinkBehind
  PROVE  \E t \in Seq(Nodes) : t = Append(s, cur) /\ Linked(t)'
<1>1. /\ pc = "link" /\ pc' = "back" /\ first # NULL
      /\ next' = [next EXCEPT ![last] = cur]
      /\ UNCHANGED << first, last, elements, prev, data, nodes, payload, cur, wcur, wnext >>
  BY DEF LinkBehind, Go
<1>2. /\ Len(s) \in Nat /\ Runs(s, next, first)
      /\ \A a \in 1 .. Len(s) : s[a] \in Nodes
  BY Listed
<1>3. Len(s) > 0
  BY <1>1, <1>2 DEF Runs
<1>4. /\ cur \in Nodes /\ next[cur] = NULL /\ prev[cur] = NULL /\ data[cur] \in Data
      /\ \A a \in 1 .. Len(s) : s[a] # cur /\ data[s[a]] # data[cur]
      /\ last = s[Len(s)]
  BY <1>1, <1>3 DEF Linked, Placed, EndRight, Outside
<1>5. PICK t : t = Append(s, cur)
  OBVIOUS
<1>6. /\ t \in Seq(Nodes) /\ Len(t) = Len(s) + 1
      /\ \A a \in 1 .. Len(s) : t[a] = s[a]
      /\ t[Len(s) + 1] = cur
  BY <1>4, <1>5, AppendProperties
<1>7. \A a \in 1 .. Len(t) : a \in 1 .. Len(s) \/ a = Len(s) + 1
  BY <1>2, <1>6
<1>8. \A a \in 1 .. Len(s) : a \in 1 .. Len(t)
  BY <1>2, <1>6
<1>9. Len(s) + 1 \in 1 .. Len(t)
  BY <1>2, <1>6
<1>10. Chained(t)'
  <2>1. Runs(t, next', first')
    BY <1>1, <1>2, <1>3, <1>4, <1>5, RunsOn DEF TypeOK
  <2>2. \A a \in 1 .. Len(s) : data[s[a]] \in Data
    BY DEF Linked, Chained
  <2>3. \A a \in 1 .. Len(t) : data[t[a]] \in Data
    BY <1>4, <1>6, <1>7, <2>2
  <2>4. \A a, b \in 1 .. Len(t) : data[t[a]] = data[t[b]] => a = b
    <3> SUFFICES ASSUME NEW a \in 1 .. Len(t), NEW b \in 1 .. Len(t),
                        data[t[a]] = data[t[b]]
                 PROVE  a = b
      OBVIOUS
    <3>1. CASE a \in 1 .. Len(s) /\ b \in 1 .. Len(s)
      BY <1>6, <3>1 DEF Linked, Chained
    <3>2. CASE a \in 1 .. Len(s) /\ b = Len(s) + 1
      BY <1>4, <1>6, <3>2
    <3>3. CASE a = Len(s) + 1 /\ b \in 1 .. Len(s)
      BY <1>4, <1>6, <3>3
    <3>4. CASE a = Len(s) + 1 /\ b = Len(s) + 1
      BY <3>4
    <3> QED
      BY <1>7, <3>1, <3>2, <3>3, <3>4
  <2> QED
    BY <1>1, <2>1, <2>3, <2>4 DEF Chained
<1>11. Stored(t)'
  <2>1. /\ nodes = {s[a] : a \in 1 .. Len(s)} \cup {cur}
        /\ payload = {data[s[a]] : a \in 1 .. Len(s)} \cup {data[cur]}
    BY <1>1 DEF Linked, Stored, Outside
  <2>2. {t[a] : a \in 1 .. Len(t)} = {s[a] : a \in 1 .. Len(s)} \cup {cur}
    BY <1>6, <1>7, <1>8, <1>9
  <2>3. {data[t[a]] : a \in 1 .. Len(t)} = {data[s[a]] : a \in 1 .. Len(s)} \cup {data[cur]}
    BY <1>6, <1>7, <1>8, <1>9
  <2> QED
    BY <1>1, <2>1, <2>2, <2>3 DEF Stored, Outside
<1>12. Placed(t)'
  BY <1>1, <1>2, <1>3, <1>6 DEF Placed, Outside, Dropping, Adding
<1>13. Tallied(t)'
  BY <1>1, <1>2, <1>6 DEF Linked, Tallied, Adding, Dropping, TypeOK
<1>14. Backward(t)'
  <2>1. \A a \in 1 .. Len(s) : prev[s[a]] = Before(s, a)
    BY <1>1 DEF Linked, Backward
  <2>2. \A a \in 1 .. Len(s) : Before(t, a) = Before(s, a)
    <3> TAKE a \in 1 .. Len(s)
    <3>1. a = 1 \/ a - 1 \in 1 .. Len(s)
      BY <1>2
    <3> QED
      BY <1>6, <3>1 DEF Before
  <2>3. \A a \in 1 .. Len(t) : prev[t[a]] = Before(t, a) \/ a = Len(t)
    BY <1>6, <1>7, <2>1, <2>2
  <2> QED
    BY <1>1, <2>3 DEF Backward
<1>15. EndRight(t)'
  <2>1. Len(t) - 1 = Len(s) /\ Len(s) \in 1 .. Len(s)
    BY <1>2, <1>3, <1>6
  <2>2. last = t[Len(t) - 1]
    BY <1>4, <1>6, <2>1
  <2> QED
    BY <1>1, <2>2 DEF EndRight
<1>16. Passing(t)'
  BY <1>1 DEF Linked, Passing
<1> QED
  BY <1>5, <1>6, <1>10, <1>11, <1>12, <1>13, <1>14, <1>15, <1>16 DEF Linked

(* Its prev is set.                                                        *)
LEMMA LinkBackStep ==
  ASSUME TypeOK, NEW s \in Seq(Nodes), Linked(s), LinkBack
  PROVE  Linked(s)'
<1>1. /\ pc = "back" /\ pc' = "last"
      /\ prev' = [prev EXCEPT ![cur] = last]
      /\ UNCHANGED << first, last, elements, next, data, nodes, payload, cur, wcur, wnext >>
  BY DEF LinkBack, Go
<1>2. /\ Len(s) \in Nat /\ \A a \in 1 .. Len(s) : s[a] \in Nodes
      /\ \A a, b \in 1 .. Len(s) : s[a] = s[b] => a = b
  BY Listed
<1>3. Len(s) > 1 /\ cur = s[Len(s)] /\ last = s[Len(s) - 1]
  BY <1>1 DEF Linked, Placed, EndRight, Adding
<1>4. Len(s) \in 1 .. Len(s) /\ cur \in Nodes
  BY <1>2, <1>3
<1>5. Chained(s)'
  BY <1>1, SameChain DEF Linked
<1>6. Stored(s)'
  BY <1>1 DEF Linked, Stored, Outside
<1>7. Placed(s)'
  BY <1>1 DEF Linked, Placed, Outside, Dropping, Adding
<1>8. Tallied(s)'
  BY <1>1 DEF Linked, Tallied, Adding, Dropping
<1>9. Backward(s)'
  <2>1. \A a \in 1 .. Len(s) : prev'[s[a]] = Before(s, a)
    <3> TAKE a \in 1 .. Len(s)
    <3>1. CASE a = Len(s)
      BY <1>1, <1>3, <1>4, <3>1 DEF TypeOK, Before
    <3>2. CASE a # Len(s)
      <4>1. s[a] # cur /\ s[a] \in Nodes
        BY <1>2, <1>3, <1>4, <3>2
      <4>2. prev[s[a]] = Before(s, a)
        BY <1>1, <3>2 DEF Linked, Backward
      <4> QED
        BY <1>1, <4>1, <4>2 DEF TypeOK
    <3> QED
      BY <3>1, <3>2
  <2> QED
    BY <1>1, <2>1 DEF Backward
<1>10. EndRight(s)'
  BY <1>1 DEF EndRight
<1>11. Passing(s)'
  BY <1>1 DEF Linked, Passing, Adding
<1> QED
  BY <1>5, <1>6, <1>7, <1>8, <1>9, <1>10, <1>11 DEF Linked

(* It becomes the last one.                                                *)
LEMMA SetLastStep ==
  ASSUME TypeOK, NEW s \in Seq(Nodes), Linked(s), SetLast
  PROVE  Linked(s)'
<1>1. /\ pc = "last" /\ pc' = "count" /\ last' = cur
      /\ UNCHANGED << first, elements, next, prev, data, nodes, payload, cur, wcur, wnext >>
  BY DEF SetLast, Go
<1>2. Len(s) > 0 /\ cur = s[Len(s)]
  BY <1>1 DEF Linked, Placed, Adding
<1>3. Chained(s)'
  BY <1>1, SameChain DEF Linked
<1>4. Stored(s)' /\ Placed(s)' /\ Tallied(s)'
  BY <1>1 DEF Linked, Stored, Placed, Tallied, Outside, Dropping, Adding
<1>5. Backward(s)'
  BY <1>1 DEF Linked, Backward
<1>6. EndRight(s)'
  BY <1>1, <1>2 DEF EndRight
<1>7. Passing(s)'
  BY <1>1 DEF Linked, Passing, Adding
<1> QED
  BY <1>3, <1>4, <1>5, <1>6, <1>7 DEF Linked

(* It is counted.                                                          *)
LEMMA CountStep ==
  ASSUME TypeOK, NEW s \in Seq(Nodes), Linked(s), Count
  PROVE  Linked(s)'
<1>1. /\ pc = "count" /\ pc' = "idle" /\ elements' = elements + 1 /\ cur' = NULL
      /\ UNCHANGED << first, last, next, prev, data, nodes, payload, wcur, wnext >>
  BY DEF Count, Go
<1>2. Chained(s)'
  BY <1>1, SameChain DEF Linked
<1>3. Stored(s)' /\ Placed(s)'
  BY <1>1 DEF Linked, Stored, Placed, Outside, Dropping, Adding
<1>4. Tallied(s)'
  <2>1. elements = Len(s) + (-1) /\ Len(s) \in Nat
    BY <1>1, Listed DEF Linked, Tallied, Adding
  <2> QED
    BY <1>1, <2>1 DEF Tallied, Adding, Dropping
<1>5. Backward(s)'
  BY <1>1 DEF Linked, Backward
<1>6. EndRight(s)'
  BY <1>1 DEF Linked, EndRight
<1>7. Passing(s)'
  BY <1>1 DEF Linked, Passing, Adding
<1> QED
  BY <1>2, <1>3, <1>4, <1>5, <1>6, <1>7 DEF Linked

-----------------------------------------------------------------------------
(* db_list_remove                                                          *)

(* The search finds the element; in a pass it is the one handed over.      *)
LEMMA RemoveStep ==
  ASSUME TypeOK, NEW s \in Seq(Nodes), Linked(s), NEW d \in Data, Remove(d)
  PROVE  Linked(s)' /\ data[cur'] = d
<1>1. /\ pc = "idle" /\ pc' = "unlink" /\ (wcur # NULL => data[wcur] = d)
      /\ UNCHANGED << first, last, elements, next, prev, data, nodes, payload, wcur, wnext >>
  BY DEF Remove, Go, links
<1>2. Chain(first) = s /\ DOMAIN s = 1 .. Len(s)
  BY Listed, PathIs, SeqFacts DEF Chain
<1>3. PICK k \in 1 .. Len(s) : data[s[k]] = d /\ cur' = s[k]
  BY <1>2 DEF Remove
<1>4. Chained(s)'
  BY <1>1, SameChain DEF Linked
<1>5. Stored(s)'
  BY <1>1 DEF Linked, Stored, Outside
<1>6. Placed(s)'
  BY <1>1, <1>3 DEF Placed, Outside, Dropping, Adding
<1>7. Tallied(s)'
  BY <1>1 DEF Linked, Tallied, Adding, Dropping
<1>8. Backward(s)'
  BY <1>1 DEF Linked, Backward
<1>9. EndRight(s)'
  BY <1>1 DEF Linked, EndRight
<1>10. Passing(s)'
  <2>1. wcur # NULL => cur' = wcur
    BY <1>1, <1>3 DEF Linked, Passing
  <2> QED
    BY <1>1, <2>1 DEF Linked, Passing, Adding
<1> QED
  BY <1>3, <1>4, <1>5, <1>6, <1>7, <1>8, <1>9, <1>10 DEF Linked

(* The k-th element is no longer reached, and all others are.              *)
LEMMA TakenOut ==
  ASSUME TypeOK, NEW s \in Seq(Nodes), Linked(s), pc \in {"unlink", "unnext"},
         NEW k \in 1 .. Len(s), cur = s[k], NEW t, t = Without(s, k),
         Runs(t, next, first)', pc' \in {"unlast", "unprev", "data"},
         pc' = "unlast" => Len(t) = 0,
         UNCHANGED << elements, data, nodes, payload, cur, wcur, wnext >>
  PROVE  /\ t \in Seq(Nodes) /\ Len(t) = Len(s) - 1
         /\ Chained(t)' /\ Stored(t)' /\ Placed(t)' /\ Tallied(t)' /\ Passing(t)'
<1>1. /\ Len(s) \in Nat
      /\ \A a, b \in 1 .. Len(s) : s[a] = s[b] => a = b
      /\ \A a, b \in 1 .. Len(s) : data[s[a]] = data[s[b]] => a = b
      /\ \A a \in 1 .. Len(s) : data[s[a]] \in Data /\ s[a] \in Nodes
  BY Listed DEF Linked, Chained
<1>2. t \in Seq(Nodes) /\ Len(t) = Len(s) - 1
  BY LeftOut
<1>3. /\ \A j \in 1 .. Len(t) : \E a \in 1 .. Len(s) : a # k /\ t[j] = s[a]
      /\ \A a \in 1 .. Len(s) : a # k => \E j \in 1 .. Len(t) : t[j] = s[a]
  BY OthersLeft
<1>4. \A j \in 1 .. Len(t) : t[j] # cur /\ data[t[j]] # data[cur]
  BY <1>1, <1>3
<1>5. Chained(t)'
  <2>1. \A j \in 1 .. Len(t) : data[t[j]] \in Data
    BY <1>1, <1>3
  <2>2. \A i, j \in 1 .. Len(t) : data[t[i]] = data[t[j]] => i = j
    <3> SUFFICES ASSUME NEW i \in 1 .. Len(t), NEW j \in 1 .. Len(t),
                        data[t[i]] = data[t[j]]
                 PROVE  i = j
      OBVIOUS
    <3>1. PICK a \in 1 .. Len(s) : t[i] = s[a]
      BY <1>3
    <3>2. PICK b \in 1 .. Len(s) : t[j] = s[b]
      BY <1>3
    <3>3. t[i] = t[j]
      BY <1>1, <3>1, <3>2
    <3> QED
      BY <3>3 DEF Runs
  <2> QED
    BY <2>1, <2>2 DEF Chained
<1>6. Stored(t)'
  <2>1. /\ nodes = {s[a] : a \in 1 .. Len(s)}
        /\ payload = {data[s[a]] : a \in 1 .. Len(s)}
    BY DEF Linked, Stored, Outside
  <2>2. {s[a] : a \in 1 .. Len(s)} = {t[j] : j \in 1 .. Len(t)} \cup {cur}
    <3>1. \A a \in 1 .. Len(s) : s[a] = cur \/ \E j \in 1 .. Len(t) : t[j] = s[a]
      BY <1>3
    <3>2. \A j \in 1 .. Len(t) : \E a \in 1 .. Len(s) : t[j] = s[a]
      BY <1>3
    <3>3. \E a \in 1 .. Len(s) : s[a] = cur
      OBVIOUS
    <3> DEFINE A == {s[a] : a \in 1 .. Len(s)}
               B == {t[j] : j \in 1 .. Len(t)}
    <3>4. A \subseteq B \cup {cur}
      BY <3>1
    <3>5. B \subseteq A /\ cur \in A
      BY <3>2, <3>3
    <3> QED
      BY <3>4, <3>5
  <2>3. {data[s[a]] : a \in 1 .. Len(s)} = {data[t[j]] : j \in 1 .. Len(t)} \cup {data[cur]}
    <3>1. \A a \in 1 .. Len(s) :
            data[s[a]] = data[cur] \/ \E j \in 1 .. Len(t) : data[t[j]] = data[s[a]]
      BY <1>3
    <3>2. \A j \in 1 .. Len(t) : \E a \in 1 .. Len(s) : data[t[j]] = data[s[a]]
      BY <1>3
    <3>3. \E a \in 1 .. Len(s) : data[s[a]] = data[cur]
      OBVIOUS
    <3> DEFINE A == {data[s[a]] : a \in 1 .. Len(s)}
               B == {data[t[j]] : j \in 1 .. Len(t)}
    <3>4. A \subseteq B \cup {data[cur]}
      BY <3>1
    <3>5. B \subseteq A /\ data[cur] \in A
      BY <3>2, <3>3
    <3> QED
      BY <3>4, <3>5
  <2> QED
    BY <2>1, <2>2, <2>3 DEF Stored, Outside
<1>7. Placed(t)'
  <2>1. cur \in Nodes
    BY <1>1
  <2> QED
    BY <1>4, <2>1 DEF Placed, Outside, Dropping, Adding
<1>8. Tallied(t)'
  <2>1. elements = Len(s) + 0
    BY DEF Linked, Tallied, Adding, Dropping
  <2> QED
    BY <1>1, <1>2, <2>1 DEF Tallied, Adding, Dropping
<1>9. Passing(t)'
  <2>1. CASE wcur = NULL
    BY <2>1 DEF Linked, Passing
  <2>2. CASE wcur # NULL
    <3>1. /\ cur = wcur /\ data[wcur] \in Data
          /\ wnext = NULL \/ \E a \in 1 .. Len(s) : s[a] = wnext
          /\ wnext = IF k = Len(s) THEN NULL ELSE s[k + 1]
      BY <2>2 DEF Linked, Passing
    <3>2. wnext = NULL \/ \E j \in 1 .. Len(t) : t[j] = wnext
      <4>1. CASE k = Len(s)
        BY <3>1, <4>1
      <4>2. CASE k # Len(s)
        <5>1. k + 1 \in 1 .. Len(s) /\ k + 1 # k
          BY <1>1, <4>2
        <5> QED
          BY <1>3, <3>1, <4>2, <5>1
      <4> QED
        BY <4>1, <4>2
    <3>3. \A j \in 1 .. Len(t) : t[j] # wcur /\ data[t[j]] # data[wcur]
      BY <1>4, <3>1
    <3>4. pc' \notin Adding \cup {"link"} /\ pc' \notin {"unlink", "unnext"}
      BY DEF Adding
    <3>5. wcur' = wcur /\ wnext' = wnext /\ data' = data
      OBVIOUS
    <3> QED
      BY <2>2, <3>1, <3>2, <3>3, <3>4, <3>5 DEF Passing
  <2> QED
    BY <2>1, <2>2
<1> QED
  BY <1>2, <1>5, <1>6, <1>7, <1>8, <1>9

(* What prev and next of the element say of its place.                     *)
LEMMA Neighbours ==
  ASSUME TypeOK, NEW s \in Seq(Nodes), Linked(s), pc = "unlink",
         NEW k \in 1 .. Len(s), cur = s[k]
  PROVE  /\ prev[cur] = IF k = 1 THEN NULL ELSE s[k - 1]
         /\ prev[cur] = NULL <=> k = 1
         /\ next[cur] = IF k = Len(s) THEN NULL ELSE s[k + 1]
         /\ next[cur] = NULL <=> k = Len(s)
         /\ first = s[1] /\ last = s[Len(s)]
         /\ first = last <=> Len(s) = 1
<1>1. /\ Len(s) \in Nat /\ Runs(s, next, first) /\ NULL \notin Nodes
      /\ \A a, b \in 1 .. Len(s) : s[a] = s[b] => a = b
      /\ \A a \in 1 .. Len(s) : s[a] \in Nodes
  BY Listed
<1>2. k \in Nat /\ 1 <= k /\ k <= Len(s) /\ 1 \in 1 .. Len(s) /\ Len(s) \in 1 .. Len(s)
  BY <1>1
<1>3. prev[cur] = IF k = 1 THEN NULL ELSE s[k - 1]
  BY DEF Linked, Backward, Before
<1>4. k # 1 => k - 1 \in 1 .. Len(s)
  BY <1>2
<1>5. next[cur] = IF k = Len(s) THEN NULL ELSE s[k + 1]
  BY <1>1 DEF Runs
<1>6. k # Len(s) => k + 1 \in 1 .. Len(s)
  BY <1>1, <1>2
<1>7. first = s[1] /\ last = s[Len(s)]
  BY <1>1, <1>2 DEF Runs, Linked, EndRight
<1> QED
  BY <1>1, <1>2, <1>3, <1>4, <1>5, <1>6, <1>7

(* The only element.                                                       *)
LEMMA UnlinkOnlyStep ==
  ASSUME TypeOK, NEW s \in Seq(Nodes), Linked(s), UnlinkOnly
  PROVE  \E k \in 1 .. Len(s), t \in Seq(Nodes) :
           s[k] = cur /\ t = Without(s, k) /\ Linked(t)'
<1>1. /\ pc = "unlink" /\ pc' = "unlast" /\ first = last /\ first' = NULL
      /\ UNCHANGED << last, elements, next, prev, data, nodes, payload, cur, wcur, wnext >>
  BY DEF UnlinkOnly, Go
<1>2. PICK k \in 1 .. Len(s) : cur = s[k]
  BY <1>1 DEF Linked, Placed
<1>3. Len(s) = 1 /\ k = 1
  BY <1>1, <1>2, Neighbours
<1>4. PICK t : t = Without(s, k)
  OBVIOUS
<1>5. Len(t) = 0
  BY <1>3, <1>4, LeftOut
<1>6. Runs(t, next', first')
  <2>1. Runs(s, next, first)
    BY Listed
  <2>2. first' = next[s[1]]
    BY <1>1, <1>2, <1>3, Neighbours
  <2> QED
    BY <1>1, <1>3, <1>4, <2>1, <2>2, RunsWithout
<1>7. t \in Seq(Nodes) /\ Chained(t)' /\ Stored(t)' /\ Placed(t)' /\ Tallied(t)' /\ Passing(t)'
  BY <1>1, <1>2, <1>4, <1>5, <1>6, TakenOut
<1>8. Backward(t)' /\ EndRight(t)'
  BY <1>1, <1>5 DEF Backward, EndRight
<1> QED
  BY <1>2, <1>4, <1>7, <1>8 DEF Linked

(* list->last is unset.                                                    *)
LEMMA UnsetLastStep ==
  ASSUME TypeOK, NEW s \in Seq(Nodes), Linked(s), UnsetLast
  PROVE  Linked(s)'
<1>1. /\ pc = "unlast" /\ pc' = "data" /\ last' = NULL
      /\ UNCHANGED << first, elements, next, prev, data, nodes, payload, cur, wcur, wnext >>
  BY DEF UnsetLast, Go
<1>2. Len(s) = 0
  BY <1>1 DEF Linked, Placed
<1>3. Chained(s)' /\ Passing(s)'
  BY <1>1, SameChain, SamePass DEF Linked, Adding
<1>4. Stored(s)'
  BY <1>1 DEF Linked, Stored, Outside
<1>5. Placed(s)' /\ Tallied(s)'
  BY <1>1 DEF Linked, Placed, Tallied, Outside, Dropping, Adding
<1>6. Backward(s)' /\ EndRight(s)'
  BY <1>1, <1>2 DEF Linked, Backward, EndRight
<1> QED
  BY <1>3, <1>4, <1>5, <1>6 DEF Linked

(* An element in front of another one: only its prev is still to be set.   *)
LEMMA TakenOutInFront ==
  ASSUME TypeOK, NEW s \in Seq(Nodes), Linked(s), pc = "unlink",
         NEW k \in 1 .. Len(s), cur = s[k], k # Len(s),
         NEW t, t = Without(s, k),
         pc' = "unprev", UNCHANGED << prev, cur, last >>, next'[cur] = next[cur]
  PROVE  Backward(t)' /\ EndRight(t)'
<1>1. /\ Len(s) \in Nat /\ NULL \notin Nodes
      /\ \A a \in 1 .. Len(s) : s[a] \in Nodes
  BY Listed
<1>2. k \in Nat /\ 1 <= k /\ k < Len(s)
  BY <1>1
<1>3. /\ t \in Seq(Nodes) /\ Len(t) = Len(s) - 1
      /\ \A j \in 1 .. Len(s) - 1 : t[j] = IF j < k THEN s[j] ELSE s[j + 1]
  BY LeftOut
<1>4. /\ next[cur] = s[k + 1] /\ last = s[Len(s)]
      /\ prev[cur] = Before(s, k)
  BY Neighbours DEF Before
<1>5. \A a \in 1 .. Len(s) : prev[s[a]] = Before(s, a)
  BY DEF Linked, Backward
<1>6. k \in 1 .. Len(t) /\ t[k] = s[k + 1] /\ Before(t, k) = Before(s, k)
  <2>1. k \in 1 .. Len(t) /\ ~(k < k)
    BY <1>2, <1>3
  <2>2. k = 1 \/ (k - 1 \in 1 .. Len(s) - 1 /\ k - 1 < k)
    BY <1>1, <1>2
  <2> QED
    BY <1>3, <2>1, <2>2 DEF Before
<1>7. \A j \in 1 .. Len(t) : prev[t[j]] = Before(t, j) \/ t[j] = next[cur]
  <2> TAKE j \in 1 .. Len(t)
  <2>1. j \in Nat /\ 1 <= j /\ j <= Len(s) - 1 /\ j \in 1 .. Len(s) /\ j + 1 \in 1 .. Len(s)
    BY <1>1, <1>3
  <2>2. CASE j < k
    <3>1. t[j] = s[j] /\ prev[s[j]] = Before(s, j)
      BY <1>3, <1>5, <2>1, <2>2
    <3>2. j = 1 \/ (j - 1 \in 1 .. Len(s) - 1 /\ j - 1 < k)
      BY <1>2, <2>1, <2>2
    <3>3. Before(t, j) = Before(s, j)
      BY <1>3, <3>2 DEF Before
    <3> QED
      BY <3>1, <3>3
  <2>3. CASE j = k
    BY <1>4, <1>6, <2>3
  <2>4. CASE k < j
    <3>1. t[j] = s[j + 1] /\ prev[s[j + 1]] = s[j]
      <4>1. j + 1 # 1 /\ (j + 1) - 1 = j /\ ~(j < k)
        BY <1>2, <2>1, <2>4
      <4> QED
        BY <1>3, <1>5, <2>1, <4>1 DEF Before
    <3>2. j # 1 /\ j - 1 \in 1 .. Len(s) - 1 /\ ~(j - 1 < k) /\ (j - 1) + 1 = j
      BY <1>2, <2>1, <2>4
    <3>3. Before(t, j) = s[j]
      BY <1>3, <3>2 DEF Before
    <3> QED
      BY <3>1, <3>3
  <2> QED
    BY <1>2, <2>1, <2>2, <2>3, <2>4
<1>8. Backward(t)'
  BY <1>4, <1>6, <1>7 DEF Backward
<1>9. EndRight(t)'
  <2>1. Len(t) # 0 /\ Len(t) \in 1 .. Len(s) - 1 /\ ~(Len(t) < k) /\ Len(t) + 1 = Len(s)
    BY <1>2, <1>3
  <2>2. last = t[Len(t)]
    BY <1>3, <1>4, <2>1
  <2> QED
    BY <2>1, <2>2 DEF EndRight
<1> QED
  BY <1>8, <1>9

(* The first of several.                                                   *)
LEMMA UnlinkHeadStep ==
  ASSUME TypeOK, NEW s \in Seq(Nodes), Linked(s), UnlinkHead
  PROVE  \E k \in 1 .. Len(s), t \in Seq(Nodes) :
           s[k] = cur /\ t = Without(s, k) /\ Linked(t)'
<1>1. /\ pc = "unlink" /\ pc' = "unprev" /\ first # last /\ prev[cur] = NULL
      /\ first' = next[cur]
      /\ UNCHANGED << last, elements, next, prev, data, nodes, payload, cur, wcur, wnext >>
  BY DEF UnlinkHead, Beheaded, Go
<1>2. PICK k \in 1 .. Len(s) : cur = s[k]
  BY <1>1 DEF Linked, Placed
<1>3. k = 1 /\ k # Len(s)
  BY <1>1, <1>2, Neighbours
<1>4. PICK t : t = Without(s, k)
  OBVIOUS
<1>5. Runs(t, next', first')
  <2>1. Runs(s, next, first)
    BY Listed
  <2> QED
    BY <1>1, <1>2, <1>3, <1>4, <2>1, RunsWithout
<1>6. t \in Seq(Nodes) /\ Chained(t)' /\ Stored(t)' /\ Placed(t)' /\ Tallied(t)' /\ Passing(t)'
  BY <1>1, <1>2, <1>4, <1>5, TakenOut
<1>7. Backward(t)' /\ EndRight(t)'
  BY <1>1, <1>2, <1>3, <1>4, TakenOutInFront
<1> QED
  BY <1>2, <1>4, <1>6, <1>7 DEF Linked

(* The last of several: list->last first.                                  *)
LEMMA UnlinkTailStep ==
  ASSUME TypeOK, NEW s \in Seq(Nodes), Linked(s), UnlinkTail
  PROVE  Linked(s)'
<1>1. /\ pc = "unlink" /\ pc' = "unnext" /\ prev[cur] # NULL /\ next[cur] = NULL
      /\ last' = prev[cur]
      /\ UNCHANGED << first, elements, next, prev, data, nodes, payload, cur, wcur, wnext >>
  BY DEF UnlinkTail, Go
<1>2. PICK k \in 1 .. Len(s) : cur = s[k]
  BY <1>1 DEF Linked, Placed
<1>3. k = Len(s) /\ k # 1 /\ prev[cur] = s[k - 1] /\ Len(s) \in Nat
  BY <1>1, <1>2, Neighbours, Listed
<1>4. Chained(s)' /\ Passing(s)'
  BY <1>1, SameChain, SamePass DEF Linked, Adding
<1>5. Stored(s)'
  BY <1>1 DEF Linked, Stored, Outside
<1>6. Placed(s)'
  BY <1>1, <1>2, <1>3 DEF Placed, Outside, Dropping, Adding
<1>7. Tallied(s)'
  BY <1>1 DEF Linked, Tallied, Dropping, Adding
<1>8. Backward(s)'
  BY <1>1 DEF Linked, Backward
<1>9. EndRight(s)'
  BY <1>1, <1>3 DEF EndRight
<1> QED
  BY <1>4, <1>5, <1>6, <1>7, <1>8, <1>9 DEF Linked

(* Then the link that leads to it.                                         *)
LEMMA UnsetNextStep ==
  ASSUME TypeOK, NEW s \in Seq(Nodes), Linked(s), UnsetNext
  PROVE  \E k \in 1 .. Len(s), t \in Seq(Nodes) :
           s[k] = cur /\ t = Without(s, k) /\ Linked(t)'
<1>1. /\ pc = "unnext" /\ pc' = "data"
      /\ next' = [next EXCEPT ![prev[cur]] = NULL]
      /\ UNCHANGED << first, last, elements, prev, data, nodes, payload, cur, wcur, wnext >>
  BY DEF UnsetNext, Go
<1>2. /\ Len(s) \in Nat /\ Runs(s, next, first)
      /\ \A a, b \in 1 .. Len(s) : s[a] = s[b] => a = b
      /\ \A a \in 1 .. Len(s) : s[a] \in Nodes
  BY Listed
<1>3. Len(s) > 1 /\ cur = s[Len(s)] /\ last = s[Len(s) - 1]
  BY <1>1 DEF Linked, Placed, EndRight
<1>4. PICK k \in 1 .. Len(s) : k = Len(s)
  BY <1>2, <1>3
<1>5. k # 1 /\ k - 1 \in 1 .. Len(s) /\ k \in Nat
  BY <1>2, <1>3, <1>4
<1>6. \A a \in 1 .. Len(s) : prev[s[a]] = Before(s, a)
  BY <1>1 DEF Linked, Backward
<1>7. prev[cur] = s[k - 1]
  BY <1>3, <1>4, <1>5, <1>6 DEF Before
<1>8. PICK t : t = Without(s, k)
  OBVIOUS
<1>9. Runs(t, next', first')
  <2>1. \A a \in 1 .. Len(s) : a # k /\ a + 1 # k => next'[s[a]] = next[s[a]]
    <3> SUFFICES ASSUME NEW a \in 1 .. Len(s), a # k, a + 1 # k
                 PROVE  next'[s[a]] = next[s[a]]
      OBVIOUS
    <3>1. a # k - 1
      BY <1>2, <1>5
    <3>2. s[a] # s[k - 1]
      BY <1>2, <1>5, <3>1
    <3> QED
      BY <1>1, <1>2, <1>5, <1>7, <3>2 DEF TypeOK
  <2>2. next'[s[k - 1]] = NULL
    BY <1>1, <1>2, <1>5, <1>7 DEF TypeOK
  <2>3. /\ k # 1 => next'[s[k - 1]] = (IF k = Len(s) THEN NULL ELSE s[k + 1])
                     /\ first' = first
        /\ k = 1 => first' = next[s[1]]
    BY <1>1, <1>4, <1>5, <2>2
  <2> QED
    BY <1>2, <1>8, <2>1, <2>3, RunsWithout
<1>10. /\ t \in Seq(Nodes) /\ Len(t) = Len(s) - 1
       /\ Chained(t)' /\ Stored(t)' /\ Placed(t)' /\ Tallied(t)' /\ Passing(t)'
  BY <1>1, <1>3, <1>4, <1>8, <1>9, TakenOut
<1>11. \A j \in 1 .. Len(t) : t[j] = s[j]
  <2>1. \A j \in 1 .. Len(t) : j \in 1 .. Len(s) - 1 /\ j < k
    BY <1>2, <1>4, <1>10
  <2> QED
    BY <1>8, <2>1, LeftOut
<1>12. Backward(t)'
  <2>1. \A j \in 1 .. Len(t) : prev[t[j]] = Before(t, j)
    <3> TAKE j \in 1 .. Len(t)
    <3>1. j \in 1 .. Len(s) /\ (j = 1 \/ j - 1 \in 1 .. Len(t))
      BY <1>2, <1>10
    <3> QED
      BY <1>6, <1>11, <3>1 DEF Before
  <2> QED
    BY <1>1, <2>1 DEF Backward
<1>13. EndRight(t)'
  <2>1. Len(t) # 0 /\ Len(t) \in 1 .. Len(t) /\ Len(t) = Len(s) - 1
    BY <1>2, <1>3, <1>10
  <2>2. last = t[Len(t)]
    BY <1>3, <1>11, <2>1
  <2> QED
    BY <1>1, <2>1, <2>2 DEF EndRight
<1> QED
  BY <1>3, <1>4, <1>8, <1>10, <1>12, <1>13 DEF Linked

(* An inner one.                                                           *)
LEMMA UnlinkMiddleStep ==
  ASSUME TypeOK, NEW s \in Seq(Nodes), Linked(s), UnlinkMiddle
  PROVE  \E k \in 1 .. Len(s), t \in Seq(Nodes) :
           s[k] = cur /\ t = Without(s, k) /\ Linked(t)'
<1>1. /\ pc = "unlink" /\ pc' = "unprev"
      /\ prev[cur] # NULL /\ next[cur] # NULL
      /\ next' = [next EXCEPT ![prev[cur]] = next[cur]]
      /\ UNCHANGED << first, last, elements, prev, data, nodes, payload, cur, wcur, wnext >>
  BY DEF UnlinkMiddle, Go
<1>2. /\ Len(s) \in Nat /\ Runs(s, next, first)
      /\ \A a, b \in 1 .. Len(s) : s[a] = s[b] => a = b
      /\ \A a \in 1 .. Len(s) : s[a] \in Nodes
  BY Listed
<1>3. PICK k \in 1 .. Len(s) : cur = s[k]
  BY <1>1 DEF Linked, Placed
<1>4. k # 1 /\ k # Len(s) /\ prev[cur] = s[k - 1] /\ next[cur] = s[k + 1]
  BY <1>1, <1>3, Neighbours
<1>5. k - 1 \in 1 .. Len(s) /\ k + 1 \in 1 .. Len(s) /\ k \in Nat /\ k - 1 # k
  BY <1>2, <1>4
<1>6. PICK t : t = Without(s, k)
  OBVIOUS
<1>7. \A a \in 1 .. Len(s) : a # k - 1 => next'[s[a]] = next[s[a]]
  BY <1>1, <1>2, <1>4, <1>5 DEF TypeOK
<1>8. next'[s[k - 1]] = s[k + 1]
  BY <1>1, <1>2, <1>4, <1>5 DEF TypeOK
<1>9. Runs(t, next', first')
  <2>1. \A a \in 1 .. Len(s) : a # k /\ a + 1 # k => a # k - 1
    BY <1>2, <1>5
  <2>2. \A a \in 1 .. Len(s) : a # k /\ a + 1 # k => next'[s[a]] = next[s[a]]
    BY <1>7, <2>1
  <2>3. /\ k # 1 => next'[s[k - 1]] = (IF k = Len(s) THEN NULL ELSE s[k + 1])
                     /\ first' = first
        /\ k = 1 => first' = next[s[1]]
    BY <1>1, <1>4, <1>8
  <2> QED
    BY <1>2, <1>6, <2>2, <2>3, RunsWithout
<1>10. t \in Seq(Nodes) /\ Chained(t)' /\ Stored(t)' /\ Placed(t)' /\ Tallied(t)' /\ Passing(t)'
  BY <1>1, <1>3, <1>6, <1>9, TakenOut
<1>11. Backward(t)' /\ EndRight(t)'
  BY <1>1, <1>3, <1>4, <1>5, <1>6, <1>7, TakenOutInFront
<1> QED
  BY <1>3, <1>6, <1>10, <1>11 DEF Linked

(* The element behind it leads back past it.                               *)
LEMMA UnsetPrevStep ==
  ASSUME TypeOK, NEW s \in Seq(Nodes), Linked(s), UnsetPrev
  PROVE  Linked(s)'
<1>1. /\ pc = "unprev" /\ pc' = "data"
      /\ prev' = [prev EXCEPT ![next[cur]] = prev[cur]]
      /\ UNCHANGED << first, last, elements, next, data, nodes, payload, cur, wcur, wnext >>
  BY DEF UnsetPrev, Bypassed, Go
<1>2. /\ \A a, b \in 1 .. Len(s) : s[a] = s[b] => a = b
      /\ \A a \in 1 .. Len(s) : s[a] \in Nodes
  BY Listed
<1>3. PICK k \in 1 .. Len(s) : s[k] = next[cur] /\ prev[cur] = Before(s, k)
  BY <1>1 DEF Linked, Backward
<1>4. Chained(s)' /\ Passing(s)'
  BY <1>1, SameChain, SamePass DEF Linked, Adding
<1>5. Stored(s)'
  BY <1>1 DEF Linked, Stored, Outside
<1>6. Placed(s)' /\ Tallied(s)'
  BY <1>1 DEF Linked, Placed, Tallied, Outside, Dropping, Adding
<1>7. Backward(s)'
  <2>1. \A a \in 1 .. Len(s) : prev'[s[a]] = Before(s, a)
    <3> TAKE a \in 1 .. Len(s)
    <3>1. CASE a = k
      BY <1>1, <1>2, <1>3, <3>1 DEF TypeOK
    <3>2. CASE a # k
      <4>1. s[a] # next[cur] /\ s[a] \in Nodes
        BY <1>2, <1>3, <3>2
      <4>2. prev[s[a]] = Before(s, a)
        BY <1>1, <4>1 DEF Linked, Backward
      <4> QED
        BY <1>1, <4>1, <4>2 DEF TypeOK
    <3> QED
      BY <3>1, <3>2
  <2> QED
    BY <1>1, <2>1 DEF Backward
<1>8. EndRight(s)'
  BY <1>1 DEF Linked, EndRight
<1> QED
  BY <1>4, <1>5, <1>6, <1>7, <1>8 DEF Linked

(* The destructor frees its data.                                          *)
LEMMA FreeDataStep ==
  ASSUME TypeOK, NEW s \in Seq(Nodes), Linked(s), FreeData
  PROVE  Linked(s)'
<1>1. /\ pc = "data" /\ pc' = "node" /\ payload' = payload \ {data[cur]}
      /\ UNCHANGED << first, last, elements, next, prev, data, nodes, cur, wcur, wnext >>
  BY DEF FreeData, Go, links
<1>2. Chained(s)' /\ Passing(s)'
  BY <1>1, SameChain, SamePass DEF Linked, Adding
<1>3. Stored(s)'
  <2>1. /\ nodes = {s[a] : a \in 1 .. Len(s)} \cup {cur}
        /\ payload = {data[s[a]] : a \in 1 .. Len(s)} \cup {data[cur]}
    BY <1>1 DEF Linked, Stored, Outside
  <2>2. data[cur] \notin {data[s[a]] : a \in 1 .. Len(s)}
    BY <1>1 DEF Linked, Placed, Outside
  <2>3. payload' = {data[s[a]] : a \in 1 .. Len(s)}
    BY <1>1, <2>1, <2>2
  <2> QED
    BY <1>1, <2>1, <2>3 DEF Stored, Outside
<1>4. Placed(s)' /\ Tallied(s)'
  BY <1>1 DEF Linked, Placed, Tallied, Outside, Dropping, Adding
<1>5. Backward(s)' /\ EndRight(s)'
  BY <1>1 DEF Linked, Backward, EndRight
<1> QED
  BY <1>2, <1>3, <1>4, <1>5 DEF Linked

(* free (cur)                                                              *)
LEMMA FreeNodeStep ==
  ASSUME TypeOK, NEW s \in Seq(Nodes), Linked(s), FreeNode
  PROVE  Linked(s)'
<1>1. /\ pc = "node" /\ pc' = "uncount" /\ nodes' = nodes \ {cur}
      /\ UNCHANGED << first, last, elements, next, prev, data, payload, cur, wcur, wnext >>
  BY DEF FreeNode, Go
<1>2. Chained(s)' /\ Passing(s)'
  BY <1>1, SameChain, SamePass DEF Linked, Adding
<1>3. Stored(s)'
  <2>1. /\ nodes = {s[a] : a \in 1 .. Len(s)} \cup {cur}
        /\ payload = {data[s[a]] : a \in 1 .. Len(s)}
    BY <1>1 DEF Linked, Stored, Outside
  <2>2. cur \notin {s[a] : a \in 1 .. Len(s)}
    BY <1>1 DEF Linked, Placed, Outside
  <2>3. nodes' = {s[a] : a \in 1 .. Len(s)}
    BY <1>1, <2>1, <2>2
  <2> QED
    BY <1>1, <2>1, <2>3 DEF Stored, Outside
<1>4. Placed(s)' /\ Tallied(s)'
  BY <1>1 DEF Linked, Placed, Tallied, Outside, Dropping, Adding
<1>5. Backward(s)' /\ EndRight(s)'
  BY <1>1 DEF Linked, Backward, EndRight
<1> QED
  BY <1>2, <1>3, <1>4, <1>5 DEF Linked

(* It is counted off.                                                      *)
LEMMA UncountStep ==
  ASSUME TypeOK, NEW s \in Seq(Nodes), Linked(s), Uncount
  PROVE  Linked(s)'
<1>1. /\ pc = "uncount" /\ pc' = "idle" /\ elements' = elements - 1 /\ cur' = NULL
      /\ UNCHANGED << first, last, next, prev, data, nodes, payload, wcur, wnext >>
  BY DEF Uncount, OneLess, Go
<1>2. Chained(s)'
  BY <1>1, SameChain DEF Linked
<1>3. Stored(s)' /\ Placed(s)'
  BY <1>1 DEF Linked, Stored, Placed, Outside, Dropping, Adding
<1>4. Tallied(s)'
  <2>1. elements = Len(s) + 1 /\ Len(s) \in Nat
    BY <1>1, Listed DEF Linked, Tallied, Adding, Dropping
  <2> QED
    BY <1>1, <2>1 DEF Tallied, Adding, Dropping
<1>5. Backward(s)' /\ EndRight(s)'
  BY <1>1 DEF Linked, Backward, EndRight
<1>6. Passing(s)'
  BY <1>1 DEF Linked, Passing, Adding
<1> QED
  BY <1>2, <1>3, <1>4, <1>5, <1>6 DEF Linked

-----------------------------------------------------------------------------
(* db_list_foreach                                                         *)

(* The pass enters an element of the list, or ends.                        *)
LEMMA EnterStep ==
  ASSUME TypeOK, NEW s \in Seq(Nodes), Linked(s), pc = "idle",
         NEW e \in Ref, e = NULL \/ \E a \in 1 .. Len(s) : s[a] = e, Enter(e),
         UNCHANGED << pc, links, payload, cur >>
  PROVE  Linked(s)' /\ bad' = bad
<1>1. /\ Len(s) \in Nat
      /\ \A a, b \in 1 .. Len(s) : s[a] = s[b] => a = b
      /\ \A a \in 1 .. Len(s) : /\ s[a] \in Nodes /\ s[a] \in nodes
                                /\ data[s[a]] \in payload /\ data[s[a]] \in Data
      /\ Runs(s, next, first)
      /\ \A a, b \in 1 .. Len(s) : data[s[a]] = data[s[b]] => a = b
  BY Listed DEF Linked, Chained
<1>2. UNCHANGED << first, last, elements, next, prev, data, nodes >>
  BY DEF links
<1>3. /\ wcur' = e /\ wnext' = IF e = NULL THEN NULL ELSE next[e]
      /\ bad' = (bad \/ (e # NULL /\ (e \notin nodes \/ data[e] \notin payload)))
  BY DEF Enter
<1>4. bad' = bad
  <2>1. e # NULL => e \in nodes /\ data[e] \in payload
    BY <1>1
  <2> QED
    BY <1>3, <2>1 DEF TypeOK
<1>5. Passing(s)'
  <2>1. CASE e = NULL
    BY <1>3, <2>1 DEF Passing
  <2>2. CASE e # NULL
    <3>1. PICK k \in 1 .. Len(s) : s[k] = e
      BY <2>2
    <3>2. wnext' = IF k = Len(s) THEN NULL ELSE s[k + 1]
      BY <1>1, <1>3, <2>2, <3>1 DEF Runs
    <3>3. wnext' = NULL \/ \E a \in 1 .. Len(s) : s[a] = wnext'
      <4>1. k = Len(s) \/ k + 1 \in 1 .. Len(s)
        BY <1>1
      <4> QED
        BY <3>2, <4>1
    <3>4. \A a \in 1 .. Len(s) : data[s[a]] = data[e] => s[a] = e
      BY <1>1, <3>1
    <3>5. \A a \in 1 .. Len(s) :
            s[a] = e => wnext' = IF a = Len(s) THEN NULL ELSE s[a + 1]
      BY <1>1, <3>1, <3>2
    <3>6. data[e] \in Data
      BY <1>1, <3>1
    <3> QED
      BY <1>2, <1>3, <2>2, <3>3, <3>4, <3>5, <3>6 DEF Passing, Adding
  <2> QED
    BY <2>1, <2>2
<1>6. Chained(s)'
  BY <1>2, SameChain DEF Linked
<1>7. Stored(s)' /\ Placed(s)' /\ Tallied(s)'
  BY <1>2 DEF Linked, Stored, Placed, Tallied, Outside, Dropping, Adding
<1>8. Backward(s)' /\ EndRight(s)'
  BY <1>2 DEF Linked, Backward, EndRight
<1> QED
  BY <1>4, <1>5, <1>6, <1>7, <1>8 DEF Linked

(* A pass begins with the first element.                                   *)
LEMMA ForeachStep ==
  ASSUME TypeOK, NEW s \in Seq(Nodes), Linked(s), Foreach
  PROVE  Linked(s)' /\ bad' = bad /\ Len(s) > 0 /\ wcur' = s[1]
<1>1. /\ pc = "idle" /\ first # NULL /\ Enter(first)
      /\ UNCHANGED << pc, links, payload, cur >>
  BY DEF Foreach
<1>2. Len(s) \in Nat /\ Len(s) # 0 /\ first = s[1]
  BY <1>1, Listed DEF Runs
<1>3. first \in Ref /\ \E a \in 1 .. Len(s) : s[a] = first
  BY <1>2 DEF TypeOK
<1>4. Linked(s)' /\ bad' = bad
  BY <1>1, <1>3, EnterStep
<1> QED
  BY <1>1, <1>2, <1>4 DEF Enter

(* It goes on with what it has saved.                                      *)
LEMMA StepStep ==
  ASSUME TypeOK, NEW s \in Seq(Nodes), Linked(s), Step
  PROVE  Linked(s)' /\ bad' = bad
<1>1. /\ pc = "idle" /\ wcur # NULL /\ Enter(wnext)
      /\ UNCHANGED << pc, links, payload, cur >>
  BY DEF Step, Following
<1>2. wnext \in Ref /\ (wnext = NULL \/ \E a \in 1 .. Len(s) : s[a] = wnext)
  BY <1>1 DEF TypeOK, Linked, Passing
<1> QED
  BY <1>1, <1>2, EnterStep

-----------------------------------------------------------------------------
(* The handler.                                                            *)

(* The first signal finds a list it can walk.                              *)
LEMMA FirstSignal ==
  ASSUME TypeOK, NEW s \in Seq(Nodes), Linked(s), pc \in Calls,
         ~bad, ~freed, ~late, Signal
  PROVE  ~late' /\ Walked(s)'
<1>1. /\ pc' = "notify" /\ hcur' = first /\ bad' = (bad \/ freed)
      /\ late' = (late \/ pc \in {"release", "exit"} \/ (pc = "destroy" /\ hcur # first))
      /\ UNCHANGED << first, next, data, nodes, payload, freed, cur >>
  BY DEF Signal, links
<1>2. ~late' /\ ~bad'
  BY <1>1 DEF Calls, Adding, Outside, Dropping
<1>3. /\ Len(s) \in Nat /\ Runs(s, next, first)
      /\ \A a \in 1 .. Len(s) : s[a] \in nodes /\ data[s[a]] \in payload
      /\ \A a, b \in 1 .. Len(s) : data[s[a]] = data[s[b]] => a = b
  BY Listed DEF Linked, Chained
<1>4. /\ nodes \subseteq {s[a] : a \in 1 .. Len(s)} \cup {cur}
      /\ payload \subseteq {data[n] : n \in nodes}
  BY DEF Linked, Stored
<1>5. first = NULL \/ \E a \in 1 .. Len(s) : s[a] = first
  <2>1. Len(s) = 0 \/ 1 \in 1 .. Len(s)
    BY <1>3
  <2> QED
    BY <1>3, <2>1 DEF Runs
<1> QED
  BY <1>1, <1>2, <1>3, <1>4, <1>5 DEF Walked, Intact

(* A further one finds the same list, or comes too late.                   *)
LEMMA NextSignal ==
  ASSUME TypeOK, NEW s \in Seq(Nodes), Walked(s), ~late,
         pc \in Handler \cup {"exited"}, Signal
  PROVE  (~late' => Walked(s)') /\ (late' => Doomed')
<1>1. /\ pc' = "notify" /\ hcur' = first /\ bad' = (bad \/ freed) /\ pc # "exited"
      /\ late' = (late \/ pc \in {"release", "exit"} \/ (pc = "destroy" /\ hcur # first))
      /\ UNCHANGED << first, next, data, nodes, payload, freed, cur >>
  BY DEF Signal, links
<1>2. /\ Len(s) \in Nat /\ Runs(s, next, first)
      /\ \A a \in 1 .. Len(s) : s[a] \in Nodes
      /\ \A a, b \in 1 .. Len(s) : s[a] = s[b] => a = b
      /\ NULL \notin Nodes
  BY SeqFacts, DListAssumption DEF Walked, Runs
<1>3. /\ first = IF Len(s) = 0 THEN NULL ELSE s[1]
      /\ Len(s) = 0 \/ 1 \in 1 .. Len(s)
  BY <1>2 DEF Runs
<1>4. ASSUME ~late'
      PROVE  Walked(s)'
  <2>1. pc = "notify" \/ (pc = "destroy" /\ hcur = first)
    BY <1>1, <1>4 DEF Handler
  <2>2. \A a \in 1 .. Len(s) : Intact(s[a])
    <3>1. CASE pc = "notify"
      BY <3>1 DEF Walked
    <3>2. CASE pc = "destroy" /\ hcur = first
      <4>1. PICK p \in 1 .. Len(s) + 1 : Freeing(s, p)
        BY <3>2 DEF Walked
      <4>2. CASE Len(s) = 0
        BY <4>2
      <4>3. CASE Len(s) # 0
        <5>1. hcur = s[1] /\ s[1] \in Nodes
          BY <1>2, <1>3, <3>2, <4>3
        <5>2. ~(p > Len(s)) /\ hcur = s[p]
          BY <1>2, <4>1, <5>1 DEF Freeing
        <5>3. p = 1
          <6>1. p \in 1 .. Len(s) /\ 1 \in 1 .. Len(s)
            BY <1>2, <4>3, <5>2
          <6> QED
            BY <1>2, <5>1, <5>2, <6>1
        <5>4. \A a \in 1 .. Len(s) : a = 1 \/ a > 1
          BY <1>2
        <5> QED
          BY <1>2, <3>2, <4>1, <5>2, <5>3, <5>4 DEF Freeing
      <4> QED
        BY <4>2, <4>3
    <3> QED
      BY <2>1, <3>1, <3>2
  <2>3. ~freed /\ ~bad'
    BY <1>1, <2>1 DEF Walked
  <2>4. first = NULL \/ \E a \in 1 .. Len(s) : s[a] = first
    BY <1>3
  <2> QED
    BY <1>1, <2>2, <2>3, <2>4 DEF Walked, Intact
<1>5. ASSUME late'
      PROVE  Doomed'
  <2>1. CASE pc = "exit"
    BY <1>1, <2>1 DEF Walked, Doomed
  <2>2. CASE pc = "release" \/ (pc = "destroy" /\ hcur # first)
    <3>1. PICK p \in 1 .. Len(s) + 1 : Freeing(s, p)
      BY <2>2 DEF Walked
    <3>2. Len(s) # 0
      <4>1. CASE pc = "release"
        BY <1>2, <3>1, <4>1 DEF Freeing
      <4>2. CASE pc = "destroy" /\ hcur # first
        <5> SUFFICES ASSUME Len(s) = 0
                     PROVE  FALSE
          OBVIOUS
        <5>1. p > Len(s)
          BY <1>2
        <5> QED
          BY <1>3, <3>1, <4>2, <5>1 DEF Freeing
      <4> QED
        BY <2>2, <4>1, <4>2
    <3>3. first = s[1] /\ 1 \in 1 .. Len(s) /\ first # NULL
      BY <1>2, <1>3, <3>2
    <3>4. ~Intact(first)
      <4>1. CASE p = 1
        <5>1. hcur = first
          BY <1>2, <3>1, <3>3, <4>1 DEF Freeing
        <5>2. data[s[1]] \notin payload
          BY <2>2, <3>1, <4>1, <5>1 DEF Freeing
        <5> QED
          BY <3>3, <5>2 DEF Intact
      <4>2. CASE p # 1
        <5>1. 1 < p
          BY <1>2, <4>2
        <5>2. s[1] \notin nodes
          BY <3>1, <3>3, <5>1 DEF Freeing
        <5> QED
          BY <3>3, <5>2 DEF Intact
      <4> QED
        BY <4>1, <4>2
    <3> QED
      BY <1>1, <3>3, <3>4 DEF Doomed, Intact
  <2> QED
    BY <1>1, <1>5, <2>1, <2>2
<1> QED
  BY <1>4, <1>5

(* The walk that tells the plugins.                                        *)
LEMMA NotifyStep ==
  ASSUME TypeOK, NEW s \in Seq(Nodes), Walked(s), Notify
  PROVE  Walked(s)'
<1>1. /\ pc = "notify"
      /\ UNCHANGED << first, next, data, nodes, payload, freed, cur >>
  BY DEF Notify, links
<1>2. /\ Len(s) \in Nat /\ Runs(s, next, first) /\ ~bad /\ ~freed
      /\ \A a \in 1 .. Len(s) : Intact(s[a])
      /\ hcur = NULL \/ \E a \in 1 .. Len(s) : s[a] = hcur
  BY <1>1, SeqFacts DEF Walked
<1>3. CASE hcur = NULL
  <2>1. pc' = "destroy" /\ hcur' = first /\ bad' = bad
    BY <1>3 DEF Notify
  <2>2. 1 \in 1 .. Len(s) + 1 /\ first = IF 1 > Len(s) THEN NULL ELSE s[1]
    BY <1>2 DEF Runs
  <2>3. Freeing(s, 1)'
    <3>1. \A a \in 1 .. Len(s) : ~(a < 1)
      BY <1>2
    <3>2. 1 <= Len(s) => 1 \in 1 .. Len(s)
      BY <1>2
    <3> QED
      BY <1>1, <1>2, <2>1, <2>2, <3>1, <3>2 DEF Freeing, Intact
  <2> QED
    BY <1>1, <1>2, <2>1, <2>2, <2>3 DEF Walked
<1>4. CASE hcur # NULL
  <2>1. pc' = pc /\ hcur' = next[hcur] /\ bad' = (bad \/ ~Intact(hcur))
    BY <1>4 DEF Notify
  <2>2. PICK a \in 1 .. Len(s) : s[a] = hcur
    BY <1>2, <1>4
  <2>3. hcur' = NULL \/ \E b \in 1 .. Len(s) : s[b] = hcur'
    <3>1. hcur' = IF a = Len(s) THEN NULL ELSE s[a + 1]
      BY <1>2, <2>1, <2>2 DEF Runs
    <3>2. a = Len(s) \/ a + 1 \in 1 .. Len(s)
      BY <1>2
    <3> QED
      BY <3>1, <3>2
  <2>4. ~bad'
    BY <1>2, <2>1, <2>2
  <2> QED
    BY <1>1, <1>2, <2>1, <2>3, <2>4 DEF Walked, Intact
<1> QED
  BY <1>3, <1>4

(* The destructor of an element.                                           *)
LEMMA DestroyStep ==
  ASSUME TypeOK, NEW s \in Seq(Nodes), Walked(s), Destroy
  PROVE  Walked(s)' /\ hcur' # NULL
<1>1. /\ pc = "destroy" /\ hcur # NULL /\ pc' = "release"
      /\ bad' = (bad \/ ~Intact(hcur)) /\ payload' = payload \ {data[hcur]}
      /\ UNCHANGED << first, next, data, nodes, freed, cur, hcur >>
  BY DEF Destroy, links
<1>2. /\ Len(s) \in Nat /\ Runs(s, next, first) /\ ~bad /\ ~freed
      /\ \A a, b \in 1 .. Len(s) : data[s[a]] = data[s[b]] => a = b
  BY <1>1, SeqFacts DEF Walked
<1>3. PICK p \in 1 .. Len(s) + 1 : Freeing(s, p)
  BY <1>1 DEF Walked
<1>4. p <= Len(s) /\ hcur = s[p] /\ p \in 1 .. Len(s)
  BY <1>1, <1>2, <1>3 DEF Freeing
<1>5. ~bad'
  BY <1>1, <1>2, <1>3, <1>4 DEF Freeing
<1>6. Freeing(s, p)'
  <2>1. \A a \in 1 .. Len(s) : a > p => data[s[a]] # data[s[p]]
    BY <1>2, <1>4
  <2>2. s[p] \in nodes
    BY <1>1, <1>3, <1>4 DEF Freeing, Intact
  <2>3. ~(p > Len(s))
    BY <1>2, <1>4
  <2> QED
    BY <1>1, <1>3, <1>4, <2>1, <2>2, <2>3 DEF Freeing, Intact
<1> QED
  BY <1>1, <1>2, <1>3, <1>5, <1>6 DEF Walked

(* Its node.                                                               *)
LEMMA ReleaseStep ==
  ASSUME TypeOK, NEW s \in Seq(Nodes), Walked(s), Release
  PROVE  Walked(s)'
<1>1. /\ pc = "release" /\ pc' = "destroy"
      /\ nodes' = nodes \ {hcur} /\ hcur' = next[hcur]
      /\ UNCHANGED << first, next, data, payload, freed, cur, bad >>
  BY DEF Release
<1>2. /\ Len(s) \in Nat /\ Runs(s, next, first)
      /\ \A a, b \in 1 .. Len(s) : s[a] = s[b] => a = b
  BY SeqFacts DEF Walked, Runs
<1>3. PICK p \in 1 .. Len(s) + 1 : Freeing(s, p)
  BY <1>1 DEF Walked
<1>4. p <= Len(s) /\ hcur = s[p] /\ p \in 1 .. Len(s) /\ data[hcur] \notin payload
  BY <1>1, <1>2, <1>3 DEF Freeing
<1>5. p + 1 \in 1 .. Len(s) + 1
  BY <1>2, <1>4
<1>6. hcur' = IF p + 1 > Len(s) THEN NULL ELSE s[p + 1]
  BY <1>1, <1>2, <1>4 DEF Runs
<1>7. \A a \in 1 .. Len(s) : a < p + 1 => s[a] \notin nodes'
  <2> SUFFICES ASSUME NEW a \in 1 .. Len(s), a < p + 1
               PROVE  s[a] \notin nodes'
    OBVIOUS
  <2>1. a < p \/ a = p
    BY <1>2, <1>4
  <2> QED
    BY <1>1, <1>3, <1>4, <2>1 DEF Freeing
<1>8. \A a \in 1 .. Len(s) : a > p => s[a] \in nodes' /\ data[s[a]] \in payload
  BY <1>1, <1>2, <1>3, <1>4 DEF Freeing, Intact
<1>9. Freeing(s, p + 1)'
  <2>1. \A a \in 1 .. Len(s) : a > p + 1 => a > p
    BY <1>2, <1>4
  <2>2. p + 1 <= Len(s) => p + 1 \in 1 .. Len(s) /\ p + 1 > p
    BY <1>2, <1>4
  <2> QED
    BY <1>1, <1>6, <1>7, <1>8, <2>1, <2>2 DEF Freeing, Intact
<1>10. payload \subseteq {data[n] : n \in nodes'}
  <2> SUFFICES ASSUME NEW d \in payload
               PROVE  \E n \in nodes' : d = data[n]
    OBVIOUS
  <2>1. PICK n \in nodes : d = data[n]
    BY DEF Walked
  <2> QED
    BY <1>1, <1>4, <2>1
<1>11. nodes' \subseteq {s[a] : a \in 1 .. Len(s)} \cup {cur}
  BY <1>1 DEF Walked
<1> QED
  BY <1>1, <1>5, <1>9, <1>10, <1>11 DEF Walked, Runs

(* The DbList itself.                                                      *)
LEMMA FreeListStep ==
  ASSUME TypeOK, NEW s \in Seq(Nodes), Walked(s), FreeList
  PROVE  Walked(s)'
<1>1. /\ pc = "destroy" /\ hcur = NULL /\ pc' = "exit"
      /\ bad' = (bad \/ freed) /\ freed' = TRUE
      /\ UNCHANGED << first, next, data, nodes, payload, cur >>
  BY DEF FreeList, links
<1>2. /\ Len(s) \in Nat /\ \A a \in 1 .. Len(s) : s[a] \in Nodes
      /\ NULL \notin Nodes
  BY SeqFacts, DListAssumption
<1>3. PICK p \in 1 .. Len(s) + 1 : Freeing(s, p)
  BY <1>1 DEF Walked
<1>4. p > Len(s)
  BY <1>1, <1>2, <1>3 DEF Freeing
<1>5. \A a \in 1 .. Len(s) : s[a] \notin nodes
  <2>1. \A a \in 1 .. Len(s) : a < p
    BY <1>2, <1>4
  <2> QED
    BY <1>3, <2>1 DEF Freeing
<1>6. /\ Runs(s, next, first) /\ ~bad /\ ~freed
      /\ \A a, b \in 1 .. Len(s) : data[s[a]] = data[s[b]] => a = b
      /\ nodes \subseteq {s[a] : a \in 1 .. Len(s)} \cup {cur}
      /\ payload \subseteq {data[n] : n \in nodes}
  BY <1>1 DEF Walked
<1> QED
  BY <1>1, <1>5, <1>6 DEF Walked

-----------------------------------------------------------------------------
(* The invariant.                                                          *)

(* What holds of no list at all.                                           *)
LEMMA InitInvariant == Init => DListInv
<1> SUFFICES ASSUME Init
             PROVE  DListInv
  OBVIOUS
<1>1. Cardinality(Nodes) \in Nat
  BY DListAssumption, FS_CardinalityType
<1>2. TypeOK
  <2>1. /\ elements \in Int /\ elements <= Cardinality(Nodes)
        /\ signals \in 0 .. MaxSignals
    BY <1>1, DListAssumption DEF Init
  <2>2. /\ next \in [Nodes -> Ref] /\ prev \in [Nodes -> Ref]
        /\ data \in [Nodes -> Data \cup {NULL}]
    BY DEF Init, Ref
  <2>3. /\ first \in Ref /\ last \in Ref /\ cur \in Ref /\ wcur \in Ref
        /\ wnext \in Ref /\ hcur \in Ref
    BY DEF Init, Ref
  <2>4. /\ nodes \subseteq Nodes /\ payload \subseteq Data
        /\ freed \in BOOLEAN /\ bad \in BOOLEAN /\ late \in BOOLEAN /\ pc = "idle"
    BY DEF Init
  <2> QED
    BY <2>1, <2>2, <2>3, <2>4 DEF TypeOK
<1> DEFINE s == << >>
<1>3. s \in Seq(Nodes) /\ Len(s) = 0 /\ \A a \in 1 .. Len(s) : FALSE
  BY EmptySeq
<1> HIDE DEF s
<1>4. Chained(s) /\ Stored(s)
  BY <1>3 DEF Init, Chained, Runs, Stored, Outside
<1>5. Placed(s) /\ Tallied(s)
  BY <1>3 DEF Init, Placed, Tallied, Outside, Dropping, Adding
<1>6. Backward(s) /\ EndRight(s) /\ Passing(s)
  BY <1>3 DEF Init, Backward, EndRight, Passing
<1>7. Linked(s)
  BY <1>4, <1>5, <1>6 DEF Linked
<1>8. pc = "idle" /\ signals = 0 /\ ~bad /\ ~freed /\ ~late
  BY DEF Init
<1>9. \E q \in Seq(Nodes) : Linked(q)
  BY <1>3, <1>7
<1>10. pc \in Calls /\ pc # "release" /\ ~(signals > 0)
  BY <1>8 DEF Calls
<1> QED
  BY <1>2, <1>8, <1>9, <1>10 DEF DListInv

(* Every step keeps the types.                                             *)
LEMMA StepTypes ==
  ASSUME DListInv, Next
  PROVE  TypeOK'
<1>1. TypeOK
  BY DEF DListInv
<1>2. Cardinality(Nodes) \in Nat /\ \A e \in Nodes : next[e] \in Ref /\ prev[e] \in Ref
  BY <1>1, DListAssumption, FS_CardinalityType DEF TypeOK
<1>3. first \in Ref /\ last \in Ref /\ cur \in Ref /\ hcur \in Ref /\ wnext \in Ref
  BY <1>1 DEF TypeOK
<1>4. pc \notin Handler \cup {"exited"} =>
        signals = 0 /\ \E s \in Seq(Nodes) : Linked(s)
  BY <1>1 DEF DListInv, TypeOK
<1>5. ASSUME NEW d \in Data, Insert(d)
      PROVE  TypeOK'
  BY <1>1, <1>5, DListAssumption DEF Insert, Go, Program, TypeOK, Ref
<1>6. ASSUME NEW d \in Data, Remove(d)
      PROVE  TypeOK'
  <2>1. /\ pc = "idle" /\ pc' = "unlink"
        /\ UNCHANGED << first, last, elements, next, prev, data, nodes, payload,
                        wcur, wnext, freed, hcur, bad, signals, late >>
    BY <1>6 DEF Remove, Go, Program, links
  <2>2. PICK s \in Seq(Nodes) : Linked(s)
    BY <1>4, <2>1 DEF Handler
  <2>3. cur' \in Nodes
    <3>1. Linked(s)'
      BY <1>1, <1>6, <2>2, RemoveStep
    <3>2. \E a \in 1 .. Len(s) : cur' = s[a]
      BY <2>1, <3>1 DEF Linked, Placed
    <3> QED
      BY <3>2, SeqFacts
  <2> QED
    BY <1>1, <2>1, <2>3 DEF TypeOK, Ref
<1>7. CASE LinkFirst
  BY <1>1, <1>7 DEF LinkFirst, Go, Program, TypeOK
<1>8. CASE LinkBehind
  BY <1>1, <1>8 DEF LinkBehind, Go, Program, TypeOK
<1>9. CASE LinkBack
  BY <1>1, <1>9 DEF LinkBack, Go, Program, TypeOK
<1>10. CASE SetLast
  BY <1>1, <1>10 DEF SetLast, Go, Program, TypeOK
<1>11. CASE Count
  <2>1. /\ pc = "count" /\ pc' = "idle" /\ elements' = elements + 1 /\ cur' = NULL
        /\ UNCHANGED << first, last, next, prev, data, nodes, payload, wcur, wnext,
                        freed, hcur, bad, signals, late >>
    BY <1>11 DEF Count, Go, Program
  <2>2. PICK s \in Seq(Nodes) : Linked(s)
    BY <1>4, <2>1 DEF Handler
  <2>3. elements = Len(s) + (-1) /\ Len(s) \in Nat
    BY <1>1, <2>1, <2>2, Listed DEF Linked, Tallied, Adding
  <2>4. Len(s) <= Cardinality(Nodes)
    BY <1>1, <2>2, Listed, OnceFits, DListAssumption
  <2>5. elements' \in Int /\ elements' <= Cardinality(Nodes)
    BY <1>2, <2>1, <2>3, <2>4
  <2> QED
    BY <1>1, <2>1, <2>5 DEF TypeOK, Ref
<1>12. CASE UnlinkOnly
  BY <1>1, <1>12 DEF UnlinkOnly, Go, Program, TypeOK, Ref
<1>13. CASE UnsetLast
  BY <1>1, <1>13 DEF UnsetLast, Go, Program, TypeOK, Ref
<1>14. ASSUME UnlinkHead \/ UnlinkTail \/ UnsetNext \/ UnlinkMiddle
       PROVE  TypeOK'
  <2>1. pc \in {"unlink", "unnext"} /\ pc' \in {"unprev", "unnext", "data"}
        /\ UNCHANGED << elements, data, nodes, payload, cur, wcur, wnext,
                        freed, hcur, bad, signals, late, prev >>
    BY <1>14 DEF UnlinkHead, UnlinkTail, UnsetNext, UnlinkMiddle, Go, Program
  <2>2. PICK s \in Seq(Nodes) : Linked(s)
    BY <1>4, <2>1 DEF Handler
  <2>3. cur \in Nodes
    <3>1. \E a \in 1 .. Len(s) : cur = s[a]
      <4>1. CASE pc = "unlink"
        BY <2>2, <4>1 DEF Linked, Placed
      <4>2. CASE pc = "unnext"
        <5>1. Len(s) > 0 /\ cur = s[Len(s)]
          BY <2>2, <4>2 DEF Linked, Placed
        <5>2. Len(s) \in 1 .. Len(s)
          BY <5>1, SeqFacts
        <5> QED
          BY <5>1, <5>2
      <4> QED
        BY <2>1, <4>1, <4>2
    <3> QED
      BY <3>1, SeqFacts
  <2>4. next[cur] \in Ref /\ prev[cur] \in Ref
    BY <1>2, <2>3
  <2>5. /\ first' \in {first, next[cur]} /\ last' \in {last, prev[cur]}
        /\ \/ next' = next
           \/ next' = [next EXCEPT ![prev[cur]] = NULL]
           \/ next' = [next EXCEPT ![prev[cur]] = next[cur]]
    BY <1>14 DEF UnlinkHead, Beheaded, UnlinkTail, UnsetNext, UnlinkMiddle
  <2>6. first' \in Ref /\ last' \in Ref
    BY <1>3, <2>4, <2>5
  <2>7. next' \in [Nodes -> Ref]
    BY <1>1, <2>4, <2>5 DEF TypeOK, Ref
  <2>8. pc' \in {"unprev", "unnext", "data"}
    BY <2>1
  <2> QED
    BY <1>1, <2>1, <2>6, <2>7, <2>8 DEF TypeOK
<1>15. CASE UnsetPrev
  <2>1. /\ pc = "unprev" /\ pc' = "data"
        /\ prev' = [prev EXCEPT ![next[cur]] = prev[cur]]
        /\ UNCHANGED << first, last, elements, next, data, nodes, payload, cur,
                        wcur, wnext, freed, hcur, bad, signals, late >>
    BY <1>15 DEF UnsetPrev, Bypassed, Go, Program
  <2>2. PICK s \in Seq(Nodes) : Linked(s)
    BY <1>4, <2>1 DEF Handler
  <2>3. cur \in Nodes
    BY <2>1, <2>2 DEF Linked, Placed, Outside
  <2>4. prev' \in [Nodes -> Ref]
    BY <1>1, <1>2, <2>1, <2>3 DEF TypeOK
  <2> QED
    BY <1>1, <2>1, <2>4 DEF TypeOK
<1>16. CASE FreeData
  BY <1>1, <1>16 DEF FreeData, Go, Program, TypeOK, links
<1>17. CASE FreeNode
  BY <1>1, <1>17 DEF FreeNode, Go, Program, TypeOK
<1>18. CASE Uncount
  BY <1>1, <1>2, <1>18 DEF Uncount, OneLess, Go, Program, TypeOK, Ref
<1>19. CASE Foreach \/ Step
  <2>1. PICK e \in Ref : Enter(e)
    BY <1>3, <1>19 DEF Foreach, Step, Following
  <2>2. UNCHANGED << pc, first, last, elements, next, prev, data, nodes, payload,
                     freed, cur, hcur, signals, late >>
    BY <1>19 DEF Foreach, Step, links
  <2>3. wcur' \in Ref /\ wnext' \in Ref /\ bad' \in BOOLEAN
    BY <1>1, <1>2, <2>1 DEF Enter, Ref, TypeOK
  <2> QED
    BY <1>1, <2>2, <2>3 DEF TypeOK
<1>20. CASE Signal
  BY <1>1, <1>20, DListAssumption DEF Signal, TypeOK, links, Handler
<1>21. CASE Notify
  <2>1. /\ pc' \in {"notify", "destroy"}
        /\ UNCHANGED << first, last, elements, next, prev, data, nodes, payload,
                        freed, cur, wcur, wnext, signals, late >>
    BY <1>21 DEF Notify, links
  <2>2. hcur' \in Ref /\ bad' \in BOOLEAN
    BY <1>1, <1>2, <1>3, <1>21 DEF Notify, Ref, TypeOK
  <2>3. pc' \in Handler
    BY <2>1 DEF Handler
  <2> QED
    BY <1>1, <2>1, <2>2, <2>3 DEF TypeOK
<1>22. CASE Destroy
  BY <1>1, <1>22 DEF Destroy, TypeOK, links, Handler
<1>23. CASE Release
  <2>1. /\ pc' = "destroy" /\ nodes' = nodes \ {hcur} /\ elements' = elements - 1
        /\ hcur' = next[hcur] /\ pc = "release"
        /\ UNCHANGED << first, last, next, prev, data, payload, freed, cur, wcur,
                        wnext, bad, signals, late >>
    BY <1>23 DEF Release, OneLess
  <2>2. hcur \in Nodes
    BY <1>3, <2>1 DEF DListInv, Ref
  <2>3. hcur' \in Ref /\ elements' \in Int /\ elements' <= Cardinality(Nodes)
    BY <1>1, <1>2, <2>1, <2>2 DEF TypeOK
  <2> QED
    BY <1>1, <2>1, <2>3 DEF TypeOK, Handler
<1>24. CASE FreeList
  BY <1>1, <1>24 DEF FreeList, TypeOK, links, Handler
<1>25. CASE Exit
  BY <1>1, <1>25 DEF Exit, Go, TypeOK, links
<1>26. CASE Exited
  BY <1>1, <1>26 DEF Exited, TypeOK, vars, links
<1> QED
  BY <1>5, <1>6, <1>7, <1>8, <1>9, <1>10, <1>11, <1>12, <1>13, <1>14, <1>15, <1>16,
     <1>17, <1>18, <1>19, <1>20, <1>21, <1>22, <1>23, <1>24, <1>25, <1>26 DEF Next

(* Every step of the program proper leaves a list of some nodes.           *)
LEMMA ProgramSteps ==
  ASSUME TypeOK, NEW s \in Seq(Nodes), Linked(s), pc \in Calls, Next, ~Signal
  PROVE  /\ \E t \in Seq(Nodes) : Linked(t)'
         /\ pc' \in Calls
         /\ UNCHANGED << freed, bad, signals, late >>
<1> DEFINE Goes == /\ \E t \in Seq(Nodes) : Linked(t)'
                   /\ pc' \in Calls
                   /\ UNCHANGED << freed, bad, signals, late >>
<1>1. \/ \E d \in Data : Insert(d) \/ Remove(d)
      \/ LinkFirst \/ LinkBehind \/ LinkBack \/ SetLast \/ Count
      \/ UnlinkOnly \/ UnsetLast \/ UnlinkHead \/ UnlinkTail \/ UnsetNext
      \/ UnlinkMiddle \/ UnsetPrev \/ FreeData \/ FreeNode \/ Uncount
      \/ Foreach \/ Step
  BY DEF Next, Notify, Destroy, Release, FreeList, Exit, Exited, Go, Calls,
         Adding, Outside, Dropping
<1>2. ASSUME NEW d \in Data, Insert(d)
      PROVE  Goes
  BY <1>2, InsertStep DEF Insert, Go, Program, Calls, Outside
<1>3. ASSUME NEW d \in Data, Remove(d)
      PROVE  Goes
  BY <1>3, RemoveStep DEF Remove, Go, Program, Calls
<1>4. CASE LinkFirst
  BY <1>4, LinkFirstStep DEF LinkFirst, Go, Program, Calls, Adding
<1>5. CASE LinkBehind
  BY <1>5, LinkBehindStep DEF LinkBehind, Go, Program, Calls, Adding
<1>6. CASE LinkBack
  BY <1>6, LinkBackStep DEF LinkBack, Go, Program, Calls, Adding
<1>7. CASE SetLast
  BY <1>7, SetLastStep DEF SetLast, Go, Program, Calls, Adding
<1>8. CASE Count
  BY <1>8, CountStep DEF Count, Go, Program, Calls
<1>9. CASE UnlinkOnly
  BY <1>9, UnlinkOnlyStep DEF UnlinkOnly, Go, Program, Calls, Dropping
<1>10. CASE UnsetLast
  BY <1>10, UnsetLastStep DEF UnsetLast, Go, Program, Calls, Dropping
<1>11. CASE UnlinkHead
  BY <1>11, UnlinkHeadStep DEF UnlinkHead, Go, Program, Calls, Dropping
<1>12. CASE UnlinkTail
  BY <1>12, UnlinkTailStep DEF UnlinkTail, Go, Program, Calls
<1>13. CASE UnsetNext
  BY <1>13, UnsetNextStep DEF UnsetNext, Go, Program, Calls, Dropping
<1>14. CASE UnlinkMiddle
  BY <1>14, UnlinkMiddleStep DEF UnlinkMiddle, Go, Program, Calls, Dropping
<1>15. CASE UnsetPrev
  BY <1>15, UnsetPrevStep DEF UnsetPrev, Go, Program, Calls, Dropping
<1>16. CASE FreeData
  BY <1>16, FreeDataStep DEF FreeData, Go, Program, Calls, Dropping
<1>17. CASE FreeNode
  BY <1>17, FreeNodeStep DEF FreeNode, Go, Program, Calls, Dropping
<1>18. CASE Uncount
  BY <1>18, UncountStep DEF Uncount, Go, Program, Calls
<1>19. CASE Foreach
  BY <1>19, ForeachStep DEF Foreach
<1>20. CASE Step
  BY <1>20, StepStep DEF Step
<1> QED
  BY <1>1, <1>2, <1>3, <1>4, <1>5, <1>6, <1>7, <1>8, <1>9, <1>10, <1>11, <1>12,
     <1>13, <1>14, <1>15, <1>16, <1>17, <1>18, <1>19, <1>20

(* The steps of the handler on a list that is as it should be.             *)
LEMMA HandlerSteps ==
  ASSUME TypeOK, NEW s \in Seq(Nodes), Walked(s),
         pc \in Handler \cup {"exited"}, [Next]_vars, ~Signal
  PROVE  /\ Walked(s)'
         /\ pc' \in Handler \cup {"exited"}
         /\ UNCHANGED << signals, late >>
         /\ (pc = "release" => hcur # NULL) => (pc' = "release" => hcur' # NULL)
<1>1. \/ Notify \/ Destroy \/ Release \/ FreeList \/ Exit \/ UNCHANGED vars
  BY DEF Next, Insert, Remove, LinkFirst, LinkBehind, LinkBack, SetLast, Count,
         UnlinkOnly, UnsetLast, UnlinkHead, UnlinkTail, UnsetNext, UnlinkMiddle,
         UnsetPrev, FreeData, FreeNode, Uncount, Foreach, Step, Exited, Go, Handler
<1>2. CASE Notify
  <2>1. Walked(s)'
    BY <1>2, NotifyStep
  <2>2. pc' \in {"notify", "destroy"} /\ UNCHANGED << signals, late >>
    BY <1>2 DEF Notify
  <2> QED
    BY <2>1, <2>2 DEF Handler
<1>3. CASE Destroy
  BY <1>3, DestroyStep DEF Destroy, Handler
<1>4. CASE Release
  BY <1>4, ReleaseStep DEF Release, Handler
<1>5. CASE FreeList
  BY <1>5, FreeListStep DEF FreeList, Handler
<1>6. CASE Exit
  <2>1. /\ pc = "exit" /\ pc' = "exited"
        /\ UNCHANGED << first, next, data, nodes, payload, cur, bad, freed, signals, late >>
    BY <1>6 DEF Exit, Go, links
  <2>2. /\ Runs(s, next, first) /\ ~bad /\ freed
        /\ \A a, b \in 1 .. Len(s) : data[s[a]] = data[s[b]] => a = b
        /\ nodes \subseteq {s[a] : a \in 1 .. Len(s)} \cup {cur}
        /\ payload \subseteq {data[n] : n \in nodes}
        /\ \A a \in 1 .. Len(s) : s[a] \notin nodes
    BY <2>1 DEF Walked
  <2>3. Walked(s)'
    BY <2>1, <2>2 DEF Walked
  <2> QED
    BY <2>1, <2>3
<1>7. CASE UNCHANGED vars
  <2>1. /\ pc' = pc
        /\ UNCHANGED << first, next, data, nodes, payload, cur, bad, freed, hcur,
                        signals, late >>
    BY <1>7 DEF vars, links
  <2>2. Walked(s)'
    BY <2>1 DEF Walked, Freeing, Intact
  <2> QED
    BY <2>1, <2>2
<1> QED
  BY <1>1, <1>2, <1>3, <1>4, <1>5, <1>6, <1>7

(* Once a signal has come too late, it shows.                              *)
LEMMA DoomedSteps ==
  ASSUME DListInv, late, signals > 0, [Next]_vars
  PROVE  /\ late' /\ Doomed' /\ pc' \in Handler \cup {"exited"} /\ signals' > 0
         /\ pc' = "release" => hcur' # NULL
<1>1. /\ TypeOK /\ Doomed /\ pc \in Handler \cup {"exited"}
      /\ pc = "release" => hcur # NULL
  BY DEF DListInv
<1>2. \/ Signal \/ Notify \/ Destroy \/ Release \/ FreeList \/ Exit \/ UNCHANGED vars
  BY <1>1 DEF Next, Insert, Remove, LinkFirst, LinkBehind, LinkBack, SetLast, Count,
         UnlinkOnly, UnsetLast, UnlinkHead, UnlinkTail, UnsetNext, UnlinkMiddle,
         UnsetPrev, FreeData, FreeNode, Uncount, Foreach, Step, Exited, Go, Handler
<1>3. signals \in Nat
  BY <1>1, DListAssumption DEF TypeOK
<1>4. CASE Signal
  <2>1. /\ pc' = "notify" /\ hcur' = first /\ bad' = (bad \/ freed)
        /\ late' = TRUE /\ signals' = signals + 1
        /\ UNCHANGED << first, data, nodes, payload >>
    BY <1>1, <1>4 DEF Signal, links, TypeOK
  <2>2. bad' \/ (first # NULL /\ ~Intact(first))
    BY <1>1, <2>1 DEF Doomed
  <2> QED
    BY <1>3, <2>1, <2>2 DEF Doomed, Intact, Handler
<1>5. CASE Notify
  <2>1. bad'
    BY <1>1, <1>5 DEF Notify, Doomed, TypeOK
  <2>2. pc' \in {"notify", "destroy"} /\ UNCHANGED << signals, late >>
    BY <1>5 DEF Notify
  <2> QED
    BY <1>3, <2>1, <2>2 DEF Doomed, Handler
<1>6. CASE Destroy
  BY <1>1, <1>6 DEF Destroy, Doomed, Handler, TypeOK
<1>7. CASE Release
  BY <1>1, <1>7 DEF Release, Doomed, Handler
<1>8. CASE FreeList
  BY <1>1, <1>8 DEF FreeList, Doomed, Handler, TypeOK
<1>9. CASE Exit
  BY <1>1, <1>9 DEF Exit, Go, Doomed, Handler
<1>10. CASE UNCHANGED vars
  BY <1>1, <1>10 DEF vars, links, Doomed, Intact
<1> QED
  BY <1>2, <1>4, <1>5, <1>6, <1>7, <1>8, <1>9, <1>10

(* Every step keeps the invariant.                                         *)
LEMMA StepInvariant ==
  ASSUME DListInv, [Next]_vars
  PROVE  DListInv'
<1>1. TypeOK /\ signals \in Nat
  BY DListAssumption DEF DListInv, TypeOK
<1>2. TypeOK'
  <2>1. CASE Next
    BY <2>1, StepTypes
  <2>2. CASE UNCHANGED vars
    BY <1>1, <2>2 DEF vars, links, TypeOK
  <2> QED
    BY <2>1, <2>2
<1>3. CASE signals = 0
  <2>1. pc \in Calls /\ ~bad /\ ~freed /\ ~late
    BY <1>3 DEF DListInv
  <2>2. PICK s \in Seq(Nodes) : Linked(s)
    BY <1>3 DEF DListInv
  <2>3. CASE Signal
    <3>1. ~late' /\ Walked(s)'
      BY <1>1, <2>1, <2>2, <2>3, FirstSignal
    <3>2. pc' = "notify" /\ signals' = 1
      BY <1>3, <2>3 DEF Signal
    <3> QED
      BY <1>2, <3>1, <3>2 DEF DListInv, Handler
  <2>4. CASE Next /\ ~Signal
    <3>1. /\ \E t \in Seq(Nodes) : Linked(t)'
          /\ pc' \in Calls
          /\ UNCHANGED << freed, bad, signals, late >>
      BY <1>1, <2>1, <2>2, <2>4, ProgramSteps
    <3>2. pc' # "release"
      BY <3>1 DEF Calls, Adding, Outside, Dropping
    <3> QED
      BY <1>2, <1>3, <2>1, <3>1, <3>2 DEF DListInv
  <2>5. CASE UNCHANGED vars
    <3>1. /\ UNCHANGED << pc, first, last, elements, next, prev, data, nodes, payload >>
          /\ UNCHANGED << freed, cur, wcur, wnext, hcur, bad, signals, late >>
      BY <2>5 DEF vars, links
    <3>2. Linked(s)'
      BY <2>2, <3>1 DEF Linked, Chained, Runs, Stored, Placed, Tallied, Backward,
                        EndRight, Passing
    <3>3. pc' = "release" => hcur' # NULL
      BY <3>1 DEF DListInv
    <3> QED
      BY <1>2, <1>3, <2>1, <3>1, <3>2, <3>3 DEF DListInv
  <2> QED
    BY <2>3, <2>4, <2>5
<1>4. CASE signals > 0 /\ late
  BY <1>2, <1>4, DoomedSteps DEF DListInv
<1>5. CASE signals > 0 /\ ~late
  <2>1. pc \in Handler \cup {"exited"} /\ (pc = "release" => hcur # NULL)
    BY <1>5 DEF DListInv
  <2>2. PICK s \in Seq(Nodes) : Walked(s)
    BY <1>5 DEF DListInv
  <2>3. CASE Signal
    <3>1. (~late' => Walked(s)') /\ (late' => Doomed')
      BY <1>1, <1>5, <2>1, <2>2, <2>3, NextSignal
    <3>2. pc' = "notify" /\ signals' = signals + 1
      BY <2>3 DEF Signal
    <3>3. signals' > 0
      BY <1>1, <3>2
    <3> QED
      BY <1>1, <1>2, <3>1, <3>2, <3>3 DEF DListInv, Handler
  <2>4. CASE ~Signal
    BY <1>1, <1>2, <1>5, <2>1, <2>2, <2>4, HandlerSteps DEF DListInv
  <2> QED
    BY <2>3, <2>4
<1> QED
  BY <1>1, <1>3, <1>4, <1>5

(* What the list is at every statement of list.c and of the handler, for   *)
(* any number of nodes and signals.                                        *)
THEOREM DListInvariant == Spec => []DListInv
<1>1. Init => DListInv
  BY InitInvariant
<1>2. DListInv /\ [Next]_vars => DListInv'
  BY StepInvariant
<1> QED
  BY <1>1, <1>2, PTL DEF Spec

-----------------------------------------------------------------------------
(* The properties.                                                         *)

(* Every variable of the list keeps its type; elements never counts more   *)
(* than there are nodes.                                                   *)
THEOREM DListTypes == Spec => []TypeOK
<1>1. DListInv => TypeOK
  BY DEF DListInv
<1> QED
  BY <1>1, DListInvariant, PTL

(* Between two calls of list.c both directions agree, and ends, count and  *)
(* memory are those of the chain.                                          *)
THEOREM LinksAgree == Spec => []WellLinked
<1>1. ASSUME DListInv
      PROVE  WellLinked
  <2>1. TypeOK
    BY <1>1 DEF DListInv
  <2>2. SUFFICES ASSUME pc = "idle"
                 PROVE  LET c == Chain(first)
                        IN  /\ Len(c) = elements
                            /\ nodes = {c[k] : k \in DOMAIN c}
                            /\ Cardinality(nodes) = Len(c)
                            /\ payload = {data[c[k]] : k \in DOMAIN c}
                            /\ last = IF c = << >> THEN NULL ELSE c[Len(c)]
                            /\ \A k \in DOMAIN c :
                                 prev[c[k]] = IF k = 1 THEN NULL ELSE c[k - 1]
    BY <2>1 DEF WellLinked
  <2>3. signals = 0
    BY <1>1, <2>1, <2>2, DListAssumption DEF DListInv, TypeOK, Handler
  <2>4. PICK s \in Seq(Nodes) : Linked(s)
    BY <1>1, <2>3 DEF DListInv
  <2>5. Chain(first) = s
    BY <2>1, <2>4, Listed, PathIs DEF Chain
  <2>6. /\ Len(s) \in Nat /\ DOMAIN s = 1 .. Len(s) /\ (s = << >> <=> Len(s) = 0)
        /\ \A a, b \in 1 .. Len(s) : s[a] = s[b] => a = b
    BY <2>1, <2>4, SeqFacts, Listed
  <2>7. /\ elements = Len(s) + 0
        /\ nodes = {s[k] : k \in 1 .. Len(s)}
        /\ payload = {data[s[k]] : k \in 1 .. Len(s)}
        /\ last = IF Len(s) = 0 THEN NULL ELSE s[Len(s)]
        /\ \A k \in 1 .. Len(s) : prev[s[k]] = IF k = 1 THEN NULL ELSE s[k - 1]
    BY <2>2, <2>4 DEF Linked, Stored, Tallied, EndRight, Backward, Before,
                      Outside, Adding, Dropping
  <2>8. Cardinality(nodes) = Len(s)
    BY <2>6, <2>7, OnceFits, DListAssumption
  <2>9. /\ {s[k] : k \in DOMAIN s} = {s[k] : k \in 1 .. Len(s)}
        /\ {data[s[k]] : k \in DOMAIN s} = {data[s[k]] : k \in 1 .. Len(s)}
    BY <2>6
  <2>10. /\ Len(s) = elements
         /\ last = IF s = << >> THEN NULL ELSE s[Len(s)]
    BY <2>6, <2>7
  <2>13. /\ nodes = {s[k] : k \in DOMAIN s}
         /\ payload = {data[s[k]] : k \in DOMAIN s}
    BY <2>7, <2>9
  <2>11. \A k \in DOMAIN s : prev[s[k]] = IF k = 1 THEN NULL ELSE s[k - 1]
    BY <2>6, <2>7
  <2> QED
    BY <2>5, <2>8, <2>10, <2>11, <2>13
<1> QED
  BY <1>1, DListInvariant, PTL

(* One signal never makes the handler use freed memory.                    *)
THEOREM IntactThroughout == Spec => []IntactUntilLate
<1>1. ASSUME DListInv
      PROVE  IntactUntilLate
  <2>1. signals = 0 \/ signals > 0
    BY <1>1, DListAssumption DEF DListInv, TypeOK
  <2> QED
    BY <1>1, <2>1 DEF DListInv, IntactUntilLate, Walked
<1> QED
  BY <1>1, DListInvariant, PTL

(* The handler leaves at most the element in flight.                       *)
THEOREM LeavesOne == Spec => []OneLeftAtMost
<1>1. ASSUME DListInv
      PROVE  OneLeftAtMost
  <2> SUFFICES ASSUME pc = "exited", ~bad
               PROVE  nodes \subseteq {cur} /\ payload \subseteq {data[n] : n \in nodes}
    BY DEF OneLeftAtMost
  <2>1. signals > 0
    <3>1. pc \notin Calls
      BY DEF Calls, Adding, Outside, Dropping
    <3> QED
      BY <1>1, <3>1, DListAssumption DEF DListInv, TypeOK
  <2>2. ~late
    BY <1>1, <2>1 DEF DListInv, Doomed
  <2>3. PICK s \in Seq(Nodes) : Walked(s)
    BY <1>1, <2>1, <2>2 DEF DListInv
  <2>4. /\ nodes \subseteq {s[a] : a \in 1 .. Len(s)} \cup {cur}
        /\ payload \subseteq {data[n] : n \in nodes}
        /\ \A a \in 1 .. Len(s) : s[a] \notin nodes
    BY <2>3 DEF Walked
  <2> QED
    BY <2>4
<1> QED
  BY <1>1, DListInvariant, PTL

-----------------------------------------------------------------------------
(* The list is a sequence: what the nodes show of themselves.              *)

(* The data of the nodes of s.                                            *)
Along(held, s) == [k \in 1 .. Len(s) |-> held[s[k]]]

(* The data along succ from e on; Contents is that along next.             *)
Shown(succ, held, e) == [k \in DOMAIN Path(succ, e) |-> held[Path(succ, e)[k]]]

(* What the implementation shows of SeqList's variables.                   *)
Listing == IF signals > 0 THEN << >> ELSE Contents(first)
Handed  == IF signals > 0 \/ wcur = NULL THEN NULL ELSE data[wcur]
Ahead   == IF signals > 0 THEN << >> ELSE Contents(wnext)

(* The data of the sequence that runs from e.                              *)
LEMMA ShownIs ==
  ASSUME NEW succ, NEW held, NEW e, NEW s, Runs(s, succ, e)
  PROVE  Shown(succ, held, e) = Along(held, s)
<1>1. s \in Seq(Nodes)
  BY DEF Runs
<1>2. Path(succ, e) = s
  BY PathIs
<1>3. DOMAIN s = 1 .. Len(s)
  BY <1>1, SeqFacts
<1> QED
  BY <1>2, <1>3 DEF Shown, Along

(* Nothing is shown from NULL on.                                          *)
LEMMA NothingShown ==
  ASSUME NEW succ, NEW held
  PROVE  Shown(succ, held, NULL) = << >>
<1>1. << >> \in Seq(Nodes) /\ Len(<< >>) = 0
  BY EmptySeq
<1>2. Runs(<< >>, succ, NULL)
  BY <1>1 DEF Runs
<1>3. Shown(succ, held, NULL) = [k \in 1 .. Len(<< >>) |-> held[<< >>[k]]]
  BY <1>2, ShownIs DEF Along
<1> QED
  BY <1>1, <1>3

(* From its p-th element on, the sequence runs as well.                    *)
LEMMA RunsBehind ==
  ASSUME NEW succ, NEW e, NEW s, Runs(s, succ, e)
  PROVE  \A p \in 1 .. Len(s) :
           \E q \in Seq(Nodes) :
             /\ Runs(q, succ, s[p]) /\ Len(q) = Len(s) - p + 1
             /\ \A a \in 1 .. Len(q) : q[a] = s[p + a - 1]
<1> TAKE p \in 1 .. Len(s)
<1> DEFINE q == SubSeq(s, p, Len(s))
<1>1. /\ Len(s) \in Nat /\ p \in Nat /\ 1 <= p /\ p <= Len(s)
      /\ \A a \in 1 .. Len(s) : s[a] \in Nodes
  BY SeqFacts DEF Runs
<1>2. /\ q \in Seq(Nodes) /\ Len(q) = Len(s) - p + 1
      /\ \A a \in 1 .. Len(q) : q[a] = s[p + a - 1]
  <2>1. p \in Int /\ Len(s) \in Int /\ \A a \in p .. Len(s) : s[a] \in Nodes
    BY <1>1
  <2>2. /\ q \in Seq(Nodes)
        /\ Len(q) = IF p <= Len(s) THEN Len(s) - p + 1 ELSE 0
        /\ \A a \in 1 .. Len(s) - p + 1 : q[a] = s[p + a - 1]
    BY <2>1, SubSeqProperties
  <2> HIDE DEF q
  <2> QED
    BY <1>1, <2>2
<1> HIDE DEF q
<1>3. \A a \in 1 .. Len(q) : p + a - 1 \in 1 .. Len(s) /\ a \in Nat
  BY <1>1, <1>2
<1>4. \A a, b \in 1 .. Len(q) : q[a] = q[b] => a = b
  <2> SUFFICES ASSUME NEW a \in 1 .. Len(q), NEW b \in 1 .. Len(q), q[a] = q[b]
               PROVE  a = b
    OBVIOUS
  <2>1. s[p + a - 1] = s[p + b - 1]
    BY <1>2
  <2>2. p + a - 1 = p + b - 1
    BY <1>3, <2>1 DEF Runs
  <2> QED
    BY <1>1, <1>3, <2>2
<1>5. s[p] = IF Len(q) = 0 THEN NULL ELSE q[1]
  <2>1. Len(q) # 0 /\ 1 \in 1 .. Len(q) /\ p + 1 - 1 = p
    BY <1>1, <1>2
  <2> QED
    BY <1>2, <2>1
<1>6. \A a \in 1 .. Len(q) : succ[q[a]] = IF a = Len(q) THEN NULL ELSE q[a + 1]
  <2> TAKE a \in 1 .. Len(q)
  <2>1. /\ p + a - 1 \in 1 .. Len(s)
        /\ a = Len(q) <=> p + a - 1 = Len(s)
        /\ a # Len(q) => a + 1 \in 1 .. Len(q)
        /\ (p + a - 1) + 1 = p + (a + 1) - 1
    BY <1>1, <1>2, <1>3
  <2>2. succ[q[a]] = IF p + a - 1 = Len(s) THEN NULL ELSE s[(p + a - 1) + 1]
    BY <1>2, <2>1 DEF Runs
  <2> QED
    BY <1>2, <2>1, <2>2
<1>7. Runs(q, succ, s[p])
  BY <1>2, <1>4, <1>5, <1>6 DEF Runs
<1> QED
  BY <1>2, <1>7

(* The p-th element shows itself, and then what its link leads to.         *)
LEMMA HeadAndTail ==
  ASSUME NEW succ, NEW held \in [Nodes -> Data \cup {NULL}], NEW e, NEW s,
         Runs(s, succ, e), NEW p \in 1 .. Len(s)
  PROVE  /\ Shown(succ, held, s[p]) # << >>
         /\ Head(Shown(succ, held, s[p])) = held[s[p]]
         /\ Tail(Shown(succ, held, s[p])) = Shown(succ, held, succ[s[p]])
<1> DEFINE v == Shown(succ, held, s[p])
           w == Shown(succ, held, succ[s[p]])
           D == Data \cup {NULL}
<1>1. Len(s) \in Nat /\ p \in Nat /\ 1 <= p /\ p <= Len(s)
  BY SeqFacts DEF Runs
<1>0. \A n \in 1 .. Len(s) :
        \E q \in Seq(Nodes) :
          /\ Runs(q, succ, s[n]) /\ Len(q) = Len(s) - n + 1
          /\ \A a \in 1 .. Len(q) : q[a] = s[n + a - 1]
  BY RunsBehind
<1>2. PICK q \in Seq(Nodes) :
        /\ Runs(q, succ, s[p]) /\ Len(q) = Len(s) - p + 1
        /\ \A a \in 1 .. Len(q) : q[a] = s[p + a - 1]
  BY <1>0
<1>3. v = Along(held, q)
  BY <1>2, ShownIs
<1>4. \A a \in 1 .. Len(q) : q[a] \in Nodes /\ held[q[a]] \in D
  BY SeqFacts
<1>5. Len(q) \in Nat /\ Len(q) > 0
  BY <1>1, <1>2
<1> HIDE DEF v, D
<1>6. v \in Seq(D) /\ Len(v) = Len(q) /\ \A a \in 1 .. Len(q) : v[a] = held[q[a]]
  <2>1. v \in [1 .. Len(q) -> D]
    BY <1>3, <1>4 DEF Along
  <2>2. v \in Seq(D)
    BY <1>5, <2>1, SeqDef
  <2>3. Len(v) = Len(q)
    <3>1. DOMAIN v = 1 .. Len(v) /\ Len(v) \in Nat
      BY <2>2, LenProperties
    <3>2. 1 .. Len(v) = 1 .. Len(q)
      BY <2>1, <3>1
    <3> QED
      BY <1>5, <3>1, <3>2
  <2> QED
    BY <1>3, <2>2, <2>3 DEF Along
<1>7. v # << >>
  BY <1>5, <1>6, SeqFacts
<1>8. /\ Head(v) = v[1] /\ Tail(v) \in Seq(D) /\ Len(Tail(v)) = Len(v) - 1
      /\ \A a \in 1 .. Len(Tail(v)) : Tail(v)[a] = v[a + 1]
  BY <1>6, <1>7, HeadTailProperties
<1>9. Head(v) = held[s[p]]
  <2>1. 1 \in 1 .. Len(q) /\ p + 1 - 1 = p
    BY <1>1, <1>5
  <2> QED
    BY <1>2, <1>6, <1>8, <2>1
<1>10. w \in Seq(D) /\ Len(w) = Len(q) - 1 /\ \A a \in 1 .. Len(q) - 1 : w[a] = held[q[a + 1]]
  <2>1. CASE p = Len(s)
    <3>1. succ[s[p]] = NULL
      BY <2>1 DEF Runs
    <3>2. w = << >>
      BY <3>1, NothingShown
    <3> HIDE DEF w
    <3>3. w \in Seq(D) /\ Len(w) = 0
      BY <3>2, EmptySeq
    <3> QED
      BY <1>1, <1>2, <2>1, <3>3
  <2>2. CASE p # Len(s)
    <3> PICK n : n \in 1 .. Len(s) /\ n = p + 1
      BY <1>1, <2>2
    <3>1. succ[s[p]] = s[n]
      BY <1>1, <2>2 DEF Runs
    <3>2. PICK r \in Seq(Nodes) :
            /\ Runs(r, succ, s[n]) /\ Len(r) = Len(s) - n + 1
            /\ \A a \in 1 .. Len(r) : r[a] = s[n + a - 1]
      BY <1>0
    <3>3. w = Along(held, r)
      BY <3>1, <3>2, ShownIs
    <3>4. Len(r) = Len(q) - 1 /\ Len(r) \in Nat
      BY <1>1, <1>2, <3>1, <3>2
    <3> HIDE DEF w
    <3>5. \A a \in 1 .. Len(r) : r[a] \in Nodes /\ held[r[a]] \in D
      BY SeqFacts DEF D
    <3>6. w \in [1 .. Len(r) -> D]
      BY <3>3, <3>5 DEF Along
    <3>7. w \in Seq(D)
      BY <3>4, <3>6, SeqDef
    <3>8. Len(w) = Len(r)
      <4>1. DOMAIN w = 1 .. Len(w) /\ Len(w) \in Nat
        BY <3>7, LenProperties
      <4>2. 1 .. Len(w) = 1 .. Len(r)
        BY <3>6, <4>1
      <4> QED
        BY <3>4, <4>1, <4>2
    <3>9. \A a \in 1 .. Len(q) - 1 : w[a] = held[q[a + 1]]
      <4> TAKE a \in 1 .. Len(q) - 1
      <4>1. a \in 1 .. Len(r) /\ a + 1 \in 1 .. Len(q) /\ n + a - 1 = p + (a + 1) - 1
        BY <1>1, <1>5, <3>4
      <4>2. r[a] = q[a + 1]
        BY <1>2, <3>2, <4>1
      <4> QED
        BY <3>3, <4>1, <4>2 DEF Along
    <3> QED
      BY <3>4, <3>7, <3>8, <3>9
  <2> QED
    BY <2>1, <2>2
<1> HIDE DEF w
<1>11. Tail(v) = w
  <2>1. Len(Tail(v)) = Len(w)
    BY <1>6, <1>8, <1>10
  <2>2. \A a \in 1 .. Len(Tail(v)) : Tail(v)[a] = w[a]
    <3> TAKE a \in 1 .. Len(Tail(v))
    <3>1. a \in 1 .. Len(q) - 1 /\ a + 1 \in 1 .. Len(q)
      BY <1>5, <1>6, <1>8
    <3> QED
      BY <1>6, <1>8, <1>10, <3>1
  <2> QED
    BY <1>8, <1>10, <2>1, <2>2, SeqEqual
<1> QED
  BY <1>7, <1>9, <1>11 DEF v, w

(* A list of nodes shows a sequence of data.                               *)
LEMMA ShownData ==
  ASSUME NEW held, NEW s \in Seq(Nodes),
         \A a \in 1 .. Len(s) : held[s[a]] \in Data,
         NEW v, v = Along(held, s)
  PROVE  /\ v \in Seq(Data) /\ Len(v) = Len(s)
         /\ \A a \in 1 .. Len(s) : v[a] = held[s[a]]
<1>1. Len(s) \in Nat /\ v \in [1 .. Len(s) -> Data]
  BY SeqFacts DEF Along
<1>2. v \in Seq(Data)
  BY <1>1, SeqDef
<1>3. DOMAIN v = 1 .. Len(v) /\ Len(v) \in Nat
  BY <1>2, LenProperties
<1>4. 1 .. Len(v) = 1 .. Len(s)
  BY <1>1, <1>3
<1> QED
  BY <1>1, <1>2, <1>3, <1>4 DEF Along

(* An element that joins the nodes at their end joins the data there.      *)
LEMMA ShownAppend ==
  ASSUME NEW held, NEW s \in Seq(Nodes), NEW n \in Nodes,
         \A a \in 1 .. Len(s) : held[s[a]] \in Data, held[n] \in Data
  PROVE  Along(held, Append(s, n)) = Append(Along(held, s), held[n])
<1> DEFINE t == Append(s, n)
           v == Along(held, s)
           w == Along(held, t)
<1>1. Len(s) \in Nat
  BY SeqFacts
<1>2. /\ t \in Seq(Nodes) /\ Len(t) = Len(s) + 1 /\ t[Len(s) + 1] = n
      /\ \A a \in 1 .. Len(s) : t[a] = s[a]
  BY AppendProperties
<1> HIDE DEF t
<1>3. \A a \in 1 .. Len(t) : a \in 1 .. Len(s) \/ a = Len(s) + 1
  BY <1>1, <1>2
<1>4. /\ v \in Seq(Data) /\ Len(v) = Len(s)
      /\ \A a \in 1 .. Len(s) : v[a] = held[s[a]]
  BY ShownData
<1>5. \A a \in 1 .. Len(t) : held[t[a]] \in Data
  BY <1>2, <1>3
<1>6. /\ w \in Seq(Data) /\ Len(w) = Len(t)
      /\ \A a \in 1 .. Len(t) : w[a] = held[t[a]]
  BY <1>2, <1>5, ShownData
<1> HIDE DEF v, w
<1>7. /\ Append(v, held[n]) \in Seq(Data) /\ Len(Append(v, held[n])) = Len(v) + 1
      /\ Append(v, held[n])[Len(v) + 1] = held[n]
      /\ \A a \in 1 .. Len(v) : Append(v, held[n])[a] = v[a]
  BY <1>4, AppendProperties
<1>8. \A a \in 1 .. Len(w) : w[a] = Append(v, held[n])[a]
  <2> TAKE a \in 1 .. Len(w)
  <2>1. CASE a \in 1 .. Len(s)
    BY <1>2, <1>4, <1>6, <1>7, <2>1
  <2>2. CASE a = Len(s) + 1
    BY <1>2, <1>4, <1>6, <1>7, <2>2
  <2> QED
    BY <1>3, <1>6, <2>1, <2>2
<1>9. w = Append(v, held[n])
  BY <1>2, <1>4, <1>6, <1>7, <1>8, SeqEqual
<1> QED
  BY <1>9 DEF t, v, w

(* One that leaves the nodes leaves the data.                              *)
LEMMA ShownWithout ==
  ASSUME NEW held, NEW s \in Seq(Nodes), NEW k \in 1 .. Len(s),
         \A a \in 1 .. Len(s) : held[s[a]] \in Data
  PROVE  Along(held, Without(s, k)) = Without(Along(held, s), k)
<1>1. PICK t : t = Without(s, k)
  OBVIOUS
<1>2. PICK v : v = Along(held, s)
  OBVIOUS
<1>3. PICK w : w = Along(held, t)
  OBVIOUS
<1>4. PICK u : u = Without(v, k)
  OBVIOUS
<1>5. Len(s) \in Nat /\ k \in Nat
  BY SeqFacts
<1>6. /\ t \in Seq(Nodes) /\ Len(t) = Len(s) - 1
      /\ \A j \in 1 .. Len(s) - 1 : t[j] = IF j < k THEN s[j] ELSE s[j + 1]
  BY <1>1, LeftOut
<1>7. /\ v \in Seq(Data) /\ Len(v) = Len(s)
      /\ \A a \in 1 .. Len(s) : v[a] = held[s[a]]
  BY <1>2, ShownData
<1>8. \A j \in 1 .. Len(t) : j \in 1 .. Len(s) /\ j + 1 \in 1 .. Len(s)
  BY <1>5, <1>6
<1>9. \A j \in 1 .. Len(t) : held[t[j]] \in Data
  BY <1>6, <1>8
<1>10. /\ w \in Seq(Data) /\ Len(w) = Len(t)
      /\ \A j \in 1 .. Len(t) : w[j] = held[t[j]]
  BY <1>3, <1>6, <1>9, ShownData
<1>11. /\ u \in Seq(Data) /\ Len(u) = Len(v) - 1
      /\ \A j \in 1 .. Len(v) - 1 : u[j] = IF j < k THEN v[j] ELSE v[j + 1]
  <2>1. k \in 1 .. Len(v)
    BY <1>7
  <2> QED
    BY <1>4, <1>7, <2>1, LeftOut
<1>12. \A j \in 1 .. Len(w) : w[j] = u[j]
  <2> TAKE j \in 1 .. Len(w)
  <2>1. j \in 1 .. Len(t) /\ j \in 1 .. Len(s) /\ j + 1 \in 1 .. Len(s)
    BY <1>8, <1>10
  <2> QED
    BY <1>6, <1>7, <1>10, <1>11, <2>1
<1>13. Len(w) = Len(u)
  BY <1>6, <1>7, <1>10, <1>11
<1>14. w = u
  <2>1. w \in Seq(Data) /\ u \in Seq(Data)
    BY <1>10, <1>11
  <2> QED
    BY <1>12, <1>13, <2>1, SeqEqual
<1> QED
  BY <1>1, <1>2, <1>3, <1>4, <1>14

-----------------------------------------------------------------------------
(* How the steps of the program proper change what is shown.               *)

(* What the nodes of a list show.                                          *)
LEMMA ContentsIs ==
  ASSUME TypeOK, NEW s \in Seq(Nodes), Linked(s)
  PROVE  /\ Contents(first) = Along(data, s)
         /\ Contents(first) \in Seq(Data) /\ Len(Contents(first)) = Len(s)
         /\ \A a \in 1 .. Len(s) : Contents(first)[a] = data[s[a]]
<1>1. Contents(first) = Shown(next, data, first)
  BY DEF Contents, Chain, Shown
<1>2. Runs(s, next, first) /\ \A a \in 1 .. Len(s) : data[s[a]] \in Data
  BY Listed
<1>3. Contents(first) = Along(data, s)
  BY <1>1, <1>2, ShownIs
<1> QED
  BY <1>2, <1>3, ShownData

(* The same after a step.                                                  *)
LEMMA ContentsNext ==
  ASSUME NEW t \in Seq(Nodes), Linked(t)'
  PROVE  Contents(first)' = Along(data', t)
<1>1. Contents(first)' = Shown(next', data', first')
  BY DEF Contents, Chain, Shown
<1>2. Runs(t, next', first')
  BY DEF Linked, Chained, Runs
<1> QED
  BY <1>1, <1>2, ShownIs

(* Outside of a pass nothing is ahead.                                     *)
LEMMA NothingAhead ==
  ASSUME NEW s, Passing(s), wcur = NULL, UNCHANGED << wcur, wnext >>
  PROVE  Contents(wnext) = << >> /\ Contents(wnext)' = << >>
<1>1. wnext = NULL /\ wnext' = NULL
  BY DEF Passing
<1>2. /\ Contents(wnext) = Shown(next, data, NULL)
      /\ Contents(wnext)' = Shown(next', data', NULL)
  BY <1>1 DEF Contents, Chain, Shown
<1> QED
  BY <1>2, NothingShown

(* Nothing that is shown changes with other variables.                     *)
LEMMA SameShown ==
  ASSUME UNCHANGED << first, next, data, wcur, wnext, signals >>
  PROVE  UNCHANGED << Listing, Handed, Ahead >>
BY DEF Listing, Handed, Ahead, Contents, Chain

-----------------------------------------------------------------------------
(* SeqList's actions on what is shown.                                     *)
LEMMA SeqsActs ==
  /\ Seqs!vars = << Listing, Handed, Ahead >>
  /\ \A d : Seqs!Add(d) <=>
       /\ Handed = NULL /\ d \notin {Listing[a] : a \in DOMAIN Listing}
       /\ Listing' = Append(Listing, d) /\ UNCHANGED << Handed, Ahead >>
  /\ \A d : Seqs!TakeOut(d) <=>
       /\ Handed \in {NULL, d}
       /\ \E j \in DOMAIN Listing : Listing[j] = d /\ Listing' = Without(Listing, j)
       /\ UNCHANGED << Handed, Ahead >>
  /\ Seqs!Begin <=>
       /\ Handed = NULL /\ Listing # << >>
       /\ Handed' = Head(Listing) /\ Ahead' = Tail(Listing) /\ UNCHANGED Listing
  /\ Seqs!HandOver <=>
       /\ Handed # NULL /\ Ahead # << >>
       /\ Handed' = Head(Ahead) /\ Ahead' = Tail(Ahead) /\ UNCHANGED Listing
  /\ Seqs!Finish <=>
       Handed # NULL /\ Ahead = << >> /\ Handed' = NULL /\ UNCHANGED << Listing, Ahead >>
  /\ Seqs!End <=> Listing' = << >> /\ Handed' = NULL /\ Ahead' = << >>
BY DEF Seqs!vars, Seqs!Add, Seqs!TakeOut, Seqs!Begin, Seqs!HandOver, Seqs!Finish,
       Seqs!End, Seqs!Range, Listing, Handed, Ahead, Without

(* The element joins the list when it can be reached from first.           *)
LEMMA LinkShown ==
  ASSUME TypeOK, signals = 0, NEW s \in Seq(Nodes), Linked(s),
         LinkFirst \/ LinkBehind
  PROVE  \E d \in Data : Seqs!Add(d)
<1>1. /\ pc = "link" /\ UNCHANGED << data, cur, wcur, wnext, signals, elements >>
      /\ pc' \in Adding
  BY DEF LinkFirst, LinkBehind, Go, Program, Adding
<1>2. /\ Len(s) \in Nat /\ \A a \in 1 .. Len(s) : s[a] \in Nodes /\ data[s[a]] \in Data
  BY Listed
<1>3. /\ cur \in Nodes /\ data[cur] \in Data
      /\ \A a \in 1 .. Len(s) : data[s[a]] # data[cur]
  BY <1>1 DEF Linked, Placed, Outside
<1>4. wcur = NULL /\ Passing(s)
  BY <1>1 DEF Linked, Passing
<1>5. Contents(first)' = Append(Contents(first), data[cur])
  <2>1. PICK t \in Seq(Nodes) : Linked(t)' /\ t = Append(s, cur)
    <3>1. CASE LinkBehind
      BY <3>1, LinkBehindStep
    <3>2. CASE LinkFirst
      <4>1. PICK t \in Seq(Nodes) : Linked(t)'
        BY <3>2, LinkFirstStep
      <4>2. first = NULL
        BY <3>2 DEF LinkFirst
      <4>3. Len(s) = 0
        <5>1. Len(s) # 0 => 1 \in 1 .. Len(s) /\ first = s[1]
          BY <1>2, Listed DEF Runs
        <5> QED
          BY <1>2, <4>2, <5>1, DListAssumption
      <4>4. elements = Len(s)
        BY <1>1, <1>2 DEF Linked, Tallied, Adding, Dropping
      <4>5. elements' = Len(t) - 1 /\ cur' = t[Len(t)] /\ Len(t) \in Nat
        BY <1>1, <4>1, SeqFacts DEF Linked, Tallied, Placed
      <4>9. elements' = elements /\ cur' = cur
        BY <1>1
      <4>6. Len(t) = 1 /\ t[1] = cur
        <5>1. Len(t) - 1 = 0
          BY <4>3, <4>4, <4>5, <4>9
        <5>2. Len(t) = 1
          BY <4>5, <5>1
        <5> QED
          BY <4>5, <4>9, <5>2
      <4>7. /\ Append(s, cur) \in Seq(Nodes) /\ Len(Append(s, cur)) = 1
            /\ Append(s, cur)[1] = cur
        BY <1>3, <4>3, AppendProperties
      <4>8. t = Append(s, cur)
        BY <4>6, <4>7, SeqEqual
      <4> QED
        BY <4>1, <4>8
    <3> QED
      BY <3>1, <3>2
  <2>2. Contents(first)' = Along(data, t)
    BY <1>1, <2>1, ContentsNext
  <2>3. Contents(first) = Along(data, s)
    BY ContentsIs
  <2> QED
    BY <1>2, <1>3, <2>1, <2>2, <2>3, ShownAppend
<1>6. data[cur] \notin {Contents(first)[a] : a \in DOMAIN Contents(first)}
  BY <1>3, ContentsIs
<1>7. Contents(wnext) = << >> /\ Contents(wnext)' = << >>
  BY <1>1, <1>4, NothingAhead
<1>8. Seqs!Add(data[cur])
  BY <1>1, <1>4, <1>5, <1>6, <1>7, SeqsActs DEF Listing, Handed, Ahead
<1> QED
  BY <1>3, <1>8

(* It leaves the list when no link leads to it.                            *)
LEMMA UnlinkShown ==
  ASSUME TypeOK, signals = 0, NEW s \in Seq(Nodes), Linked(s),
         UnlinkOnly \/ UnlinkHead \/ UnsetNext \/ UnlinkMiddle
  PROVE  \E d \in Data : Seqs!TakeOut(d)
<1>1. /\ pc \in {"unlink", "unnext"}
      /\ UNCHANGED << data, cur, wcur, wnext, signals >>
  BY DEF UnlinkOnly, UnlinkHead, UnsetNext, UnlinkMiddle, Go, Program
<1>2. PICK k \in 1 .. Len(s), t \in Seq(Nodes) :
        s[k] = cur /\ t = Without(s, k) /\ Linked(t)'
  BY UnlinkOnlyStep, UnlinkHeadStep, UnsetNextStep, UnlinkMiddleStep
<1>3. /\ Len(s) \in Nat /\ k \in Nat /\ Runs(s, next, first)
      /\ \A a \in 1 .. Len(s) : s[a] \in Nodes /\ data[s[a]] \in Data
  BY Listed
<1>4. wcur # NULL => wcur = cur
  BY <1>1 DEF Linked, Passing
<1>5. /\ Contents(first) = Along(data, s)
      /\ Contents(first)[k] = data[cur] /\ k \in DOMAIN Contents(first)
  BY <1>2, ContentsIs
<1>6. Contents(first)' = Without(Contents(first), k)
  <2>1. Contents(first)' = Along(data, t)
    BY <1>1, <1>2, ContentsNext
  <2>2. Along(data, Without(s, k)) = Without(Along(data, s), k)
    <3>1. \A a \in 1 .. Len(s) : data[s[a]] \in Data
      BY <1>3
    <3> QED
      BY <3>1, ShownWithout
  <2>3. t = Without(s, k)
    BY <1>2
  <2> QED
    BY <1>5, <2>1, <2>2, <2>3
<1>7. Contents(wnext)' = Contents(wnext)
  <2>1. CASE wcur = NULL
    BY <1>1, <2>1, NothingAhead DEF Linked
  <2>2. CASE wcur # NULL
    <3>1. wnext = IF k = Len(s) THEN NULL ELSE s[k + 1]
      BY <1>2, <1>4, <2>2 DEF Linked, Passing
    <3>2. /\ Contents(wnext) = Shown(next, data, wnext)
          /\ Contents(wnext)' = Shown(next', data, wnext)
      BY <1>1 DEF Contents, Chain, Shown
    <3>3. CASE k = Len(s)
      BY <3>1, <3>2, <3>3, NothingShown
    <3>4. CASE k # Len(s)
      <4>1. PICK n : n \in 1 .. Len(s) /\ n = k + 1
        BY <1>3, <3>4
      <4>2. PICK q \in Seq(Nodes) :
              /\ Runs(q, next, s[n]) /\ Len(q) = Len(s) - n + 1
              /\ \A a \in 1 .. Len(q) : q[a] = s[n + a - 1]
        <5>1. Runs(s, next, first)
          BY <1>3
        <5>2. \A m \in 1 .. Len(s) :
                \E q \in Seq(Nodes) :
                  /\ Runs(q, next, s[m]) /\ Len(q) = Len(s) - m + 1
                  /\ \A a \in 1 .. Len(q) : q[a] = s[m + a - 1]
          BY <5>1, RunsBehind
        <5> QED
          BY <4>1, <5>2
      <4>3. /\ Len(t) = Len(s) - 1
            /\ \A j \in 1 .. Len(s) - 1 : t[j] = IF j < k THEN s[j] ELSE s[j + 1]
        BY <1>2, LeftOut
      <4>4. k \in 1 .. Len(t) /\ t[k] = s[n]
        BY <1>3, <3>4, <4>1, <4>3
      <4>5. Runs(t, next', first')
        BY <1>2 DEF Linked, Chained, Runs
      <4>6. PICK r \in Seq(Nodes) :
              /\ Runs(r, next', t[k]) /\ Len(r) = Len(t) - k + 1
              /\ \A a \in 1 .. Len(r) : r[a] = t[k + a - 1]
        <5>1. \A m \in 1 .. Len(t) :
                \E r \in Seq(Nodes) :
                  /\ Runs(r, next', t[m]) /\ Len(r) = Len(t) - m + 1
                  /\ \A a \in 1 .. Len(r) : r[a] = t[m + a - 1]
          BY <4>5, RunsBehind
        <5> QED
          BY <4>4, <5>1
      <4>7. Len(r) = Len(q)
        BY <1>3, <4>1, <4>2, <4>3, <4>6
      <4>8. \A a \in 1 .. Len(r) : r[a] = q[a]
        <5> TAKE a \in 1 .. Len(r)
        <5>1. /\ k + a - 1 \in 1 .. Len(s) - 1 /\ ~(k + a - 1 < k)
              /\ (k + a - 1) + 1 = n + a - 1
          BY <1>3, <4>1, <4>3, <4>4, <4>6
        <5> QED
          BY <4>2, <4>3, <4>6, <4>7, <5>1
      <4>9. r = q
        BY <4>7, <4>8, SeqEqual
      <4>10. wnext = s[n]
        BY <3>1, <3>4, <4>1
      <4>12. Runs(q, next, wnext) /\ Runs(q, next', wnext)
        BY <4>2, <4>4, <4>6, <4>9, <4>10
      <4>11. /\ Shown(next, data, wnext) = Along(data, q)
             /\ Shown(next', data, wnext) = Along(data, q)
        <5>1. Shown(next, data, wnext) = Along(data, q)
          BY <4>12, ShownIs
        <5>2. Shown(next', data, wnext) = Along(data, q)
          BY <4>12, ShownIs
        <5> QED
          BY <5>1, <5>2
      <4> QED
        BY <3>2, <4>11
    <3> QED
      BY <3>3, <3>4
  <2> QED
    BY <2>1, <2>2
<1>8. Seqs!TakeOut(data[cur])
  <2>1. Handed \in {NULL, data[cur]} /\ Handed' = Handed
    BY <1>1, <1>4 DEF Handed
  <2>2. Listing = Contents(first) /\ Listing' = Contents(first)'
    BY <1>1 DEF Listing
  <2>3. Ahead' = Ahead
    BY <1>1, <1>7 DEF Ahead
  <2> QED
    BY <1>5, <1>6, <2>1, <2>2, <2>3, SeqsActs
<1> QED
  BY <1>2, <1>3, <1>8

(* The pass is handed an element, and the rest of the list is ahead.       *)
LEMMA ForeachShown ==
  ASSUME TypeOK, signals = 0, NEW s \in Seq(Nodes), Linked(s), Foreach
  PROVE  Seqs!Begin
<1>1. /\ wcur = NULL /\ wcur' = first /\ wnext' = next[first] /\ first # NULL
      /\ UNCHANGED << first, next, data, signals >>
  BY DEF Foreach, Enter, links
<1>2. /\ 1 \in 1 .. Len(s) /\ first = s[1] /\ Runs(s, next, first)
  BY <1>1, Listed DEF Runs
<1>3. data \in [Nodes -> Data \cup {NULL}]
  BY DEF TypeOK
<1>4. /\ Shown(next, data, first) # << >>
      /\ Head(Shown(next, data, first)) = data[first]
      /\ Tail(Shown(next, data, first)) = Shown(next, data, next[first])
  BY <1>2, <1>3, HeadAndTail
<1>5. /\ Listing = Shown(next, data, first) /\ Listing' = Listing
      /\ Handed = NULL /\ Handed' = data[first]
      /\ Ahead' = Shown(next, data, next[first])
  BY <1>1 DEF Listing, Handed, Ahead, Contents, Chain, Shown
<1> QED
  BY <1>4, <1>5, SeqsActs

(* It goes on with the first of those ahead, or is done.                   *)
LEMMA StepShown ==
  ASSUME TypeOK, signals = 0, NEW s \in Seq(Nodes), Linked(s), Step
  PROVE  Seqs!HandOver \/ Seqs!Finish
<1>1. /\ wcur # NULL /\ wcur' = wnext
      /\ wnext' = IF wnext = NULL THEN NULL ELSE next[wnext]
      /\ UNCHANGED << first, next, data, signals >>
  BY DEF Step, Enter, Following, links
<1>2. /\ data[wcur] # NULL
      /\ wnext = NULL \/ \E a \in 1 .. Len(s) : s[a] = wnext
  BY <1>1, DListAssumption DEF Linked, Passing
<1>3. data \in [Nodes -> Data \cup {NULL}] /\ Runs(s, next, first)
  BY Listed DEF TypeOK
<1>4. /\ Listing' = Listing /\ Handed # NULL
      /\ Ahead = Shown(next, data, wnext) /\ Ahead' = Shown(next, data, wnext')
  BY <1>1, <1>2 DEF Listing, Handed, Ahead, Contents, Chain, Shown
<1>5. CASE wnext = NULL
  <2>1. Ahead = << >> /\ Ahead' = << >> /\ Handed' = NULL
    BY <1>1, <1>4, <1>5, NothingShown DEF Handed
  <2> QED
    BY <1>4, <2>1, SeqsActs
<1>6. CASE wnext # NULL
  <2>1. PICK p \in 1 .. Len(s) : s[p] = wnext
    BY <1>2, <1>6
  <2>2. /\ Ahead # << >> /\ Head(Ahead) = data[wnext]
        /\ Tail(Ahead) = Shown(next, data, next[wnext])
    <3>1. /\ Shown(next, data, s[p]) # << >>
          /\ Head(Shown(next, data, s[p])) = data[s[p]]
          /\ Tail(Shown(next, data, s[p])) = Shown(next, data, next[s[p]])
      BY <1>3, HeadAndTail
    <3> QED
      BY <1>4, <2>1, <3>1
  <2>3. Handed' = data[wnext]
    BY <1>1, <1>6 DEF Handed
  <2> QED
    BY <1>1, <1>4, <1>6, <2>2, <2>3, SeqsActs
<1> QED
  BY <1>5, <1>6

(* An element that is made shows nothing yet.                              *)
LEMMA InsertShown ==
  ASSUME TypeOK, signals = 0, NEW s \in Seq(Nodes), Linked(s),
         NEW d \in Data, Insert(d)
  PROVE  UNCHANGED << Listing, Handed, Ahead >>
<1>1. /\ wcur = NULL /\ UNCHANGED << wcur, wnext, signals >>
      /\ cur' \notin nodes /\ data' = [data EXCEPT ![cur'] = d]
  BY DEF Insert, Program
<1>2. \A a \in 1 .. Len(s) : s[a] \in Nodes /\ data'[s[a]] = data[s[a]]
  BY <1>1, Listed DEF TypeOK
<1>3. Contents(first)' = Along(data', s)
  BY InsertStep, ContentsNext
<1>4. Contents(first) = Along(data, s)
  BY ContentsIs
<1>5. Contents(first)' = Contents(first)
  BY <1>2, <1>3, <1>4 DEF Along
<1>6. Contents(wnext) = << >> /\ Contents(wnext)' = << >>
  BY <1>1, NothingAhead DEF Linked
<1> QED
  BY <1>1, <1>5, <1>6 DEF Listing, Handed, Ahead

(* Every step of list.c is one of SeqList's, or shows nothing.             *)
LEMMA StepShows ==
  ASSUME DListInv, [Next]_vars
  PROVE  [Seqs!Next]_Seqs!vars
<1>1. TypeOK /\ signals \in Nat
  BY DListAssumption DEF DListInv, TypeOK
<1> DEFINE Same == UNCHANGED << Listing, Handed, Ahead >>
<1>2. Same => [Seqs!Next]_Seqs!vars
  BY DEF Seqs!vars, Listing, Handed, Ahead
<1>3. /\ \A d \in Data : Seqs!Add(d) \/ Seqs!TakeOut(d) => Seqs!Next
      /\ Seqs!Begin \/ Seqs!HandOver \/ Seqs!Finish \/ Seqs!End => Seqs!Next
  BY DEF Seqs!Next
<1>4. CASE UNCHANGED vars
  <2>1. UNCHANGED << first, next, data, wcur, wnext, signals >>
    BY <1>4 DEF vars, links
  <2> QED
    BY <1>2, <2>1, SameShown
<1>5. CASE Signal
  <2>1. signals' > 0
    BY <1>1, <1>5 DEF Signal
  <2>2. Listing' = << >> /\ Handed' = NULL /\ Ahead' = << >>
    BY <2>1 DEF Listing, Handed, Ahead
  <2> QED
    BY <1>3, <2>2, SeqsActs
<1>6. CASE signals > 0 /\ Next /\ ~Signal
  <2>1. pc \in Handler \cup {"exited"}
    BY <1>6 DEF DListInv
  <2>2. Notify \/ Destroy \/ Release \/ FreeList \/ Exit \/ Exited
    BY <1>6, <2>1 DEF Next, Insert, Remove, LinkFirst, LinkBehind, LinkBack, SetLast,
         Count, UnlinkOnly, UnsetLast, UnlinkHead, UnlinkTail, UnsetNext, UnlinkMiddle,
         UnsetPrev, FreeData, FreeNode, Uncount, Foreach, Step, Go, Handler
  <2>3. signals' = signals
    BY <2>2 DEF Notify, Destroy, Release, FreeList, Exit, Exited, vars
  <2>4. Same
    BY <1>6, <2>3 DEF Listing, Handed, Ahead
  <2> QED
    BY <1>2, <2>4
<1>7. CASE signals = 0 /\ Next /\ ~Signal
  <2>1. PICK s \in Seq(Nodes) : Linked(s)
    BY <1>7 DEF DListInv
  <2>2. pc \in Calls
    BY <1>7 DEF DListInv
  <2>3. \/ \E d \in Data : Insert(d)
        \/ LinkFirst \/ LinkBehind
        \/ UnlinkOnly \/ UnlinkHead \/ UnsetNext \/ UnlinkMiddle
        \/ Foreach \/ Step
        \/ \E d \in Data : Remove(d)
        \/ LinkBack \/ SetLast \/ Count \/ UnsetLast \/ UnlinkTail
        \/ UnsetPrev \/ FreeData \/ FreeNode \/ Uncount
    BY <1>7, <2>2 DEF Next, Notify, Destroy, Release, FreeList, Exit, Exited, Go, Calls,
         Adding, Outside, Dropping
  <2>4. CASE \E d \in Data : Insert(d)
    BY <1>1, <1>2, <1>7, <2>1, <2>4, InsertShown
  <2>5. CASE LinkFirst \/ LinkBehind
    BY <1>1, <1>3, <1>7, <2>1, <2>5, LinkShown
  <2>6. CASE UnlinkOnly \/ UnlinkHead \/ UnsetNext \/ UnlinkMiddle
    BY <1>1, <1>3, <1>7, <2>1, <2>6, UnlinkShown
  <2>7. CASE Foreach
    BY <1>1, <1>3, <1>7, <2>1, <2>7, ForeachShown
  <2>8. CASE Step
    BY <1>1, <1>3, <1>7, <2>1, <2>8, StepShown
  <2>9. CASE \/ \E d \in Data : Remove(d)
             \/ LinkBack \/ SetLast \/ Count \/ UnsetLast \/ UnlinkTail
             \/ UnsetPrev \/ FreeData \/ FreeNode \/ Uncount
    <3>1. UNCHANGED << first, next, data, wcur, wnext, signals >>
      BY <2>9 DEF Remove, LinkBack, SetLast, Count, UnsetLast, UnlinkTail, UnsetPrev,
                  FreeData, FreeNode, Uncount, Program, links
    <3> QED
      BY <1>2, <3>1, SameShown
  <2> QED
    BY <2>3, <2>4, <2>5, <2>6, <2>7, <2>8, <2>9
<1> QED
  BY <1>1, <1>4, <1>5, <1>6, <1>7

(* The pointers of list.c are the sequence SeqList promises: an element is *)
(* added or taken out in one step, when first or a link changes, and a     *)
(* pass hands over what it began with.                                     *)
THEOREM ImplementsSeqList == Spec => ActsLikeSeqList
<1>1. Init => Seqs!Init
  <2> SUFFICES ASSUME Init
               PROVE  Seqs!Init
    OBVIOUS
  <2>1. signals = 0 /\ first = NULL /\ wcur = NULL /\ wnext = NULL
    BY DEF Init
  <2>2. Contents(NULL) = << >>
    BY NothingShown DEF Contents, Chain, Shown
  <2> QED
    BY <2>1, <2>2 DEF Seqs!Init
<1>2. DListInv /\ [Next]_vars => [Seqs!Next]_Seqs!vars
  BY StepShows
<1> QED
  BY <1>1, <1>2, DListInvariant, PTL DEF Spec, ActsLikeSeqList, Seqs!Spec
=============================================================================
