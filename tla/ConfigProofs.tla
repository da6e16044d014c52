---------------------------- MODULE ConfigProofs ----------------------------
(***************************************************************************)
(* What reading the configuration makes of any document, for any set of    *)
(* plugins, any names and any number of hashes, and what the report of an  *)
(* error shows of any line.                                                *)
(*                                                                         *)
(* The inductive invariant ConfigInv ties both lists to the document: what *)
(* an element (Loaded) and an object (Shown) have been made of.  That the  *)
(* lists are complete is NodesSettled itself.  Table, hash and conversion  *)
(* enter by three lemmas: PopIsWritten, HashType and PlainStays.           *)
(***************************************************************************)
EXTENDS Config, DivisorProofs, SequenceTheorems

-----------------------------------------------------------------------------
(* A set of integers that is bounded from above has a greatest element.    *)
LEMMA MaxIs ==
  ASSUME NEW S \in SUBSET Int, NEW n \in Int, S # {}, \A i \in S : i <= n
  PROVE  Max(S) \in S /\ \A i \in S : i <= Max(S)
<1> DEFINE T == {n - i : i \in S}
<1>1. T \in SUBSET Nat /\ T # {}
  <2>1. \A i \in S : n - i \in Nat
    OBVIOUS
  <2> QED
    BY <2>1
<1>2. PICK d \in T : \A c \in T : d <= c
  BY <1>1, LeastExists
<1>3. PICK e \in S : d = n - e
  BY <1>2
<1>4. \A i \in S : i <= e
  <2> TAKE i \in S
  <2>1. n - i \in T
    OBVIOUS
  <2>2. n - e <= n - i
    BY <1>2, <1>3, <2>1
  <2> QED
    BY <2>2
<1>5. \A i \in S : e >= i
  BY <1>4
<1>6. Max(S) \in S /\ \A i \in S : Max(S) >= i
  BY <1>5 DEF Max
<1>7. Max(S) \in Int
  BY <1>6
<1> QED
  BY <1>6, <1>7

(* The same from below.                                                   *)
LEMMA MinIs ==
  ASSUME NEW S \in SUBSET Int, NEW n \in Int, S # {}, \A i \in S : n <= i
  PROVE  Min(S) \in S /\ \A i \in S : Min(S) <= i
<1> DEFINE T == {i - n : i \in S}
<1>1. T \in SUBSET Nat /\ T # {}
  OBVIOUS
<1>2. PICK d \in T : \A c \in T : d <= c
  BY <1>1, LeastExists
<1>3. PICK e \in S : d = e - n
  BY <1>2
<1>4. \A i \in S : e <= i
  <2> TAKE i \in S
  <2>1. i - n \in T
    OBVIOUS
  <2>2. e - n <= i - n
    BY <1>2, <1>3, <2>1
  <2> QED
    BY <2>2
<1> QED
  BY <1>4 DEF Min

-----------------------------------------------------------------------------
(* The report of an error, in memory m and with the parser at `at'.        *)

Memory(m) == m \in Seq({"x", "nl", "nul"}) /\ Len(m) > 0 /\ m[1] # "nl"

(* Newlines and NULs are places of the memory; the first is no newline.    *)
LEMMA NewlineFacts ==
  ASSUME NEW m, Memory(m)
  PROVE  /\ Len(m) \in Nat /\ Len(m) > 0 /\ DOMAIN m = 1 .. Len(m)
         /\ Newlines(m) \subseteq 2 .. Len(m) /\ Nuls(m) \subseteq 1 .. Len(m)
<1>1. Len(m) \in Nat /\ DOMAIN m = 1 .. Len(m)
  BY DEF Memory
<1>2. \A i \in Newlines(m) : i \in 1 .. Len(m) /\ i # 1
  BY <1>1 DEF Newlines, Memory
<1>3. Nuls(m) \subseteq 1 .. Len(m)
  BY <1>1 DEF Nuls
<1> QED
  BY <1>1, <1>2, <1>3 DEF Memory

(* The handler finds the end of a line: behind it are newlines only.       *)
LEMMA LineEndIs ==
  ASSUME NEW m, Memory(m), NEW at \in 1 .. Len(m) + 1
  PROVE  /\ LineEnd(m, at) \in 1 .. at
         /\ LineEnd(m, at) \notin Newlines(m)
         /\ \A j \in 1 .. at : j > LineEnd(m, at) => j \in Newlines(m)
<1> DEFINE S == {i \in 1 .. at : i \notin Newlines(m)}
<1>1. at \in Int /\ at >= 1
  BY NewlineFacts
<1>2. 1 \in S
  BY <1>1, NewlineFacts
<1>3. S \in SUBSET Int /\ \A i \in S : i <= at
  BY <1>1
<1>4. Max(S) \in S /\ \A i \in S : i <= Max(S)
  <2> HIDE DEF S
  <2>1. S # {}
    BY <1>2
  <2> QED
    BY <1>1, <1>3, <2>1, MaxIs
<1>5. LineEnd(m, at) = Max(S)
  BY DEF LineEnd
<1>6. LineEnd(m, at) \in S /\ \A i \in S : i <= LineEnd(m, at)
  BY <1>4, <1>5
<1>7. LineEnd(m, at) \in 1 .. at
  BY <1>6
<1>8. ASSUME NEW j \in 1 .. at, j > LineEnd(m, at) PROVE j \in Newlines(m)
  BY <1>1, <1>6, <1>7, <1>8
<1> QED
  BY <1>6, <1>7, <1>8

(* From there it goes back to a newline, or Size - 1 characters.           *)
LEMMA StepsToIs ==
  ASSUME NEW m, Memory(m), NEW at \in 1 .. Len(m) + 1
  PROVE  /\ StepsTo(m, at) \in Int
         /\ \/ StepsTo(m, at) = LineEnd(m, at) - Back
            \/ StepsTo(m, at) \in Newlines(m) /\ StepsTo(m, at) < LineEnd(m, at)
         /\ StepsTo(m, at) >= LineEnd(m, at) - Back
         /\ \A i \in Newlines(m) : i < LineEnd(m, at) => StepsTo(m, at) >= i
<1> DEFINE e == LineEnd(m, at)
           S == {e - Back} \cup {i \in Newlines(m) : i < e}
<1>1. e \in Int
  BY LineEndIs, NewlineFacts
<1>2. Back \in Int /\ Back >= 0
  BY ExcerptAssumption DEF Back
<1>3. Newlines(m) \subseteq Int
  BY NewlineFacts
<1>4. e - Back \in S /\ \A i \in Newlines(m) : i < e => i \in S
  OBVIOUS
<1>5. S \in SUBSET Int /\ \A i \in S : i <= e
  <2> HIDE DEF e
  <2> QED
    BY <1>1, <1>2, <1>3
<1>6. Max(S) \in S /\ \A i \in S : i <= Max(S)
  <2> HIDE DEF S, e
  <2> QED
    BY <1>1, <1>4, <1>5, MaxIs
<1>7. StepsTo(m, at) = Max(S)
  BY DEF StepsTo
<1>8. StepsTo(m, at) \in S /\ \A i \in S : i <= StepsTo(m, at)
  BY <1>6, <1>7
<1>9. StepsTo(m, at) \in Int
  BY <1>5, <1>8
<1>10. \A i \in S : StepsTo(m, at) >= i
  BY <1>5, <1>8, <1>9
<1> QED
  BY <1>4, <1>8, <1>9, <1>10

(* The excerpt ends at the next newline or NUL, if it is not cut.          *)
LEMMA LengthIs ==
  ASSUME NEW m, Memory(m), NEW at \in 1 .. Len(m) + 1
  PROVE  /\ Begin(m, at) \in Int
         /\ Length(m, at) \in Int /\ Length(m, at) <= Size - 1
         /\ \A n \in Int :
              /\ n <= Len(m) + 1
              /\ \A i \in Newlines(m) : i > Begin(m, at) => n <= i
              /\ \A i \in Nuls(m) : i >= Begin(m, at) => n <= i
              => Length(m, at) >= n - Begin(m, at) \/ Length(m, at) = Size - 1
         /\ \A i \in Nuls(m) :
              i >= Begin(m, at) => Length(m, at) <= i - Begin(m, at)
<1> DEFINE first == Begin(m, at)
           ends  == {i \in Newlines(m) : i > first} \cup
                    {i \in Nuls(m) : i >= first} \cup {Len(m) + 1}
<1>1. first \in Int
  BY StepsToIs DEF Begin
<1>2. ends \in SUBSET Int /\ Len(m) + 1 \in ends /\ \A i \in ends : 1 <= i
  BY NewlineFacts
<1>3. Min(ends) \in ends /\ \A i \in ends : Min(ends) <= i
  <2> HIDE DEF ends
  <2>1. ends # {} /\ 1 \in Int
    BY <1>2
  <2> QED
    BY <1>2, <2>1, MinIs
<1>4. Min(ends) \in Int
  BY <1>2, <1>3
<1>5. Length(m, at) = Smaller(Size - 1, Min(ends) - first)
  BY DEF Length
<1>6. Length(m, at) \in Int /\ Length(m, at) <= Size - 1
  <2> HIDE DEF ends, first
  <2> QED
    BY <1>1, <1>4, <1>5, ExcerptAssumption DEF Smaller
<1>7. ASSUME NEW n \in Int, n <= Len(m) + 1,
             \A i \in Newlines(m) : i > first => n <= i,
             \A i \in Nuls(m) : i >= first => n <= i
      PROVE  Length(m, at) >= n - first \/ Length(m, at) = Size - 1
  <2>1. \A i \in ends : n <= i
    BY <1>7
  <2>2. n <= Min(ends)
    BY <1>3, <2>1
  <2> HIDE DEF ends, first
  <2> QED
    BY <1>1, <1>4, <1>5, <2>2, ExcerptAssumption DEF Smaller
<1>8. ASSUME NEW i \in Nuls(m), i >= first PROVE Length(m, at) <= i - first
  <2>1. i \in ends /\ i \in Int
    BY <1>8, NewlineFacts
  <2>2. Min(ends) <= i
    BY <1>3, <2>1
  <2> HIDE DEF ends, first
  <2> QED
    BY <1>1, <1>4, <1>5, <2>1, <2>2, ExcerptAssumption DEF Smaller
<1> QED
  BY <1>1, <1>6, <1>7, <1>8

(* What error_handler writes is within the array.                          *)
LEMMA CaretIs ==
  ASSUME NEW m, Memory(m), NEW at \in 1 .. Len(m) + 1
  PROVE  /\ Column(m, at) \in Int /\ Caret(m, at) \in Int
         /\ Caret(m, at) <= Size - 2
<1>1. at \in Int
  BY NewlineFacts
<1>2. Column(m, at) \in Int
  BY <1>1, LengthIs DEF Column
<1> QED
  BY <1>2, LengthIs, ExcerptAssumption DEF Caret, Smaller

(* The newlines it reads in front of the buffer end the buffer.            *)
LEMMA LowOnlyFirstLine ==
  ASSUME NEW m, Memory(m), NEW start \in DOMAIN m, NEW at \in start .. Len(m) + 1,
         StepsTo(m, at) < start,
         NEW i \in Newlines(m) \cap (start .. at), NEW j \in i .. at
  PROVE  j \in Newlines(m)
<1>1. Len(m) \in Nat /\ at \in 1 .. Len(m) + 1 /\ at \in Int /\ start \in Int
  BY NewlineFacts
<1>2. i \in Int /\ i >= start /\ j \in Int /\ j \in 1 .. at /\ j >= i
  BY <1>1
<1>3. StepsTo(m, at) \in Int /\ LineEnd(m, at) \in 1 .. at
  BY <1>1, StepsToIs, LineEndIs
<1>4. ~(i < LineEnd(m, at))
  BY <1>1, <1>2, <1>3, StepsToIs
<1>5. i # LineEnd(m, at)
  BY <1>1, LineEndIs
<1>6. j > LineEnd(m, at)
  BY <1>1, <1>2, <1>3, <1>4, <1>5
<1> QED
  BY <1>1, <1>2, <1>6, LineEndIs

(* The line of the parser begins behind the greatest newline in front.     *)
LEMMA LineStartIs ==
  ASSUME NEW m, Memory(m), NEW at \in 1 .. Len(m) + 1
  PROVE  /\ LineStart(m, at) \in Int
         /\ \/ LineStart(m, at) = -Size
            \/ \E i \in Newlines(m) : i < at /\ LineStart(m, at) = i + 1
         /\ \A i \in Newlines(m) : i < at => i + 1 <= LineStart(m, at)
<1> DEFINE N == {j \in Newlines(m) : j < at}
           S == {i + 1 : i \in N} \cup {-Size}
<1>1. at \in Int /\ at >= 1 /\ -Size \in Int /\ -Size < at
  BY NewlineFacts, ExcerptAssumption
<1>2. N \subseteq Int /\ \A i \in N : i < at
  BY NewlineFacts
<1>3. S \in SUBSET Int /\ -Size \in S /\ \A i \in S : i <= at
  <2> HIDE DEF N
  <2> QED
    BY <1>1, <1>2
<1>4. Max(S) \in S /\ \A i \in S : i <= Max(S)
  <2> HIDE DEF S
  <2> QED
    BY <1>1, <1>3, MaxIs
<1>5. LineStart(m, at) = Max(S)
  BY DEF LineStart
<1>6. LineStart(m, at) \in S /\ \A i \in S : i <= LineStart(m, at)
  BY <1>4, <1>5
<1>7. LineStart(m, at) \in Int
  BY <1>3, <1>6
<1>8. \A i \in N : i + 1 \in S
  OBVIOUS
<1>9. \A i \in Newlines(m) : i < at => i \in N
  OBVIOUS
<1>10. LineStart(m, at) = -Size \/ \E i \in N : LineStart(m, at) = i + 1
  BY <1>6
<1> QED
  BY <1>6, <1>7, <1>8, <1>9, <1>10

(* The caret is under the parser's character, or one to the left, if the   *)
(* excerpt gets there.                                                     *)
LEMMA CaretAt ==
  ASSUME NEW m, Memory(m), NEW at \in 1 .. Len(m) + 1, at \notin Newlines(m),
         \A i \in Nuls(m) : i >= Begin(m, at) => at <= i
  PROVE  Begin(m, at) + Caret(m, at) =
           IF at - LineStart(m, at) < Size - 1 THEN at ELSE at - 1
<1> DEFINE L == LineStart(m, at)
           B == Begin(m, at)
           S == StepsTo(m, at)
<1>1. Len(m) \in Nat /\ at \in Int /\ at >= 1 /\ at <= Len(m) + 1
  BY NewlineFacts
<1>2. Newlines(m) \subseteq Int
  BY NewlineFacts
<1>3. LineEnd(m, at) = at
  BY <1>1, LineEndIs
<1>4. /\ S \in Int
      /\ S = at - (Size - 1) \/ (S \in Newlines(m) /\ S < at)
      /\ S >= at - (Size - 1)
      /\ \A i \in Newlines(m) : i < at => S >= i
  BY <1>3, StepsToIs DEF Back
<1>5. /\ L \in Int
      /\ L = -Size \/ \E i \in Newlines(m) : i < at /\ L = i + 1
      /\ \A i \in Newlines(m) : i < at => i + 1 <= L
  BY LineStartIs
<1>6. B = IF S \in Newlines(m) THEN S + 1 ELSE S
  BY DEF Begin
<1>7. /\ Length(m, at) \in Int /\ Length(m, at) <= Size - 1
      /\ (\A i \in Newlines(m) : i > B => at <= i) =>
           Length(m, at) >= at - B \/ Length(m, at) = Size - 1
  BY <1>1, LengthIs
<1>8. Caret(m, at) = Smaller(Smaller(at - B, Size - 2), Length(m, at))
  BY DEF Caret, Column
<1>9. Size \in Int /\ Size > 2
  BY ExcerptAssumption
<1> HIDE DEF L, B, S
<1>10. CASE at - L < Size - 1
  <2>1. L # -Size
    BY <1>1, <1>9, <1>10
  <2>2. PICK n \in Newlines(m) : n < at /\ L = n + 1
    BY <1>5, <2>1
  <2>3. n \in Int /\ n >= at - (Size - 1)
    BY <1>1, <1>2, <1>9, <1>10, <2>2
  <2>4. S >= n
    BY <1>4, <2>2
  <2>5. S \in Newlines(m)
    BY <1>1, <1>4, <1>9, <2>2, <2>3, <2>4
  <2>6. S < at
    BY <1>1, <1>4, <1>9
  <2>7. S + 1 <= n + 1
    BY <1>5, <2>2, <2>5, <2>6
  <2>8. S = n
    BY <1>4, <2>3, <2>4, <2>7
  <2>9. B = n + 1 /\ B = L
    BY <1>6, <2>2, <2>5, <2>8
  <2>10. ASSUME NEW i \in Newlines(m), i > B PROVE at <= i
    <3>1. i < at => i + 1 <= L
      BY <1>5
    <3>2. i \in Int
      BY <1>2
    <3> QED
      BY <1>1, <2>3, <2>9, <2>10, <3>1, <3>2
  <2>11. Length(m, at) >= at - B
    <3>1. Length(m, at) >= at - B \/ Length(m, at) = Size - 1
      BY <1>7, <2>10
    <3> QED
      BY <1>1, <1>9, <1>10, <2>3, <2>9, <3>1
  <2>12. at - B <= Size - 2 /\ B \in Int
    BY <1>1, <1>9, <1>10, <2>3, <2>9
  <2>13. Caret(m, at) = at - B
    BY <1>1, <1>7, <1>8, <1>9, <2>11, <2>12 DEF Smaller
  <2>14. B + Caret(m, at) = at
    BY <1>1, <2>12, <2>13
  <2> QED
    BY <1>10, <2>14 DEF L, B
<1>11. CASE ~(at - L < Size - 1)
  <2>1. ASSUME NEW i \in Newlines(m), i < at PROVE i < at - (Size - 1)
    <3>1. i + 1 <= L /\ i \in Int
      BY <1>2, <1>5, <2>1
    <3> QED
      BY <1>1, <1>5, <1>9, <1>11, <3>1
  <2>2. S = at - (Size - 1)
    BY <1>1, <1>4, <1>9, <2>1
  <2>3. S \notin Newlines(m)
    BY <1>1, <1>9, <2>1, <2>2
  <2>4. B = at - (Size - 1)
    BY <1>6, <2>2, <2>3
  <2>5. ASSUME NEW i \in Newlines(m), i > B PROVE at <= i
    <3>1. i \in Int
      BY <1>2
    <3> QED
      BY <1>1, <1>9, <2>1, <2>4, <2>5, <3>1
  <2>6. Length(m, at) >= at - B \/ Length(m, at) = Size - 1
    BY <1>7, <2>5
  <2>7. Length(m, at) = Size - 1
    BY <1>1, <1>7, <1>9, <2>4, <2>6
  <2>8. Caret(m, at) = Size - 2
    BY <1>1, <1>8, <1>9, <2>4, <2>7 DEF Smaller
  <2>9. B + Caret(m, at) = at - 1
    BY <1>1, <1>9, <2>4, <2>8
  <2> QED
    BY <1>11, <2>9 DEF L, B
<1> QED
  BY <1>10, <1>11

(* If it meets a NUL, the caret is where the excerpt ends.                 *)
LEMMA CaretAtNul ==
  ASSUME NEW m, Memory(m), NEW start \in DOMAIN m, NEW at \in Cursors(m, start),
         at \notin Newlines(m),
         {i \in Nuls(m) : Begin(m, at) <= i /\ i < at} # {}
  PROVE  LET met == {i \in Nuls(m) : Begin(m, at) <= i /\ i < at}
         IN  Begin(m, at) + Caret(m, at) = Min({i \in met : i < start})
<1> DEFINE B   == Begin(m, at)
           S   == StepsTo(m, at)
           met == {i \in Nuls(m) : B <= i /\ i < at}
<1>1. /\ Len(m) \in Nat /\ DOMAIN m = 1 .. Len(m) /\ start \in Int
      /\ at \in 1 .. Len(m) + 1 /\ at \in Int
      /\ \A i \in Nuls(m) : i < start \/ i >= at
  BY NewlineFacts DEF Cursors
<1>2. Newlines(m) \subseteq Int /\ Nuls(m) \subseteq 1 .. Len(m)
  BY NewlineFacts
<1>3. LineEnd(m, at) = at
  BY <1>1, LineEndIs
<1>4. /\ S \in Int /\ S >= at - (Size - 1)
      /\ \A i \in Newlines(m) : i < at => S >= i
  BY <1>1, <1>3, StepsToIs DEF Back
<1>5. B \in Int /\ B >= S
  BY <1>4 DEF Begin
<1>6. \A i \in met : i \in Int /\ B <= i /\ i < at /\ i < start
  BY <1>1, <1>2
<1>7. {i \in met : i < start} = met
  BY <1>6
<1>8. Min(met) \in met /\ \A i \in met : Min(met) <= i
  <2>1. met \in SUBSET Int /\ met # {} /\ \A i \in met : B <= i
    BY <1>6
  <2> HIDE DEF met, B
  <2> QED
    BY <1>5, <2>1, MinIs
<1>9. PICK n \in met : n = Min(met)
  BY <1>8
<1>10. /\ n \in Nuls(m) /\ n \in Int /\ B <= n /\ n < at /\ n <= Len(m) + 1
  BY <1>1, <1>2, <1>6
<1>11. \A i \in Newlines(m) : i > B => n <= i
  <2> TAKE i \in Newlines(m)
  <2>1. i \in Int /\ (i < at => S >= i)
    BY <1>2, <1>4
  <2> HIDE DEF B, S
  <2> QED
    BY <1>1, <1>4, <1>5, <1>10, <2>1
<1>12. \A i \in Nuls(m) : i >= B => n <= i
  <2> TAKE i \in Nuls(m)
  <2>1. i \in Int
    BY <1>2
  <2>2. CASE i < at
    BY <1>8, <1>9, <2>2
  <2>3. CASE ~(i < at)
    BY <1>1, <1>10, <2>1, <2>3
  <2> QED
    BY <2>2, <2>3
<1>13. /\ Length(m, at) \in Int
       /\ Length(m, at) >= n - B \/ Length(m, at) = Size - 1
       /\ Length(m, at) <= n - B
  BY <1>1, <1>10, <1>11, <1>12, LengthIs
<1>14. Caret(m, at) = Smaller(Smaller(at - B, Size - 2), Length(m, at))
  BY DEF Caret, Column
<1>15. Size \in Int /\ Size > 2
  BY ExcerptAssumption
<1>16. Caret(m, at) = n - B
  <2> HIDE DEF B, S, met
  <2>1. Length(m, at) = n - B /\ n - B <= Size - 2 /\ n - B < at - B
    BY <1>1, <1>4, <1>5, <1>10, <1>13, <1>15
  <2> QED
    BY <1>1, <1>5, <1>10, <1>14, <1>15, <2>1 DEF Smaller
<1>17. B + Caret(m, at) = n
  <2> HIDE DEF B
  <2> QED
    BY <1>5, <1>10, <1>16
<1> QED
  BY <1>7, <1>9, <1>17

-----------------------------------------------------------------------------
(* Table, hash and conversion.                                             *)

(* A sequence of chars is an array of them.                                *)
LEMMA CharFacts ==
  ASSUME NEW s \in Seq(Char)
  PROVE  /\ Len(s) \in Nat /\ DOMAIN s = 1 .. Len(s)
         /\ \A j \in 1 .. Len(s) : s[j] \in Int
         /\ s = [j \in 1 .. Len(s) |-> s[j]]
<1>1. Len(s) \in Nat /\ DOMAIN s = 1 .. Len(s)
  OBVIOUS
<1>2. \A j \in 1 .. Len(s) : s[j] \in Char
  OBVIOUS
<1>3. \A j \in 1 .. Len(s) : s[j] \in Int
  <2>1. Char \subseteq Int
    BY DEF Char
  <2> QED
    BY <1>2, <2>1
<1>4. s = [j \in 1 .. Len(s) |-> s[j]]
  OBVIOUS
<1> QED
  BY <1>1, <1>3, <1>4

(* A remainder is a hash.                                                  *)
LEMMA Remainder ==
  ASSUME NEW n \in Int
  PROVE  n % HashSize \in 0 .. HashSize - 1
BY ConfigAssumption

(* The loop of db_strings_hash has a result, and it is a hash.             *)
LEMMA HashType ==
  ASSUME NEW s \in Seq(Char)
  PROVE  Hash(s) \in 0 .. HashSize - 1
<1> DEFINE F(w, n) ==
             [j \in 0 .. n |-> IF j = 0 THEN 5381 % HashSize
                               ELSE (33 * w[j - 1] + s[j]) % HashSize]
           N == Len(s)
           h == CHOOSE w : w = F(w, N)
<1>1. N \in Nat /\ \A j \in 1 .. N : s[j] \in Int
  BY CharFacts
<1>2. Hash(s) = h[N]
  BY DEF Hash
<1>3. \A n \in 0 .. N : \E w : w = F(w, n)
  <2> DEFINE P(n) == \E w : w = F(w, n)
             Bad  == {n \in 0 .. N : ~P(n)}
  <2> SUFFICES ASSUME Bad # {} PROVE FALSE
    <3> HIDE DEF P
    <3>1. \A n \in 0 .. N : P(n)
      OBVIOUS
    <3> QED
      BY <3>1 DEF P
  <2>1. Bad \in SUBSET Nat
    BY <1>1
  <2>2. PICK n \in Bad : \A c \in Bad : n <= c
    <3> HIDE DEF Bad
    <3> QED
      BY <2>1, LeastExists
  <2>3. n \in 0 .. N /\ n \in Nat /\ ~\E w : w = F(w, n)
    BY <1>1
  <2>6. \A c \in 0 .. N : c < n => P(c)
    <3> HIDE DEF P
    <3> QED
      BY <2>2, <2>3
  <2>4. CASE n = 0
    <3> DEFINE w0 == [j \in 0 .. 0 |-> 5381 % HashSize]
    <3>1. w0 = F(w0, 0)
      OBVIOUS
    <3> QED
      BY <2>3, <2>4, <3>1
  <2>5. CASE n # 0
    <3>1. n - 1 \in 0 .. N /\ n - 1 < n /\ n \in 1 .. N
      BY <1>1, <2>3, <2>5
    <3>2. P(n - 1)
      <4> HIDE DEF P
      <4> QED
        BY <2>6, <3>1
    <3>3. PICK w : w = F(w, n - 1)
      BY <3>2
    <3> DEFINE v == [j \in 0 .. n |-> IF j < n THEN w[j]
                                      ELSE (33 * w[n - 1] + s[n]) % HashSize]
    <3>4. \A j \in 0 .. n : v[j] = IF j = 0 THEN 5381 % HashSize
                                   ELSE (33 * v[j - 1] + s[j]) % HashSize
      <4> TAKE j \in 0 .. n
      <4>1. CASE j = n
        <5>1. n - 1 \in 0 .. n /\ v[n - 1] = w[n - 1]
          BY <2>3, <3>1
        <5> QED
          BY <2>3, <2>5, <4>1, <5>1
      <4>2. CASE j # n
        <5>1. j \in 0 .. n - 1 /\ j < n
          BY <2>3, <4>2
        <5>2. v[j] = w[j]
          BY <5>1
        <5>3. w[j] = IF j = 0 THEN 5381 % HashSize
                     ELSE (33 * w[j - 1] + s[j]) % HashSize
          BY <3>3, <5>1
        <5>4. CASE j = 0
          BY <5>2, <5>3, <5>4
        <5>5. CASE j # 0
          <6>1. j - 1 \in 0 .. n /\ j - 1 < n
            BY <2>3, <5>1, <5>5
          <6>2. v[j - 1] = w[j - 1]
            BY <6>1
          <6> QED
            BY <5>2, <5>3, <5>5, <6>2
        <5> QED
          BY <5>4, <5>5
      <4> QED
        BY <4>1, <4>2
    <3>5. v = [j \in 0 .. n |-> v[j]]
      OBVIOUS
    <3>6. v = F(v, n)
      <4> HIDE DEF v
      <4>1. F(v, n) = [j \in 0 .. n |-> v[j]]
        BY <3>4
      <4> QED
        BY <3>5, <4>1
    <3> QED
      BY <2>3, <3>6
  <2> QED
    BY <2>4, <2>5
<1>4. h = F(h, N)
  <2>1. N \in 0 .. N
    BY <1>1
  <2>2. \E w : w = F(w, N)
    BY <1>3, <2>1
  <2> HIDE DEF F, N
  <2> QED
    BY <2>2
<1> HIDE DEF h
<1>5. \A j \in 0 .. N : h[j] = IF j = 0 THEN 5381 % HashSize
                               ELSE (33 * h[j - 1] + s[j]) % HashSize
  BY <1>4
<1>6. \A j \in 0 .. N : h[j] \in 0 .. HashSize - 1
  <2> DEFINE Bad == {n \in 0 .. N : h[n] \notin 0 .. HashSize - 1}
  <2> SUFFICES ASSUME Bad # {} PROVE FALSE
    OBVIOUS
  <2>1. Bad \in SUBSET Nat
    BY <1>1
  <2>2. PICK n \in Bad : \A c \in Bad : n <= c
    <3> HIDE DEF Bad
    <3> QED
      BY <2>1, LeastExists
  <2>3. n \in 0 .. N /\ n \in Nat /\ h[n] \notin 0 .. HashSize - 1
    BY <1>1
  <2>4. CASE n = 0
    <3>1. h[0] = 5381 % HashSize
      BY <1>5, <2>3, <2>4
    <3> QED
      BY <2>3, <2>4, <3>1, Remainder
  <2>5. CASE n # 0
    <3>1. n - 1 \in 0 .. N /\ n - 1 < n /\ n \in 1 .. N
      BY <1>1, <2>3, <2>5
    <3>2. h[n - 1] \in 0 .. HashSize - 1
      BY <2>2, <2>3, <3>1
    <3>3. 33 * h[n - 1] + s[n] \in Int
      BY <1>1, <3>1, <3>2, ConfigAssumption
    <3>4. h[n] = (33 * h[n - 1] + s[n]) % HashSize
      BY <1>5, <2>3, <2>5
    <3> QED
      BY <2>3, <3>3, <3>4, Remainder
  <2> QED
    BY <2>4, <2>5
<1> QED
  BY <1>1, <1>2, <1>6

(* The conversion of a name leads to a name.                               *)
LEMMA LoweredType ==
  ASSUME NEW s \in Seq(Char)
  PROVE  ToLower(s) \in Seq(Char)
<1>1. \A c \in Char : IsLower(c) \in Char
  BY DEF IsLower, Wrapped, Char
<1>2. \A j \in 1 .. Len(s) : s[j] \in Char
  OBVIOUS
<1>3. ToLower(s) = [j \in 1 .. Len(s) |-> IsLower(s[j])] /\ Len(s) \in Nat
  BY CharFacts DEF ToLower
<1> QED
  BY <1>1, <1>2, <1>3

(* ASCII names stay as they are.                                           *)
LEMMA PlainStays ==
  ASSUME NEW s \in Seq(Char), \A j \in DOMAIN s : s[j] >= 0
  PROVE  ToLower(s) = s
<1>1. \A j \in 1 .. Len(s) : IsLower(s[j]) = s[j]
  BY CharFacts DEF IsLower
<1>2. ToLower(s) = [j \in 1 .. Len(s) |-> IsLower(s[j])]
  BY CharFacts DEF ToLower
<1>3. ToLower(s) = [j \in 1 .. Len(s) |-> s[j]]
  BY <1>1, <1>2
<1> QED
  BY <1>3, CharFacts

-----------------------------------------------------------------------------
(* What the lists have of the nodes behind the reader.                     *)

(* An element is made of a plugin node, an object of a text or meter node. *)
Made(e) ==
  /\ e.node < k /\ doc[e.node].kind = "plugin" /\ "name" \in Keys(e.node)
  /\ e.lib = ToLower(Written(e.node, "name")) /\ ~Unfit(e.lib, e.node)
  /\ e.id = Hash(IF "id" \in Keys(e.node) THEN Written(e.node, "id") ELSE e.lib)

Drawn(o) ==
  /\ o.node < k /\ doc[o.node].kind \in {"text", "meter"}
  /\ o.own <=> doc[o.node].kind = "text" /\ "value" \in Keys(o.node)
  /\ ~o.own => "data" \in Keys(o.node) /\ (Plain => o.data = DataFor(o.node))

Loaded == \A j \in DOMAIN pluglist : Made(pluglist[j])
Shown  == \A j \in DOMAIN objlist : Drawn(objlist[j])

(* A node is in a list, left behind, or neither, as it should be.          *)
Settled(j) ==
  doc[j].kind \in {"plugin", "text", "meter"} /\ Keys(j) # {} =>
    IF Incomplete(j) THEN j \in lost \ Listed
    ELSE /\ j \notin lost
         /\ j \in Listed \/ NotLoaded(j)

(* What is reported is the report of some error.                           *)
Reported ==
  report # NULL =>
    \E m \in Memories : \E start \in DOMAIN m : \E at \in Cursors(m, start) :
      report = Report(m, start, at)

ConfigInv ==
  /\ TypeOK
  /\ Ordered(pluglist) /\ Ordered(objlist)
  /\ \A j \in 1 .. k - 1 : Settled(j)
  /\ \A j \in lost : j < k
  /\ Loaded /\ Shown /\ FaultExplained /\ Reported

-----------------------------------------------------------------------------
(* The document and its attributes.                                        *)

(* Every document the reader may find is a sequence of nodes.              *)
LEMMA DocTyped ==
  ASSUME TypeOK
  PROVE  /\ Len(doc) \in Nat /\ DOMAIN doc = 1 .. Len(doc)
         /\ \A j \in 1 .. Len(doc) : doc[j] \in Nodes
<1>1. doc \in Seq(Nodes)
  BY ConfigAssumption DEF TypeOK
<1> QED
  BY <1>1

(* A node has each of its attributes once.                                 *)
LEMMA NodeFacts ==
  ASSUME TypeOK, NEW j \in 1 .. Len(doc)
  PROVE  /\ doc[j].kind \in Kinds
         /\ Len(doc[j].atts) \in Nat /\ DOMAIN doc[j].atts = 1 .. Len(doc[j].atts)
         /\ \A a \in DOMAIN doc[j].atts : doc[j].atts[a][2] \in Seq(Char)
         /\ \A a, b \in DOMAIN doc[j].atts :
              doc[j].atts[a][1] = doc[j].atts[b][1] => a = b
         /\ Keys(j) # {} <=> doc[j].atts # << >>
<1> DEFINE node == doc[j]
           atts == doc[j].atts
<1>1. node \in Nodes
  BY DocTyped
<1>2. /\ node.kind \in Kinds
      /\ node.atts \in Seq(STRING \X Seq(Char))
      /\ \A a, b \in DOMAIN node.atts : node.atts[a][1] = node.atts[b][1] => a = b
  <2> HIDE DEF node
  <2> QED
    BY <1>1 DEF Nodes
<1>3. /\ Len(atts) \in Nat /\ DOMAIN atts = 1 .. Len(atts)
      /\ \A a \in DOMAIN atts : atts[a] \in STRING \X Seq(Char)
      /\ atts = << >> <=> Len(atts) = 0
  <2>1. atts \in Seq(STRING \X Seq(Char))
    BY <1>2
  <2> HIDE DEF atts
  <2> QED
    BY <2>1, EmptySeq
<1>4. \A a \in DOMAIN atts : atts[a][2] \in Seq(Char)
  <2> HIDE DEF atts
  <2> QED
    BY <1>3
<1>5. Keys(j) = {atts[a][1] : a \in 1 .. Len(atts)}
  BY <1>3 DEF Keys
<1>6. Keys(j) # {} <=> atts # << >>
  <2> HIDE DEF atts
  <2>1. CASE Len(atts) = 0
    BY <1>3, <1>5, <2>1
  <2>2. CASE Len(atts) # 0
    <3>1. 1 \in 1 .. Len(atts)
      BY <1>3, <2>2
    <3>2. atts[1][1] \in Keys(j)
      BY <1>5, <3>1
    <3> QED
      BY <1>3, <2>2, <3>2
  <2> QED
    BY <2>1, <2>2
<1> QED
  BY <1>2, <1>3, <1>4, <1>6

(* db_htable_pop finds an attribute if it is there, and as it is written.  *)
LEMMA PopIsWritten ==
  ASSUME TypeOK, NEW j \in 1 .. Len(doc), NEW key
  PROVE  /\ Has(doc[j], key) <=> key \in Keys(j)
         /\ key \in Keys(j) => /\ Pop(doc[j], key) = Written(j, key)
                               /\ Written(j, key) \in Seq(Char)
<1> DEFINE atts == doc[j].atts
           I    == {a \in 1 .. Len(atts) : atts[a][1] = key}
<1>1. /\ Len(atts) \in Nat /\ DOMAIN atts = 1 .. Len(atts)
      /\ \A a \in DOMAIN atts : atts[a][2] \in Seq(Char)
      /\ \A a, b \in DOMAIN atts : atts[a][1] = atts[b][1] => a = b
  BY NodeFacts
<1>2. Pop(doc[j], key) = LET place == IF I # {} THEN Min(I) ELSE 0
                         IN  IF place = 0 THEN NULL ELSE atts[place][2]
  BY DEF Pop, Table, SelectInSeq
<1>3. key \in Keys(j) <=> I # {}
  <2> HIDE DEF atts
  <2>1. Keys(j) = {atts[a][1] : a \in DOMAIN atts}
    BY DEF Keys, atts
  <2> QED
    BY <1>1, <2>1
<1>4. Written(j, key) = atts[CHOOSE a \in DOMAIN atts : atts[a][1] = key][2]
  BY DEF Written
<1>5. CASE I = {}
  <2> HIDE DEF I, atts
  <2>1. Pop(doc[j], key) = NULL
    BY <1>2, <1>5
  <2> QED
    BY <1>3, <1>5, <2>1 DEF Has
<1>6. CASE I # {}
  <2>1. 1 \in Int /\ I \in SUBSET Int /\ \A a \in I : 1 <= a
    BY <1>1
  <2>2. Min(I) \in I
    <3> HIDE DEF I
    <3> QED
      BY <1>6, <2>1, MinIs
  <2>3. PICK a \in DOMAIN atts : a = Min(I) /\ atts[a][1] = key /\ a # 0
    <3>1. Min(I) \in 1 .. Len(atts) /\ atts[Min(I)][1] = key
      BY <2>2
    <3> HIDE DEF I, atts
    <3>2. Min(I) # 0
      BY <1>1, <3>1
    <3> QED
      BY <1>1, <3>1, <3>2
  <2>4. (CHOOSE b \in DOMAIN atts : atts[b][1] = key) = a
    <3> HIDE DEF atts
    <3> QED
      BY <1>1, <2>3
  <2>5. Pop(doc[j], key) = atts[a][2]
    <3> HIDE DEF I, atts
    <3> QED
      BY <1>2, <1>6, <2>3
  <2>6. Written(j, key) = atts[a][2] /\ atts[a][2] \in Seq(Char)
    <3> HIDE DEF I, atts
    <3> QED
      BY <1>1, <1>4, <2>3, <2>4
  <2>7. Written(j, key) # NULL
    BY <2>6, ConfigAssumption
  <2> HIDE DEF I, atts
  <2> QED
    BY <1>3, <1>6, <2>5, <2>6, <2>7 DEF Has
<1> QED
  BY <1>5, <1>6

(* A node lacks an attribute that is needed, or it does not.               *)
LEMMA LacksIs ==
  ASSUME TypeOK, NEW j \in 1 .. Len(doc)
  PROVE  Lacks(doc[j]) <=> ~(Needed(doc[j]) \subseteq Keys(j))
BY PopIsWritten DEF Lacks

(* Neither the document nor what is known of it changes.                   *)
LEMMA DocStays ==
  ASSUME doc' = doc
  PROVE  /\ \A j : Keys(j)' = Keys(j)
         /\ \A j, key : Written(j, key)' = Written(j, key)
         /\ \A j : Incomplete(j)' = Incomplete(j)
         /\ \A lib, j : Unfit(lib, j)' = Unfit(lib, j)
         /\ \A j : NotLoaded(j)' = NotLoaded(j)
         /\ \A j : Asks(j)' = Asks(j)
         /\ \A j : DataFor(j)' = DataFor(j)
         /\ Plain' = Plain
<1>1. \A j : Keys(j)' = Keys(j)
  BY DEF Keys
<1>2. \A j, key : Written(j, key)' = Written(j, key)
  BY DEF Written
<1>3. \A j : Incomplete(j)' = Incomplete(j)
  BY DEF Incomplete, Keys
<1>4. \A j : Asks(j)' = Asks(j)
  BY DEF Asks, Keys
<1>5. \A j : DataFor(j)' = DataFor(j)
  BY DEF DataFor, Candidates, Called, Written, Keys, Unfit
<1>6. Plain' = Plain
  BY DEF Plain, Words, Written, Keys
<1>7. \A lib, j : Unfit(lib, j)' = Unfit(lib, j)
  BY DEF Unfit, Keys
<1>8. \A j : NotLoaded(j)' = NotLoaded(j)
  BY DEF NotLoaded, Written, Unfit, Keys
<1> QED
  BY <1>1, <1>2, <1>3, <1>4, <1>5, <1>6, <1>7, <1>8

-----------------------------------------------------------------------------
(* What the lists contain.                                                 *)

(* Elements and objects are of nodes behind the reader.                    *)
LEMMA NodesBehind ==
  ASSUME ConfigInv
  PROVE  /\ Len(doc) \in Nat /\ k \in 1 .. Len(doc) + 1
         /\ Len(pluglist) \in Nat /\ DOMAIN pluglist = 1 .. Len(pluglist)
         /\ Len(objlist) \in Nat /\ DOMAIN objlist = 1 .. Len(objlist)
         /\ \A j \in 1 .. Len(pluglist) :
              /\ pluglist[j].node \in 1 .. k - 1 /\ pluglist[j].lib \in Installed
              /\ pluglist[j].node \in 1 .. Len(doc)
         /\ \A j \in 1 .. Len(objlist) :
              objlist[j].node \in 1 .. k - 1 /\ objlist[j].node \in 1 .. Len(doc)
         /\ k \notin Listed /\ k \notin lost
<1>1. TypeOK
  BY DEF ConfigInv
<1>2. Len(doc) \in Nat /\ k \in 1 .. Len(doc) + 1
  BY <1>1, DocTyped DEF TypeOK
<1>3. /\ Len(pluglist) \in Nat /\ DOMAIN pluglist = 1 .. Len(pluglist)
      /\ \A j \in 1 .. Len(pluglist) :
           pluglist[j] \in [node : 1 .. Len(doc), lib : Installed,
                            id : 0 .. HashSize - 1]
  <2> DEFINE S == [node : 1 .. Len(doc), lib : Installed, id : 0 .. HashSize - 1]
  <2>1. pluglist \in Seq(S)
    BY <1>1 DEF TypeOK
  <2> HIDE DEF S
  <2>2. /\ Len(pluglist) \in Nat /\ DOMAIN pluglist = 1 .. Len(pluglist)
        /\ \A j \in 1 .. Len(pluglist) : pluglist[j] \in S
    BY <2>1
  <2> QED
    BY <2>2 DEF S
<1>4. /\ Len(objlist) \in Nat /\ DOMAIN objlist = 1 .. Len(objlist)
      /\ \A j \in 1 .. Len(objlist) :
           objlist[j] \in [node : 1 .. Len(doc), own : BOOLEAN,
                           data : HasData \cup {NULL}]
  <2> DEFINE S == [node : 1 .. Len(doc), own : BOOLEAN, data : HasData \cup {NULL}]
  <2>1. objlist \in Seq(S)
    BY <1>1 DEF TypeOK
  <2> HIDE DEF S
  <2>2. /\ Len(objlist) \in Nat /\ DOMAIN objlist = 1 .. Len(objlist)
        /\ \A j \in 1 .. Len(objlist) : objlist[j] \in S
    BY <2>1
  <2> QED
    BY <2>2 DEF S
<1>5. \A j \in 1 .. Len(pluglist) : pluglist[j].node < k
  BY <1>3 DEF ConfigInv, Loaded, Made
<1>6. \A j \in 1 .. Len(objlist) : objlist[j].node < k
  BY <1>4 DEF ConfigInv, Shown, Drawn
<1>7. \A j \in 1 .. Len(pluglist) :
        /\ pluglist[j].node \in 1 .. k - 1 /\ pluglist[j].lib \in Installed
        /\ pluglist[j].node \in 1 .. Len(doc)
  BY <1>2, <1>3, <1>5
<1>8. \A j \in 1 .. Len(objlist) :
        objlist[j].node \in 1 .. k - 1 /\ objlist[j].node \in 1 .. Len(doc)
  BY <1>2, <1>4, <1>6
<1>9. k \notin 1 .. k - 1
  BY <1>2
<1>10. k \notin Listed
  BY <1>3, <1>4, <1>7, <1>8, <1>9 DEF Listed
<1>11. k \notin lost
  BY <1>2 DEF ConfigInv
<1> QED
  BY <1>2, <1>3, <1>4, <1>7, <1>8, <1>10, <1>11

(* db_list_insert keeps the order, for the new node is behind all others.  *)
LEMMA OrderedGrows ==
  ASSUME NEW S, NEW s \in Seq(S), NEW x, Ordered(s),
         \A j \in 1 .. Len(s) : s[j].node < x.node
  PROVE  Ordered(Inserted(s, x))
<1> DEFINE t == Append(s, x)
<1>1. /\ Len(s) \in Nat /\ DOMAIN s = 1 .. Len(s) /\ DOMAIN t = 1 .. Len(s) + 1
      /\ \A j \in 1 .. Len(s) : t[j] = s[j]
      /\ t[Len(s) + 1] = x
  OBVIOUS
<1>2. ASSUME NEW i \in DOMAIN t, NEW j \in DOMAIN t, i < j
      PROVE  t[i].node < t[j].node
  <2> HIDE DEF t
  <2>1. i \in 1 .. Len(s)
    BY <1>1, <1>2
  <2>2. CASE j = Len(s) + 1
    BY <1>1, <2>1, <2>2
  <2>3. CASE j # Len(s) + 1
    <3>1. j \in 1 .. Len(s)
      BY <1>1, <2>3
    <3> QED
      BY <1>1, <1>2, <2>1, <3>1 DEF Ordered
  <2> QED
    BY <2>2, <2>3
<1> QED
  BY <1>2 DEF Ordered, Inserted

(* In plain names, the plugins an object may ask for are elements.         *)
LEMMA CandidatesListed ==
  ASSUME ConfigInv, Plain, k \in 1 .. Len(doc),
         doc[k].kind \in {"text", "meter"}, "data" \in Keys(k)
  PROVE  /\ \A j \in 1 .. Len(pluglist) :
              /\ pluglist[j].lib = Written(pluglist[j].node, "name")
              /\ pluglist[j].id = Hash(Written(k, "data"))
                   <=> pluglist[j].node \in Candidates(k)
         /\ \A n \in Candidates(k) :
              \E j \in 1 .. Len(pluglist) : pluglist[j].node = n
<1> DEFINE name == Written(k, "data")
<1>1. TypeOK /\ Len(doc) \in Nat /\ DOMAIN doc = 1 .. Len(doc)
  BY DocTyped DEF ConfigInv
<1>2. /\ \A n \in 1 .. Len(doc) : "name" \in Keys(n) => Written(n, "name") \in Words
      /\ \A n \in 1 .. Len(doc) : "id" \in Keys(n) => Written(n, "id") \in Words
      /\ name \in Words
  BY <1>1 DEF Words
<1>3. /\ \A w \in Words : \A c \in DOMAIN w : w[c] >= 0
      /\ \A v, w \in Words : Hash(v) = Hash(w) => v = w
  BY DEF Plain
<1>4. \A n \in 1 .. Len(doc) :
        "name" \in Keys(n) => ToLower(Written(n, "name")) = Written(n, "name")
  BY <1>1, <1>2, <1>3, PopIsWritten, PlainStays
<1>5. \A n \in 1 .. Len(doc) : "name" \in Keys(n) => Called(n) \in Words
  BY <1>2 DEF Called
<1>6. ASSUME NEW j \in 1 .. Len(pluglist)
      PROVE  /\ pluglist[j].lib = Written(pluglist[j].node, "name")
             /\ pluglist[j].id = Hash(name) <=> pluglist[j].node \in Candidates(k)
  <2>1. PICK e : e = pluglist[j]
    OBVIOUS
  <2>2. PICK n : n = e.node
    OBVIOUS
  <2>3. n \in 1 .. k - 1 /\ n \in 1 .. Len(doc) /\ e.lib \in Installed
    BY <2>1, <2>2, NodesBehind
  <2>4. Made(e)
    BY <2>1, NodesBehind DEF ConfigInv, Loaded
  <2>5. /\ doc[n].kind = "plugin" /\ "name" \in Keys(n)
        /\ e.lib = Written(n, "name") /\ ~Unfit(e.lib, n)
        /\ e.id = Hash(Called(n))
    BY <1>4, <2>2, <2>3, <2>4 DEF Made, Called
  <2>6. e.id = Hash(name) <=> Called(n) = name
    BY <1>2, <1>3, <1>5, <2>3, <2>5
  <2>7. n \in Candidates(k) <=> Called(n) = name
    BY <2>3, <2>5 DEF Candidates
  <2> QED
    BY <2>1, <2>2, <2>5, <2>6, <2>7
<1>7. ASSUME NEW n \in Candidates(k)
      PROVE  \E j \in 1 .. Len(pluglist) : pluglist[j].node = n
  <2>1. /\ n \in 1 .. k - 1 /\ n \in 1 .. Len(doc)
        /\ doc[n].kind = "plugin" /\ "name" \in Keys(n)
        /\ Written(n, "name") \in Installed /\ ~Unfit(Written(n, "name"), n)
    BY <1>1 DEF Candidates
  <2>2. Settled(n)
    BY <2>1 DEF ConfigInv
  <2>3. ~Incomplete(n)
    BY <2>1 DEF Incomplete
  <2>4. n \in Listed
    BY <1>4, <2>1, <2>2, <2>3 DEF Settled, NotLoaded
  <2>5. \A j \in 1 .. Len(objlist) : objlist[j].node # n
    <3> TAKE j \in 1 .. Len(objlist)
    <3>1. Drawn(objlist[j])
      BY NodesBehind DEF ConfigInv, Shown
    <3> QED
      BY <2>1, <3>1 DEF Drawn
  <2> QED
    BY <2>4, <2>5, NodesBehind DEF Listed
<1> QED
  BY <1>6, <1>7

(* db_plug_get_by_name finds the data of the first of them.                *)
LEMMA GetByNameIs ==
  ASSUME ConfigInv, Plain, k \in 1 .. Len(doc),
         doc[k].kind \in {"text", "meter"}, "data" \in Keys(k)
  PROVE  GetByName(Written(k, "data")) = DataFor(k)
<1> DEFINE name  == Written(k, "data")
           found == Candidates(k)
           I     == {j \in 1 .. Len(pluglist) : pluglist[j].id = Hash(name)}
<1>1. GetByName(name) = LET place == IF I # {} THEN Min(I) ELSE 0
                        IN  IF place = 0 \/ pluglist[place].lib \notin HasData
                            THEN NULL ELSE pluglist[place].lib
  BY DEF GetByName, SelectInSeq
<1>2. \A j \in 1 .. Len(pluglist) :
        /\ pluglist[j].lib = Written(pluglist[j].node, "name")
        /\ pluglist[j].node \in 1 .. k - 1
        /\ j \in I <=> pluglist[j].node \in found
  BY CandidatesListed, NodesBehind
<1>3. \A n \in found : \E j \in I : pluglist[j].node = n
  BY <1>2, CandidatesListed
<1>4. CASE I = {}
  <2>1. found = {}
    BY <1>3, <1>4
  <2>2. GetByName(name) = NULL
    <3> HIDE DEF I
    <3> QED
      BY <1>1, <1>4
  <2> QED
    BY <2>1, <2>2 DEF DataFor
<1>5. CASE I # {}
  <2>1. 1 \in Int /\ I \in SUBSET Int /\ \A j \in I : 1 <= j
    BY NodesBehind
  <2>2. Min(I) \in I /\ \A j \in I : Min(I) <= j
    <3> HIDE DEF I
    <3> QED
      BY <1>5, <2>1, MinIs
  <2>3. PICK m \in I : m = Min(I)
    BY <2>2
  <2>4. PICK n : n = pluglist[m].node
    OBVIOUS
  <2>5. m \in 1 .. Len(pluglist) /\ m # 0
    BY NodesBehind
  <2>6. n \in found /\ n \in 1 .. k - 1 /\ pluglist[m].lib = Written(n, "name")
    BY <1>2, <2>4, <2>5
  <2>7. ASSUME NEW f \in found PROVE n <= f
    <3>1. PICK j \in I : pluglist[j].node = f
      BY <1>3
    <3>2. j \in 1 .. Len(pluglist)
      OBVIOUS
    <3>3. m <= j
      BY <2>2, <2>3
    <3>4. CASE m = j
      BY <2>4, <2>6, <3>1, <3>4, NodesBehind
    <3>5. CASE m # j
      <4>1. m < j
        BY <2>5, <3>2, <3>3, <3>5, NodesBehind
      <4>2. Ordered(pluglist) /\ DOMAIN pluglist = 1 .. Len(pluglist)
        BY NodesBehind DEF ConfigInv
      <4>3. n < f
        BY <2>4, <2>5, <3>1, <3>2, <4>1, <4>2 DEF Ordered
      <4>4. f \in 1 .. k - 1
        BY DEF Candidates
      <4> QED
        BY <2>6, <4>3, <4>4, NodesBehind
    <3> QED
      BY <3>4, <3>5
  <2>8. (CHOOSE i \in found : \A h \in found : i <= h) = n
    <3>1. \A f \in found : f \in Int
      BY NodesBehind DEF Candidates
    <3>2. ASSUME NEW i \in found, \A h \in found : i <= h PROVE i = n
      <4>1. i <= n /\ n <= i
        BY <2>6, <2>7, <3>2
      <4>2. i \in Int /\ n \in Int
        BY <2>6, <3>1
      <4> QED
        BY <4>1, <4>2
    <3> HIDE DEF found
    <3> QED
      BY <2>6, <2>7, <3>2
  <2>9. GetByName(name) = IF pluglist[m].lib \notin HasData THEN NULL
                          ELSE pluglist[m].lib
    <3> HIDE DEF I
    <3> QED
      BY <1>1, <1>5, <2>3, <2>5
  <2>10. DataFor(k) = IF Written(n, "name") \notin HasData THEN NULL
                      ELSE Written(n, "name")
    <3>1. DataFor(k) =
            LET lib == Written(CHOOSE i \in found : \A h \in found : i <= h, "name")
            IN  IF found = {} \/ lib \notin HasData THEN NULL ELSE lib
      BY DEF DataFor
    <3>2. found # {}
      BY <2>6
    <3> HIDE DEF found
    <3> QED
      BY <2>8, <3>1, <3>2
  <2> QED
    BY <2>6, <2>9, <2>10
<1> QED
  BY <1>4, <1>5

-----------------------------------------------------------------------------
(* What a step keeps.                                                      *)

(* An element stays what it is made of.                                    *)
LEMMA MadeStays ==
  ASSUME k \in Int, k' = k \/ k' = k + 1, doc' = doc,
         NEW e, e.node \in Int
  PROVE  Made(e) => Made(e)'
<1>1. e.node < k => e.node < k'
  OBVIOUS
<1>2. /\ Keys(e.node)' = Keys(e.node)
      /\ Written(e.node, "name")' = Written(e.node, "name")
      /\ Written(e.node, "id")' = Written(e.node, "id")
      /\ Unfit(e.lib, e.node)' = Unfit(e.lib, e.node)
  BY DEF Keys, Written, Unfit
<1> QED
  BY <1>1, <1>2 DEF Made

(* So does an object.                                                      *)
LEMMA DrawnStays ==
  ASSUME k \in Int, k' = k \/ k' = k + 1, doc' = doc,
         NEW o, o.node \in Int
  PROVE  Drawn(o) => Drawn(o)'
<1>1. o.node < k => o.node < k'
  OBVIOUS
<1>2. Keys(o.node)' = Keys(o.node) /\ Plain' = Plain /\ DataFor(o.node)' = DataFor(o.node)
  BY DocStays
<1> QED
  BY <1>1, <1>2 DEF Drawn

(* A node stays settled while the lists have nothing more of it.           *)
LEMMA SettledStays ==
  ASSUME doc' = doc, NEW j, j \in lost' <=> j \in lost, j \in Listed' <=> j \in Listed
  PROVE  Settled(j) => Settled(j)'
<1>1. /\ Keys(j)' = Keys(j) /\ Written(j, "name")' = Written(j, "name")
      /\ Incomplete(j)' = Incomplete(j) /\ NotLoaded(j)' = NotLoaded(j)
  BY DocStays
<1> QED
  BY <1>1 DEF Settled

(* A step that leaves the reader where it is.                              *)
LEMMA Rests ==
  ASSUME ConfigInv, UNCHANGED << source, k, lists >>,
         pc' \in {"read", "fault", "drawn"}, FaultExplained', Reported'
  PROVE  ConfigInv'
<1>1. /\ doc' = doc /\ file' = file /\ fixed' = fixed /\ k' = k
      /\ pluglist' = pluglist /\ objlist' = objlist /\ lost' = lost
  BY DEF source, lists
<1>2. TypeOK'
  BY <1>1 DEF ConfigInv, TypeOK
<1>3. Ordered(pluglist)' /\ Ordered(objlist)' /\ (\A j \in lost : j < k)'
  BY <1>1 DEF ConfigInv, Ordered
<1>4. k \in Int
  BY NodesBehind
<1>5. Listed' = Listed
  BY <1>1 DEF Listed
<1>6. (\A j \in 1 .. k - 1 : Settled(j))'
  BY <1>1, <1>5, SettledStays DEF ConfigInv
<1>7. Loaded'
  <2> SUFFICES ASSUME NEW j \in DOMAIN pluglist PROVE Made(pluglist[j])'
    BY <1>1 DEF Loaded
  <2>1. PICK e : e = pluglist[j]
    OBVIOUS
  <2>2. Made(e) /\ e.node \in Int
    BY <2>1, NodesBehind DEF ConfigInv, Loaded
  <2>3. Made(e)'
    BY <1>1, <1>4, <2>2, MadeStays
  <2> QED
    BY <1>1, <2>1, <2>3 DEF Made
<1>8. Shown'
  <2> SUFFICES ASSUME NEW j \in DOMAIN objlist PROVE Drawn(objlist[j])'
    BY <1>1 DEF Shown
  <2>1. PICK o : o = objlist[j]
    OBVIOUS
  <2>2. Drawn(o) /\ o.node \in Int
    BY <2>1, NodesBehind DEF ConfigInv, Shown
  <2>3. Drawn(o)'
    BY <1>1, <1>4, <2>2, DrawnStays
  <2> QED
    BY <1>1, <2>1, <2>3 DEF Drawn
<1> QED
  BY <1>2, <1>3, <1>6, <1>7, <1>8 DEF ConfigInv

(* A step that takes the reader over a node, and settles it.               *)
LEMMA Advances ==
  ASSUME ConfigInv, k <= Len(doc), k' = k + 1, UNCHANGED << pc, source, report >>,
         pc = "read", TypeOK', Ordered(pluglist)', Ordered(objlist)',
         Listed' \subseteq Listed \cup {k}, Listed \subseteq Listed',
         lost' \subseteq lost \cup {k}, lost \subseteq lost',
         \A n : n = k => Settled(n)', Loaded', Shown'
  PROVE  ConfigInv'
<1>1. doc' = doc /\ file' = file /\ fixed' = fixed /\ pc' = pc /\ report' = report
  BY DEF source
<1>2. k \in Int /\ Len(doc) \in Nat /\ k >= 1
  BY NodesBehind
<1>3. (\A j \in 1 .. k - 1 : Settled(j))'
  <2> SUFFICES ASSUME NEW j \in 1 .. k PROVE Settled(j)'
    <3>1. 1 .. k' - 1 = 1 .. k
      BY <1>2
    <3> QED
      BY <3>1
  <2>1. CASE j = k
    BY <2>1
  <2>2. CASE j # k
    <3>1. j \in 1 .. k - 1
      BY <1>2, <2>2
    <3>2. Settled(j)
      BY <3>1 DEF ConfigInv
    <3>3. (j \in lost' <=> j \in lost) /\ (j \in Listed' <=> j \in Listed)
      BY <2>2
    <3> QED
      BY <1>1, <3>2, <3>3, SettledStays
  <2> QED
    BY <2>1, <2>2
<1>4. (\A j \in lost : j < k)'
  <2> SUFFICES ASSUME NEW j \in lost' PROVE j < k'
    OBVIOUS
  <2>1. lost \subseteq Int
    BY <1>2 DEF ConfigInv, TypeOK
  <2>2. j \in lost => j < k
    BY DEF ConfigInv
  <2> QED
    BY <1>2, <2>1, <2>2
<1>5. FaultExplained' /\ Reported'
  BY <1>1 DEF ConfigInv, FaultExplained, Reported
<1> QED
  BY <1>3, <1>4, <1>5 DEF ConfigInv

(* A step over a node that leaves pluglist alone keeps it right.           *)
LEMMA PluglistStays ==
  ASSUME ConfigInv, k' = k + 1, doc' = doc, pluglist' = pluglist
  PROVE  Loaded' /\ Ordered(pluglist)'
<1>1. k \in Int
  BY NodesBehind
<1>2. ASSUME NEW j \in DOMAIN pluglist PROVE Made(pluglist[j])'
  <2>1. PICK e : e = pluglist[j]
    OBVIOUS
  <2>2. Made(e) /\ e.node \in Int
    BY <2>1, NodesBehind DEF ConfigInv, Loaded
  <2>3. Made(e)'
    BY <1>1, <2>2, MadeStays
  <2> QED
    BY <2>1, <2>3 DEF Made
<1> QED
  BY <1>2 DEF Loaded, ConfigInv, Ordered

(* The same of objlist.                                                    *)
LEMMA ObjlistStays ==
  ASSUME ConfigInv, k' = k + 1, doc' = doc, objlist' = objlist
  PROVE  Shown' /\ Ordered(objlist)'
<1>1. k \in Int
  BY NodesBehind
<1>2. ASSUME NEW j \in DOMAIN objlist PROVE Drawn(objlist[j])'
  <2>1. PICK o : o = objlist[j]
    OBVIOUS
  <2>2. Drawn(o) /\ o.node \in Int
    BY <2>1, NodesBehind DEF ConfigInv, Shown
  <2>3. Drawn(o)'
    BY <1>1, <2>2, DrawnStays
  <2> QED
    BY <2>1, <2>3 DEF Drawn
<1> QED
  BY <1>2 DEF Shown, ConfigInv, Ordered

-----------------------------------------------------------------------------
(* The steps.                                                              *)

(* Nothing is read at the start.                                           *)
LEMMA ConfigStarts == Init => ConfigInv
<1> SUFFICES ASSUME Init PROVE ConfigInv
  OBVIOUS
<1>1. /\ pluglist = << >> /\ objlist = << >> /\ lost = {} /\ k = 1
      /\ pc = "read" /\ report = NULL
      /\ doc \in Documents \cup Beginnings \cup {<< >>}
      /\ file \in {"good", "broken", "missing"} /\ fixed \in BOOLEAN
  BY DEF Init
<1>2. Len(doc) \in Nat
  <2>1. CASE doc \in Documents \cup Beginnings
    <3>1. doc \in Seq(Nodes)
      BY <2>1, ConfigAssumption
    <3> QED
      BY <3>1
  <2>2. CASE doc = << >>
    BY <2>2
  <2> QED
    BY <1>1, <2>1, <2>2
<1>3. TypeOK
  <2>1. k \in 1 .. Len(doc) + 1
    BY <1>1, <1>2
  <2> QED
    BY <1>1, <2>1 DEF TypeOK
<1>4. DOMAIN pluglist = {} /\ DOMAIN objlist = {}
  BY <1>1
<1>5. 1 .. k - 1 = {}
  BY <1>1
<1> QED
  BY <1>1, <1>3, <1>4, <1>5
  DEF ConfigInv, Ordered, Loaded, Shown, FaultExplained, Reported

(* The file is missing, an attribute, or a font, or a plugin is unfit.     *)
LEMMA DyingStep ==
  ConfigInv /\ (CannotOpen \/ MissingAttribute \/ NoFont \/ LoadDies) => ConfigInv'
<1> SUFFICES ASSUME ConfigInv, CannotOpen \/ MissingAttribute \/ NoFont \/ LoadDies
             PROVE  ConfigInv'
  OBVIOUS
<1>1. /\ pc' = "fault" /\ UNCHANGED << source, k, lists, report >>
      /\ doc' = doc /\ file' = file /\ fixed' = fixed
  BY DEF CannotOpen, MissingAttribute, NoFont, LoadDies, source
<1>2. TypeOK /\ Len(doc) \in Nat /\ DOMAIN doc = 1 .. Len(doc) /\ k >= 1
  BY DocTyped, NodesBehind DEF ConfigInv
<1>3. Reported'
  BY <1>1 DEF ConfigInv, Reported
<1>4. \/ file = "missing"
      \/ ~fixed /\ \E j \in DOMAIN doc : doc[j].kind = "text"
      \/ \E j \in DOMAIN doc : Keys(j) # {} /\ ~(Needed(doc[j]) \subseteq Keys(j))
      \/ \E j \in DOMAIN doc : doc[j].kind = "plugin" /\ "name" \in Keys(j)
                               /\ Unfit(ToLower(Written(j, "name")), j)
  <2>1. CASE CannotOpen
    BY <2>1 DEF CannotOpen
  <2>2. CASE MissingAttribute
    <3>1. k \in 1 .. Len(doc)
      BY <1>2, <2>2, NodesBehind DEF MissingAttribute
    <3>2. Keys(k) # {} /\ ~(Needed(doc[k]) \subseteq Keys(k))
      BY <1>2, <2>2, <3>1, NodeFacts, LacksIs DEF MissingAttribute
    <3> QED
      BY <1>2, <3>1, <3>2
  <2>3. CASE NoFont
    <3>1. k \in 1 .. Len(doc)
      BY <1>2, <2>3, NodesBehind DEF NoFont
    <3> QED
      BY <1>2, <2>3, <3>1 DEF NoFont
  <2>4. CASE LoadDies
    <3>1. k \in 1 .. Len(doc) /\ doc[k].kind = "plugin" /\ Has(doc[k], "name")
      BY <1>2, <2>4, NodesBehind DEF LoadDies
    <3>2. /\ "name" \in Keys(k)
          /\ Library(doc[k]) = ToLower(Written(k, "name"))
          /\ Has(doc[k], "options") <=> "options" \in Keys(k)
      BY <1>2, <3>1, PopIsWritten DEF Library
    <3>3. Unfit(ToLower(Written(k, "name")), k)
      BY <2>4, <3>2 DEF LoadDies, Dies, Stumbles, Unfit
    <3> QED
      BY <1>2, <3>1, <3>2, <3>3
  <2> QED
    BY <2>1, <2>2, <2>3, <2>4
<1>5. \/ file = "missing"
      \/ ~fixed /\ \E j \in DOMAIN doc : doc[j].kind = "text"
      \/ \E j \in DOMAIN doc : Keys(j) # {} /\ ~(Needed(doc[j]) \subseteq Keys(j))
      \/ \E j \in DOMAIN doc : doc[j].kind = "plugin" /\ "name" \in Keys(j)
                               /\ Unfit(Written(j, "name"), j)
      \/ ~Plain
  <2> SUFFICES ASSUME Plain, NEW j \in 1 .. Len(doc),
                      doc[j].kind = "plugin", "name" \in Keys(j),
                      Unfit(ToLower(Written(j, "name")), j)
               PROVE  Unfit(Written(j, "name"), j)
    BY <1>2, <1>4
  <2>1. Written(j, "name") \in Words /\ Written(j, "name") \in Seq(Char)
    BY <1>2, PopIsWritten DEF Words
  <2>2. ToLower(Written(j, "name")) = Written(j, "name")
    BY <2>1, PlainStays DEF Plain
  <2> QED
    BY <2>2
<1>6. FaultExplained'
  <2>1. \A j : Keys(j)' = Keys(j) /\ Needed(doc[j])' = Needed(doc[j])
    BY <1>1, DocStays
  <2>2. \/ file' = "missing"
        \/ ~fixed' /\ \E j \in DOMAIN doc' : doc'[j].kind = "text"
        \/ \E j \in DOMAIN doc' : Keys(j)' # {} /\ ~(Needed(doc[j])' \subseteq Keys(j)')
        \/ \E j \in DOMAIN doc' : doc'[j].kind = "plugin" /\ "name" \in Keys(j)'
                                  /\ Unfit(Written(j, "name"), j)'
        \/ ~Plain'
    BY <1>1, <1>5, <2>1, DocStays DEF Unfit
  <2> QED
    BY <2>2 DEF FaultExplained
<1> QED
  BY <1>1, <1>3, <1>6, Rests

(* An error in the file is reported.                                       *)
LEMMA ReportStep == ConfigInv /\ ParseError => ConfigInv'
<1> SUFFICES ASSUME ConfigInv, ParseError PROVE ConfigInv'
  OBVIOUS
<1>1. pc = "read" /\ UNCHANGED << pc, source, k, lists >>
  BY DEF ParseError
<1>2. FaultExplained'
  BY <1>1 DEF FaultExplained
<1>3. Reported'
  BY DEF ParseError, Reported
<1> QED
  BY <1>1, <1>2, <1>3, Rests

(* The first draw.                                                         *)
LEMMA DrawStep == ConfigInv /\ Draw => ConfigInv'
<1> SUFFICES ASSUME ConfigInv, Draw PROVE ConfigInv'
  OBVIOUS
<1>1. /\ pc' \in {"fault", "drawn"} /\ UNCHANGED << source, k, lists, report >>
      /\ doc' = doc
  BY DEF Draw, source
<1>2. Reported'
  BY <1>1 DEF ConfigInv, Reported
<1>3. ASSUME pc' = "fault", Plain
      PROVE  \E j \in DOMAIN doc : Asks(j) /\ DataFor(j) = NULL
  <2>1. PICK j \in DOMAIN objlist : ~objlist[j].own /\ objlist[j].data = NULL
    BY <1>3 DEF Draw
  <2>2. PICK n : n = objlist[j].node
    OBVIOUS
  <2>3. Drawn(objlist[j]) /\ n \in 1 .. Len(doc)
    BY <2>2, NodesBehind DEF ConfigInv, Shown
  <2>4. Asks(n) /\ DataFor(n) = NULL
    BY <1>3, <2>1, <2>2, <2>3 DEF Drawn, Asks
  <2>5. DOMAIN doc = 1 .. Len(doc)
    BY DocTyped DEF ConfigInv
  <2> QED
    BY <2>3, <2>4, <2>5
<1>4. FaultExplained'
  <2> SUFFICES ASSUME pc' = "fault", Plain'
               PROVE  \E j \in DOMAIN doc' : Asks(j)' /\ DataFor(j)' = NULL
    BY DEF FaultExplained
  <2>1. Plain /\ (\A j : Asks(j)' = Asks(j)) /\ (\A j : DataFor(j)' = DataFor(j))
    BY <1>1, DocStays
  <2> QED
    BY <1>1, <1>3, <2>1
<1> QED
  BY <1>1, <1>2, <1>4, Rests

(* Nodes that are in no list, and are not left behind.                     *)
LEMMA IgnoreStep ==
  ConfigInv /\ (Ignore \/ CheckVersion \/ LoadFails \/ LoadEjects) => ConfigInv'
<1> SUFFICES ASSUME ConfigInv, Ignore \/ CheckVersion \/ LoadFails \/ LoadEjects
             PROVE  ConfigInv'
  OBVIOUS
<1>1. /\ pc = "read" /\ k <= Len(doc) /\ k' = k + 1
      /\ UNCHANGED << pc, source, report >>
      /\ pluglist' = pluglist /\ objlist' = objlist /\ lost' = lost
      /\ doc' = doc
  BY DEF Ignore, CheckVersion, LoadFails, LoadEjects, ParseNode, source, lists
<1>2. TypeOK /\ k \in 1 .. Len(doc) /\ Len(doc) \in Nat
  BY <1>1, NodesBehind DEF ConfigInv
<1>3. TypeOK'
  <2>1. k' \in 1 .. Len(doc) + 1
    BY <1>1, <1>2
  <2> QED
    BY <1>1, <1>2, <2>1 DEF TypeOK, source
<1>4. Listed' = Listed
  BY <1>1 DEF Listed
<1>5. ASSUME NEW n, n = k PROVE Settled(n)'
  <2>1. /\ n \notin Listed' /\ n \notin lost'
        /\ Keys(n)' = Keys(n) /\ Incomplete(n)' = Incomplete(n)
        /\ NotLoaded(n)' = NotLoaded(n)
    BY <1>1, <1>4, <1>5, NodesBehind, DocStays
  <2>2. CASE Ignore
    <3>1. Keys(n) = {} \/ doc[n].kind = "other"
      BY <1>2, <1>5, <2>2, NodeFacts DEF Ignore
    <3> QED
      BY <1>1, <2>1, <3>1 DEF Settled
  <2>3. CASE CheckVersion
    <3>1. doc[n].kind = "display"
      BY <1>5, <2>3 DEF CheckVersion, ParseNode
    <3> QED
      BY <1>1, <3>1 DEF Settled
  <2>4. CASE LoadFails \/ LoadEjects
    <3>1. /\ doc[n].kind = "plugin" /\ Has(doc[n], "name")
          /\ Library(doc[n]) \notin Installed \/ Stumbles(doc[n])
      BY <1>5, <2>4 DEF LoadFails, LoadEjects, ParseNode
    <3>2. /\ "name" \in Keys(n)
          /\ Library(doc[n]) = ToLower(Written(n, "name"))
          /\ Has(doc[n], "options") <=> "options" \in Keys(n)
      BY <1>2, <1>5, <3>1, PopIsWritten DEF Library
    <3>3. NotLoaded(n)
      BY <3>1, <3>2 DEF NotLoaded, Unfit, Stumbles
    <3>4. ~Incomplete(n)
      BY <3>1, <3>2 DEF Incomplete
    <3> QED
      BY <1>1, <2>1, <3>1, <3>3, <3>4 DEF Settled
  <2> QED
    BY <2>2, <2>3, <2>4
<1>6. Loaded' /\ Ordered(pluglist)' /\ Shown' /\ Ordered(objlist)'
  BY <1>1, PluglistStays, ObjlistStays
<1> QED
  BY <1>1, <1>3, <1>4, <1>5, <1>6, Advances

(* Nodes that are left behind.                                             *)
LEMMA LostStep ==
  ConfigInv /\ (LoadNameless \/ \E kind \in {"text", "meter"} : Malformed(kind))
    => ConfigInv'
<1> SUFFICES ASSUME ConfigInv,
                    LoadNameless \/ \E kind \in {"text", "meter"} : Malformed(kind)
             PROVE  ConfigInv'
  OBVIOUS
<1>1. /\ pc = "read" /\ k <= Len(doc) /\ k' = k + 1
      /\ UNCHANGED << pc, source, report >>
      /\ pluglist' = pluglist /\ objlist' = objlist /\ lost' = lost \cup {k}
      /\ doc' = doc
  BY DEF LoadNameless, Malformed, ParseNode, source
<1>2. TypeOK /\ k \in 1 .. Len(doc) /\ Len(doc) \in Nat
  BY <1>1, NodesBehind DEF ConfigInv
<1>3. TypeOK'
  <2>1. k' \in 1 .. Len(doc) + 1
    BY <1>1, <1>2
  <2>2. lost' \subseteq 1 .. Len(doc)
    BY <1>1, <1>2 DEF TypeOK
  <2> QED
    BY <1>1, <1>2, <2>1, <2>2 DEF TypeOK, source
<1>4. Listed' = Listed
  BY <1>1 DEF Listed
<1>5. ASSUME NEW n, n = k PROVE Settled(n)'
  <2>1. /\ n \notin Listed' /\ n \in lost'
        /\ Keys(n)' = Keys(n) /\ Incomplete(n)' = Incomplete(n)
    BY <1>1, <1>4, <1>5, NodesBehind, DocStays
  <2>2. Incomplete(n)
    <3>1. CASE LoadNameless
      <4>1. doc[n].kind = "plugin" /\ "name" \notin Keys(n)
        BY <1>2, <1>5, <3>1, PopIsWritten DEF LoadNameless, ParseNode
      <4> QED
        BY <4>1 DEF Incomplete
    <3>2. ASSUME NEW kind \in {"text", "meter"}, Malformed(kind)
          PROVE  Incomplete(n)
      <4>1. /\ doc[n].kind = kind /\ "data" \notin Keys(n)
            /\ ~(doc[n].kind = "text" /\ "value" \in Keys(n))
        BY <1>2, <1>5, <3>2, PopIsWritten DEF Malformed, HasOwn, ParseNode
      <4> QED
        BY <4>1 DEF Incomplete
    <3> QED
      BY <3>1, <3>2
  <2> QED
    BY <2>1, <2>2 DEF Settled
<1>6. Loaded' /\ Ordered(pluglist)' /\ Shown' /\ Ordered(objlist)'
  BY <1>1, PluglistStays, ObjlistStays
<1> QED
  BY <1>1, <1>3, <1>4, <1>5, <1>6, Advances

(* An element is inserted.                                                 *)
LEMMA LoadStep == ConfigInv /\ Load => ConfigInv'
<1> SUFFICES ASSUME ConfigInv, Load PROVE ConfigInv'
  OBVIOUS
<1>1. /\ pc = "read" /\ k <= Len(doc) /\ k' = k + 1
      /\ UNCHANGED << pc, source, report >>
      /\ objlist' = objlist /\ lost' = lost /\ doc' = doc
      /\ doc[k].kind = "plugin" /\ Has(doc[k], "name")
      /\ Library(doc[k]) \in Installed \ Broken /\ ~Stumbles(doc[k])
  BY DEF Load, ParseNode, source
<1>2. TypeOK /\ k \in 1 .. Len(doc) /\ Len(doc) \in Nat
  BY <1>1, NodesBehind DEF ConfigInv
<1>3. /\ "name" \in Keys(k) /\ Written(k, "name") \in Seq(Char)
      /\ Library(doc[k]) = ToLower(Written(k, "name"))
      /\ Has(doc[k], "id") <=> "id" \in Keys(k)
      /\ "id" \in Keys(k) => /\ Pop(doc[k], "id") = Written(k, "id")
                             /\ Written(k, "id") \in Seq(Char)
      /\ ~Unfit(Library(doc[k]), k)
  BY <1>1, <1>2, PopIsWritten DEF Library, Stumbles, Unfit
<1>4. PICK x : x = [node |-> k, lib |-> Library(doc[k]), id |-> Id(doc[k])]
  OBVIOUS
<1>5. /\ x.node = k /\ x.lib = ToLower(Written(k, "name"))
      /\ x.id = Hash(IF "id" \in Keys(k) THEN Written(k, "id") ELSE x.lib)
  BY <1>3, <1>4 DEF Id
<1>6. pluglist' = Append(pluglist, x)
  BY <1>4 DEF Load, Inserted
<1>7. x \in [node : 1 .. Len(doc), lib : Installed, id : 0 .. HashSize - 1]
  <2>1. (IF "id" \in Keys(k) THEN Written(k, "id") ELSE x.lib) \in Seq(Char)
    BY <1>3, <1>5, LoweredType
  <2>2. x.id \in 0 .. HashSize - 1
    BY <1>5, <2>1, HashType
  <2>3. x.node \in 1 .. Len(doc) /\ x.lib \in Installed
    BY <1>1, <1>2, <1>3, <1>5
  <2> QED
    BY <1>4, <2>2, <2>3
<1>8. TypeOK'
  <2>1. k' \in 1 .. Len(doc) + 1
    BY <1>1, <1>2
  <2> DEFINE S == [node : 1 .. Len(doc), lib : Installed, id : 0 .. HashSize - 1]
  <2>2. pluglist \in Seq(S)
    BY <1>2 DEF TypeOK
  <2>3. pluglist' \in Seq(S)
    <3> HIDE DEF S
    <3>1. x \in S
      BY <1>7 DEF S
    <3> QED
      BY <1>6, <2>2, <3>1
  <2> QED
    BY <1>1, <1>2, <2>1, <2>3 DEF TypeOK, source
<1>9. /\ Len(pluglist) \in Nat
      /\ DOMAIN pluglist = 1 .. Len(pluglist)
      /\ DOMAIN pluglist' = 1 .. Len(pluglist) + 1
      /\ \A j \in 1 .. Len(pluglist) : pluglist'[j] = pluglist[j]
      /\ pluglist'[Len(pluglist) + 1] = x
  <2>1. pluglist \in Seq([node : 1 .. Len(doc), lib : Installed, id : 0 .. HashSize - 1])
    BY <1>2 DEF TypeOK
  <2> QED
    BY <1>6, <2>1
<1>10. Listed' = Listed \cup {k}
  <2>1. {pluglist'[j].node : j \in DOMAIN pluglist'} =
        {pluglist[j].node : j \in DOMAIN pluglist} \cup {k}
    BY <1>5, <1>9
  <2> QED
    BY <1>1, <2>1 DEF Listed
<1>11. Ordered(pluglist)'
  <2>1. Ordered(pluglist) /\ \A j \in 1 .. Len(pluglist) : pluglist[j].node < x.node
    BY <1>2, <1>5, NodesBehind DEF ConfigInv
  <2>2. pluglist \in Seq([node : 1 .. Len(doc), lib : Installed, id : 0 .. HashSize - 1])
    BY <1>2 DEF TypeOK
  <2>3. Ordered(Append(pluglist, x))
    BY <2>1, <2>2, OrderedGrows DEF Inserted
  <2> QED
    BY <1>6, <2>3 DEF Ordered
<1>12. ASSUME NEW n, n = k PROVE Settled(n)'
  <2>1. /\ n \in Listed' /\ n \notin lost'
        /\ Keys(n)' = Keys(n) /\ Incomplete(n)' = Incomplete(n)
    BY <1>1, <1>10, <1>12, NodesBehind, DocStays
  <2>2. ~Incomplete(n)
    BY <1>1, <1>3, <1>12 DEF Incomplete
  <2> QED
    BY <2>1, <2>2 DEF Settled
<1>13. Loaded'
  <2> SUFFICES ASSUME NEW j \in DOMAIN pluglist' PROVE Made(pluglist[j])'
    BY DEF Loaded
  <2>1. PICK e : e = pluglist'[j]
    OBVIOUS
  <2>2. Made(e)'
    <3>1. CASE j = Len(pluglist) + 1
      <4>1. e = x
        BY <1>9, <2>1, <3>1
      <4>2. e.node < k' /\ e.node = k
        BY <1>1, <1>2, <1>5, <4>1
      <4>3. /\ Keys(e.node)' = Keys(k) /\ Written(e.node, "name")' = Written(k, "name")
            /\ Written(e.node, "id")' = Written(k, "id")
            /\ ~Unfit(x.lib, e.node)'
        BY <1>1, <1>3, <1>5, <4>2, DocStays
      <4>4. doc'[e.node].kind = "plugin"
        BY <1>1, <4>2
      <4> QED
        BY <1>3, <1>5, <4>1, <4>2, <4>3, <4>4 DEF Made
    <3>2. CASE j # Len(pluglist) + 1
      <4>1. j \in 1 .. Len(pluglist)
        BY <1>9, <3>2
      <4>2. Made(e) /\ e.node \in Int /\ k \in Int
        BY <1>9, <2>1, <4>1, NodesBehind DEF ConfigInv, Loaded
      <4> QED
        BY <1>1, <4>2, MadeStays
    <3> QED
      BY <3>1, <3>2
  <2> QED
    BY <2>1, <2>2 DEF Made
<1>14. Shown' /\ Ordered(objlist)'
  BY <1>1, ObjlistStays
<1> QED
  BY <1>1, <1>8, <1>10, <1>11, <1>12, <1>13, <1>14, Advances

(* An object is inserted.                                                  *)
LEMMA ShowStep ==
  ASSUME ConfigInv, NEW kind \in {"text", "meter"}, Show(kind)
  PROVE  ConfigInv'
<1>1. /\ pc = "read" /\ k <= Len(doc) /\ k' = k + 1
      /\ UNCHANGED << pc, source, report >>
      /\ pluglist' = pluglist /\ lost' = lost /\ doc' = doc
      /\ doc[k].kind = kind
      /\ HasOwn(doc[k]) \/ Has(doc[k], "data")
  BY DEF Show, ParseNode, source
<1>2. TypeOK /\ k \in 1 .. Len(doc) /\ Len(doc) \in Nat
  BY <1>1, NodesBehind DEF ConfigInv
<1>3. /\ HasOwn(doc[k]) <=> doc[k].kind = "text" /\ "value" \in Keys(k)
      /\ Has(doc[k], "data") <=> "data" \in Keys(k)
      /\ "data" \in Keys(k) => Pop(doc[k], "data") = Written(k, "data")
  BY <1>2, PopIsWritten DEF HasOwn
<1>4. PICK x : x = [ node |-> k, own |-> HasOwn(doc[k]),
                     data |-> IF HasOwn(doc[k]) THEN NULL
                              ELSE GetByName(Pop(doc[k], "data")) ]
  OBVIOUS
<1>5. /\ x.node = k /\ (x.own <=> HasOwn(doc[k]))
      /\ x.own = HasOwn(doc[k])
      /\ x.data = IF HasOwn(doc[k]) THEN NULL ELSE GetByName(Pop(doc[k], "data"))
  BY <1>4
<1>6. objlist' = Append(objlist, x)
  BY <1>4 DEF Show, Inserted
<1>7. x \in [node : 1 .. Len(doc), own : BOOLEAN, data : HasData \cup {NULL}]
  <2>1. x.data \in HasData \cup {NULL}
    <3>1. GetByName(Pop(doc[k], "data")) \in HasData \cup {NULL}
      BY DEF GetByName
    <3> QED
      BY <1>5, <3>1
  <2>2. HasOwn(doc[k]) \in BOOLEAN
    BY DEF HasOwn, Has
  <2> QED
    BY <1>2, <1>4, <1>5, <2>1, <2>2
<1>8. TypeOK'
  <2>1. k' \in 1 .. Len(doc) + 1
    BY <1>1, <1>2
  <2> DEFINE S == [node : 1 .. Len(doc), own : BOOLEAN, data : HasData \cup {NULL}]
  <2>2. objlist \in Seq(S)
    BY <1>2 DEF TypeOK
  <2>3. objlist' \in Seq(S)
    <3> HIDE DEF S
    <3>1. x \in S
      BY <1>7 DEF S
    <3> QED
      BY <1>6, <2>2, <3>1
  <2> QED
    BY <1>1, <1>2, <2>1, <2>3 DEF TypeOK, source
<1>9. /\ Len(objlist) \in Nat
      /\ DOMAIN objlist = 1 .. Len(objlist)
      /\ DOMAIN objlist' = 1 .. Len(objlist) + 1
      /\ \A j \in 1 .. Len(objlist) : objlist'[j] = objlist[j]
      /\ objlist'[Len(objlist) + 1] = x
  <2>1. objlist \in Seq([node : 1 .. Len(doc), own : BOOLEAN, data : HasData \cup {NULL}])
    BY <1>2 DEF TypeOK
  <2> QED
    BY <1>6, <2>1
<1>10. Listed' = Listed \cup {k}
  <2>1. {objlist'[j].node : j \in DOMAIN objlist'} =
        {objlist[j].node : j \in DOMAIN objlist} \cup {k}
    BY <1>5, <1>9
  <2> QED
    BY <1>1, <2>1 DEF Listed
<1>11. Ordered(objlist)'
  <2>1. Ordered(objlist) /\ \A j \in 1 .. Len(objlist) : objlist[j].node < x.node
    BY <1>2, <1>5, NodesBehind DEF ConfigInv
  <2>2. objlist \in Seq([node : 1 .. Len(doc), own : BOOLEAN, data : HasData \cup {NULL}])
    BY <1>2 DEF TypeOK
  <2>3. Ordered(Append(objlist, x))
    BY <2>1, <2>2, OrderedGrows DEF Inserted
  <2> QED
    BY <1>6, <2>3 DEF Ordered
<1>12. ASSUME NEW n, n = k PROVE Settled(n)'
  <2>1. /\ n \in Listed' /\ n \notin lost'
        /\ Keys(n)' = Keys(n) /\ Incomplete(n)' = Incomplete(n)
    BY <1>1, <1>10, <1>12, NodesBehind, DocStays
  <2>2. ~Incomplete(n)
    BY <1>1, <1>3, <1>12 DEF Incomplete
  <2> QED
    BY <2>1, <2>2 DEF Settled
<1>13. Shown'
  <2> SUFFICES ASSUME NEW j \in DOMAIN objlist' PROVE Drawn(objlist[j])'
    BY DEF Shown
  <2>1. PICK o : o = objlist'[j]
    OBVIOUS
  <2>2. Drawn(o)'
    <3>1. CASE j = Len(objlist) + 1
      <4>1. o = x
        BY <1>9, <2>1, <3>1
      <4>2. o.node < k' /\ o.node = k /\ doc'[o.node].kind = kind
        BY <1>1, <1>2, <1>5, <4>1
      <4>3. /\ Keys(o.node)' = Keys(k) /\ DataFor(o.node)' = DataFor(k)
            /\ Plain' = Plain
        BY <1>1, <4>2, DocStays
      <4>4. ASSUME ~o.own PROVE "data" \in Keys(k) /\ (Plain => o.data = DataFor(k))
        BY <1>1, <1>2, <1>3, <1>5, <4>1, <4>4, GetByNameIs
      <4>5. o.own <=> doc'[o.node].kind = "text" /\ "value" \in Keys(o.node)'
        BY <1>1, <1>3, <1>5, <4>1, <4>2, <4>3
      <4> QED
        BY <4>2, <4>3, <4>4, <4>5 DEF Drawn
    <3>2. CASE j # Len(objlist) + 1
      <4>1. j \in 1 .. Len(objlist)
        BY <1>9, <3>2
      <4>2. Drawn(o) /\ o.node \in Int /\ k \in Int
        BY <1>9, <2>1, <4>1, NodesBehind DEF ConfigInv, Shown
      <4> QED
        BY <1>1, <4>2, DrawnStays
    <3> QED
      BY <3>1, <3>2
  <2> QED
    BY <2>1, <2>2 DEF Drawn
<1>14. Loaded' /\ Ordered(pluglist)'
  BY <1>1, PluglistStays
<1> QED
  BY <1>1, <1>8, <1>10, <1>11, <1>12, <1>13, <1>14, Advances

(* Every step keeps the invariant.                                         *)
LEMMA ConfigStep == ConfigInv /\ [Next]_vars => ConfigInv'
<1> SUFFICES ASSUME ConfigInv, [Next]_vars PROVE ConfigInv'
  OBVIOUS
<1>1. CASE CannotOpen \/ MissingAttribute \/ NoFont \/ LoadDies
  BY <1>1, DyingStep
<1>2. CASE ParseError
  BY <1>2, ReportStep
<1>3. CASE Ignore \/ CheckVersion \/ LoadFails \/ LoadEjects
  BY <1>3, IgnoreStep
<1>4. CASE LoadNameless \/ \E kind \in {"text", "meter"} : Malformed(kind)
  BY <1>4, LostStep
<1>5. CASE Load
  BY <1>5, LoadStep
<1>6. ASSUME NEW kind \in {"text", "meter"}, Show(kind) PROVE ConfigInv'
  BY <1>6, ShowStep
<1>7. CASE Draw
  BY <1>7, DrawStep
<1>8. CASE UNCHANGED vars
  <2>1. UNCHANGED << source, k, lists >> /\ pc' = pc /\ report' = report /\ doc' = doc
    BY <1>8 DEF vars, source
  <2>2. pc' \in {"read", "fault", "drawn"}
    BY <2>1 DEF ConfigInv, TypeOK
  <2>3. Reported'
    BY <2>1 DEF ConfigInv, Reported
  <2>4. FaultExplained'
    <3>1. /\ Plain' = Plain /\ file' = file /\ fixed' = fixed
          /\ \A j : Keys(j)' = Keys(j) /\ Asks(j)' = Asks(j) /\ DataFor(j)' = DataFor(j)
          /\ \A j : Unfit(Written(j, "name"), j)' = Unfit(Written(j, "name"), j)
      BY <2>1, DocStays DEF source, Unfit
    <3> QED
      BY <2>1, <3>1 DEF ConfigInv, FaultExplained
  <2> QED
    BY <2>1, <2>2, <2>3, <2>4, Rests
<1> QED
  BY <1>1, <1>2, <1>3, <1>4, <1>5, <1>6, <1>7, <1>8 DEF Next, Done

-----------------------------------------------------------------------------
(* Spec maintains the invariant, whatever the document.                    *)
THEOREM ConfigInvariant == Spec => []ConfigInv
BY ConfigStarts, ConfigStep, PTL DEF Spec

(* Every variable keeps its type; a hash is in range.                      *)
THEOREM ConfigTypes == Spec => []TypeOK
<1>1. ConfigInv => TypeOK
  BY DEF ConfigInv
<1> QED
  BY <1>1, ConfigInvariant, PTL

(***************************************************************************)
(* Both lists are in the order of the document and complete, and what is   *)
(* left behind is what names nothing to show or load (xml.c, plug.c).      *)
(***************************************************************************)
THEOREM NodesAreSettled == Spec => []NodesSettled
<1>1. ConfigInv => NodesSettled
  BY DEF ConfigInv, NodesSettled, Settled
<1> QED
  BY <1>1, ConfigInvariant, PTL

(***************************************************************************)
(* For plain names, an object gets the data of the first plugin in front   *)
(* of it that goes by exactly the name it asks for.                        *)
(***************************************************************************)
THEOREM GetsRightData == Spec => []RightData
<1>1. ConfigInv => RightData
  BY DEF ConfigInv, RightData, Shown, Drawn
<1> QED
  BY <1>1, ConfigInvariant, PTL

(* Start-up dies for the reasons FaultExplained lists, and no other.       *)
THEOREM FaultsAreExplained == Spec => []FaultExplained
<1>1. ConfigInv => FaultExplained
  BY DEF ConfigInv
<1> QED
  BY <1>1, ConfigInvariant, PTL

(***************************************************************************)
(* error_handler stays in its array, for any line and any size of it, and  *)
(* reads in front of the parser's buffer only from its first line.         *)
(***************************************************************************)
THEOREM ExcerptStaysInside == Spec => []ExcerptFits
<1>1. ConfigInv => ExcerptFits
  <2> SUFFICES ASSUME ConfigInv, report # NULL
               PROVE  /\ report.length < Size /\ report.caret + 1 < Size
                      /\ report.low < report.start =>
                           \A i \in Newlines(report.memory)
                                      \cap (report.start .. report.at) :
                             \A j \in i .. report.at : j \in Newlines(report.memory)
    BY DEF ExcerptFits
  <2>1. PICK m \in Memories : \E start \in DOMAIN m :
          \E at \in Cursors(m, start) : report = Report(m, start, at)
    BY DEF ConfigInv, Reported
  <2>2. PICK start \in DOMAIN m : \E at \in Cursors(m, start) :
          report = Report(m, start, at)
    BY <2>1
  <2>3. PICK at \in Cursors(m, start) : report = Report(m, start, at)
    BY <2>2
  <2>4. Memory(m)
    BY ConfigAssumption DEF Memory
  <2>5. at \in 1 .. Len(m) + 1 /\ at \in start .. Len(m) + 1
    BY <2>4, NewlineFacts DEF Cursors
  <2>6. /\ report.length = Length(m, at) /\ report.caret = Caret(m, at)
        /\ report.low = StepsTo(m, at) /\ report.start = start
        /\ report.at = at /\ report.memory = m
    BY <2>3 DEF Report
  <2>7. Length(m, at) < Size /\ Caret(m, at) + 1 < Size
    BY <2>4, <2>5, LengthIs, CaretIs, ExcerptAssumption
  <2>8. StepsTo(m, at) < start =>
          \A i \in Newlines(m) \cap (start .. at) : \A j \in i .. at : j \in Newlines(m)
    BY <2>4, <2>5, LowOnlyFirstLine
  <2> QED
    BY <2>6, <2>7, <2>8
<1> QED
  BY <1>1, ConfigInvariant, PTL

(***************************************************************************)
(* The caret is under the character the parser is at, or one to the left,  *)
(* unless the excerpt meets a NUL in front of the buffer and ends there.   *)
(***************************************************************************)
THEOREM CaretPoints == Spec => []CaretUnderCursor
<1>1. ConfigInv => CaretUnderCursor
  <2> SUFFICES ASSUME ConfigInv, report # NULL,
                      report.at \notin Newlines(report.memory)
               PROVE  report.begin + report.caret =
                        IF Met(report) # {}
                        THEN Min({i \in Met(report) : i < report.start})
                        ELSE IF report.at - LineStart(report.memory, report.at) < Size - 1
                        THEN report.at ELSE report.at - 1
    BY DEF CaretUnderCursor
  <2>1. PICK m \in Memories : \E start \in DOMAIN m :
          \E at \in Cursors(m, start) : report = Report(m, start, at)
    BY DEF ConfigInv, Reported
  <2>2. PICK start \in DOMAIN m : \E at \in Cursors(m, start) :
          report = Report(m, start, at)
    BY <2>1
  <2>3. PICK at \in Cursors(m, start) : report = Report(m, start, at)
    BY <2>2
  <2>4. Memory(m)
    BY ConfigAssumption DEF Memory
  <2>5. at \in 1 .. Len(m) + 1 /\ at \in start .. Len(m) + 1
    BY <2>4, NewlineFacts DEF Cursors
  <2>6. /\ report.begin = Begin(m, at) /\ report.caret = Caret(m, at)
        /\ report.at = at /\ report.start = start /\ report.memory = m
    BY <2>3 DEF Report
  <2>7. Met(report) = {i \in Nuls(m) : Begin(m, at) <= i /\ i < at}
    BY <2>6 DEF Met
  <2>8. CASE Met(report) = {}
    <3>1. \A i \in Nuls(m) : i >= Begin(m, at) => at <= i
      <4> TAKE i \in Nuls(m)
      <4>1. i \in Int /\ at \in Int /\ Begin(m, at) \in Int
        BY <2>4, <2>5, NewlineFacts, LengthIs
      <4> QED
        BY <2>7, <2>8, <4>1
    <3> QED
      BY <2>4, <2>5, <2>6, <2>8, <3>1, CaretAt
  <2>9. CASE Met(report) # {}
    <3>1. Begin(m, at) + Caret(m, at) = Min({i \in Met(report) : i < start})
      BY <2>4, <2>6, <2>7, <2>9, CaretAtNul
    <3> QED
      BY <2>6, <2>9, <3>1
  <2> QED
    BY <2>8, <2>9
<1> QED
  BY <1>1, ConfigInvariant, PTL
=============================================================================
