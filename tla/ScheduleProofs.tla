--------------------------- MODULE ScheduleProofs ---------------------------
(***************************************************************************)
(* The schedule for any intervals, any number of elements, any events and  *)
(* any number of times the clock is set.                                   *)
(***************************************************************************)
EXTENDS Schedule, TLAPS

(* An interval in ticks.                                                   *)
Ticks(e) == Interval(e) * S

(* The types of the parameters and of what is computed from them.          *)
LEMMA Parameters ==
  /\ S \in Nat \ {0} /\ Minute \in Nat \ {0} /\ Period \in Nat
  /\ MaxLag \in Nat /\ MaxQueue \in Nat /\ MaxSets \in Nat
  /\ Period * S \in Nat /\ Cycle \in Nat
  /\ \A d \in Steps : d \in Nat
  /\ \A e \in Elements : Ticks(e) \in Nat
<1>1. /\ S \in Nat \ {0} /\ Minute \in Nat \ {0} /\ Period \in Nat
      /\ MaxLag \in Nat /\ MaxQueue \in Nat /\ MaxSets \in Nat
      /\ \A d \in Steps : d \in Nat
  BY ScheduleAssumption
<1>2. Period * S \in Nat
  BY <1>1
<1>3. \A e \in Elements : Ticks(e) \in Nat
  BY <1>1, EpochAssumption DEF Ticks
<1> QED
  BY <1>1, <1>2, <1>3 DEF Cycle

(* Rounding down to full seconds does not go beyond the time.              *)
LEMMA RoundsDown ==
  ASSUME NEW t \in Nat, NEW s \in Nat \ {0}
  PROVE  t \div s \in Nat /\ (t \div s) * s <= t
OBVIOUS

(* The stamp of db_plug_load is at most a minute ahead.                    *)
LEMMA AlignedBound ==
  /\ Aligned(Epoch) \in Nat
  /\ Aligned(Epoch) <= Epoch + Minute * S
<1> DEFINE q == Epoch \div S
           m == q % Minute
<1>1. Epoch \in Nat /\ q \in Nat /\ q * S <= Epoch
  BY Parameters, EpochAssumption, RoundsDown
<1>2. m \in Nat /\ m < Minute
  BY <1>1, Parameters
<1> HIDE DEF q, m
<1>3. q - m + Minute \in Nat /\ q - m + Minute <= q + Minute
  BY <1>1, <1>2, Parameters
<1>4. (q + Minute) * S = q * S + Minute * S
  BY <1>1, Parameters
<1>5. (q - m + Minute) * S <= (q + Minute) * S
  BY <1>1, <1>3, Parameters
<1>6. (q - m + Minute) * S \in Nat
  BY <1>3, Parameters
<1>7. Minute * S \in Nat /\ q * S \in Nat
  BY <1>1, Parameters
<1> QED
  BY <1>1, <1>4, <1>5, <1>6, <1>7 DEF Aligned, q, m

-----------------------------------------------------------------------------
(* Element e's stamp and the time since it ran, once it has run.           *)
Stamped(e) ==
  /\ due[e] > -S
  /\ due[e] - age = Ticks(e) - (elapsed[e] - lost[e] + gained[e])
  /\ age <= pause + gained[e] /\ pause <= elapsed[e]

(* How far a turn of the loop can be behind the latest draw.               *)
Pace ==
  IF pc = "select" THEN MaxLag + (Period * S - left) + lag
  ELSE IF pc = "drain" /\ queue # << >> THEN Period * S + 2 * MaxLag + lag
  ELSE lag

ScheduleInv ==
  /\ TypeOK
  /\ pc = "first" =>
       /\ age = Epoch
       /\ \A e \in Elements :
            /\ due[e] = Aligned(Epoch) + Written[e] * S
            /\ elapsed[e] = 0 /\ lost[e] = 0 /\ gained[e] = 0
  /\ pc # "first" =>
       /\ \A e \in Elements : Stamped(e)
       /\ pause <= others * Cycle + Pace

(* The same as an equation for the stamp.                                  *)
LEMMA StampedDue ==
  ASSUME ScheduleInv, pc # "first", NEW e \in Elements
  PROVE  /\ age \in Int /\ due[e] \in Int /\ pause \in Nat /\ Ticks(e) \in Nat
         /\ elapsed[e] \in Nat /\ lost[e] \in Nat /\ gained[e] \in Nat
         /\ due[e] = age + Ticks(e) - elapsed[e] + lost[e] - gained[e]
         /\ due[e] > -S
         /\ age <= pause + gained[e] /\ pause <= elapsed[e]
<1>1. /\ age \in Int /\ due[e] \in Int /\ pause \in Nat /\ Ticks(e) \in Nat
      /\ elapsed[e] \in Nat /\ lost[e] \in Nat /\ gained[e] \in Nat
  BY Parameters DEF ScheduleInv, TypeOK
<1>2. Stamped(e)
  BY DEF ScheduleInv
<1>3. \A u, n \in Int, t, run, back, on \in Nat :
        u - n = t - (run - back + on) => u = n + t - run + back - on
  OBVIOUS
<1>4. due[e] - age = Ticks(e) - (elapsed[e] - lost[e] + gained[e])
  BY <1>2 DEF Stamped
<1>5. due[e] = age + Ticks(e) - elapsed[e] + lost[e] - gained[e]
  BY <1>1, <1>3, <1>4
<1> QED
  BY <1>1, <1>2, <1>5 DEF Stamped

(* The first draw finds every element due, whatever minute db_plug_load    *)
(* stamped: the time since update_last, which is 0, is all of the epoch.   *)
LEMMA FirstDrawRunsAll ==
  ASSUME ScheduleInv, pc = "first", NEW e \in Elements
  PROVE  IsDue(e)
<1>1. Written[e] * S \in Nat /\ Epoch \in Nat
  BY ScheduleAssumption, EpochAssumption
<1>2. Epoch >= (Minute + Written[e] + 1) * S
  BY EpochAssumption
<1>3. (Minute + Written[e] + 1) * S = Minute * S + Written[e] * S + S
  BY ScheduleAssumption
<1>4. age = Epoch /\ due[e] = Aligned(Epoch) + Written[e] * S
  BY DEF ScheduleInv
<1>5. Minute * S \in Nat
  BY Parameters
<1> QED
  BY <1>1, <1>2, <1>3, <1>4, <1>5, AlignedBound, Parameters DEF IsDue

(* A draw leaves every stamp where it belongs.                             *)
LEMMA DrawStamps ==
  ASSUME ScheduleInv, Draw
  PROVE  /\ age' = 0 /\ delta' \in Int /\ others' = 0 /\ pause' = 0
         /\ due' \in [Elements -> Int]
         /\ elapsed' \in [Elements -> Nat] /\ lost' \in [Elements -> Nat]
         /\ gained' \in [Elements -> Nat]
         /\ \A e \in Elements : Stamped(e)'
<1>1. /\ age \in Int /\ due \in [Elements -> Int]
      /\ elapsed \in [Elements -> Nat] /\ lost \in [Elements -> Nat]
      /\ gained \in [Elements -> Nat]
  BY DEF ScheduleInv, TypeOK
<1>2. \A e \in Elements : NextDue(e) \in Int
  BY <1>1, Parameters DEF NextDue, Ticks
<1>3. ASSUME NEW e \in Elements
      PROVE  Stamped(e)'
  <2>1. /\ due'[e] = NextDue(e) /\ age' = 0 /\ pause' = 0
        /\ elapsed'[e] = (IF IsDue(e) THEN 0 ELSE elapsed[e])
        /\ lost'[e] = (IF IsDue(e) THEN 0 ELSE lost[e])
        /\ gained'[e] = (IF IsDue(e) THEN 0 ELSE gained[e])
    BY DEF Draw
  <2>2. CASE IsDue(e)
    <3>1. due'[e] = Ticks(e) /\ elapsed'[e] = 0 /\ lost'[e] = 0 /\ gained'[e] = 0
      BY <2>1, <2>2 DEF NextDue, Ticks
    <3> QED
      BY <2>1, <3>1, Parameters DEF Stamped, Ticks
  <2>3. CASE ~IsDue(e)
    <3>1. /\ due'[e] = due[e] - age /\ elapsed'[e] = elapsed[e]
          /\ lost'[e] = lost[e] /\ gained'[e] = gained[e]
      BY <2>1, <2>3 DEF NextDue
    <3>2. pc # "first" /\ Stamped(e)
      BY <2>3, FirstDrawRunsAll DEF ScheduleInv
    <3>3. age < due[e] + (S - age)
      BY <1>1, <2>3, Parameters DEF IsDue
    <3>4. due'[e] > -S
      <4>1. CASE age >= 0
        BY <1>1, <3>1, <3>3, <4>1, Parameters
      <4>2. CASE age < 0
        BY <1>1, <3>1, <3>2, <4>2, Parameters DEF Stamped
      <4> QED
        BY <1>1, <4>1, <4>2
    <3>5. due'[e] - age' = Ticks(e) - (elapsed'[e] - lost'[e] + gained'[e])
      BY <1>1, <2>1, <3>1, <3>2, Parameters DEF Stamped
    <3>6. age' <= pause' + gained'[e] /\ pause' <= elapsed'[e]
      BY <1>1, <2>1, <3>1
    <3>7. Ticks(e)' = Ticks(e)
      BY DEF Ticks, Interval, Shares
    <3> QED
      BY <3>4, <3>5, <3>6, <3>7 DEF Stamped
  <2> QED
    BY <2>2, <2>3
<1> QED
  BY <1>1, <1>2, <1>3 DEF Draw

(* What holds before the first draw.                                       *)
LEMMA ScheduleInit ==
  ASSUME Init
  PROVE  ScheduleInv
<1>1. \A e \in Elements : Written[e] * S \in Nat
  BY ScheduleAssumption
<1>2. due \in [Elements -> Int]
  BY <1>1, AlignedBound DEF Init
<1>3. TypeOK
  BY <1>2, EpochAssumption, Parameters, ScheduleAssumption DEF Init, TypeOK
<1> QED
  BY <1>3 DEF Init, ScheduleInv

(* The times a product of the number of cycles stands for.                 *)
LEMMA Cycles ==
  ASSUME NEW n \in Nat
  PROVE  n * Cycle \in Nat /\ (n + 1) * Cycle = n * Cycle + Cycle
BY Parameters

(* Steps that take no time and leave the clock alone.                      *)
LEMMA SameStamps ==
  ASSUME ScheduleInv, UNCHANGED << age, due, elapsed, lost, gained, pause >>
  PROVE  pc # "first" => \A e \in Elements : Stamped(e)'
BY DEF ScheduleInv, Stamped, Ticks, Interval, Shares

(* Every step keeps the invariant.                                         *)
LEMMA ScheduleStep ==
  ASSUME ScheduleInv, [Next]_vars
  PROVE  ScheduleInv'
<1> USE DEF clock
<1>1. /\ age \in Int /\ pause \in Nat /\ lag \in 0 .. MaxLag /\ left \in 0 .. Period * S
      /\ others \in Nat /\ queue \in Seq(Kinds) /\ Len(queue) <= MaxQueue
      /\ others * Cycle \in Nat /\ TypeOK
  BY Cycles DEF ScheduleInv, TypeOK
<1>2. pc # "first" => pause <= others * Cycle + Pace
  BY DEF ScheduleInv
<1>3. CASE FirstDraw \/ TimesOut \/ HandleExpose
  <2>1. /\ age' = 0 /\ delta' \in Int /\ others' = 0 /\ pause' = 0
        /\ due' \in [Elements -> Int]
        /\ elapsed' \in [Elements -> Nat] /\ lost' \in [Elements -> Nat]
        /\ gained' \in [Elements -> Nat]
        /\ \A e \in Elements : Stamped(e)'
    BY <1>3, DrawStamps DEF FirstDraw, TimesOut, HandleExpose
  <2>2. /\ pc' \in {"poll", "drain"} /\ lag' \in 0 .. MaxLag
        /\ left' \in 0 .. Period * S /\ UNCHANGED sets
        /\ queue' \in Seq(Kinds) /\ Len(queue') <= MaxQueue
    BY <1>1, <1>3, Parameters DEF FirstDraw, TimesOut, HandleExpose
  <2>3. pause' <= others' * Cycle + Pace'
    <3>1. others' * Cycle = 0
      BY <2>1, Parameters
    <3>2. Pace' \in Int /\ Pace' >= 0
      <4> DEFINE turn == Period * S
      <4>1. turn \in Nat /\ left' \in 0 .. turn
        BY <2>2, Parameters
      <4> HIDE DEF turn
      <4>2. Pace' = IF pc' = "select" THEN MaxLag + (turn - left') + lag'
                    ELSE IF pc' = "drain" /\ queue' # << >>
                         THEN turn + 2 * MaxLag + lag' ELSE lag'
        BY DEF Pace, turn
      <4>3. lag' \in Nat /\ MaxLag \in Nat /\ pc' # "select"
        BY <2>2, Parameters
      <4>4. turn + 2 * MaxLag + lag' \in Nat
        <5>1. PICK t \in Nat, n \in Nat : t = turn + 2 * MaxLag /\ n = lag'
          BY <4>1, <4>3
        <5> QED
          BY <5>1
      <4>5. Pace' = turn + 2 * MaxLag + lag' \/ Pace' = lag'
        BY <4>2, <4>3
      <4> QED
        BY <4>3, <4>4, <4>5
    <3> QED
      BY <2>1, <3>1, <3>2
  <2> QED
    BY <1>1, <2>1, <2>2, <2>3 DEF ScheduleInv, TypeOK
<1>4. CASE Poll
  <2>1. /\ pc = "poll" /\ pc' \in {"select", "drain"} /\ lag' = 0
        /\ left' \in 0 .. Period * S
        /\ UNCHANGED << queue, age, due, delta, elapsed, lost, gained, pause, others, sets >>
    BY <1>1, <1>4, Parameters DEF Poll, Timeout
  <2>2. TypeOK'
    BY <1>1, <2>1, Parameters DEF TypeOK
  <2>3. pause' <= others' * Cycle + Pace'
    <3>1. pause <= others * Cycle + lag
      BY <1>2, <2>1 DEF Pace
    <3>2. CASE queue = << >>
      <4>1. pc' = "select" /\ left' = Period * S
        BY <1>4, <3>2 DEF Poll, Timeout
      <4>2. Pace' = MaxLag
        BY <2>1, <4>1, Parameters DEF Pace
      <4> QED
        BY <1>1, <2>1, <3>1, <4>2, Parameters
    <3>3. CASE queue # << >>
      <4>1. Pace' = Period * S + 2 * MaxLag
        BY <1>4, <2>1, <3>3, Parameters DEF Poll, Pace
      <4> QED
        BY <1>1, <2>1, <3>1, <4>1, Parameters
    <3> QED
      BY <3>2, <3>3
  <2> QED
    BY <2>1, <2>2, <2>3, SameStamps DEF ScheduleInv
<1>5. CASE Wakes
  <2>1. /\ pc = "select" /\ pc' = "drain" /\ lag' = 0 /\ queue # << >>
        /\ UNCHANGED << left, queue, age, due, delta, elapsed, lost, gained, pause, others, sets >>
    BY <1>5 DEF Wakes
  <2>2. TypeOK'
    BY <1>1, <2>1, Parameters DEF TypeOK
  <2>3. pause' <= others' * Cycle + Pace'
    <3>1. Pace' = Period * S + 2 * MaxLag
      BY <2>1, Parameters DEF Pace
    <3>2. Pace = MaxLag + (Period * S - left) + lag
      BY <2>1 DEF Pace
    <3> QED
      BY <1>1, <1>2, <2>1, <3>1, <3>2, Parameters
  <2> QED
    BY <2>1, <2>2, <2>3, SameStamps DEF ScheduleInv
<1>6. CASE HandleOther
  <2>1. /\ pc = "drain" /\ pc' = "drain" /\ lag' = 0 /\ queue # << >>
        /\ queue' = Tail(queue) /\ others' = others + 1
        /\ UNCHANGED << left, age, due, delta, elapsed, lost, gained, pause, sets >>
    BY <1>6 DEF HandleOther
  <2>2. TypeOK'
    BY <1>1, <2>1, Parameters DEF TypeOK
  <2>3. pause' <= others' * Cycle + Pace'
    <3>1. pause <= others * Cycle + Cycle
      BY <1>1, <1>2, <2>1, Parameters DEF Pace, Cycle
    <3>2. others' * Cycle = others * Cycle + Cycle
      BY <1>1, <2>1, Cycles
    <3>3. Pace' \in Nat
      BY <2>1, Parameters DEF Pace
    <3> DEFINE before == others * Cycle
               after == others' * Cycle
    <3>4. before \in Nat /\ Cycle \in Nat
      BY <1>1, Parameters
    <3> HIDE DEF before, after
    <3>5. pause <= before + Cycle /\ after = before + Cycle
      BY <3>1, <3>2 DEF before, after
    <3>6. pause' = pause /\ pause \in Int
      BY <1>1, <2>1
    <3>7. pause' <= after
      BY <3>4, <3>5, <3>6
    <3>8. after \in Nat
      BY <3>4, <3>5
    <3>9. pause' <= after + Pace'
      <4>1. \A t \in Int, n, p \in Nat : t <= n => t <= n + p
        OBVIOUS
      <4>2. pause' \in Int
        BY <3>6
      <4> QED
        BY <3>3, <3>7, <3>8, <4>1, <4>2
    <3> QED
      BY <3>9 DEF after
  <2> QED
    BY <2>1, <2>2, <2>3, SameStamps DEF ScheduleInv
<1>7. CASE Drained
  BY <1>1, <1>2, <1>7, SameStamps, Parameters
  DEF Drained, ScheduleInv, TypeOK, Pace
<1>8. CASE Tick
  <2>1. /\ pc # "first" /\ age' = age + 1 /\ pause' = pause + 1
        /\ elapsed' = [e \in Elements |-> elapsed[e] + 1]
        /\ UNCHANGED << pc, queue, due, delta, lost, gained, others, sets >>
        /\ \/ pc = "select" /\ left > 0 /\ left' = left - 1 /\ lag' = lag
           \/ lag < MaxLag /\ lag' = lag + 1 /\ left' = left
    BY <1>8 DEF Tick
  <2>2. TypeOK'
    BY <1>1, <2>1, Parameters DEF TypeOK
  <2>3. pause' <= others' * Cycle + Pace'
    <3>1. Pace' = Pace + 1 /\ Pace \in Int
      <4> DEFINE turn == Period * S
      <4>1. turn \in Nat /\ left \in 0 .. turn
        BY <1>1, Parameters
      <4> HIDE DEF turn
      <4>2. /\ Pace = IF pc = "select" THEN MaxLag + (turn - left) + lag
                      ELSE IF pc = "drain" /\ queue # << >>
                           THEN turn + 2 * MaxLag + lag ELSE lag
            /\ Pace' = IF pc = "select" THEN MaxLag + (turn - left') + lag'
                       ELSE IF pc = "drain" /\ queue # << >>
                            THEN turn + 2 * MaxLag + lag' ELSE lag'
        BY <2>1 DEF Pace, turn
      <4>3. CASE pc = "select" /\ left > 0 /\ left' = left - 1 /\ lag' = lag
        BY <1>1, <4>1, <4>2, <4>3, Parameters
      <4>4. CASE lag < MaxLag /\ lag' = lag + 1 /\ left' = left
        BY <1>1, <4>1, <4>2, <4>4, Parameters
      <4> QED
        BY <2>1, <4>3, <4>4
    <3> QED
      BY <1>1, <1>2, <2>1, <3>1
  <2>4. ASSUME NEW e \in Elements
        PROVE  Stamped(e)'
    <3>1. /\ Stamped(e) /\ Ticks(e)' = Ticks(e) /\ due'[e] = due[e]
          /\ elapsed'[e] = elapsed[e] + 1 /\ lost'[e] = lost[e]
          /\ gained'[e] = gained[e]
      BY <2>1 DEF ScheduleInv, Ticks, Interval, Shares
    <3>2. /\ due[e] \in Int /\ elapsed[e] \in Nat /\ lost[e] \in Nat
          /\ gained[e] \in Nat
      BY <1>1 DEF TypeOK
    <3>3. due[e] - (age + 1) = Ticks(e) - ((elapsed[e] + 1) - lost[e] + gained[e])
      <4>1. PICK u \in Int, t \in Nat, run \in Nat, back \in Nat, on \in Nat :
              /\ u = due[e] /\ t = Ticks(e) /\ run = elapsed[e]
              /\ back = lost[e] /\ on = gained[e]
        BY <3>2, Parameters
      <4>2. PICK n \in Int : n = age
        BY <1>1
      <4>3. u - n = t - (run - back + on)
        BY <3>1, <4>1, <4>2 DEF Stamped
      <4>4. u - (n + 1) = t - ((run + 1) - back + on)
        BY <4>3
      <4> QED
        BY <4>1, <4>2, <4>4
    <3>4. age + 1 <= (pause + 1) + gained[e] /\ pause + 1 <= elapsed[e] + 1
      BY <1>1, <3>1, <3>2 DEF Stamped
    <3> QED
      BY <2>1, <3>1, <3>3, <3>4 DEF Stamped
  <2> QED
    BY <2>1, <2>2, <2>3, <2>4 DEF ScheduleInv
<1>9. ASSUME NEW kind \in Kinds, Arrive(kind)
      PROVE  ScheduleInv'
  <2>1. /\ pc # "first" /\ queue' = Append(queue, kind)
        /\ Len(queue) < MaxQueue
        /\ UNCHANGED << pc, left, lag, age, due, delta, elapsed, lost, gained, pause, others, sets >>
    BY <1>9 DEF Arrive
  <2>2. TypeOK' /\ queue' # << >>
    BY <1>1, <2>1, Parameters DEF TypeOK
  <2>3. pause' <= others' * Cycle + Pace'
    BY <1>1, <1>2, <2>1, <2>2, Parameters DEF Pace, TypeOK
  <2> QED
    BY <2>1, <2>2, <2>3, SameStamps DEF ScheduleInv
<1>10. ASSUME NEW d \in Steps, SetBack(d) \/ SetForward(d)
       PROVE  ScheduleInv'
  <2> DEFINE back == IF SetBack(d) THEN d ELSE 0
             on == IF SetBack(d) THEN 0 ELSE d
  <2>1. /\ pc # "first" /\ sets < MaxSets /\ sets' = sets + 1
        /\ UNCHANGED << pc, left, lag, queue, due, delta, elapsed, pause, others >>
    BY <1>10 DEF SetBack, SetForward, SetClock
  <2>2. d \in Nat /\ back \in Nat /\ on \in Nat
    BY Parameters
  <2>3. /\ age' = age - back + on
        /\ \A e \in Elements : lost'[e] = lost[e] + back /\ gained'[e] = gained[e] + on
        /\ lost' \in [Elements -> Nat] /\ gained' \in [Elements -> Nat]
    <3>1. \A e \in Elements : lost[e] \in Nat /\ gained[e] \in Nat
      BY <1>1 DEF TypeOK
    <3>2. CASE SetBack(d)
      BY <1>1, <2>2, <3>1, <3>2 DEF SetBack, TypeOK
    <3>3. CASE ~SetBack(d)
      BY <1>1, <1>10, <2>2, <3>1, <3>3 DEF SetForward, TypeOK
    <3> QED
      BY <3>2, <3>3
  <2> HIDE DEF back, on
  <2>4. TypeOK'
    BY <1>1, <2>1, <2>2, <2>3, Parameters DEF TypeOK
  <2>5. pause' <= others' * Cycle + Pace'
    BY <1>2, <2>1 DEF Pace
  <2>6. ASSUME NEW e \in Elements
        PROVE  Stamped(e)'
    <3>1. /\ Stamped(e) /\ Ticks(e)' = Ticks(e) /\ due'[e] = due[e]
          /\ elapsed'[e] = elapsed[e] /\ pause' = pause
      BY <2>1 DEF ScheduleInv, Ticks, Interval, Shares
    <3>2. /\ due[e] \in Int /\ elapsed[e] \in Nat /\ lost[e] \in Nat
          /\ gained[e] \in Nat
      BY <1>1 DEF TypeOK
    <3>3. due[e] - age' = Ticks(e) - (elapsed[e] - lost'[e] + gained'[e])
      <4>1. PICK u \in Int, t \in Nat, run \in Nat, l \in Nat, g \in Nat :
              /\ u = due[e] /\ t = Ticks(e) /\ run = elapsed[e]
              /\ l = lost[e] /\ g = gained[e]
        BY <3>2, Parameters
      <4>2. PICK n \in Int : n = age
        BY <1>1
      <4>3. u - n = t - (run - l + g)
        BY <3>1, <4>1, <4>2 DEF Stamped
      <4>4. u - (n - back + on) = t - (run - (l + back) + (g + on))
        BY <2>2, <4>3
      <4> QED
        BY <2>3, <4>1, <4>2, <4>4
    <3>4. age' <= pause + gained'[e] /\ pause <= elapsed[e]
      BY <1>1, <2>2, <2>3, <3>1, <3>2 DEF Stamped
    <3> QED
      BY <3>1, <3>3, <3>4 DEF Stamped
  <2> QED
    BY <2>1, <2>4, <2>5, <2>6 DEF ScheduleInv
<1>11. CASE UNCHANGED vars
  BY <1>11
  DEF vars, ScheduleInv, TypeOK, Stamped, Pace, Ticks, Interval, Shares
<1> QED
  BY <1>3, <1>4, <1>5, <1>6, <1>7, <1>8, <1>9, <1>10, <1>11 DEF Next

(* The due times, the intervals elapsed and the age of the last draw are   *)
(* bound to each other in every state of the schedule.                     *)
THEOREM ScheduleInvariant == Spec => []ScheduleInv
<1>1. Init => ScheduleInv
  BY ScheduleInit
<1>2. ScheduleInv /\ [Next]_vars => ScheduleInv'
  BY ScheduleStep
<1> QED
  BY <1>1, <1>2, PTL DEF Spec

-----------------------------------------------------------------------------
(* What follows from the inductive invariant.                              *)

(* Every variable of the schedule keeps its type.                          *)
THEOREM ScheduleTypes == Spec => []TypeOK
<1>1. ScheduleInv => TypeOK
  BY DEF ScheduleInv
<1> QED
  BY <1>1, ScheduleInvariant, PTL

(* Stamps are one interval after the latest run.                           *)
THEOREM StampsAreRight == Spec => []StampsFollowRuns
<1>1. ScheduleInv => StampsFollowRuns
  BY DEF ScheduleInv, StampsFollowRuns, Stamped, Ticks
<1> QED
  BY <1>1, ScheduleInvariant, PTL

(* No plugin is more than a second late at a draw.                         *)
THEOREM PluginsRunInTime == Spec => []RunsInTime
<1>1. ASSUME ScheduleInv
      PROVE  RunsInTime
  <2> SUFFICES ASSUME pc # "first", NEW e \in Elements
               PROVE  elapsed[e] < Ticks(e) + S + pause + lost[e]
    BY DEF RunsInTime, Ticks
  <2>1. \A u, n \in Int, t, run, back, on, p \in Nat :
          u = n + t - run + back - on /\ u > -S /\ n <= p + on
            => run < t + S + p + back
    BY Parameters
  <2> QED
    BY <1>1, <2>1, StampedDue
<1> QED
  BY <1>1, ScheduleInvariant, PTL

(* Draws keep pace with the loop, but for the events that do not draw.     *)
THEOREM DrawsKeepPace == Spec => []DrawsInTime
<1>1. ASSUME ScheduleInv
      PROVE  DrawsInTime
  <2> SUFFICES ASSUME pc # "first"
               PROVE  pause <= (others + 1) * Cycle
    BY DEF DrawsInTime
  <2>1. /\ pause \in Nat /\ others \in Nat /\ lag \in 0 .. MaxLag
        /\ left \in 0 .. Period * S /\ pause <= others * Cycle + Pace
        /\ pc \in {"poll", "select", "drain"}
    BY <1>1 DEF ScheduleInv, TypeOK
  <2>2. Pace \in Int /\ Pace <= Cycle
    BY <2>1, Parameters DEF Pace, Cycle
  <2>3. others * Cycle \in Nat /\ (others + 1) * Cycle = others * Cycle + Cycle
    BY <2>1, Cycles
  <2> QED
    BY <2>1, <2>2, <2>3, Parameters
<1> QED
  BY <1>1, ScheduleInvariant, PTL

(* An element that is due has half of its interval behind it.              *)
LEMMA DueBound ==
  ASSUME NEW u \in Int, NEW n \in Int, NEW s \in Nat, NEW t \in Nat,
         NEW run \in Nat, NEW back \in Nat, NEW on \in Nat, NEW p \in Nat,
         n >= u + (s - n), u = n + t - run + back - on, n <= p + on, p <= run
  PROVE  2 * (run + on) >= t + s
<1>1. PICK d \in Int : d = t - run - on + s
  OBVIOUS
<1>2. u + (s - n) = d + back
  BY <1>1
<1>3. n >= d
  BY <1>1, <1>2
<1>4. n <= run + on
  OBVIOUS
<1> QED
  BY <1>1, <1>3, <1>4

(* Looking ahead never doubles the rate of a plugin.                       *)
THEOREM RateIsBounded == Spec => NeverTwiceAsOften
<1> DEFINE Halves ==
      pc # "first" =>
        \A e \in Elements :
          Since(e)' = 0 /\ Since(e) > 0 => 2 * Since(e) >= Interval(e) * S + S
<1>1. ASSUME ScheduleInv, [Next]_vars
      PROVE  [Halves]_vars
  <2> SUFFICES ASSUME Next, pc # "first", NEW e \in Elements,
                      Since(e)' = 0, Since(e) > 0
               PROVE  2 * Since(e) >= Ticks(e) + S
    BY <1>1 DEF Ticks
  <2>1. elapsed[e] \in Nat /\ gained[e] \in Nat
    BY <1>1 DEF ScheduleInv, TypeOK
  <2>2. Draw
    <3>1. CASE Tick
      <4>1. elapsed'[e] = elapsed[e] + 1 /\ gained'[e] = gained[e]
        BY <3>1 DEF Tick
      <4> QED
        BY <2>1, <4>1 DEF Since
    <3>2. ASSUME NEW d \in Steps, SetBack(d) \/ SetForward(d)
          PROVE  FALSE
      <4>1. /\ d \in Nat /\ elapsed'[e] = elapsed[e]
            /\ gained'[e] = gained[e] \/ gained'[e] = gained[e] + d
        BY <3>2, Parameters DEF SetBack, SetForward, SetClock
      <4> QED
        BY <2>1, <4>1 DEF Since
    <3>3. CASE UNCHANGED clock
      BY <3>3 DEF clock, Since
    <3> QED
      BY <3>1, <3>2, <3>3
      DEF Next, FirstDraw, Poll, TimesOut, Wakes, HandleExpose, HandleOther,
          Drained, Arrive
  <2>3. IsDue(e)
    BY <2>2 DEF Draw, Since
  <2>4. age >= due[e] + (S - age)
    BY <2>3 DEF IsDue
  <2> QED
    BY <1>1, <2>1, <2>4, StampedDue, DueBound, Parameters DEF Since
<1> QED
  BY <1>1, ScheduleInvariant, PTL DEF Spec, NeverTwiceAsOften
=============================================================================
