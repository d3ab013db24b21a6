------------------------- MODULE SampleClockProofs -------------------------
(***************************************************************************)
(* The schedule of logger.py:147-150 for every period, lag and horizon.    *)
(***************************************************************************)
EXTENDS SampleClock, TLAPS

(* Division by the period.                                                  *)
LEMMA Division ==
  ASSUME NEW t \in Int
  PROVE  t \div Period \in Int /\ t % Period \in 0 .. Period - 1
<1>1. Period \in Int /\ Period > 0
  BY ClockAssumption
<1> QED
  BY <1>1

(* The quotient is the only one.                                            *)
LEMMA Quotient ==
  ASSUME NEW t \in Int, NEW q \in Int, NEW r \in 0 .. Period - 1,
         t = Period * q + r
  PROVE  t \div Period = q /\ t % Period = r
<1> DEFINE d == t \div Period
           m == t % Period
<1>1. Period \in Int /\ Period > 0
  BY ClockAssumption
<1>2. d \in Int /\ m \in 0 .. Period - 1 /\ t = Period * d + m
  BY <1>1
<1> HIDE DEF d, m
<1>3. Period * (d - q) = r - m
  BY <1>1, <1>2
<1>4. d - q < 1 /\ d - q > -1
  BY <1>1, <1>2, <1>3
<1>5. d = q
  BY <1>2, <1>4
<1>6. m = r
  BY <1>1, <1>2, <1>5
<1> QED
  BY <1>5, <1>6 DEF d, m

(* A larger time is not in an earlier cycle.                                *)
LEMMA Monotone ==
  ASSUME NEW t \in Int, NEW u \in Int, t <= u
  PROVE  t \div Period <= u \div Period
<1> DEFINE d == t \div Period
           e == u \div Period
           m == t % Period
           n == u % Period
<1>1. Period \in Int /\ Period > 0
  BY ClockAssumption
<1>2. /\ d \in Int /\ m \in 0 .. Period - 1 /\ t = Period * d + m
      /\ e \in Int /\ n \in 0 .. Period - 1 /\ u = Period * e + n
  <2>1. d \in Int /\ m \in 0 .. Period - 1 /\ t = Period * d + m
    BY <1>1
  <2>2. e \in Int /\ n \in 0 .. Period - 1 /\ u = Period * e + n
    BY <1>1
  <2> QED
    BY <2>1, <2>2
<1> HIDE DEF d, e, m, n
<1>3. Period * d - Period * e < Period
  BY <1>1, <1>2
<1>4. Period * (d - e) = Period * d - Period * e
  BY <1>1, <1>2
<1>5. d - e < 1
  BY <1>1, <1>2, <1>3, <1>4
<1> QED
  BY <1>2, <1>5 DEF d, e

(* The next sample of a time after the start is in the next cycle, at its   *)
(* beginning.                                                               *)
LEMMA NextAfterStart ==
  ASSUME NEW t \in Nat
  PROVE  /\ NextSample(t) \in Int
         /\ t < NextSample(t) /\ NextSample(t) <= t + Period
         /\ NextSample(t) % Period = 0
         /\ NextSample(t) \div Period = t \div Period + 1
<1> DEFINE q == t \div Period
           r == t % Period
<1>1. Period \in Int /\ Period > 0
  BY ClockAssumption
<1>2. q \in Int /\ r \in 0 .. Period - 1 /\ t = Period * q + r
  BY <1>1
<1>3. NextSample(t) = (q + 1) * Period
  BY DEF NextSample, IntDiv
<1> HIDE DEF q, r
<1>4. NextSample(t) = Period * (q + 1) + 0 /\ (q + 1) * Period = t - r + Period
  BY <1>1, <1>2, <1>3
<1>5. NextSample(t) \div Period = q + 1 /\ NextSample(t) % Period = 0
  BY <1>1, <1>2, <1>4, Quotient
<1> QED
  BY <1>1, <1>2, <1>3, <1>4, <1>5 DEF q, r

(* Before the start (the clock was set back) it is one to two periods away. *)
LEMMA NextBeforeStart ==
  ASSUME NEW t \in Int, t < 0
  PROVE  /\ NextSample(t) \in Int /\ NextSample(t) - t >= Period
         /\ NextSample(t) - t < 2 * Period
         /\ NextSample(t) % Period = 0
<1> DEFINE q == (-t) \div Period
           r == (-t) % Period
<1>1. Period \in Int /\ Period > 0
  BY ClockAssumption
<1>2. q \in Int /\ r \in 0 .. Period - 1 /\ -t = Period * q + r
  BY <1>1
<1>3. NextSample(t) = (-q + 1) * Period
  BY DEF NextSample, IntDiv
<1> HIDE DEF q, r
<1>4. NextSample(t) = Period * (-q + 1) + 0 /\ NextSample(t) = t + r + Period
  BY <1>1, <1>2, <1>3
<1>5. NextSample(t) % Period = 0
  BY <1>1, <1>2, <1>4, Quotient
<1> QED
  BY <1>1, <1>2, <1>4, <1>5
-----------------------------------------------------------------------------
ClockType ==
  /\ now \in Int /\ pc \in {"poll", "row", "asleep"} /\ nap \in Int
  /\ row \in Int /\ set \in BOOLEAN

(* After a row in cycle c the daemon sleeps until, and polls in, a later    *)
(* cycle.                                                                   *)
Later ==
  ~set /\ row >= 0 =>
    /\ pc = "row" => now = row
    /\ pc = "asleep" => /\ nap >= 0
                        /\ (now + nap) \div Period > row \div Period
    /\ pc = "poll" => now \div Period > row \div Period

ClockInv == ClockType /\ Later /\ OnGrid

LEMMA NextType == ASSUME NEW t \in Int PROVE NextSample(t) \in Int
  BY NextAfterStart, NextBeforeStart

LEMMA ClockInductive == Spec => []ClockInv
<1>1. Init => ClockInv
  <2>1. Init => ClockType
    <3>1. Init => now \in Int /\ nap \in Int /\ row \in Int
      BY DEF Init
    <3>2. Init => pc \in {"poll", "row", "asleep"} /\ set \in BOOLEAN
      BY DEF Init
    <3> QED
      BY <3>1, <3>2 DEF ClockType
  <2>2. Init => Later /\ OnGrid
    BY DEF Init, Later, OnGrid
  <2> QED
    BY <2>1, <2>2 DEF ClockInv
<1>2. ClockInv /\ [Next]_vars => ClockInv'
  <2> SUFFICES ASSUME ClockInv, [Next]_vars PROVE ClockInv'
    OBVIOUS
  <2> USE ClockAssumption DEF ClockInv, ClockType
  <2>1. CASE Write
    <3>1. ClockType'
      <4>1. now' \in Int /\ row' \in Int /\ nap' \in Int
        BY <2>1 DEF Write
      <4>2. pc' \in {"poll", "row", "asleep"} /\ set' \in BOOLEAN
        BY <2>1 DEF Write
      <4> QED
        BY <4>1, <4>2
    <3>2. pc' = "row" /\ now' = row'
      BY <2>1 DEF Write
    <3> QED
      BY <3>1, <3>2 DEF Later, OnGrid
  <2>2. CASE Sleep
    <3>1. PICK d \in 0 .. MaxLag : /\ now' = now + d
                                   /\ nap' = NextSample(now + d) - (now + d)
      BY <2>2 DEF Sleep
    <3>2. now + d \in Int /\ now + d >= now
      BY <3>1
    <3>3. NextSample(now + d) \in Int /\ NextSample(now + d) % Period = 0
      BY <3>2, NextAfterStart, NextBeforeStart
    <3>4. now' + nap' = NextSample(now + d)
      BY <3>1, <3>2, <3>3
    <3>5. ClockType' /\ OnGrid'
      BY <2>2, <3>1, <3>2, <3>3, <3>4 DEF Sleep, OnGrid
    <3>6. ASSUME ~set, row >= 0
          PROVE  nap' >= 0 /\ NextSample(now + d) \div Period > row \div Period
      <4>1. now = row /\ now + d \in Nat
        BY <2>2, <3>2, <3>6 DEF Sleep, Later
      <4>2. /\ NextSample(now + d) \div Period = (now + d) \div Period + 1
            /\ now + d < NextSample(now + d)
        BY <4>1, NextAfterStart
      <4>3. /\ row \div Period <= (now + d) \div Period
            /\ row \div Period \in Int /\ (now + d) \div Period \in Int
        BY <3>2, <4>1, Monotone, Division
      <4> QED
        BY <3>1, <3>2, <3>3, <4>2, <4>3
    <3>7. Later'
      BY <2>2, <3>4, <3>6 DEF Sleep, Later
    <3> QED
      BY <3>5, <3>7
  <2>3. CASE Tick
    <3>1. now' + nap' = now + nap
      BY <2>3 DEF Tick
    <3> QED
      BY <2>3, <3>1 DEF Tick, Later, OnGrid
  <2>4. CASE Wake
    <3>1. ~set /\ row >= 0 => now + nap = now
      BY <2>4 DEF Wake, Later
    <3> QED
      BY <2>4, <3>1 DEF Wake, Later, OnGrid
  <2>5. CASE SetClock
    BY <2>5 DEF SetClock, Later, OnGrid
  <2>6. CASE UNCHANGED vars
    BY <2>6 DEF vars, Later, OnGrid
  <2> QED
    BY <2>1, <2>2, <2>3, <2>4, <2>5, <2>6 DEF Next
<1> QED
  BY <1>1, <1>2, PTL DEF Spec

(* Samples are due on multiples of the period (logger.py:149).              *)
THEOREM SamplesOnGrid == Spec => []OnGrid
<1>1. ClockInv => OnGrid
  BY DEF ClockInv
<1> QED
  BY <1>1, ClockInductive, PTL

(* time.sleep() never gets a negative time, whatever the clock is set to    *)
(* (logger.py:150).                                                         *)
THEOREM SleepsBounded == Spec => NapBounded
<1>1. ClockInv /\ [Next]_vars
        => [pc = "row" /\ pc' = "asleep"
              => /\ nap' > 0 /\ nap' < 2 * Period
                 /\ now' >= 0 => nap' <= Period]_vars
  <2> SUFFICES ASSUME ClockInv, Next, pc = "row", pc' = "asleep"
               PROVE  /\ nap' > 0 /\ nap' < 2 * Period
                      /\ now' >= 0 => nap' <= Period
    OBVIOUS
  <2>1. CASE Sleep
    <3>1. PICK d \in 0 .. MaxLag : /\ now' = now + d
                                   /\ nap' = NextSample(now + d) - (now + d)
      BY <2>1 DEF Sleep
    <3>2. now + d \in Int
      BY <3>1, ClockAssumption DEF ClockInv, ClockType
    <3>3. CASE now + d >= 0
      BY <3>1, <3>2, <3>3, NextAfterStart, ClockAssumption
    <3>4. CASE now + d < 0
      BY <3>1, <3>2, <3>4, NextBeforeStart, ClockAssumption
    <3> QED
      BY <3>2, <3>3, <3>4
  <2> QED
    BY <2>1 DEF Next, Write, Tick, Wake, SetClock
<1> QED
  BY <1>1, ClockInductive, PTL DEF Spec, NapBounded

(* No two rows in one cycle unless the clock was set (logger.py:148).       *)
THEOREM RowsApart == Spec => OneRowPerCycle
<1>1. ClockInv /\ [Next]_vars
        => [pc = "poll" /\ pc' = "row" /\ row >= 0 /\ ~set
              => row' \div Period > row \div Period]_vars
  <2> SUFFICES ASSUME ClockInv, Next, pc = "poll", pc' = "row", row >= 0, ~set
               PROVE  row' \div Period > row \div Period
    OBVIOUS
  <2>1. Write
    BY DEF Next, Write, Sleep, Tick, Wake, SetClock
  <2>2. PICK d \in 0 .. MaxLag : row' = now + d
    BY <2>1 DEF Write
  <2>3. now \in Int /\ now + d \in Int /\ now <= now + d /\ row \in Int
    BY <2>2, ClockAssumption DEF ClockInv, ClockType
  <2>4. now \div Period > row \div Period
    BY DEF ClockInv, Later
  <2>5. now \div Period <= (now + d) \div Period
    BY <2>3, Monotone
  <2>6. /\ now \div Period \in Int /\ row \div Period \in Int
        /\ (now + d) \div Period \in Int
    BY <2>3, Division
  <2> QED
    BY <2>2, <2>4, <2>5, <2>6
<1> QED
  BY <1>1, ClockInductive, PTL DEF Spec, OneRowPerCycle
=============================================================================
