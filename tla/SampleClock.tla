---------------------------- MODULE SampleClock ----------------------------
(***************************************************************************)
(* When the logger takes its samples: logger.py:143-150, with time in      *)
(* ticks. The wall clock may be set while it runs (rc.local, an NTP        *)
(* client); sleeping is by elapsed time, not by the clock.                 *)
(***************************************************************************)
EXTENDS Integers

CONSTANTS Period,    \* -t, in ticks
          MaxLag,    \* bound on what one poll takes, reconnection included
          Horizon    \* bound on the clock, both ways

ASSUME ClockAssumption ==
  /\ Period \in Nat \ {0}
  /\ MaxLag \in Nat /\ Horizon \in Nat

VARIABLES now,       \* time.time() - tstart
          pc,        \* "poll", "row" (written), "asleep"
          nap,       \* what is left to sleep
          row,       \* when the last row was written, -1 before the first
         set        \* history: the clock was set since the last row

vars == <<now, pc, nap, row, set>>
-----------------------------------------------------------------------------
(* Python's int() of a quotient rounds towards zero. *)
IntDiv(a) == IF a >= 0 THEN a \div Period ELSE -((-a) \div Period)

(* Mutant: rounds to the nearest cycle. *)
NextSampleRounded(t) == (((2 * t + Period) \div (2 * Period)) + 1) * Period

(* Mutant: sleeps until the start of the current cycle. *)
NextSampleCurrent(t) == IntDiv(t) * Period

NextSample(t) == (IntDiv(t) + 1) * Period

Init ==
  /\ now = 0 /\ pc = "poll" /\ nap = 0
  /\ row = -1 /\ set = FALSE

(* Polling, retries and reconnections take time; then the row is stamped.   *)
Write ==
  /\ pc = "poll"
  /\ \E d \in 0 .. MaxLag :
       /\ now + d <= Horizon
       /\ now' = now + d /\ row' = now + d
  /\ pc' = "row" /\ set' = FALSE
  /\ UNCHANGED nap

(* Mutant: sleeps for a period after every row. *)
SleepPeriod ==
  /\ pc = "row"
  /\ \E d \in 0 .. MaxLag :
       now + d <= Horizon /\ now' = now + d
  /\ nap' = Period
  /\ pc' = "asleep"
  /\ UNCHANGED <<row, set>>

(* Writing takes time too, then the sleep is computed. *)
Sleep ==
  /\ pc = "row"
  /\ \E d \in 0 .. MaxLag :
       /\ now + d <= Horizon
       /\ now' = now + d
       /\ nap' = NextSample(now + d) - (now + d)
  /\ pc' = "asleep"
  /\ UNCHANGED <<row, set>>

Tick ==
  /\ pc = "asleep" /\ nap > 0 /\ now < Horizon
  /\ now' = now + 1 /\ nap' = nap - 1
  /\ UNCHANGED <<pc, row, set>>

Wake ==
  /\ pc = "asleep" /\ nap <= 0
  /\ pc' = "poll"
  /\ UNCHANGED <<now, nap, row, set>>

(* The clock is set (external). *)
SetClock ==
  /\ now' \in -Horizon .. Horizon /\ set' = TRUE
  /\ UNCHANGED <<pc, nap, row>>

Next == Write \/ Sleep \/ Tick \/ Wake \/ SetClock

Spec == Init /\ [][Next]_vars
-----------------------------------------------------------------------------
(* time.sleep() gets a positive time (a negative one raises IOError and     *)
(* ends the daemon) of at most a period, or two if the clock was set to     *)
(* before the start (logger.py:148-150).                                    *)
NapBounded ==
  [][pc = "row" /\ pc' = "asleep"
       => /\ nap' > 0 /\ nap' < 2 * Period
          /\ now' >= 0 => nap' <= Period]_vars

(* However late a poll was, the next one is due on a multiple of the period *)
(* again: delays do not add up (logger.py:149).                             *)
OnGrid == pc = "asleep" /\ ~set => (now + nap) % Period = 0

(* Two rows never fall into the same cycle unless the clock was set between *)
(* them: no burst makes up for cycles lost to a reconnection.               *)
OneRowPerCycle ==
  [][pc = "poll" /\ pc' = "row" /\ row >= 0 /\ ~set
       => row' \div Period > row \div Period]_vars
=============================================================================
