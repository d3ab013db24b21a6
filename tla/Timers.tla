------------------------------- MODULE Timers -------------------------------
(* What the event loop of hostapd promises to a caller of                    *)
(* eloop_register_timeout: the handler runs once, not before its time by the *)
(* wall clock, the earliest one first and one at a time, unless it was       *)
(* cancelled.  How the loop keeps its list, when it sleeps and what its      *)
(* sockets and signals do is not visible here.  EventLoop implements it.     *)
EXTENDS Integers

CONSTANTS Keys,     \* a handler with its two context pointers
          MaxTime   \* bound: the last reading of the clock

VARIABLES now,      \* the wall clock, which may be set
          pending,  \* how many timeouts are registered, by key and time
          serving   \* the timeout whose handler runs, if one does

vars == <<now, pending, serving>>

Entries == [key : Keys, time : 0..MaxTime]
Nothing == [e \in Entries |-> 0]

Init == now = 0 /\ pending = Nothing /\ serving = {}

\* The same handler may be registered more than once, for the same time too.
Register == \E e \in Entries :
  /\ e.time >= now
  /\ pending' = [pending EXCEPT ![e] = @ + 1]
  /\ UNCHANGED <<now, serving>>

Cancel == \E K \in SUBSET Keys :
  /\ pending' = [e \in Entries |-> IF e.key \in K THEN 0 ELSE pending[e]]
  /\ UNCHANGED <<now, serving>>

\* The earliest timeout, once its time has come.
Expire == \E e \in Entries :
  /\ serving = {}
  /\ pending[e] > 0 /\ e.time <= now
  /\ \A f \in Entries : pending[f] > 0 => e.time <= f.time
  /\ pending' = [pending EXCEPT ![e] = @ - 1]
  /\ serving' = {e}
  /\ UNCHANGED now

Return == serving # {} /\ serving' = {} /\ UNCHANGED <<now, pending>>

ClockMoves == now' \in 0..MaxTime /\ UNCHANGED <<pending, serving>>

\* The program ends: whatever is registered is dropped.
End == pending' = Nothing /\ serving' = {} /\ UNCHANGED now

Next == Register \/ Cancel \/ Expire \/ Return \/ ClockMoves \/ End

Spec == Init /\ [][Next]_vars
=============================================================================
