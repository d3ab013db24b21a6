------------------------------ MODULE EventLoop ------------------------------
(* The event loop of hostapd, src/hostapd/src/utils/eloop.c: the list of     *)
(* timeouts sorted by the wall clock, the tables of sockets, the signals,    *)
(* and eloop_run, which serves all of them in one thread.  Handlers are any  *)
(* code that registers and cancels timeouts, registers and unregisters       *)
(* sockets, takes time, and returns.  The clock may be set at any moment.    *)
(* A signal handler runs between any two steps.                              *)
EXTENDS Integers, Sequences, FiniteSets

CONSTANTS Keys,        \* a handler with its two context pointers
          Delays,      \* what callers of eloop_register_timeout ask for
          Readers, Writers, Exceptions,  \* file descriptors, by event type
          Caught,      \* the signals that come
          SelectFails, \* may select fail for another reason than a signal?
          MaxTime,     \* bound: the last reading of the clock
          MaxTimeouts, \* bound: timeouts registered at a time
          MaxSteps     \* bound: how often the clock is set

ASSUME EventLoopAssumption ==
  /\ Delays \subseteq Nat
  /\ IsFiniteSet(Readers) /\ IsFiniteSet(Writers) /\ IsFiniteSet(Exceptions)
  /\ Caught \subseteq {"SIGHUP", "SIGTERM"}
  /\ MaxTime \in Nat /\ MaxTimeouts \in Nat /\ MaxSteps \in Nat
  /\ SelectFails \in BOOLEAN

VARIABLES now,        \* gettimeofday, in ticks
          steps,      \* how often the clock may still be set
          skew,       \* how far it was set since select was entered, 0 outside
          timeout,    \* eloop.timeout, first to last
          table,      \* eloop.readers, .writers, .exceptions: descriptors
          changed,    \* the flag of the table being dispatched; the flags of the
                      \* others are reset before they are read
          fds,        \* what select has reported and dispatch has still to use
          left,       \* the rest of select's timeout, 0 outside select
          signaled,   \* eloop.signaled # 0
          caught,     \* the signals with signals[i].signaled # 0
          armed,      \* pending_terminate, and with it alarm(2)
          terminate,  \* eloop.terminate
          pc,         \* where eloop_run is
          tab,        \* the table being dispatched
          at,         \* the index of its loop, or of that over the signals
          running,    \* the handler that runs
          fresh       \* history: what handlers of the table being dispatched have
                      \* registered in it

clock == <<now, steps, skew>>
signals == <<signaled, caught, armed, terminate>>
sockets == <<table, changed, fresh>>
place == <<pc, tab, at, running>>
vars == <<clock, timeout, sockets, fds, left, signals, place>>

Tables == <<"readers", "writers", "exceptions">>
TableNames == {"readers", "writers", "exceptions"}
Sockets == [readers |-> Readers, writers |-> Writers, exceptions |-> Exceptions]
Signals == <<"SIGHUP", "SIGTERM">>    \* in the order of their registration
Entries == [key : Keys, time : 0..MaxTime]
Forever == -1                         \* select without a timeout
None == [of |-> "none"]
NoFds == [t \in TableNames |-> {}]
NoTables == [t \in TableNames |-> <<>>]
Registered(t) == {table[t][i] : i \in DOMAIN table[t]}
Running == pc \notin {"over", "killed"}
Handling == pc = "handler"

(* Set-up code registers what it needs before the loop starts.              *)
Init ==
  /\ now = 0 /\ steps = MaxSteps /\ skew = 0
  /\ timeout = <<>>
  /\ table = NoTables /\ changed = FALSE /\ fresh = {}
  /\ fds = NoFds /\ left = 0
  /\ signaled = FALSE /\ caught = {} /\ armed = FALSE /\ terminate = FALSE
  /\ pc = "handler" /\ tab = 1 /\ at = 1 /\ running = [of |-> "main"]

-----------------------------------------------------------------------------
(* The list of timeouts.                                                     *)

\* A new timeout goes before the first one that is later, so after its equals.
\* Mutant: before its equals.
PlaceBeforeEquals(q, e) == {j \in 1..(Len(q) + 1) :
  /\ \A i \in 1..(j - 1) : q[i].time < e.time
  /\ j <= Len(q) => ~(q[j].time < e.time)}

Place(q, e) == {j \in 1..(Len(q) + 1) :
  /\ \A i \in 1..(j - 1) : ~(e.time < q[i].time)
  /\ j <= Len(q) => e.time < q[j].time}

Inserted(q, e, j) == [i \in 1..(Len(q) + 1) |->
  IF i < j THEN q[i] ELSE IF i = j THEN e ELSE q[i - 1]]

\* eloop_register_timeout (a delay past the end of time_t is ignored there).
RegisterTimeout == \E k \in Keys, d \in Delays :
  /\ Handling /\ Len(timeout) < MaxTimeouts /\ now + d <= MaxTime
  /\ LET e == [key |-> k, time |-> now + d]
     IN  \E j \in Place(timeout, e) : timeout' = Inserted(timeout, e, j)
  /\ UNCHANGED <<clock, sockets, fds, left, signals, place>>

\* eloop_cancel_timeout, with ELOOP_ALL_CTX too: all that match are removed,
\* the others keep their order (f lists their places).
CancelTimeout == \E K \in SUBSET Keys :
  LET kept == {i \in DOMAIN timeout : timeout[i].key \notin K}
  IN  /\ Handling /\ kept # DOMAIN timeout
      /\ \E f \in [1..Cardinality(kept) -> kept] :
           /\ \A i, j \in DOMAIN f : i < j => f[i] < f[j]
           /\ timeout' = [i \in DOMAIN f |-> timeout[f[i]]]
      /\ UNCHANGED <<clock, sockets, fds, left, signals, place>>

-----------------------------------------------------------------------------
(* The tables of sockets.                                                    *)

\* A handler of table t runs.
Dispatched(t) == running.of = "sock" /\ t = Tables[tab]

\* Mutant: a caller registers its socket again.
RegisterSockAgain == \E t \in TableNames : \E s \in Sockets[t] :
  /\ Handling /\ Len(table[t]) <= Cardinality(Sockets[t])
  /\ table' = [table EXCEPT ![t] = Append(@, s)]
  /\ changed' = (changed \/ Dispatched(t))
  /\ fresh' = IF Dispatched(t) THEN fresh \cup {s} ELSE fresh
  /\ UNCHANGED <<clock, timeout, fds, left, signals, place>>

RegisterSock == \E t \in TableNames : \E s \in Sockets[t] \ Registered(t) :
  /\ Handling
  /\ table' = [table EXCEPT ![t] = Append(@, s)]
  /\ changed' = (changed \/ Dispatched(t))
  /\ fresh' = IF Dispatched(t) THEN fresh \cup {s} ELSE fresh
  /\ UNCHANGED <<clock, timeout, fds, left, signals, place>>

UnregisterSock == \E t \in TableNames : \E i \in DOMAIN table[t] :
  /\ Handling
  /\ table' = [table EXCEPT ![t] = SubSeq(@, 1, i - 1) \o SubSeq(@, i + 1, Len(@))]
  /\ changed' = (changed \/ Dispatched(t))
  /\ UNCHANGED <<clock, timeout, fresh, fds, left, signals, place>>

-----------------------------------------------------------------------------
(* Time and signals, which come on their own.                                *)

\* Time passes in select, and with it its timeout.  At MaxTime the clock
\* stands, which is the same as setting it back by one.
Elapse ==
  /\ pc = "select" /\ left # 0
  /\ now' = IF now < MaxTime THEN now + 1 ELSE now
  /\ left' = IF left = Forever THEN left ELSE left - 1
  /\ skew' = IF left = Forever THEN skew ELSE skew - (now + 1 - now')
  /\ UNCHANGED <<steps, timeout, sockets, fds, signals, place>>

\* A handler takes time.
Busy ==
  /\ Handling /\ now < MaxTime
  /\ now' = now + 1
  /\ UNCHANGED <<steps, skew, timeout, sockets, fds, left, signals, place>>

SetClock == \E t \in 0..MaxTime :
  /\ Running /\ steps > 0 /\ t # now
  /\ now' = t /\ steps' = steps - 1
  /\ skew' = IF pc = "select" /\ left # Forever THEN skew + t - now ELSE skew
  /\ UNCHANGED <<timeout, sockets, fds, left, signals, place>>

Wakes(p) == pc' = p /\ left' = 0 /\ skew' = 0

\* eloop_handle_signal; in select it is EINTR, elsewhere it changes flags only.
\* Mutant: without the alarm.
SignalUnarmed == \E s \in Caught :
  /\ Running
  /\ signaled' = TRUE /\ caught' = caught \cup {s}
  /\ IF pc = "select" THEN Wakes("signals") ELSE UNCHANGED <<left, skew, pc>>
  /\ UNCHANGED <<now, steps, timeout, sockets, fds, armed, terminate, tab, at, running>>

Signal == \E s \in Caught :
  /\ Running
  /\ signaled' = TRUE /\ caught' = caught \cup {s}
  /\ armed' = (armed \/ s = "SIGTERM")
  /\ IF pc = "select" THEN Wakes("signals") ELSE UNCHANGED <<left, skew, pc>>
  /\ UNCHANGED <<now, steps, timeout, sockets, fds, terminate, tab, at, running>>

\* eloop_handle_alarm: two seconds have passed, asleep or in a handler.
Alarm ==
  /\ pc \in {"select", "handler"} /\ armed
  /\ Wakes("killed") /\ running' = None
  /\ timeout' = <<>> /\ caught' = {} /\ armed' = FALSE
  /\ UNCHANGED <<now, steps, sockets, fds, signaled, terminate, tab, at>>

-----------------------------------------------------------------------------
(* eloop_run.                                                                *)

\* Mutant: a timeout that has passed gives select a negative one.
LaterSigned(e) == e.time - now

Later(e) == IF e.time > now THEN e.time - now ELSE 0

\* The test of the while, and the way into select or out of the loop, after
\* which eloop_destroy drops what is left.
While ==
  /\ pc = "while"
  /\ IF terminate \/ (timeout = <<>> /\ table = NoTables)
     THEN /\ pc' = "over" /\ timeout' = <<>> /\ table' = NoTables
          /\ UNCHANGED left
     ELSE /\ pc' = "select"
          /\ left' = IF timeout = <<>> THEN Forever ELSE Later(timeout[1])
          /\ UNCHANGED <<timeout, table>>
  /\ UNCHANGED <<clock, changed, fresh, fds, signals, tab, at, running>>

\* select returns 0, or the descriptors that are ready.
Expired ==
  /\ pc = "select" /\ left = 0
  /\ Wakes("signals")
  /\ UNCHANGED <<now, steps, timeout, sockets, fds, signals, tab, at, running>>

Ready ==
  /\ pc = "select"
  /\ \E r \in SUBSET Registered("readers"), w \in SUBSET Registered("writers"),
        x \in SUBSET Registered("exceptions") :
       fds' = [readers |-> r, writers |-> w, exceptions |-> x]
  /\ fds' # NoFds
  /\ Wakes("signals")
  /\ UNCHANGED <<now, steps, timeout, sockets, signals, tab, at, running>>

\* Any error but EINTR ends the loop.
SelectError ==
  /\ pc = "select" /\ SelectFails
  /\ Wakes("over") /\ timeout' = <<>> /\ table' = NoTables
  /\ UNCHANGED <<now, steps, changed, fresh, fds, signals, tab, at, running>>

\* eloop_process_pending_signals: its test, and then its loop (Deliver), each
\* signal served in one step with its handler's start. SIGINT is left out:
\* hostapd answers it as it answers SIGTERM.
ProcessSignals ==
  /\ pc = "signals"
  /\ IF signaled
     THEN pc' = "deliver" /\ signaled' = FALSE /\ armed' = FALSE /\ at' = 1
     ELSE pc' = "timers" /\ UNCHANGED <<signaled, armed, at>>
  /\ UNCHANGED <<clock, timeout, sockets, fds, left, caught, terminate, tab, running>>

\* hostapd's handler of SIGTERM calls eloop_terminate.
Deliver ==
  /\ pc = "deliver"
  /\ \/ \E k \in at..Len(Signals) :
          /\ Signals[k] \in caught
          /\ \A j \in at..(k - 1) : Signals[j] \notin caught
          /\ caught' = caught \ {Signals[k]}
          /\ terminate' = (terminate \/ Signals[k] = "SIGTERM")
          /\ pc' = "handler" /\ at' = k + 1
          /\ running' = [of |-> "signal", sig |-> Signals[k]]
     \/ /\ \A k \in at..Len(Signals) : Signals[k] \notin caught
        /\ pc' = "timers" /\ at' = 1
        /\ UNCHANGED <<caught, terminate, running>>
  /\ UNCHANGED <<clock, timeout, sockets, fds, left, signaled, armed, tab>>

\* eloop_sock_table_dispatch begins with table t, or the turn ends after the last.
Begin(t) ==
  /\ changed' = FALSE /\ fresh' = {}
  /\ IF t <= Len(Tables)
     THEN /\ pc' = "dispatch" /\ tab' = t /\ at' = 1
          /\ UNCHANGED fds
     ELSE pc' = "while" /\ fds' = NoFds /\ tab' = 1 /\ at' = 1

AfterTimers == Begin(IF fds = NoFds THEN Len(Tables) + 1 ELSE 1)

\* At most one timeout in a turn; it leaves the list before its handler runs.
\* Mutant: the end of select's timeout is taken for that of the first timeout.
ServeTimeoutBlind ==
  /\ pc = "timers"
  /\ IF timeout # <<>> /\ (timeout[1].time <= now \/ fds = NoFds)
     THEN /\ timeout' = Tail(timeout)
          /\ running' = [of |-> "timer", entry |-> timeout[1]]
          /\ pc' = "handler"
          /\ UNCHANGED <<changed, fresh, fds, tab, at>>
     ELSE AfterTimers /\ UNCHANGED <<timeout, running>>
  /\ UNCHANGED <<clock, table, left, signals>>

ServeTimeout ==
  /\ pc = "timers"
  /\ IF timeout # <<>> /\ timeout[1].time <= now
     THEN /\ timeout' = Tail(timeout)
          /\ running' = [of |-> "timer", entry |-> timeout[1]]
          /\ pc' = "handler"
          /\ UNCHANGED <<changed, fresh, fds, tab, at>>
     ELSE AfterTimers /\ UNCHANGED <<timeout, running>>
  /\ UNCHANGED <<clock, table, left, signals>>

\* The next entry of the table whose descriptor select has reported.
Dispatch ==
  /\ pc = "dispatch"
  /\ LET t == Tables[tab]
         set == {i \in at..Len(table[t]) : table[t][i] \in fds[t]}
     IN  IF set = {} THEN Begin(tab + 1) /\ UNCHANGED running
         ELSE \E i \in set :
                /\ \A j \in set : i <= j
                /\ running' = [of |-> "sock", type |-> t, sock |-> table[t][i]]
                /\ pc' = "handler" /\ at' = i + 1
                /\ UNCHANGED <<changed, fresh, fds, tab>>
  /\ UNCHANGED <<clock, timeout, table, left, signals>>

\* The rest of a dispatch is left out once its table has changed.
\* Mutant: the dispatch goes on whatever happened to its table.
AfterSockOn == pc' = "dispatch" /\ UNCHANGED <<changed, fresh, fds, tab, at>>

AfterSock ==
  IF changed THEN Begin(tab + 1)
  ELSE pc' = "dispatch" /\ UNCHANGED <<changed, fresh, fds, tab, at>>

\* A handler returns to where it was called.
Return ==
  /\ Handling
  /\ running' = None
  /\ \/ running.of = "main" /\ Begin(Len(Tables) + 1)
     \/ running.of = "signal" /\ pc' = "deliver" /\ UNCHANGED <<changed, fresh, fds, tab, at>>
     \/ running.of = "timer" /\ AfterTimers
     \/ running.of = "sock" /\ AfterSock
  /\ UNCHANGED <<clock, timeout, table, left, signals>>

Over == ~Running /\ UNCHANGED vars

Loop == While \/ Expired \/ ProcessSignals \/ Deliver \/ ServeTimeout \/ Dispatch \/ Return
Operation == RegisterTimeout \/ CancelTimeout \/ RegisterSock \/ UnregisterSock

Next ==
  \/ Loop \/ Ready \/ SelectError \/ Operation
  \/ Elapse \/ Busy \/ SetClock \/ Signal \/ Alarm
  \/ Over

Spec == Init /\ [][Next]_vars

(* The thread keeps running and handlers return; time passes, however the    *)
(* loop spends it; the alarm goes off.  Nothing is assumed of the sockets,   *)
(* the signals and what the handlers do.                                     *)
FairSpec == Spec /\ WF_vars(Loop) /\ WF_vars(Return) /\ SF_vars(Elapse \/ Busy) /\ WF_vars(Alarm)

-----------------------------------------------------------------------------
(* Properties.                                                               *)

\* Types.  The list of timeouts is bounded by the callers, the tables hold no
\* descriptor twice.
TypeOK ==
  /\ now \in 0..MaxTime /\ steps \in 0..MaxSteps /\ skew \in -2 * MaxTime..2 * MaxTime
  /\ timeout \in UNION {[1..n -> Entries] : n \in 0..MaxTimeouts}
  /\ \A t \in TableNames : table[t] \in UNION {[1..n -> Sockets[t]] : n \in 0..Cardinality(Sockets[t])}
  /\ changed \in BOOLEAN /\ fresh \subseteq Sockets[Tables[tab]]
  /\ \A t \in TableNames : fds[t] \subseteq Sockets[t]
  /\ left \in {Forever} \cup 0..MaxTime
  /\ signaled \in BOOLEAN /\ caught \subseteq {"SIGHUP", "SIGTERM"}
  /\ armed \in BOOLEAN /\ terminate \in BOOLEAN
  /\ pc \in {"while", "select", "signals", "deliver", "timers", "dispatch", "handler", "over", "killed"}
  /\ tab \in 1..Len(Tables)
  /\ running.of \in {"none", "main", "signal", "timer", "sock"}
  /\ Handling <=> running.of # "none"

\* The loop sleeps until the first of all timeouts, none earlier, by the clock
\* as it was when select was entered: a step of the clock in between, of any
\* size and sign, does not change when it wakes (eloop.c:523-541).  It never
\* sleeps for good while a timeout is registered.
WakesInTime ==
  pc = "select" /\ timeout # <<>> =>
    /\ \A i \in DOMAIN timeout : left <= Later([timeout[i] EXCEPT !.time = @ + skew])
    /\ \E i \in DOMAIN timeout : left = Later([timeout[i] EXCEPT !.time = @ + skew])

\* Whatever handlers, sockets, signals and the clock do, the timeouts are those
\* of Timers: each registration is served at most once, not before its time by
\* the clock of that moment, the earliest first, and never after a cancel.
Promise == INSTANCE Timers WITH
  pending <- [e \in Entries |-> Cardinality({i \in DOMAIN timeout : timeout[i] = e})],
  serving <- IF running.of = "timer" THEN {running.entry} ELSE {}
KeepsTimers == Promise!Spec

\* No handler is called for a descriptor that another handler of the same
\* dispatch has registered: select did not report it, and its handler is to be
\* called when data is available (eloop.h:86-87), or a read would block the
\* loop. The walk ends when its table has changed (eloop.c:213-220).
CallsReported ==
  [][pc = "dispatch" /\ running'.of = "sock" => running'.sock \notin fresh]_vars

\* A registered timeout is served or cancelled at last, even when the sockets
\* are always ready, handlers register new timeouts of no delay, and the clock
\* is set back (eloop.c:541-555).  The fairness of the timers in WpaAuth rests
\* on this.
Pending(k) == \E i \in DOMAIN timeout : timeout[i].key = k
Serves(k) == running.of = "timer" /\ running.entry.key = k
TimeoutServed == \A k \in Keys : Pending(k) ~> ~Pending(k) \/ Serves(k)

\* SIGTERM is answered by its handler or, when the loop sleeps or a handler
\* does not return, by the alarm; it may have come between the processing of
\* signals and select, which does not notice it (eloop.c:410-418, 450-456).
TermAnswered == "SIGTERM" \in caught ~> "SIGTERM" \notin caught \/ pc = "over"
=============================================================================
