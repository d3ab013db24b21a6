----------------------------- MODULE WebLogger -----------------------------
(***************************************************************************)
(* The web front end, weblogger.py, whose requests Apache's workers run    *)
(* concurrently, the logger daemons it launches (logger.py:70-98 step by   *)
(* step, the rest as far as the front end can tell) and what they share:   *)
(* the pid file, the data files and the process table, in which pids are   *)
(* reused and processes of other programs come and go.                     *)
(***************************************************************************)
EXTENDS Naturals, FiniteSets

CONSTANTS Workers,      \* Apache workers
          Pids,         \* process ids
          Names,        \* names of data files
          MaxRequests,  \* bound on the requests served
          PromptBoot,   \* a daemon is up within the second start() sleeps
          SlowReuse     \* no pid is reused within one request

ASSUME WebLoggerAssumption ==
  /\ {"none", "empty"} \cap Pids = {}
  /\ MaxRequests \in Nat
  /\ PromptBoot \in BOOLEAN /\ SlowReuse \in BOOLEAN

VARIABLES
  pidfile,   \* logger.pid: "none", "empty" or the pid written in it
  proc,      \* process table: "free", "foreign" or a daemon's stage
  out,       \* the data file each daemon was started with
  linked,    \* the daemon's open file is still the one of that name
  term,      \* a SIGTERM is pending
  data,      \* data files: "absent", "empty" or with "rows"
  wpc, op, fn, pid,   \* the workers: place in the code, request, locals
  served,    \* number of requests so far
  strayed    \* history: a SIGTERM went to a process of another program

daemons == <<pidfile, proc, out, linked, term, data>>
workers == <<wpc, op, fn, pid, served, strayed>>
vars    == <<daemons, workers>>
-----------------------------------------------------------------------------
(* The stages of a daemon: logger.py:70-92, 93, 94-95, 96, connect() (98    *)
(* and 118), the sampling loop.                                             *)
Booting == {"boot", "lock", "write", "out"}
Live    == Booting \cup {"connect", "run"}

Daemons(S) == {p \in Pids : proc[p] \in S}

(* Pids a request has read and may still act upon. *)
Held == {pid[w] : w \in {v \in Workers : wpc[v] \in {"proc", "cmd", "kill"}}}

(* A machine that has just booted, with what earlier sessions left behind.  *)
Init ==
  /\ pidfile \in {"none", "empty"} \cup Pids
  /\ proc \in [Pids -> {"free", "foreign"}]
  /\ out = [p \in Pids |-> "none"]
  /\ linked = [p \in Pids |-> FALSE]
  /\ term = [p \in Pids |-> FALSE]
  /\ data \in [Names -> {"absent", "empty", "rows"}]
  /\ wpc = [w \in Workers |-> "idle"]
  /\ op = [w \in Workers |-> "none"]
  /\ fn = [w \in Workers |-> "none"]
  /\ pid = [w \in Workers |-> "none"]
  /\ served = 0
  /\ strayed = FALSE
-----------------------------------------------------------------------------
(* Requests *)

Request(w) ==
  /\ wpc[w] = "idle" /\ served < MaxRequests
  /\ served' = served + 1
  /\ \E o \in {"index", "start", "stop", "delete"}, n \in Names :
       /\ op' = [op EXCEPT ![w] = o]
       /\ fn' = [fn EXCEPT ![w] = n]
       /\ wpc' = [wpc EXCEPT ![w] = IF o = "delete" THEN "unlink" ELSE "read"]
  /\ UNCHANGED <<daemons, pid, strayed>>

Continue(w, at) ==
  wpc' = [wpc EXCEPT ![w] = at] /\ UNCHANGED <<op, fn, pid>>

End(w) ==
  /\ wpc' = [wpc EXCEPT ![w] = "idle"]
  /\ op' = [op EXCEPT ![w] = "none"]
  /\ fn' = [fn EXCEPT ![w] = "none"]
  /\ pid' = [pid EXCEPT ![w] = "none"]

(* What each request does with the verdict of is_running(). *)
NotRunning(w) ==
  \/ op[w] = "index" /\ Continue(w, "stoppedPage")
  \/ op[w] = "start" /\ Continue(w, "exists")
  \/ op[w] = "stop"  /\ Continue(w, "nap")

Running(w) ==
  \/ op[w] = "index" /\ End(w)
  \/ op[w] = "start" /\ Continue(w, "nap")
  \/ op[w] = "stop"  /\ Continue(w, "kill")

(* Mutant: the pid file is read without looking whether it exists. *)
ReadPidBlindly(w) ==
  /\ wpc[w] = "read"
  /\ pid' = [pid EXCEPT ![w] = pidfile]
  /\ wpc' = [wpc EXCEPT ![w] = "proc"]
  /\ UNCHANGED <<daemons, op, fn, served, strayed>>

(* is_running(), lines 8-11 *)
ReadPid(w) ==
  /\ wpc[w] = "read"
  /\ \/ pidfile = "none" /\ NotRunning(w)
     \/ /\ pidfile # "none"
        /\ pid' = [pid EXCEPT ![w] = pidfile]
        /\ wpc' = [wpc EXCEPT ![w] = "proc"]
        /\ UNCHANGED <<op, fn>>
  /\ UNCHANGED <<daemons, served, strayed>>

(* line 12; an empty pid names /proc//cmdline, the kernel's own command     *)
(* line, which is no logger's.                                              *)
CheckProc(w) ==
  /\ wpc[w] = "proc"
  /\ \/ pid[w] = "empty" /\ NotRunning(w)
     \/ pid[w] \in Pids /\ proc[pid[w]] = "free" /\ NotRunning(w)
     \/ pid[w] \in Pids /\ proc[pid[w]] # "free" /\ Continue(w, "cmd")
  /\ UNCHANGED <<daemons, served, strayed>>

(* Mutant: any process of that pid is taken for the logger. *)
ReadCmdAny(w) ==
  /\ wpc[w] = "cmd"
  /\ \/ proc[pid[w]] = "free" /\ (End(w) \/ NotRunning(w))
     \/ proc[pid[w]] # "free" /\ Running(w)
  /\ UNCHANGED <<daemons, served, strayed>>

(* Mutant: the daemon is not recognised by its command line. *)
ReadCmdStrict(w) ==
  /\ wpc[w] = "cmd"
  /\ \/ proc[pid[w]] = "free" /\ (End(w) \/ NotRunning(w))
     \/ proc[pid[w]] # "free" /\ NotRunning(w)
  /\ UNCHANGED <<daemons, served, strayed>>

(* lines 13-17; opening or reading the file of a process that is gone may   *)
(* raise IOError and end the request, or give a line that is no logger's    *)
(* when the process ends between the two.                                   *)
ReadCmd(w) ==
  /\ wpc[w] = "cmd"
  /\ \/ proc[pid[w]] = "free" /\ (End(w) \/ NotRunning(w))
     \/ proc[pid[w]] = "foreign" /\ NotRunning(w)
     \/ proc[pid[w]] \in Live /\ Running(w)
  /\ UNCHANGED <<daemons, served, strayed>>

(* index(), lines 33-41: the page says "Logger is stopped".                 *)
StoppedPage(w) ==
  /\ wpc[w] = "stoppedPage" /\ End(w)
  /\ UNCHANGED <<daemons, served, strayed>>

(* Mutant: the file is not looked for. *)
CheckFileNot(w) ==
  /\ wpc[w] = "exists" /\ Continue(w, "launch")
  /\ UNCHANGED <<daemons, served, strayed>>

(* start(), lines 45-56 *)
CheckFile(w) ==
  /\ wpc[w] = "exists"
  /\ \/ data[fn[w]] # "absent" /\ End(w)
     \/ data[fn[w]] = "absent" /\ Continue(w, "launch")
  /\ UNCHANGED <<daemons, served, strayed>>

(* start(), line 59: the daemon goes its own way after its first fork.      *)
Launch(w) ==
  /\ wpc[w] = "launch"
  /\ \E p \in Daemons({"free"}) :
       /\ SlowReuse => p \notin Held
       /\ proc' = [proc EXCEPT ![p] = "boot"]
       /\ out' = [out EXCEPT ![p] = fn[w]]
  /\ Continue(w, "nap")
  /\ UNCHANGED <<pidfile, linked, term, data, served, strayed>>

(* stop(), line 65. A process that is gone: OSError. One of another program *)
(* may die of it, or not be ours to signal.                                 *)
Kill(w) ==
  /\ wpc[w] = "kill"
  /\ LET p == pid[w] IN
       /\ term' = [term EXCEPT ![p] = @ \/ proc[p] \in Live]
       /\ strayed' = (strayed \/ proc[p] = "foreign")
       /\ IF proc[p] = "free" THEN End(w) ELSE Continue(w, "nap")
  /\ UNCHANGED <<pidfile, proc, out, linked, data, served>>

(* Mutant: start() and stop() do not wait. *)
NapNot(w) ==
  /\ wpc[w] = "nap" /\ End(w)
  /\ UNCHANGED <<daemons, served, strayed>>

(* lines 60 and 66: one second, which is enough to boot, or is not.         *)
Nap(w) ==
  /\ wpc[w] = "nap" /\ End(w)
  /\ PromptBoot => Daemons(Booting) = {}
  /\ UNCHANGED <<daemons, served, strayed>>

(* delete() of a data file, the only files index() links to. line 151 would *)
(* unlink any other file below rootdir too, logger.pid included, if a       *)
(* request named it; such requests are left out.                            *)
Delete(w) ==
  /\ wpc[w] = "unlink" /\ End(w)
  /\ data' = [data EXCEPT ![fn[w]] = "absent"]
  /\ linked' = [p \in Pids |-> linked[p] /\ out[p] # fn[w]]
  /\ UNCHANGED <<pidfile, proc, out, term, served, strayed>>

Work(w) == Request(w) \/ ReadPid(w) \/ CheckProc(w) \/ ReadCmd(w)
             \/ StoppedPage(w) \/ CheckFile(w) \/ Launch(w) \/ Kill(w)
             \/ Nap(w) \/ Delete(w)
-----------------------------------------------------------------------------
(* Daemons *)

Advance(p, from, to) == proc[p] = from /\ proc' = [proc EXCEPT ![p] = to]

Boot(p) ==
  /\ Advance(p, "boot", "lock")
  /\ UNCHANGED <<pidfile, out, linked, term, data, workers>>

TruncatePid(p) ==
  /\ Advance(p, "lock", "write")
  /\ pidfile' = "empty"
  /\ UNCHANGED <<out, linked, term, data, workers>>

(* Mutant: the pid stays in the buffer, the file is never closed. *)
WritePidBuffered(p) ==
  /\ Advance(p, "write", "out")
  /\ UNCHANGED <<pidfile, out, linked, term, data, workers>>

WritePid(p) ==
  /\ Advance(p, "write", "out")
  /\ pidfile' = p
  /\ UNCHANGED <<out, linked, term, data, workers>>

(* open(args.out, 'w'): the file is made, or emptied under whoever has it.  *)
OpenOut(p) ==
  /\ Advance(p, "out", "connect")
  /\ data' = [data EXCEPT ![out[p]] = "empty"]
  /\ linked' = [linked EXCEPT ![p] = TRUE]
  /\ UNCHANGED <<pidfile, out, term, workers>>

Connected(p) ==
  /\ Advance(p, "connect", "run")
  /\ UNCHANGED <<pidfile, out, linked, term, data, workers>>

Disconnected(p) ==
  /\ Advance(p, "run", "connect")
  /\ UNCHANGED <<pidfile, out, linked, term, data, workers>>

Write(p) ==
  /\ proc[p] = "run"
  /\ data' = IF linked[p] THEN [data EXCEPT ![out[p]] = "rows"] ELSE data
  /\ UNCHANGED <<pidfile, proc, out, linked, term, workers>>

(* The process ends; the pid file stays. *)
Gone(p) ==
  /\ proc' = [proc EXCEPT ![p] = "free"]
  /\ out' = [out EXCEPT ![p] = "none"]
  /\ linked' = [linked EXCEPT ![p] = FALSE]
  /\ term' = [term EXCEPT ![p] = FALSE]
  /\ UNCHANGED <<pidfile, data, workers>>

Terminated(p) == proc[p] \in Live /\ term[p] /\ Gone(p)

(* Inside connect()'s and the parser's bare except.                         *)
Swallowed(p) ==
  /\ proc[p] \in {"connect", "run"} /\ term[p]
  /\ term' = [term EXCEPT ![p] = FALSE]
  /\ UNCHANGED <<pidfile, proc, out, linked, data, workers>>

(* An exception nobody catches: no device, the port, the disk.              *)
Dies(p) == proc[p] \in Live /\ Gone(p)

Daemon(p) == Boot(p) \/ TruncatePid(p) \/ WritePid(p) \/ OpenOut(p)
               \/ Connected(p) \/ Disconnected(p) \/ Write(p)
               \/ Terminated(p) \/ Swallowed(p) \/ Dies(p)

(* Other programs (external). *)
ForeignStarts(p) ==
  /\ SlowReuse => p \notin Held
  /\ Advance(p, "free", "foreign")
  /\ UNCHANGED <<pidfile, out, linked, term, data, workers>>

ForeignEnds(p) ==
  /\ Advance(p, "foreign", "free")
  /\ UNCHANGED <<pidfile, out, linked, term, data, workers>>

Next == \/ \E w \in Workers : Work(w)
        \/ \E p \in Pids : Daemon(p) \/ ForeignStarts(p) \/ ForeignEnds(p)

Spec == Init /\ [][Next]_vars
-----------------------------------------------------------------------------
TypeOK ==
  /\ pidfile \in {"none", "empty"} \cup Pids
  /\ proc \in [Pids -> {"free", "foreign"} \cup Live]
  /\ out \in [Pids -> Names \cup {"none"}]
  /\ linked \in [Pids -> BOOLEAN] /\ term \in [Pids -> BOOLEAN]
  /\ data \in [Names -> {"absent", "empty", "rows"}]
  /\ wpc \in [Workers -> {"idle", "read", "proc", "cmd", "stoppedPage",
                           "exists", "launch", "kill", "nap", "unlink"}]
  /\ op \in [Workers -> {"none", "index", "start", "stop", "delete"}]
  /\ fn \in [Workers -> Names \cup {"none"}]
  /\ pid \in [Workers -> {"none", "empty"} \cup Pids]
  /\ \A w \in Workers : /\ wpc[w] = "proc" => pid[w] # "none"
                        /\ wpc[w] \in {"cmd", "kill"} => pid[w] \in Pids
  /\ served \in 0 .. MaxRequests
  /\ strayed \in BOOLEAN

(* At most one logger runs: what start()'s test of is_running()             *)
(* (weblogger.py:44) and the "lock file" (logger.py:57) are for.            *)
Exclusive == \A p, q \in Daemons(Live) : p = q

(* A logger that is up is the one in the pid file, where stop() finds it.   *)
Reachable == \A p \in Daemons({"connect", "run"}) : pidfile = p

(* While "Logger is stopped" (weblogger.py:34) is on its way no logger runs.*)
StoppedPageTrue ==
  (\E w \in Workers : wpc[w] = "stoppedPage") => Daemons(Live) = {}

(* Recorded data are only given up by delete(): no daemon opens a file that *)
(* has rows (weblogger.py:51-53, "ERROR: File already exists").             *)
KeepsData == [][\A n \in Names : data[n] = "rows" => data'[n] # "empty"]_vars

(* stop() signals no process of another program, however stale the pid file *)
(* is, as long as no pid is reused between the check and the kill.          *)
SparesStrangers == ~strayed
=============================================================================
