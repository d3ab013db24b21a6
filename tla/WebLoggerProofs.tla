-------------------------- MODULE WebLoggerProofs --------------------------
(***************************************************************************)
(* With one Apache worker, and a machine fast enough for a daemon to boot  *)
(* within start()'s second, the pid file does what a lock would: for any   *)
(* pids, file names and number of requests.                                *)
(***************************************************************************)
EXTENDS WebLogger, TLAPS

(* A daemon past its second step is the one the pid file names.             *)
NamedInFile == \A p \in Daemons({"out", "connect", "run"}) : pidfile = p

(* While a daemon boots, the worker that launched it is asleep.             *)
BootsAsleep ==
  \A w \in Workers : Daemons(Booting) # {} => wpc[w] = "nap"

(* The locals of is_running() are never stale.                              *)
FreshPid ==
  \A w \in Workers :
    /\ wpc[w] \in {"proc", "cmd"} => \A p \in Daemons(Live) : pid[w] = p
    /\ wpc[w] \in {"exists", "launch", "stoppedPage"} => Daemons(Live) = {}

(* The file of a daemon that is to open it does not exist.                  *)
FreshFile ==
  /\ \A w \in Workers : wpc[w] = "launch" => data[fn[w]] = "absent"
  /\ \A p \in Daemons(Booting) : data[out[p]] = "absent"

WebInv == /\ TypeOK /\ Exclusive
          /\ NamedInFile /\ BootsAsleep /\ FreshPid /\ FreshFile

LEMMA WebInit == Init => WebInv
<1> SUFFICES ASSUME Init PROVE WebInv
  OBVIOUS
<1>1. TypeOK
  <2>1. served \in 0 .. MaxRequests
    BY WebLoggerAssumption DEF Init
  <2>2. proc \in [Pids -> {"free", "foreign"} \cup Live]
    BY DEF Init, Live, Booting
  <2>3. /\ linked \in [Pids -> BOOLEAN] /\ term \in [Pids -> BOOLEAN]
        /\ strayed \in BOOLEAN
    BY DEF Init
  <2>4. /\ pidfile \in {"none", "empty"} \cup Pids
        /\ out \in [Pids -> Names \cup {"none"}]
        /\ data \in [Names -> {"absent", "empty", "rows"}]
    BY DEF Init
  <2>5. \A w \in Workers : wpc[w] = "idle"
    BY DEF Init
  <2>6. /\ wpc \in [Workers -> {"idle", "read", "proc", "cmd", "stoppedPage",
                              "exists", "launch", "kill", "nap", "unlink"}]
        /\ op \in [Workers -> {"none", "index", "start", "stop", "delete"}]
        /\ fn \in [Workers -> Names \cup {"none"}]
        /\ pid \in [Workers -> {"none", "empty"} \cup Pids]
    BY DEF Init
  <2> QED
    BY <2>1, <2>2, <2>3, <2>4, <2>5, <2>6 DEF TypeOK
<1>2. \A p \in Pids : proc[p] \notin Live
  BY DEF Init, Live, Booting
<1>3. /\ Daemons(Live) = {} /\ Daemons(Booting) = {}
      /\ Daemons({"out", "connect", "run"}) = {}
  BY <1>2 DEF Daemons, Live, Booting
<1>4. \A w \in Workers : wpc[w] = "idle"
  BY DEF Init
<1>5. Exclusive /\ NamedInFile /\ BootsAsleep
  BY <1>3, <1>4 DEF Exclusive, NamedInFile, BootsAsleep
<1>6. FreshPid /\ FreshFile
  BY <1>3, <1>4 DEF FreshPid, FreshFile
<1> QED
  BY <1>1, <1>5, <1>6 DEF WebInv

(* Every step of the type invariant, by the part of the state it writes.    *)
LEMMA WebType == TypeOK /\ [Next]_vars => TypeOK'
<1> SUFFICES ASSUME TypeOK, [Next]_vars PROVE TypeOK'
  OBVIOUS
<1> USE DEF TypeOK, daemons, workers
<1>1. ASSUME NEW w \in Workers, Request(w) PROVE TypeOK'
  BY <1>1, WebLoggerAssumption DEF Request
<1>2. ASSUME NEW w \in Workers, ReadPid(w) PROVE TypeOK'
  BY <1>2, WebLoggerAssumption DEF ReadPid, NotRunning, Continue
<1>3. ASSUME NEW w \in Workers, CheckProc(w) PROVE TypeOK'
  BY <1>3, WebLoggerAssumption DEF CheckProc, NotRunning, Continue
<1>4. ASSUME NEW w \in Workers, ReadCmd(w) PROVE TypeOK'
  BY <1>4 DEF ReadCmd, NotRunning, Running, Continue, End
<1>5. ASSUME NEW w \in Workers, StoppedPage(w) \/ Nap(w) PROVE TypeOK'
  BY <1>5 DEF StoppedPage, Nap, End
<1>6. ASSUME NEW w \in Workers, CheckFile(w) PROVE TypeOK'
  BY <1>6 DEF CheckFile, Continue, End
<1>7. ASSUME NEW w \in Workers, Launch(w) PROVE TypeOK'
  BY <1>7 DEF Launch, Continue, Live, Booting, Daemons
<1>8. ASSUME NEW w \in Workers, Kill(w) PROVE TypeOK'
  BY <1>8 DEF Kill, Continue, End
<1>9. ASSUME NEW w \in Workers, Delete(w) PROVE TypeOK'
  BY <1>9 DEF Delete, End
<1>10. ASSUME NEW p \in Pids, Boot(p) \/ Connected(p) \/ Disconnected(p)
                               \/ ForeignStarts(p) \/ ForeignEnds(p)
       PROVE  TypeOK'
  BY <1>10 DEF Boot, Connected, Disconnected, ForeignStarts, ForeignEnds,
               Advance, Live, Booting
<1>11. ASSUME NEW p \in Pids, TruncatePid(p) \/ WritePid(p) PROVE TypeOK'
  BY <1>11 DEF TruncatePid, WritePid, Advance, Live, Booting
<1>12. ASSUME NEW p \in Pids, OpenOut(p) \/ Write(p) PROVE TypeOK'
  <2>1. CASE OpenOut(p)
    BY <2>1 DEF OpenOut, Advance, Live, Booting
  <2>2. CASE Write(p)
    BY <2>2 DEF Write
  <2> QED
    BY <1>12, <2>1, <2>2
<1>13. ASSUME NEW p \in Pids, Gone(p) PROVE TypeOK'
  BY <1>13 DEF Gone
<1>14. ASSUME NEW p \in Pids, Swallowed(p) PROVE TypeOK'
  BY <1>14 DEF Swallowed
<1>15. CASE UNCHANGED vars
  BY <1>15 DEF vars
<1> HIDE DEF TypeOK
<1> QED
  BY <1>1, <1>2, <1>3, <1>4, <1>5, <1>6, <1>7, <1>8, <1>9, <1>10, <1>11,
     <1>12, <1>13, <1>14, <1>15 DEF Next, Work, Daemon, Terminated, Dies
-----------------------------------------------------------------------------
(* What WebInv adds to the types, daemon by daemon.                         *)
Serial ==
  /\ \A p, q \in Pids : proc[p] \in Live /\ proc[q] \in Live => p = q
  /\ \A p \in Pids :
       /\ proc[p] \in {"out", "connect", "run"} => pidfile = p
       /\ proc[p] \in Booting => data[out[p]] = "absent"
       /\ \A w \in Workers :
            /\ proc[p] \in Booting => wpc[w] = "nap"
            /\ proc[p] \in Live /\ wpc[w] \in {"proc", "cmd"} => pid[w] = p
            /\ proc[p] \in Live
                 => wpc[w] \notin {"exists", "launch", "stoppedPage"}
  /\ \A w \in Workers : wpc[w] = "launch" => data[fn[w]] = "absent"

LEMMA SerialWebInv == WebInv <=> TypeOK /\ Serial
  BY DEF WebInv, Serial, Exclusive, NamedInFile, BootsAsleep, FreshPid,
         FreshFile, Daemons, Live, Booting

(* Requests that launch no daemon.                                          *)
LEMMA SerialWork ==
  ASSUME NEW w, Workers = {w}, TypeOK, Serial, PromptBoot,
         Work(w), ~Launch(w), ~Delete(w)
  PROVE  Serial'
<1>1. CASE Request(w)
  BY <1>1 DEF Request, Serial, TypeOK, daemons, Booting, Live
<1>2. CASE ReadPid(w)
  BY <1>2, WebLoggerAssumption
  DEF ReadPid, NotRunning, Continue, Serial, TypeOK, daemons, Booting, Live
<1>3. CASE CheckProc(w)
  BY <1>3, WebLoggerAssumption
  DEF CheckProc, NotRunning, Continue, Serial, TypeOK, daemons, Booting, Live
<1>4. CASE ReadCmd(w)
  BY <1>4 DEF ReadCmd, NotRunning, Running, Continue, End, Serial, TypeOK,
              daemons, Booting, Live
<1>5. CASE StoppedPage(w)
  BY <1>5 DEF StoppedPage, End, Serial, TypeOK, daemons, Booting, Live
<1>6. CASE CheckFile(w)
  BY <1>6 DEF CheckFile, Continue, End, Serial, TypeOK, daemons, Booting, Live
<1>7. CASE Kill(w)
  BY <1>7 DEF Kill, Continue, End, Serial, TypeOK, Booting, Live
<1>8. CASE Nap(w)
  BY <1>8 DEF Nap, End, Serial, TypeOK, daemons, Daemons, Booting, Live
<1> QED
  BY <1>1, <1>2, <1>3, <1>4, <1>5, <1>6, <1>7, <1>8 DEF Work

(* The one request that does, and the one that unlinks a file.              *)
LEMMA SerialLaunch ==
  ASSUME NEW w, Workers = {w}, TypeOK, Serial, Launch(w) \/ Delete(w)
  PROVE  Serial'
<1>1. CASE Launch(w)
  <2>1. PICK p \in Pids : /\ proc' = [proc EXCEPT ![p] = "boot"]
                          /\ out' = [out EXCEPT ![p] = fn[w]]
    BY <1>1 DEF Launch, Daemons
  <2>2. /\ wpc' = [wpc EXCEPT ![w] = "nap"] /\ wpc[w] = "launch"
        /\ UNCHANGED <<pidfile, data, fn, pid>>
    BY <1>1 DEF Launch, Continue
  <2>3. \A q \in Pids : proc[q] \notin Live
    BY <2>2 DEF Serial
  <2>4. \A q \in Pids : proc'[q] \in Live => q = p
    BY <2>1, <2>3 DEF TypeOK
  <2>5. proc'[p] = "boot" /\ out'[p] = fn[w] /\ wpc'[w] = "nap"
    BY <2>1, <2>2 DEF TypeOK
  <2>6. data'[out'[p]] = "absent"
    BY <2>2, <2>5 DEF Serial
  <2> QED
    BY <2>2, <2>4, <2>5, <2>6 DEF Serial, Booting, Live
<1>2. CASE Delete(w)
  <2>1. wpc[w] = "unlink" /\ wpc'[w] = "idle" /\ UNCHANGED <<pidfile, proc, out>>
    BY <1>2 DEF Delete, End, TypeOK
  <2>2. \A p \in Pids : proc[p] \notin Booting
    BY <2>1 DEF Serial
  <2> QED
    BY <2>1, <2>2 DEF Serial
<1> QED
  BY <1>1, <1>2

(* Steps of a daemon and of other programs.                                 *)
LEMMA SerialDaemon ==
  ASSUME TypeOK, Serial, NEW p \in Pids,
         Daemon(p) \/ ForeignStarts(p) \/ ForeignEnds(p)
  PROVE  Serial'
<1> USE DEF TypeOK, workers, Booting, Live, Advance
<1>1. CASE Boot(p) \/ Connected(p) \/ ForeignStarts(p) \/ ForeignEnds(p)
  BY <1>1 DEF Boot, Connected, ForeignStarts, ForeignEnds, Serial
<1>2. CASE Disconnected(p)
  BY <1>2 DEF Disconnected, Serial
<1>3. CASE TruncatePid(p)
  BY <1>3 DEF TruncatePid, Serial
<1>4. CASE WritePid(p)
  BY <1>4 DEF WritePid, Serial
<1>5. CASE OpenOut(p)
  BY <1>5 DEF OpenOut, Serial
<1>6. CASE Write(p)
  <2>1. proc[p] = "run" /\ UNCHANGED <<pidfile, proc, out, wpc, op, fn, pid>>
    BY <1>6 DEF Write
  <2>2. /\ \A q \in Pids : proc[q] \notin Booting
        /\ \A w \in Workers : wpc[w] # "launch"
    BY <2>1 DEF Serial
  <2> QED
    BY <2>1, <2>2 DEF Serial
<1>7. CASE Gone(p)
  BY <1>7 DEF Gone, Serial
<1>8. CASE Swallowed(p)
  BY <1>8 DEF Swallowed, Serial
<1> HIDE DEF TypeOK
<1> QED
  BY <1>1, <1>2, <1>3, <1>4, <1>5, <1>6, <1>7, <1>8 DEF Daemon, Terminated, Dies

(* One worker, prompt boots: WebInv is an invariant.                        *)
LEMMA SerialInvariant ==
  ASSUME NEW w, Workers = {w}, PromptBoot
  PROVE  Spec => []WebInv
<1>1. WebInv /\ [Next]_vars => WebInv'
  <2> SUFFICES ASSUME WebInv, [Next]_vars PROVE WebInv'
    OBVIOUS
  <2>1. TypeOK /\ Serial /\ TypeOK'
    BY SerialWebInv, WebType
  <2>2. Serial'
    <3>1. CASE Work(w)
      BY <2>1, <3>1, SerialWork, SerialLaunch
    <3>2. CASE \E p \in Pids : Daemon(p) \/ ForeignStarts(p) \/ ForeignEnds(p)
      BY <2>1, <3>2, SerialDaemon
    <3>3. CASE UNCHANGED vars
      BY <2>1, <3>3 DEF vars, daemons, workers, Serial
    <3> QED
      BY <3>1, <3>2, <3>3 DEF Next
  <2>3. WebInv' <=> TypeOK' /\ Serial'
    BY DEF WebInv, Serial, Exclusive, NamedInFile, BootsAsleep, FreshPid,
           FreshFile, Daemons, Live, Booting
  <2> QED
    BY <2>1, <2>2, <2>3
<1> QED
  BY WebInit, <1>1, PTL DEF Spec
-----------------------------------------------------------------------------
(* At most one logger runs (weblogger.py:44, logger.py:57).                 *)
THEOREM OneLogger ==
  ASSUME NEW w, Workers = {w}, PromptBoot
  PROVE  Spec => []Exclusive
<1>1. WebInv => Exclusive
  BY DEF WebInv
<1> QED
  BY <1>1, SerialInvariant, PTL

(* A logger that is up is the one stop() finds (weblogger.py:63-65).        *)
THEOREM StopFinds ==
  ASSUME NEW w, Workers = {w}, PromptBoot
  PROVE  Spec => []Reachable
<1>1. WebInv => Reachable
  BY DEF WebInv, NamedInFile, Reachable, Daemons
<1> QED
  BY <1>1, SerialInvariant, PTL

(* The page "Logger is stopped" (weblogger.py:34) is true when it is made.  *)
THEOREM PageTrue ==
  ASSUME NEW w, Workers = {w}, PromptBoot
  PROVE  Spec => []StoppedPageTrue
<1>1. WebInv => StoppedPageTrue
  BY DEF WebInv, FreshPid, StoppedPageTrue
<1> QED
  BY <1>1, SerialInvariant, PTL

(* Only delete() gives up recorded data (weblogger.py:51, logger.py:96).    *)
THEOREM DataKept ==
  ASSUME NEW w, Workers = {w}, PromptBoot
  PROVE  Spec => KeepsData
<1>1. WebInv /\ [Next]_vars => [\A n \in Names : data[n] = "rows" => data'[n] # "empty"]_vars
  <2> SUFFICES ASSUME WebInv, Next, NEW n \in Names, data[n] = "rows"
               PROVE  data'[n] # "empty"
    OBVIOUS
  <2>1. TypeOK /\ Serial
    BY SerialWebInv
  <2>2. CASE UNCHANGED data
    BY <2>2
  <2>3. ASSUME NEW v \in Workers, Delete(v) PROVE data'[n] # "empty"
    BY <2>1, <2>3 DEF Delete, TypeOK
  <2>4. ASSUME NEW p \in Pids, OpenOut(p) PROVE data'[n] # "empty"
    <3>1. data[out[p]] = "absent"
      BY <2>1, <2>4 DEF OpenOut, Advance, Serial, Booting
    <3>2. out[p] # n
      BY <3>1
    <3> QED
      BY <2>1, <2>4, <3>2 DEF OpenOut, TypeOK
  <2>5. ASSUME NEW p \in Pids, Write(p) PROVE data'[n] # "empty"
    BY <2>1, <2>5 DEF Write, TypeOK
  <2> QED
    BY <2>2, <2>3, <2>4, <2>5
    DEF Next, Work, Request, ReadPid, CheckProc, ReadCmd, StoppedPage,
        CheckFile, Launch, Kill, Nap, Daemon, Boot, TruncatePid, WritePid,
        Connected, Disconnected, Terminated, Swallowed, Dies, Gone,
        ForeignStarts, ForeignEnds, daemons
<1> QED
  BY <1>1, SerialInvariant, PTL DEF Spec, KeepsData
-----------------------------------------------------------------------------
(* The values of every variable, for any number of workers.                 *)
THEOREM WebTypes == Spec => []TypeOK
<1>1. Init => TypeOK
  BY WebInit DEF WebInv
<1> QED
  BY <1>1, WebType, PTL DEF Spec

(* What a worker is about to signal was a logger when it looked, and its    *)
(* pid has not been given to another program since.                         *)
KillsLoggers == \A w \in Workers : wpc[w] = "kill" => proc[pid[w]] # "foreign"

StrangerInv == SparesStrangers /\ KillsLoggers

(* A worker's steps; only ReadCmd leads to "kill", and only from a logger.  *)
LEMMA StrangerWork ==
  ASSUME TypeOK, StrangerInv, NEW w \in Workers, Work(w)
  PROVE  StrangerInv'
<1> USE DEF StrangerInv, SparesStrangers, KillsLoggers, TypeOK, daemons
<1>1. CASE Request(w)
  BY <1>1 DEF Request
<1>2. CASE ReadPid(w) \/ CheckProc(w)
  BY <1>2 DEF ReadPid, CheckProc, NotRunning, Continue
<1>3. CASE ReadCmd(w)
  BY <1>3 DEF ReadCmd, NotRunning, Running, Continue, End, Live, Booting
<1>4. CASE StoppedPage(w) \/ CheckFile(w) \/ Nap(w) \/ Delete(w)
  BY <1>4 DEF StoppedPage, CheckFile, Nap, Delete, Continue, End
<1>5. CASE Launch(w)
  <2>1. PICK p \in Pids : proc' = [proc EXCEPT ![p] = "boot"]
    BY <1>5 DEF Launch, Daemons
  <2>2. \A q \in Pids : proc'[q] = "foreign" => proc[q] = "foreign"
    BY <2>1
  <2> QED
    BY <1>5, <2>2 DEF Launch, Continue
<1>6. CASE Kill(w)
  BY <1>6 DEF Kill, Continue, End
<1> QED
  BY <1>1, <1>2, <1>3, <1>4, <1>5, <1>6 DEF Work

(* A daemon never becomes another program; another program takes a pid only *)
(* when no request still holds it.                                          *)
LEMMA StrangerProcesses ==
  ASSUME SlowReuse, TypeOK, StrangerInv, NEW p \in Pids,
         Daemon(p) \/ ForeignStarts(p) \/ ForeignEnds(p)
  PROVE  StrangerInv'
<1>1. UNCHANGED <<wpc, pid, strayed>>
  BY DEF Daemon, Boot, TruncatePid, WritePid, OpenOut, Connected, Disconnected,
         Write, Terminated, Swallowed, Dies, Gone, ForeignStarts, ForeignEnds,
         workers
<1>2. ASSUME NEW w \in Workers, wpc[w] = "kill"
      PROVE  proc'[pid[w]] # "foreign"
  <2>1. pid[w] \in Pids /\ proc[pid[w]] # "foreign"
    BY <1>2 DEF TypeOK, StrangerInv, KillsLoggers
  <2>2. CASE Daemon(p)
    BY <2>1, <2>2
    DEF TypeOK, Daemon, Boot, TruncatePid, WritePid, OpenOut, Connected,
        Disconnected, Write, Terminated, Swallowed, Dies, Gone, Advance
  <2>3. CASE ForeignStarts(p)
    <3>1. p # pid[w]
      BY <1>2, <2>3 DEF ForeignStarts, Held
    <3> QED
      BY <2>1, <2>3, <3>1 DEF ForeignStarts, Advance, TypeOK
  <2>4. CASE ForeignEnds(p)
    BY <2>1, <2>4 DEF ForeignEnds, Advance, TypeOK
  <2> QED
    BY <2>2, <2>3, <2>4
<1> QED
  BY <1>1, <1>2 DEF StrangerInv, SparesStrangers, KillsLoggers

(* stop() signals no other program (weblogger.py:65) while no pid is reused *)
(* within a request: for any number of workers, however slow the daemons.   *)
THEOREM StrangersSpared ==
  ASSUME SlowReuse
  PROVE  Spec => []SparesStrangers
<1>1. Init => StrangerInv
  BY DEF Init, StrangerInv, SparesStrangers, KillsLoggers
<1>2. TypeOK /\ StrangerInv /\ [Next]_vars => StrangerInv'
  <2> SUFFICES ASSUME TypeOK, StrangerInv, [Next]_vars PROVE StrangerInv'
    OBVIOUS
  <2>1. CASE UNCHANGED vars
    BY <2>1 DEF vars, daemons, workers, StrangerInv, SparesStrangers,
                KillsLoggers
  <2> QED
    BY <2>1, StrangerWork, StrangerProcesses DEF Next
<1>3. StrangerInv => SparesStrangers
  BY DEF StrangerInv
<1> QED
  BY <1>1, <1>2, <1>3, WebTypes, PTL DEF Spec
=============================================================================
