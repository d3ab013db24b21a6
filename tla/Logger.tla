------------------------------- MODULE Logger -------------------------------
(***************************************************************************)
(* The data logger daemon, logger.py, from the moment its files are open   *)
(* (line 98) to its death, together with the serial device it polls.      *)
(*                                                                         *)
(* The device (a USB wheel counter, its firmware is a git submodule that   *)
(* is not in the tree) is external: it counts turns on NChan channels,     *)
(* answers "cnt\r" with one line of NChan decimal numbers, may answer      *)
(* late or in two parts, and starts again from zero when it is plugged in. *)
(***************************************************************************)
EXTENDS Integers, Sequences

CONSTANTS NChan,      \* channels the device has
          Base,       \* base the counters are printed in (10; small for TLC)
          MaxCount    \* bound on a counter

ASSUME LoggerAssumption ==
  /\ NChan \in Nat \ {0}
  /\ Base \in Nat \ {0, 1}
  /\ MaxCount \in Nat

VARIABLES
  plugged,    \* /dev/LOGGER* exists
  cnt,        \* the device's counters
  late,       \* at most one line the device has still to deliver
  reset,      \* the device was plugged in after the logger had started
  pc,         \* where the daemon is
  dev, ntry,  \* locals of connect(): a device name is known; tries left
  fdok,       \* the open port still belongs to the plugged device
  s,          \* the last reply, "unbound" before the first one
  nchan,      \* width of the file, 0 until the first accepted reply
  vals_prev,  \* the accepted reply before this one
  first,      \* history: the reply the header was written from
  total,      \* history: per channel, the sum of all rows written
  said        \* "Logger stopped" is in the log

device == <<plugged, cnt, late, reset>>
port   == <<dev, ntry, fdok>>
file   == <<nchan, vals_prev, first, total>>
vars   == <<device, pc, port, s, file, said>>
-----------------------------------------------------------------------------
Lines == Seq(Nat)

Unbound == [kind |-> "unbound", vals |-> <<>>]
Garbage == [kind |-> "garbage", vals |-> <<>>]
Line(l) == [kind |-> "line", vals |-> l]

(* The ends of the daemon: SIGTERM, and the five exceptions nobody catches. *)
Ended == {"exit", "noDevice", "portError", "unboundReply", "emptyReply", "ioError"}

(* Inside connect()'s try block, whose bare except catches SystemExit too.  *)
Connecting == {"find", "open", "nodev"}

(* How readline's 0.5 s timeout can cut a line in two: between numbers      *)
(* (k = 0: nothing came; k = Len(l): only the newline is missing), or       *)
(* between the digits of number k.                                          *)
Cuts(l) ==
  { <<SubSeq(l, 1, k), SubSeq(l, k+1, Len(l))>> : k \in 0 .. Len(l) } \cup
  { <<Append(SubSeq(l, 1, k-1), l[k] \div Base),
      <<l[k] % Base>> \o SubSeq(l, k+1, Len(l))>> :
        k \in {j \in 1 .. Len(l) : l[j] >= Base} }

Init ==
  /\ plugged \in BOOLEAN
  /\ cnt \in [1 .. NChan -> 0 .. MaxCount]
  /\ late = {} /\ reset = FALSE
  /\ pc = "find"
  /\ dev \in BOOLEAN        \* -f given or not
  /\ ntry = 1 /\ fdok = FALSE
  /\ s = Unbound
  /\ nchan = 0 /\ vals_prev = <<>> /\ first = <<>> /\ total = <<>>
  /\ said = FALSE

-----------------------------------------------------------------------------
(* The device (external). *)

Turn(i) ==
  /\ plugged /\ cnt[i] < MaxCount
  /\ cnt' = [cnt EXCEPT ![i] = @ + 1]
  /\ UNCHANGED <<plugged, late, reset, pc, port, s, file, said>>

Unplug ==
  /\ plugged
  /\ plugged' = FALSE /\ late' = {} /\ fdok' = FALSE
  /\ UNCHANGED <<cnt, reset, pc, dev, ntry, s, file, said>>

Plug ==
  /\ ~plugged
  /\ plugged' = TRUE /\ cnt' = [i \in 1 .. NChan |-> 0] /\ reset' = TRUE
  /\ UNCHANGED <<late, pc, port, s, file, said>>

-----------------------------------------------------------------------------
(* connect(dev, ntry) *)

(* Mutant: the tries are not counted down. *)
ConnectFindUncounted ==
  /\ pc = "find"
  /\ dev' = (dev \/ plugged)
  /\ pc' = IF dev' THEN "open" ELSE "nodev"
  /\ UNCHANGED <<device, ntry, fdok, s, file, said>>

(* Mutant: "if ntry > 0" is dropped, so that -1 no longer means for ever. *)
ConnectFindCountsBelow ==
  /\ pc = "find"
  /\ ntry' = ntry - 1
  /\ dev' = (dev \/ plugged)
  /\ pc' = IF dev' THEN "open" ELSE "nodev"
  /\ UNCHANGED <<device, fdok, s, file, said>>

ConnectFind ==
  /\ pc = "find"
  /\ ntry' = IF ntry > 0 THEN ntry - 1 ELSE ntry
  /\ dev' = (dev \/ plugged)
  /\ pc' = IF dev' THEN "open" ELSE "nodev"
  /\ UNCHANGED <<device, fdok, s, file, said>>

ConnectOpened ==
  /\ pc = "open" /\ plugged
  /\ fdok' = TRUE /\ pc' = "settle"
  /\ UNCHANGED <<device, dev, ntry, s, file, said>>

(* serial.Serial raises: no such device, busy, permission. The except       *)
(* branch skips the test of ntry at the end of the loop.                    *)
ConnectRefused ==
  /\ pc = "open"
  /\ dev' = FALSE /\ pc' = "find"
  /\ UNCHANGED <<device, ntry, fdok, s, file, said>>

ConnectNoDevice ==
  /\ pc = "nodev"
  /\ pc' = IF ntry = 0 THEN "noDevice" ELSE "find"
  /\ UNCHANGED <<device, port, s, file, said>>

(* write("echo 0\r"), sleep, flushInput: after the loop, in no try block.   *)
Settle ==
  /\ pc = "settle" /\ fdok
  /\ late' \in {late, {}}
  /\ pc' = IF ntry = -1 THEN "parse" ELSE "poll"
  /\ UNCHANGED <<plugged, cnt, reset, port, s, file, said>>

SettleFails ==
  /\ pc = "settle"
  /\ pc' = "portError"
  /\ UNCHANGED <<device, port, s, file, said>>

-----------------------------------------------------------------------------
(* The sampling loop *)

Accepted == s.kind = "line" /\ (nchan > 0 => Len(s.vals) = nchan)

(* Mutant: a rejected reply is completed with what comes next. *)
ReplyJoined(r, rest) ==
  /\ pc = "poll" /\ fdok
  /\ s' = IF s.kind = "line" /\ ~Accepted
            THEN [r EXCEPT !.vals = s.vals \o @] ELSE r
  /\ late' = rest
  /\ pc' = "parse"
  /\ UNCHANGED <<plugged, cnt, reset, port, file, said>>

Reply(r, rest) ==
  /\ pc = "poll" /\ fdok
  /\ s' = r /\ late' = rest
  /\ pc' = "parse"
  /\ UNCHANGED <<plugged, cnt, reset, port, file, said>>

PollComplete == Reply(Line(cnt), {})

PollGarbled == Reply(Garbage, {})

(* The line stops coming for 0.5 s; readline returns what there is. *)
PollCut == \E c \in Cuts(cnt) : Reply(Line(c[1]), {c[2]})

(* What an earlier poll left behind arrives after this poll's flushInput    *)
(* (which may have caught its beginning) and is taken for the answer.       *)
PollLate == \E l \in late : \E c \in Cuts(l) : Reply(Line(c[2]), {cnt})

PollFails ==
  /\ pc = "poll"
  /\ pc' = "recover"
  /\ UNCHANGED <<device, port, s, file, said>>

(* Mutant: reconnecting tries once, as the first connection does. *)
RecoverOnce ==
  /\ pc = "recover"
  /\ fdok' = FALSE /\ dev' = FALSE /\ ntry' = 1
  /\ pc' = "find"
  /\ UNCHANGED <<device, s, file, said>>

(* Mutant: reconnecting starts a new file header, as starting does. *)
RecoverAfresh ==
  /\ pc = "recover"
  /\ fdok' = FALSE /\ dev' = FALSE /\ ntry' = -1
  /\ nchan' = 0
  /\ pc' = "find"
  /\ UNCHANGED <<device, s, vals_prev, first, total, said>>

(* sr.close(); sleep; connect() with its defaults; s keeps its old value.   *)
Recover ==
  /\ pc = "recover"
  /\ fdok' = FALSE /\ dev' = FALSE /\ ntry' = -1
  /\ pc' = "find"
  /\ UNCHANGED <<device, s, file, said>>

ParseAccept ==
  /\ pc = "parse" /\ Accepted
  /\ pc' = "record"
  /\ UNCHANGED <<device, port, s, file, said>>

(* Mutant: the corrupted reply is parsed again instead of a new one. *)
ParseRejectAgain ==
  /\ pc = "parse" /\ ~Accepted
  /\ pc' = IF s = Unbound THEN "unboundReply" ELSE "parse"
  /\ UNCHANGED <<device, port, s, file, said>>

(* "Corrupted reply string": straight back to polling, without sleeping.    *)
(* The message prints s, which raises when s has no value.                  *)
ParseReject ==
  /\ pc = "parse" /\ ~Accepted
  /\ pc' = IF s = Unbound THEN "unboundReply" ELSE "poll"
  /\ UNCHANGED <<device, port, s, file, said>>

(* The first accepted reply: header, then a row of zeros. *)
RecordFirst ==
  /\ pc = "record" /\ nchan = 0 /\ s.vals # <<>>
  /\ nchan' = Len(s.vals) /\ first' = s.vals /\ vals_prev' = s.vals
  /\ total' = [i \in 1 .. Len(s.vals) |-> 0]
  /\ pc' = "sleep"
  /\ UNCHANGED <<device, port, s, said>>

(* An empty first reply: reduce() of no columns raises TypeError.           *)
RecordEmpty ==
  /\ pc = "record" /\ nchan = 0 /\ s.vals = <<>>
  /\ pc' = "emptyReply"
  /\ UNCHANGED <<device, port, s, file, said>>

(* Mutant: vals_prev is not updated. *)
RecordRowFromFirst ==
  /\ pc = "record" /\ nchan > 0
  /\ total' = [i \in 1 .. nchan |-> total[i] + (s.vals[i] - vals_prev[i])]
  /\ pc' = "sleep"
  /\ UNCHANGED <<device, port, s, nchan, vals_prev, first, said>>

RecordRow ==
  /\ pc = "record" /\ nchan > 0
  /\ total' = [i \in 1 .. nchan |-> total[i] + (s.vals[i] - vals_prev[i])]
  /\ vals_prev' = s.vals
  /\ pc' = "sleep"
  /\ UNCHANGED <<device, port, s, nchan, first, said>>

(* The output file cannot be written (disk full). *)
RecordFails ==
  /\ pc = "record"
  /\ pc' = "ioError"
  /\ UNCHANGED <<device, port, s, file, said>>

Sleep ==
  /\ pc = "sleep"
  /\ pc' = "poll"
  /\ UNCHANGED <<device, port, s, file, said>>

-----------------------------------------------------------------------------
(* SIGTERM: bye() logs "Logger stopped" and raises SystemExit where the     *)
(* daemon is. The two bare excepts swallow it: connect()'s starts the       *)
(* search again, the parser's takes it for a corrupted reply. It ends the   *)
(* daemon everywhere else: "find" also stands for the top of connect()'s    *)
(* loop and its except handler, "parse" for the parser's, where a second    *)
(* exception is not caught.                                                 *)
Terminate ==
  /\ pc \notin Ended
  /\ said' = TRUE
  /\ \/ /\ pc \in Connecting
        /\ dev' = FALSE /\ pc' = "find"
     \/ /\ pc = "parse"
        /\ pc' = IF s = Unbound THEN "unboundReply" ELSE "poll"
        /\ UNCHANGED dev
     \/ /\ pc \notin {"open", "nodev"}
        /\ pc' = "exit"
        /\ UNCHANGED dev
  /\ UNCHANGED <<device, ntry, fdok, s, file>>

Device == Unplug \/ Plug \/ \E i \in 1 .. NChan : Turn(i)

Connect == ConnectFind \/ ConnectOpened \/ ConnectRefused \/ ConnectNoDevice
             \/ Settle \/ SettleFails

Poll == PollComplete \/ PollGarbled \/ PollCut \/ PollLate \/ PollFails

Record == RecordFirst \/ RecordEmpty \/ RecordRow \/ RecordFails

Next == Device \/ Connect \/ Poll \/ Recover \/ ParseAccept \/ ParseReject
          \/ Record \/ Sleep \/ Terminate

Spec == Init /\ [][Next]_vars

(* The daemon keeps running. From the device: a port that is asked for      *)
(* again and again opens and settles, a device that is polled again and     *)
(* again answers in time; a SIGTERM does not hit every single parse.        *)
Fairness ==
  /\ WF_vars(Connect) /\ WF_vars(Poll) /\ WF_vars(Recover)
  /\ WF_vars(ParseReject) /\ WF_vars(Record) /\ WF_vars(Sleep)
  /\ SF_vars(ConnectFind) /\ SF_vars(ConnectNoDevice) /\ SF_vars(ParseAccept)
  /\ SF_vars(ConnectOpened) /\ SF_vars(Settle) /\ SF_vars(PollComplete)

FairSpec == Spec /\ Fairness

-----------------------------------------------------------------------------
TypeOK ==
  /\ plugged \in BOOLEAN
  /\ cnt \in [1 .. NChan -> Nat]
  /\ late \in SUBSET Lines
  /\ reset \in BOOLEAN
  /\ pc \in Connecting \cup Ended \cup
            {"settle", "poll", "recover", "parse", "record", "sleep"}
  /\ dev \in BOOLEAN /\ ntry \in {-1, 0, 1} /\ fdok \in BOOLEAN
  /\ s \in [kind : {"unbound", "garbage", "line"}, vals : Lines]
  /\ nchan \in Nat
  /\ vals_prev \in Lines /\ first \in Lines /\ total \in Seq(Int)
  /\ said \in BOOLEAN

(* The rows of the file account for every count exactly once: corrupted,    *)
(* late and replayed replies, reconnections and swallowed signals included, *)
(* they add up to the last accepted reply minus the first                   *)
(* (logger.py:137-141, the row and the update of vals_prev).                *)
Telescopes ==
  /\ Len(vals_prev) = nchan /\ Len(first) = nchan /\ Len(total) = nchan
  /\ \A i \in 1 .. nchan : total[i] = vals_prev[i] - first[i]

(* A file as wide as the device never runs ahead of it: as long as the      *)
(* device keeps its power, no channel's last accepted value exceeds the     *)
(* device's own counter, whatever was cut, late or replayed.                *)
NeverAhead ==
  nchan = NChan /\ ~reset => \A i \in 1 .. NChan : vals_prev[i] <= cnt[i]

(* Once the header is written the daemon no longer dies for want of a       *)
(* device, of a first reply or of columns: connect() without arguments      *)
(* retries for ever, and the reply replayed after it is a real one.         *)
EstablishedSurvives ==
  nchan > 0 => pc \notin {"noDevice", "unboundReply", "emptyReply"}

(* "Logger stopped" in the log means that the daemon has ended              *)
(* (logger.py:66). The bare excepts break it.                               *)
StoppedIsStopped == said => pc \in Ended

File == INSTANCE Tally WITH width <- nchan, origin <- first, last <- vals_prev,
                            sum <- total, over <- pc \in Ended

(* The daemon implements Tally: it writes the header once, rows of that     *)
(* width only, and nothing after its end (logger.py:130-145).               *)
WritesTally == File!Spec

(* With no device at the start, connect(ntry=1) gives up (logger.py:98).    *)
GivesUpWithoutDevice == []~plugged => <>(pc \in Ended)

(* With a device that stays plugged in and a file of the right width, rows  *)
(* keep coming until the daemon ends: reconnecting is never a dead end.     *)
KeepsRecording ==
  <>[]plugged => (nchan = NChan ~> pc \in Ended \cup {"sleep"})
=============================================================================
