---------------------------- MODULE LoggerProofs ----------------------------
(***************************************************************************)
(* What Logger.tla promises for every number of channels, base and bound:  *)
(* one inductive invariant, LoggerInv, and the theorems it yields.         *)
(***************************************************************************)
EXTENDS Logger, SequenceTheorems, TLAPS

(* A line that can be taken for the whole device is no wider than it, and,  *)
(* if it has every channel, holds values the counters have reached.         *)
Plausible(l) ==
  /\ Len(l) <= NChan
  /\ Len(l) = NChan => \A i \in 1 .. NChan : l[i] <= cnt[i]

(* What is in flight, in s and in vals_prev is plausible while the device   *)
(* keeps its power.                                                         *)
AllPlausible ==
  ~reset =>
    /\ \A l \in late : Plausible(l)
    /\ s.kind = "line" => Plausible(s.vals)
    /\ nchan > 0 => Plausible(vals_prev)

(* A reply is recorded only after the parser accepted it.                   *)
RecordsAccepted == pc = "record" => Accepted

(* Once there is a file, s has been bound and connect() runs with ntry=-1.  *)
Established ==
  nchan > 0 => /\ s.kind # "unbound"
               /\ pc \in Connecting => ntry = -1
               /\ pc \notin {"noDevice", "unboundReply", "emptyReply"}

LoggerInv ==
  TypeOK /\ Telescopes /\ RecordsAccepted /\ Established /\ AllPlausible
-----------------------------------------------------------------------------
(* The two parts of a number cut between its digits do not exceed it.       *)
LEMMA CutNumber ==
  ASSUME NEW x \in Nat
  PROVE  /\ x \div Base \in Nat /\ x \div Base <= x
         /\ x % Base \in Nat /\ x % Base <= x
<1> DEFINE q == x \div Base
           r == x % Base
<1>1. Base \in Nat /\ Base > 0
  BY LoggerAssumption
<1>2. q \in Int /\ r \in 0 .. Base - 1 /\ x = Base * q + r
  BY <1>1
<1>3. q >= 0
  BY <1>1, <1>2
<1>4. Base * q >= q
  BY <1>1, <1>2, <1>3
<1> HIDE DEF q, r
<1>5. q <= x /\ r <= x /\ q \in Nat /\ r \in Nat
  BY <1>1, <1>2, <1>3, <1>4
<1> QED
  BY <1>5 DEF q, r

(* Both parts of a cut line are lines no longer than it; a part as long as  *)
(* the line exceeds it nowhere.                                             *)
LEMMA CutParts ==
  ASSUME NEW l \in Lines, NEW c \in Cuts(l), NEW i \in {1, 2}
  PROVE  /\ c[i] \in Lines
         /\ Len(c[i]) <= Len(l)
         /\ Len(c[i]) = Len(l) => \A j \in 1 .. Len(l) : c[i][j] <= l[j]
<1>1. Len(l) \in Nat /\ \A j \in 1 .. Len(l) : l[j] \in Nat
  BY DEF Lines
<1>2. ASSUME NEW k \in 0 .. Len(l)
      PROVE  /\ SubSeq(l, 1, k) \in Seq(Nat) /\ Len(SubSeq(l, 1, k)) = k
             /\ \A j \in 1 .. k : SubSeq(l, 1, k)[j] = l[j]
  BY <1>1, SubSeqProperties
<1>3. ASSUME NEW k \in 0 .. Len(l)
      PROVE  /\ SubSeq(l, k+1, Len(l)) \in Seq(Nat)
             /\ Len(SubSeq(l, k+1, Len(l))) = Len(l) - k
             /\ \A j \in 1 .. Len(l) - k : SubSeq(l, k+1, Len(l))[j] = l[k+j]
  <2>1. k + 1 \in Int /\ Len(l) \in Int /\ \A j \in k+1 .. Len(l) : l[j] \in Nat
    BY <1>1
  <2>2. /\ SubSeq(l, k+1, Len(l)) \in Seq(Nat)
        /\ Len(SubSeq(l, k+1, Len(l)))
              = IF k+1 <= Len(l) THEN Len(l) - (k+1) + 1 ELSE 0
        /\ \A j \in 1 .. Len(l) - (k+1) + 1 :
              SubSeq(l, k+1, Len(l))[j] = l[k+1+j-1]
    BY <2>1, SubSeqProperties
  <2> QED
    BY <1>1, <2>2
<1>4. CASE \E k \in 0 .. Len(l) :
             c = <<SubSeq(l, 1, k), SubSeq(l, k+1, Len(l))>>
  <2>1. PICK k \in 0 .. Len(l) :
             c = <<SubSeq(l, 1, k), SubSeq(l, k+1, Len(l))>>
    BY <1>4
  <2>2. c[1] = SubSeq(l, 1, k) /\ c[2] = SubSeq(l, k+1, Len(l))
    BY <2>1
  <2>3. CASE i = 1
    <3>1. /\ c[i] \in Lines /\ Len(c[i]) = k
          /\ \A j \in 1 .. k : c[i][j] = l[j]
      BY <1>2, <2>2, <2>3 DEF Lines
    <3> QED
      BY <1>1, <3>1
  <2>4. CASE i = 2
    <3>1. /\ c[i] \in Lines /\ Len(c[i]) = Len(l) - k
          /\ \A j \in 1 .. Len(l) - k : c[i][j] = l[k+j]
      BY <1>3, <2>2, <2>4 DEF Lines
    <3>2. CASE k = 0
      BY <1>1, <3>1, <3>2
    <3>3. CASE k > 0
      BY <1>1, <3>1, <3>3
    <3> QED
      BY <3>2, <3>3
  <2> QED
    BY <2>3, <2>4
<1>5. CASE \E k \in {j \in 1 .. Len(l) : l[j] >= Base} :
             c = <<Append(SubSeq(l, 1, k-1), l[k] \div Base),
                   <<l[k] % Base>> \o SubSeq(l, k+1, Len(l))>>
  <2>1. PICK k \in 1 .. Len(l) :
             c = <<Append(SubSeq(l, 1, k-1), l[k] \div Base),
                   <<l[k] % Base>> \o SubSeq(l, k+1, Len(l))>>
    BY <1>5
  <2>2. /\ l[k] \div Base \in Nat /\ l[k] \div Base <= l[k]
        /\ l[k] % Base \in Nat /\ l[k] % Base <= l[k]
    BY <1>1, CutNumber
  <2> DEFINE d == l[k] \div Base
             m == l[k] % Base
             p == SubSeq(l, 1, k-1)
             t == SubSeq(l, k+1, Len(l))
  <2>3. c[1] = Append(p, d) /\ c[2] = <<m>> \o t
    BY <2>1
  <2>4. p \in Seq(Nat) /\ Len(p) = k - 1 /\ \A j \in 1 .. k - 1 : p[j] = l[j]
    <3>1. k - 1 \in 0 .. Len(l)
      BY <1>1
    <3> QED
      BY <3>1, <1>2
  <2>5. t \in Seq(Nat) /\ Len(t) = Len(l) - k
        /\ \A j \in 1 .. Len(l) - k : t[j] = l[k+j]
    BY <1>1, <1>3
  <2>6. d \in Nat /\ d <= l[k] /\ m \in Nat /\ m <= l[k]
    BY <2>2
  <2> HIDE DEF d, m, p, t
  <2>7. CASE i = 1
    <3>1. /\ c[1] \in Seq(Nat) /\ Len(c[1]) = k
          /\ \A j \in 1 .. k - 1 : c[1][j] = l[j]
          /\ c[1][k] = d
      <4>1. /\ Append(p, d) \in Seq(Nat) /\ Len(Append(p, d)) = Len(p) + 1
            /\ \A j \in 1 .. Len(p) : Append(p, d)[j] = p[j]
            /\ Append(p, d)[Len(p) + 1] = d
        BY <2>4, <2>6, AppendProperties
      <4> QED
        BY <4>1, <2>3, <2>4
    <3> QED
      BY <1>1, <2>6, <2>7, <3>1 DEF Lines
  <2>8. CASE i = 2
    <3>1. <<m>> \in Seq(Nat) /\ Len(<<m>>) = 1 /\ <<m>>[1] = m
      BY <2>6
    <3>2. /\ <<m>> \o t \in Seq(Nat)
          /\ Len(<<m>> \o t) = 1 + Len(t)
          /\ \A j \in 1 .. 1 + Len(t) :
                (<<m>> \o t)[j] = IF j <= 1 THEN <<m>>[j] ELSE t[j - 1]
      BY <2>5, <3>1, ConcatProperties, ZenonT(30)
    <3>3. c[2] \in Seq(Nat) /\ Len(c[2]) = 1 + (Len(l) - k)
      BY <2>3, <2>5, <3>2
    <3>4. ASSUME k = 1, NEW j \in 1 .. Len(l)
          PROVE  c[2][j] <= l[j]
      <4>1. CASE j = 1
        BY <1>1, <2>3, <2>5, <2>6, <3>1, <3>2, <3>4, <4>1
      <4>2. CASE j > 1
        <5>1. c[2][j] = t[j - 1]
          BY <1>1, <2>3, <2>5, <3>2, <3>4, <4>2
        <5>2. t[j - 1] = l[j]
          BY <1>1, <2>5, <3>4, <4>2
        <5> QED
          BY <1>1, <5>1, <5>2
      <4> QED
        BY <4>1, <4>2
    <3> QED
      BY <1>1, <2>8, <3>3, <3>4 DEF Lines
  <2> QED
    BY <2>7, <2>8
<1> QED
  BY <1>4, <1>5 DEF Cuts

(* Both parts of a cut plausible line are plausible.                        *)
LEMMA CutPlausible ==
  ASSUME NEW l \in Lines, cnt \in [1 .. NChan -> Nat], Plausible(l),
         NEW c \in Cuts(l), NEW i \in {1, 2}
  PROVE  Plausible(c[i])
<1>1. /\ c[i] \in Lines /\ Len(c[i]) <= Len(l)
      /\ Len(c[i]) = Len(l) => \A j \in 1 .. Len(l) : c[i][j] <= l[j]
  BY CutParts
<1>2. Len(l) \in Nat /\ Len(c[i]) \in Nat /\ NChan \in Nat
  BY <1>1, LoggerAssumption DEF Lines
<1>3. ASSUME Len(c[i]) = NChan, NEW j \in 1 .. NChan
      PROVE  c[i][j] <= cnt[j]
  <2>1. Len(l) = NChan
    BY <1>1, <1>2, <1>3 DEF Plausible
  <2>2. c[i][j] <= l[j] /\ l[j] <= cnt[j]
    BY <1>1, <1>3, <2>1 DEF Plausible
  <2>3. l[j] \in Nat /\ c[i][j] \in Nat
    BY <1>1, <1>3, <2>1, ElementOfSeq DEF Lines
  <2>4. cnt[j] \in Nat
    OBVIOUS
  <2> QED
    BY <2>2, <2>3, <2>4
<1>4. Len(l) <= NChan
  BY DEF Plausible
<1>5. Len(c[i]) <= NChan
  BY <1>1, <1>2, <1>4
<1> QED
  BY <1>3, <1>5 DEF Plausible

(* Turning wheels keep plausible lines plausible.                           *)
LEMMA PlausibleTurn ==
  ASSUME NEW l \in Lines, TypeOK, Plausible(l), NEW i \in 1 .. NChan, Turn(i)
  PROVE  Plausible(l)'
<1>1. cnt \in [1 .. NChan -> Nat] /\ cnt' = [cnt EXCEPT ![i] = @ + 1]
  BY DEF TypeOK, Turn
<1>2. ASSUME Len(l) = NChan, NEW j \in 1 .. NChan
      PROVE  l[j] <= cnt'[j]
  <2>1. l[j] <= cnt[j] /\ l[j] \in Nat
    BY <1>2 DEF Plausible, Lines
  <2>2. cnt[j] <= cnt'[j] /\ cnt[j] \in Nat /\ cnt'[j] \in Nat
    BY <1>1
  <2> QED
    BY <2>1, <2>2
<1> QED
  BY <1>2 DEF Plausible

(* The answer of the moment is plausible.                                   *)
LEMMA PlausibleNow ==
  ASSUME TypeOK
  PROVE  cnt \in Lines /\ Plausible(cnt)
<1>1. NChan \in Nat /\ cnt \in [1 .. NChan -> Nat]
  BY LoggerAssumption DEF TypeOK
<1>2. cnt \in Lines /\ Len(cnt) = NChan
  BY <1>1 DEF Lines
<1>3. \A i \in 1 .. NChan : cnt[i] \in Nat
  BY <1>1
<1> QED
  BY <1>1, <1>2, <1>3 DEF Plausible
-----------------------------------------------------------------------------
(* The invariant holds initially.                                           *)
LEMMA LoggerInit == Init => LoggerInv
<1> SUFFICES ASSUME Init PROVE LoggerInv
  OBVIOUS
<1>1. TypeOK
  <2>1. <<>> \in Lines /\ <<>> \in Seq(Int)
    BY DEF Lines
  <2>2. cnt \in [1 .. NChan -> Nat]
    BY LoggerAssumption DEF Init
  <2> QED
    BY <2>1, <2>2 DEF Init, TypeOK, Connecting, Unbound
<1>2. Telescopes
  BY DEF Init, Telescopes
<1>3. RecordsAccepted /\ Established /\ AllPlausible
  BY DEF Init, RecordsAccepted, Established, AllPlausible, Unbound
<1> QED
  BY <1>1, <1>2, <1>3 DEF LoggerInv
-----------------------------------------------------------------------------
(* Every step keeps the types.                                              *)
LEMMA TypeStep == LoggerInv /\ [Next]_vars => TypeOK'
<1> SUFFICES ASSUME LoggerInv, [Next]_vars PROVE TypeOK'
  OBVIOUS
<1> USE DEF LoggerInv, device, port, file
<1>1. CASE Unplug
  BY <1>1 DEF TypeOK, Unplug
<1>2. CASE Plug
  <2>1. [i \in 1 .. NChan |-> 0] \in [1 .. NChan -> Nat]
    OBVIOUS
  <2> QED
    BY <1>2, <2>1 DEF TypeOK, Plug
<1>3. ASSUME NEW i \in 1 .. NChan, Turn(i) PROVE TypeOK'
  BY <1>3 DEF TypeOK, Turn
<1>4. CASE Connect
  <2>1. CASE ConnectFind
    BY <2>1 DEF TypeOK, ConnectFind, Connecting
  <2>2. CASE ConnectOpened \/ ConnectRefused \/ ConnectNoDevice
    BY <2>2 DEF TypeOK, ConnectOpened, ConnectRefused, ConnectNoDevice,
                Connecting, Ended
  <2>3. CASE Settle \/ SettleFails
    BY <2>3 DEF TypeOK, Settle, SettleFails, Ended
  <2> QED
    BY <1>4, <2>1, <2>2, <2>3 DEF Connect
<1>5. CASE PollComplete \/ PollGarbled
  <2>1. cnt \in Lines /\ <<>> \in Lines
    BY PlausibleNow DEF Lines
  <2> QED
    BY <1>5, <2>1 DEF TypeOK, PollComplete, PollGarbled, Reply, Line, Garbage
<1>6. CASE PollCut
  <2>1. PICK c \in Cuts(cnt) : Reply(Line(c[1]), {c[2]})
    BY <1>6 DEF PollCut
  <2>2. c[1] \in Lines /\ c[2] \in Lines
    BY PlausibleNow, CutParts
  <2> QED
    BY <2>1, <2>2 DEF TypeOK, Reply, Line
<1>7. CASE PollLate
  <2>1. PICK l \in late : \E c \in Cuts(l) : Reply(Line(c[2]), {cnt})
    BY <1>7 DEF PollLate
  <2>2. PICK c \in Cuts(l) : Reply(Line(c[2]), {cnt})
    BY <2>1
  <2>3. l \in Lines
    BY DEF TypeOK
  <2>4. c[2] \in Lines /\ cnt \in Lines
    BY <2>3, PlausibleNow, CutParts
  <2> QED
    BY <2>2, <2>4 DEF TypeOK, Reply, Line
<1>8. CASE PollFails \/ Recover \/ ParseAccept \/ ParseReject \/ Sleep
  BY <1>8 DEF TypeOK, PollFails, Recover, ParseAccept, ParseReject, Sleep,
              Connecting, Ended
<1>9. CASE RecordFirst
  <2>1. s.vals \in Lines /\ Len(s.vals) \in Nat
    BY DEF TypeOK, Lines
  <2>2. [i \in 1 .. Len(s.vals) |-> 0] \in Seq(Int)
    BY <2>1
  <2> QED
    BY <1>9, <2>1, <2>2 DEF TypeOK, RecordFirst
<1>10. CASE RecordEmpty \/ RecordFails
  BY <1>10 DEF TypeOK, RecordEmpty, RecordFails, Ended
<1>11. CASE RecordRow
  <2>1. nchan \in Nat /\ s.vals \in Lines /\ Len(s.vals) = nchan
    BY <1>11 DEF TypeOK, RecordRow, RecordsAccepted, Accepted
  <2>2. ASSUME NEW i \in 1 .. nchan
        PROVE  total[i] + (s.vals[i] - vals_prev[i]) \in Int
    BY <2>1, ElementOfSeq DEF TypeOK, Telescopes, Lines
  <2>3. total' \in Seq(Int)
    BY <1>11, <2>1, <2>2 DEF RecordRow
  <2> QED
    BY <1>11, <2>1, <2>3 DEF TypeOK, RecordRow
<1>12. CASE Terminate
  BY <1>12 DEF TypeOK, Terminate, Ended, Connecting
<1>13. CASE UNCHANGED vars
  BY <1>13 DEF TypeOK, vars
<1> QED
  BY <1>1, <1>2, <1>3, <1>4, <1>5, <1>6, <1>7, <1>8, <1>9, <1>10, <1>11,
     <1>12, <1>13 DEF Next, Device, Poll, Record

(* Every step keeps the sum of the rows: only the two that write a row      *)
(* touch the file.                                                          *)
LEMMA TelescopesStep == LoggerInv /\ [Next]_vars => Telescopes'
<1> SUFFICES ASSUME LoggerInv, [Next]_vars PROVE Telescopes'
  OBVIOUS
<1>1. CASE UNCHANGED file
  BY <1>1 DEF LoggerInv, Telescopes, file
<1>2. CASE RecordFirst
  <2>1. s.vals \in Seq(Nat) /\ Len(s.vals) \in Nat
    BY DEF LoggerInv, TypeOK, Lines
  <2>2. /\ nchan' = Len(s.vals) /\ first' = s.vals /\ vals_prev' = s.vals
        /\ total' = [i \in 1 .. Len(s.vals) |-> 0]
    BY <1>2 DEF RecordFirst
  <2>3. Len(total') = Len(s.vals)
    BY <2>1, <2>2
  <2>4. ASSUME NEW i \in 1 .. Len(s.vals) PROVE total'[i] = vals_prev'[i] - first'[i]
    BY <2>1, <2>2, ElementOfSeq
  <2> QED
    BY <2>2, <2>3, <2>4 DEF Telescopes
<1>3. CASE RecordRow
  <2>1. nchan \in Nat /\ s.vals \in Lines /\ Len(s.vals) = nchan
    BY <1>3 DEF LoggerInv, TypeOK, RecordRow, RecordsAccepted, Accepted
  <2>2. /\ nchan' = nchan /\ first' = first /\ vals_prev' = s.vals
        /\ total' = [i \in 1 .. nchan |-> total[i] + (s.vals[i] - vals_prev[i])]
    BY <1>3 DEF RecordRow
  <2>3. Len(total') = nchan
    BY <2>1, <2>2
  <2>4. ASSUME NEW i \in 1 .. nchan
        PROVE  total'[i] = vals_prev'[i] - first'[i]
    <3>1. /\ s.vals[i] \in Int /\ vals_prev[i] \in Int /\ first[i] \in Int
          /\ total[i] = vals_prev[i] - first[i]
      <4>1. s.vals[i] \in Nat /\ vals_prev[i] \in Nat /\ first[i] \in Nat
        BY <2>1, ElementOfSeq DEF LoggerInv, TypeOK, Telescopes, Lines
      <4>2. total[i] = vals_prev[i] - first[i]
        BY DEF LoggerInv, Telescopes
      <4> QED
        BY <4>1, <4>2
    <3>2. total'[i] = total[i] + (s.vals[i] - vals_prev[i])
      BY <2>2
    <3> QED
      BY <2>2, <3>1, <3>2
  <2> QED
    BY <2>1, <2>2, <2>3, <2>4 DEF LoggerInv, Telescopes
<1> QED
  BY <1>1, <1>2, <1>3
  DEF Next, Device, Unplug, Plug, Turn, Connect, ConnectFind, ConnectOpened,
      ConnectRefused, ConnectNoDevice, Settle, SettleFails, Poll, Reply,
      PollComplete, PollGarbled, PollCut, PollLate, PollFails, Recover,
      ParseAccept, ParseReject, Record, RecordEmpty, RecordFails, Sleep,
      Terminate, vars

(* A step to pc = "record" is one of the parser's, or leaves s and the file *)
(* alone.                                                                   *)
LEMMA RecordsAcceptedStep == LoggerInv /\ [Next]_vars => RecordsAccepted'
  BY DEF LoggerInv, RecordsAccepted, Accepted, Next, Device, Unplug, Plug, Turn,
         Connect, ConnectFind, ConnectOpened, ConnectRefused, ConnectNoDevice,
         Settle, SettleFails, Poll, Reply, PollComplete, PollGarbled, PollCut,
         PollLate, PollFails, Recover, ParseAccept, ParseReject, Record,
         RecordFirst, RecordRow, RecordEmpty, RecordFails, Sleep, Terminate,
         Ended, vars, port, file

(* Every step keeps an established file's daemon alive or ends it otherwise.*)
LEMMA EstablishedStep == LoggerInv /\ [Next]_vars => Established'
<1> SUFFICES ASSUME LoggerInv, [Next]_vars PROVE Established'
  OBVIOUS
<1> USE DEF LoggerInv, Established, port, file
<1>1. CASE Device \/ Sleep \/ UNCHANGED vars
  BY <1>1 DEF Device, Unplug, Plug, Turn, Sleep, Connecting, vars
<1>2. CASE Connect
  BY <1>2 DEF Connect, ConnectFind, ConnectOpened, ConnectRefused,
              ConnectNoDevice, Settle, SettleFails, Connecting
<1>3. CASE Poll
  BY <1>3 DEF Poll, PollComplete, PollGarbled, PollCut, PollLate, PollFails,
              Reply, Line, Garbage, Connecting
<1>4. CASE Recover \/ ParseAccept \/ ParseReject
  BY <1>4 DEF Recover, ParseAccept, ParseReject, Unbound, Connecting
<1>5. CASE Record
  BY <1>5 DEF Record, RecordFirst, RecordEmpty, RecordRow, RecordFails,
              RecordsAccepted, Accepted, Connecting, TypeOK
<1>6. CASE Terminate
  BY <1>6 DEF Terminate, Unbound, Connecting, Ended
<1> QED
  BY <1>1, <1>2, <1>3, <1>4, <1>5, <1>6 DEF Next

(* Every step keeps replies, parts in flight and the last row plausible.    *)
LEMMA AllPlausibleStep == LoggerInv /\ [Next]_vars => AllPlausible'
<1> SUFFICES ASSUME LoggerInv, [Next]_vars, ~reset' PROVE AllPlausible'
  BY DEF AllPlausible
<1> USE DEF LoggerInv, device, port, file
<1>1. ASSUME UNCHANGED cnt, NEW l PROVE Plausible(l) <=> Plausible(l)'
  BY <1>1 DEF Plausible
<1>2. CASE Unplug
  BY <1>2, <1>1 DEF Unplug, AllPlausible
<1>3. CASE Plug
  BY <1>3 DEF Plug
<1>4. ASSUME NEW i \in 1 .. NChan, Turn(i) PROVE AllPlausible'
  <2>1. \A l \in Lines : Plausible(l) => Plausible(l)'
    BY <1>4, PlausibleTurn
  <2>2. late \in SUBSET Lines /\ s.vals \in Lines /\ vals_prev \in Lines
    BY DEF TypeOK
  <2> QED
    BY <1>4, <2>1, <2>2 DEF Turn, AllPlausible
<1>5. CASE UNCHANGED <<cnt, reset, s, file>> /\ late' \in {late, {}}
  BY <1>5, <1>1 DEF AllPlausible
<1>6. CASE PollComplete \/ PollGarbled
  BY <1>6, <1>1, PlausibleNow
  DEF PollComplete, PollGarbled, Reply, Line, Garbage, AllPlausible
<1>7. CASE PollCut
  <2>1. PICK c \in Cuts(cnt) : Reply(Line(c[1]), {c[2]})
    BY <1>7 DEF PollCut
  <2>2. Plausible(c[1]) /\ Plausible(c[2])
    <3>1. cnt \in Lines /\ Plausible(cnt) /\ cnt \in [1 .. NChan -> Nat]
      BY PlausibleNow DEF TypeOK
    <3> QED
      BY <3>1, CutPlausible
  <2> QED
    BY <2>1, <2>2, <1>1 DEF Reply, Line, AllPlausible
<1>8. CASE PollLate
  <2>1. PICK l \in late : \E c \in Cuts(l) : Reply(Line(c[2]), {cnt})
    BY <1>8 DEF PollLate
  <2>2. PICK c \in Cuts(l) : Reply(Line(c[2]), {cnt})
    BY <2>1
  <2>3. l \in Lines /\ Plausible(l) /\ cnt \in [1 .. NChan -> Nat]
    BY <2>2 DEF TypeOK, AllPlausible, Reply
  <2>4. Plausible(c[2]) /\ Plausible(cnt)
    BY <2>3, CutPlausible, PlausibleNow
  <2> QED
    BY <2>2, <2>4, <1>1 DEF Reply, Line, AllPlausible
<1>9. CASE RecordFirst \/ RecordRow
  BY <1>9, <1>1 DEF RecordFirst, RecordRow, RecordsAccepted, Accepted, AllPlausible
<1> QED
  BY <1>2, <1>3, <1>4, <1>5, <1>6, <1>7, <1>8, <1>9
  DEF Next, Device, Connect, ConnectFind, ConnectOpened, ConnectRefused,
      ConnectNoDevice, Settle, SettleFails, Poll, PollFails, Recover,
      ParseAccept, ParseReject, Record, RecordEmpty, RecordFails, Sleep,
      Terminate, vars
-----------------------------------------------------------------------------
(* The invariant is inductive.                                              *)
THEOREM Inductive == Spec => []LoggerInv
<1>1. LoggerInv /\ [Next]_vars => LoggerInv'
  BY TypeStep, TelescopesStep, RecordsAcceptedStep, EstablishedStep,
     AllPlausibleStep DEF LoggerInv
<1> QED
  BY LoggerInit, <1>1, PTL DEF Spec

(* The daemon's and the device's state is well typed at every step.         *)
THEOREM TypeCorrect == Spec => []TypeOK
<1>1. LoggerInv => TypeOK
  BY DEF LoggerInv
<1> QED
  BY <1>1, Inductive, PTL

(* For any number of channels, the rows of the file (logger.py:137-141) add *)
(* up to the last accepted reply minus the first.                           *)
THEOREM RowsTelescope == Spec => []Telescopes
<1>1. LoggerInv => Telescopes
  BY DEF LoggerInv
<1> QED
  BY <1>1, Inductive, PTL

(* Without a power cycle no full-width file runs ahead of the device,       *)
(* wherever lines are cut and however late their rests arrive.              *)
THEOREM FileNeverAhead == Spec => []NeverAhead
<1>1. LoggerInv => NeverAhead
  <2> SUFFICES ASSUME LoggerInv, nchan = NChan, ~reset, NEW i \in 1 .. NChan
               PROVE  vals_prev[i] <= cnt[i]
    BY DEF NeverAhead
  <2>1. nchan > 0
    BY LoggerAssumption
  <2>2. Plausible(vals_prev) /\ Len(vals_prev) = NChan
    BY <2>1 DEF LoggerInv, AllPlausible, Telescopes
  <2> QED
    BY <2>2 DEF Plausible
<1> QED
  BY <1>1, Inductive, PTL

(* Once the header is written only SIGTERM, a port that cannot be settled   *)
(* and an unwritable file end the daemon (logger.py:118, 122-128, 144).     *)
THEOREM DaemonSurvives == Spec => []EstablishedSurvives
<1>1. LoggerInv => EstablishedSurvives
  BY DEF LoggerInv, Established, EstablishedSurvives
<1> QED
  BY <1>1, Inductive, PTL

(* The daemon implements the abstract data file: every step of it writes    *)
(* the header, writes a row, ends, or is invisible in the file.             *)
THEOREM ImplementsTally == Spec => WritesTally
<1> USE DEF File!vars
<1>1. Init => File!Init
  BY DEF Init, File!Init, Ended
<1>2. LoggerInv /\ [Next]_vars => [File!Next]_(File!vars)
  <2> SUFFICES ASSUME LoggerInv, [Next]_vars
               PROVE  File!Next \/ UNCHANGED File!vars
    OBVIOUS
  <2>1. CASE UNCHANGED file /\ (pc' \in Ended <=> pc \in Ended)
    BY <2>1 DEF file
  <2>2. CASE UNCHANGED file /\ pc \notin Ended /\ pc' \in Ended
    BY <2>2 DEF file, File!Next, File!End
  <2>3. CASE RecordFirst
    <3>1. /\ s.vals \in Seq(Nat) /\ s.vals # <<>>
          /\ vals_prev' = s.vals /\ first' = s.vals /\ nchan' = Len(s.vals)
          /\ total' = [i \in 1 .. Len(s.vals) |-> 0]
          /\ nchan = 0 /\ pc = "record" /\ pc' = "sleep"
      BY <2>3 DEF RecordFirst, LoggerInv, TypeOK, Lines
    <3>2. File!Header
      BY <3>1 DEF File!Header, Ended
    <3> QED
      BY <3>2 DEF File!Next
  <2>4. CASE RecordRow
    <3>1. /\ s.vals \in Seq(Nat) /\ Len(s.vals) = nchan
          /\ vals_prev' = s.vals /\ nchan' = nchan /\ first' = first
          /\ total' = [i \in 1 .. nchan |-> total[i] + (s.vals[i] - vals_prev[i])]
          /\ nchan > 0 /\ pc = "record" /\ pc' = "sleep"
      BY <2>4 DEF RecordRow, LoggerInv, RecordsAccepted, Accepted, TypeOK, Lines
    <3>2. File!Row
      BY <3>1 DEF File!Row, Ended
    <3> QED
      BY <3>2 DEF File!Next
  <2>5. CASE Device \/ Sleep \/ Recover \/ UNCHANGED vars
    BY <2>5, <2>1 DEF Device, Unplug, Plug, Turn, Sleep, Recover, vars, port,
                      file, Ended
  <2>6. CASE Connect
    BY <2>6, <2>1, <2>2
    DEF Connect, ConnectFind, ConnectOpened, ConnectRefused, ConnectNoDevice,
        Settle, SettleFails, port, file, Ended
  <2>7. CASE Poll
    BY <2>7, <2>1 DEF Poll, Reply, PollComplete, PollGarbled, PollCut, PollLate,
                      PollFails, port, file, Ended
  <2>8. CASE ParseAccept \/ ParseReject \/ RecordEmpty \/ RecordFails
    BY <2>8, <2>1, <2>2
    DEF ParseAccept, ParseReject, RecordEmpty, RecordFails, port, file, Ended
  <2>9. CASE Terminate
    BY <2>9, <2>1, <2>2 DEF Terminate, port, file, Ended, Connecting
  <2> QED
    BY <2>3, <2>4, <2>5, <2>6, <2>7, <2>8, <2>9 DEF Next, Record
<1> QED
  BY <1>1, <1>2, Inductive, PTL DEF Spec, WritesTally, File!Spec
=============================================================================
