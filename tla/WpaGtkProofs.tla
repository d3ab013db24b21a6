----------------------------- MODULE WpaGtkProofs -----------------------------
(***************************************************************************)
(* Proof that every station whose handshakes have ended holds the group key *)
(* in use (GtkCurrent), for any stations, of either version, and any        *)
(* limits.  Line numbers are those of src/hostapd/src/ap/wpa_auth.c.        *)
(*                                                                         *)
(* 3/4 and 1/2 carry the group key of the moment (1831, 2144), so a station *)
(* has an earlier one when the key changes between such a frame and its     *)
(* answer.  WaitInv says that a handshake under way has a timer; the key    *)
(* changes only with the first association, or when no timer runs; HoldInv  *)
(* adds that no frame with an earlier key is ever outstanding, and what a   *)
(* station acknowledged last, at each place of a call.                      *)
(***************************************************************************)
EXTENDS WpaTimerProofs

(* The stations make no requests, none re-associates in the middle of its   *)
(* first group handshake, and the group key is rekeyed between handshakes.  *)
Still == Adverse \cap (Requests \cup {"pending", "entropy", "overlap"}) = {}

(* Outstanding frames that carry an earlier group key, or the current one.  *)
NoOld(r)  == \A i \in DOMAIN r.key_replay :
               r.key_replay[i] \notin {"m3old", "g1old"}
NoKeys(r) == \A i \in DOMAIN r.key_replay :
               r.key_replay[i] \notin {"m3", "g1"}

(* A frame with a group key is outstanding only in the handshakes; taking    *)
(* an answer to it has emptied key_replay (1039).                           *)
FramesFit(r) ==
  /\ NoOld(r)
  /\ \/ r.ptk \in {"INITIALIZE", "AUTHENTICATION"}
     \/ r.ask \cap {"Init", "AuthenticationRequest"} # {}
     \/ /\ r.ptk = "PTKINITDONE" /\ r.grp # "REKEYNEGOTIATING"
        /\ "Disconnect" \notin r.ask
     => NoKeys(r)
  /\ r.rx = "group" => DOMAIN r.key_replay = {}

(* v: a running rekeying has still to visit the station.                    *)
FreshFits(r, w, v) ==
  /\ r.rx = "group" \/ r.grp = "REKEYESTABLISHED" => r.fresh
  /\ w /\ Answer(r) /\ r.ptk = "PTKINITNEGOTIATING" => r.fresh
  /\ r.ptk = "PTKINITDONE" /\ r.grp = "IDLE" /\ ~Due(r, w) /\ ~v => r.fresh

(* The course of a station that stays: it is not disconnected, a            *)
(* re-association does not stop before PTKSTART, a handshake that is given  *)
(* up is beyond the limit, and one that is cancelled (1378) is not the end  *)
(* of the pairwise one.                                                     *)
CourseFits(r, p, n) ==
  /\ r.ptk \notin {"DISCONNECT", "DISCONNECTED"}
  /\ r.ptk \in {"AUTHENTICATION2", "INITPSK"}
       => p # "idle" /\ (p # "ptk" => r.changed)
  /\ r.grp = "KEYERROR" => r.GTimeoutCtr > UpdateCount
  /\ "PtkGroupInit" \in r.ask =>
       /\ p \in {"ptk", "grp"}
       /\ p = "ptk" => "ReAuthenticationRequest" \in r.ask
       /\ p = "grp" => r.ptk # "PTKINITDONE"
  /\ r.started \/ n \in {"newAssoc", "reAssoc", "initialized"} => r.known

(* f: a station has authenticated; the first to do so changes the key.      *)
FirstSta(r, f) ==
  ~f => r.ptk \in {"INITIALIZE", "AUTHENTICATION"} /\ r.grp = "IDLE"

Holds(r, p, w, n, v, f) ==
  Stays(r) /\ n # "free" =>
    /\ FramesFit(r) /\ FreshFits(r, w, v) /\ CourseFits(r, p, n)
    /\ FirstSta(r, f)

(* The random pool is ready, and a rekeying begins when no timer runs.      *)
GroupHolds ==
  /\ group.pool /\ ~group.reject_4way_hs_for_entropy
  /\ group.GTKReKey => next = NoNext /\ \A s \in Sta : sm[s].timers = 0

(* The inductive invariant, beside those of the modules extended.           *)
HoldInv ==
  /\ \A s \in Sta : Holds(sm[s], Place(s), s \in Wpa2, Todo(s), s \in todo,
                          group.first_sta_seen)
  /\ GroupHolds
-----------------------------------------------------------------------------
(* A new group key: of a station that has no frame with a group key         *)
(* outstanding, nor acknowledged one, nothing is made old.                  *)
LEMMA NewGtkHolds ==
  ASSUME NEW r \in SmType, NEW p, NEW w, NEW n, NEW v, NEW f, NEW u, NEW g,
         Holds(r, p, w, n, v, f), f => g,
         Stays(r) /\ n # "free" =>
           /\ NoKeys(r) /\ r.rx # "group" /\ r.grp # "REKEYESTABLISHED"
           /\ w /\ r.ptk = "PTKINITNEGOTIATING" => ~Answer(r)
           /\ r.ptk = "PTKINITDONE" /\ r.grp = "IDLE" /\ ~Due(r, w) => u
  PROVE  Holds(NewGtk(r), p, w, n, u, g)
<1> DEFINE k == [i \in DOMAIN r.key_replay |-> Aged(r.key_replay[i])]
           q == [r EXCEPT !.fresh = FALSE, !.key_replay = k]
<1>1. NewGtk(r) = q
  BY DEF NewGtk
<1>2. /\ DOMAIN k = DOMAIN r.key_replay
      /\ NoKeys(r) => \A i \in DOMAIN k : k[i] = r.key_replay[i]
  BY DEF NoKeys, Aged
<1> HIDE DEF k
<1>3. /\ q.timeout_next = r.timeout_next /\ q.ptk = r.ptk /\ q.grp = r.grp
      /\ q.ask = r.ask /\ q.rx = r.rx /\ q.changed = r.changed
      /\ q.GTimeoutCtr = r.GTimeoutCtr /\ q.started = r.started
      /\ q.known = r.known /\ q.key_replay = k
      /\ q.GUpdateStationKeys = r.GUpdateStationKeys
      /\ q.PInitAKeys = r.PInitAKeys
  BY DEF SmType
<1> HIDE DEF q
<1>4. CASE Stays(r) /\ n # "free"
  <2>1. FramesFit(q)
    BY <1>2, <1>3, <1>4 DEF Holds, FramesFit, NoOld, NoKeys
  <2>2. FreshFits(q, w, u)
    BY <1>3, <1>4 DEF Holds, FreshFits, Answer, Due
  <2>3. CourseFits(q, p, n) /\ FirstSta(q, g)
    BY <1>3, <1>4 DEF Holds, CourseFits, FirstSta
  <2> QED BY <1>1, <2>1, <2>2, <2>3 DEF Holds
<1>5. CASE ~(Stays(r) /\ n # "free")
  BY <1>1, <1>3, <1>5 DEF Holds, Stays
<1> QED BY <1>4, <1>5

(* A pairwise frame, or one that is not sent, carries no earlier group key.  *)
LEMMA SentHolds ==
  ASSUME NEW r \in SmType, NoOld(r),
         NEW frame \in Frames \ {"m3old", "g1old"}
  PROVE  NoOld(Sent(r, frame))
<1> DEFINE n == IF Len(r.key_replay) < Retries THEN Len(r.key_replay) + 1
                                          ELSE Retries
           k == <<frame>> \o r.key_replay
<1>1. /\ r.key_replay \in Seq(Frames) /\ <<frame>> \in Seq(Frames)
      /\ Retries \in Nat
  BY WpaAuthAssumption DEF SmType
<1>2. k \in Seq(Frames) /\ Len(k) = Len(r.key_replay) + 1
  BY <1>1
<1>3. n \in Nat /\ n <= Len(k)
  BY <1>1, <1>2
<1>4. ASSUME NEW i \in 1..Len(k)
      PROVE  k[i] \notin {"m3old", "g1old"}
  <2>1. CASE i = 1
    BY <1>1, <2>1
  <2>2. CASE i > 1
    <3>1. k[i] = r.key_replay[i - 1] /\ i - 1 \in DOMAIN r.key_replay
      BY <1>1, <1>2, <2>2
    <3> QED BY <3>1 DEF NoOld
  <2> QED BY <1>2, <2>1, <2>2
<1> HIDE DEF k, n
<1>5. \A i \in DOMAIN SubSeq(k, 1, n) :
        SubSeq(k, 1, n)[i] \notin {"m3old", "g1old"}
  BY <1>2, <1>3, <1>4
<1>6. Sent(r, frame).key_replay = SubSeq(k, 1, n)
  BY DEF Sent, SmType, k, n
<1> QED BY <1>5, <1>6 DEF NoOld

(* A station that has just been freed, or allocated.                        *)
LEMMA AbsentHolds ==
  ASSUME NEW p, NEW w, NEW n, NEW v, NEW f,
         n \notin {"newAssoc", "reAssoc", "initialized"}
  PROVE  Holds(Absent, p, w, n, v, f)
<1>1. DOMAIN <<>> = {}
  OBVIOUS
<1> QED BY <1>1 DEF Holds, Stays, FramesFit, NoOld, NoKeys, FreshFits,
     CourseFits, FirstSta, Answer, Absent

(* What a step of s does to the others keeps their part of the invariant.   *)
LEMMA OneHolds ==
  ASSUME IInv, RetryInv, HoldInv, NEW s \in Sta,
         call.of \subseteq {s}, call'.of \subseteq {s},
         todo \ {s} \subseteq todo',
         \A t \in Sta \ {s} : Todo(t)' = Todo(t),
         \/ \A t \in Sta \ {s} : sm'[t] = sm[t]
         \/ ~group.first_sta_seen
              /\ \A t \in Sta \ {s} : sm'[t] \in {sm[t], NewGtk(sm[t])},
         group.first_sta_seen => group'.first_sta_seen,
         group'.pool, ~group'.reject_4way_hs_for_entropy, ~group'.GTKReKey,
         Holds(sm'[s], Place(s)', s \in Wpa2, Todo(s)', (s \in todo)',
               group'.first_sta_seen)
  PROVE  HoldInv'
<1>1. ASSUME NEW t \in Sta \ {s}
      PROVE  Holds(sm'[t], Place(t)', t \in Wpa2, Todo(t)', (t \in todo)',
                   group'.first_sta_seen)
  <2> DEFINE r == sm[t]
             w == t \in Wpa2
             n == Todo(t)
             v == t \in todo
             u == t \in todo'
             f == group.first_sta_seen
             g == group'.first_sta_seen
  <2>1. r \in SmType /\ Holds(r, Place(t), w, n, v, f)
    BY DEF IInv, TypeOK, HoldInv
  <2>2. Place(t) = "idle" /\ Place(t)' = "idle"
    <3>1. ~({t} \subseteq {s})
      OBVIOUS
    <3> QED BY <3>1 DEF Place
  <2>3. (v => u) /\ (f => g) /\ Todo(t)' = n
    OBVIOUS
  <2>4. sm'[t] = r \/ (~f /\ sm'[t] = NewGtk(r))
    OBVIOUS
  <2>7. r.rx # "group"
    BY <2>2 DEF RetryInv, Fits, AckFits
  <2> HIDE DEF w, n, v, u, f, g, r
  <2>5. Holds(r, "idle", w, n, u, g)
    BY <2>1, <2>2, <2>3 DEF Holds, FreshFits, FirstSta
  <2>6. ASSUME ~f
        PROVE  Holds(NewGtk(r), "idle", w, n, u, g)
    <3>1. Stays(r) /\ n # "free" =>
            /\ NoKeys(r) /\ r.grp = "IDLE"
            /\ r.ptk \in {"INITIALIZE", "AUTHENTICATION"}
      BY <2>1, <2>6 DEF Holds, FramesFit, FirstSta
    <3> QED BY <2>1, <2>2, <2>3, <2>7, <3>1, NewGtkHolds
  <2> QED BY <2>2, <2>3, <2>4, <2>5, <2>6 DEF w, u, g
<1>2. GroupHolds'
  BY DEF GroupHolds
<1> QED BY <1>1, <1>2 DEF HoldInv
-----------------------------------------------------------------------------
(* What matters here besides the state, the frame and the requests.         *)
Same(q, r) ==
  /\ q.grp = r.grp /\ q.GTimeoutCtr = r.GTimeoutCtr
  /\ q.started <=> r.started
  /\ q.known <=> r.known
  /\ q.fresh <=> r.fresh

(* Entering a state of the pairwise machine.                                *)
LEMMA PtkEntered ==
  ASSUME IInv, NEW s \in Sta, NEW u \in SmType, NEW state \in PtkStates,
         EnterPtk(s, state, u)
  PROVE  /\ Same(sm'[s], u)
         /\ sm'[s].ptk = state /\ sm'[s].changed
         /\ sm'[s].rx = u.rx /\ sm'[s].ask = u.ask
         /\ sm'[s].key_replay = u.key_replay
<1>1. sm'[s] = [u EXCEPT !.ptk = state, !.changed = TRUE]
  BY DEF IInv, TypeOK, EnterPtk
<1> DEFINE q == [u EXCEPT !.ptk = state, !.changed = TRUE]
<1>2. /\ Same(q, u) /\ q.ptk = state /\ q.changed
      /\ q.rx = u.rx /\ q.ask = u.ask /\ q.key_replay = u.key_replay
  BY DEF SmType, Same
<1> QED BY <1>1, <1>2

(* What the helpers keep.                                                   *)
LEMMA SentSame ==
  ASSUME NEW r \in SmType, NEW frame \in Frames
  PROVE  /\ Sent(r, frame) \in SmType /\ Same(Sent(r, frame), r)
         /\ Sent(r, frame).ask = r.ask /\ Sent(r, frame).rx = r.rx
<1>1. Sent(r, frame) \in SmType
  BY SentType
<1>2. /\ Same(Sent(r, frame), r)
      /\ Sent(r, frame).ask = r.ask /\ Sent(r, frame).rx = r.rx
  BY DEF Sent, SmType, Same
<1> QED BY <1>1, <1>2

LEMMA StopTimersSame ==
  ASSUME NEW r \in SmType
  PROVE  /\ StopTimers(r) \in SmType /\ Same(StopTimers(r), r)
         /\ StopTimers(r).ask = r.ask /\ StopTimers(r).rx = r.rx
         /\ StopTimers(r).ptk = r.ptk
         /\ StopTimers(r).key_replay = r.key_replay
<1>1. StopTimers(r) \in SmType
  BY StopTimersType
<1>2. /\ Same(StopTimers(r), r)
      /\ StopTimers(r).ask = r.ask /\ StopTimers(r).rx = r.rx
      /\ StopTimers(r).ptk = r.ptk
      /\ StopTimers(r).key_replay = r.key_replay
  BY DEF StopTimers, SmType, Same
<1> QED BY <1>1, <1>2

(* A step of the pairwise machine.                                          *)
LEMMA PtkHolds ==
  ASSUME Still, NEW s \in Sta, NEW r, r = sm[s], r \in SmType, NEW n, NEW m,
         Fits(r, "ptk", m), Waits(r, "ptk", s \in Wpa2, n),
         Holds(r, "ptk", s \in Wpa2, n, FALSE, group.first_sta_seen),
         PtkSm(s), IInv
  PROVE  Holds(sm'[s], "grp", s \in Wpa2, n, FALSE, group'.first_sta_seen)
<1> DEFINE w == s \in Wpa2
           f == group.first_sta_seen
           g == group'.first_sta_seen
<1> USE DEF In, Calm, Answered, Confirmed, Exhausted
<1>0. sm \in [Sta -> SmType] /\ group \in GroupType
  BY DEF IInv, TypeOK
<1>1. sm'[s].timeout_next \in {r.timeout_next, "REMOVE"}
  BY PtkDisposes
<1>2. CASE ~Stays(sm'[s]) \/ n = "free"
  BY <1>2 DEF Holds
<1> SUFFICES ASSUME Stays(sm'[s]), n # "free"
             PROVE  /\ FramesFit(sm'[s]) /\ FreshFits(sm'[s], w, FALSE)
                    /\ CourseFits(sm'[s], "grp", n) /\ FirstSta(sm'[s], g)
  BY <1>2 DEF Holds
<1>3. Stays(r) /\ Quiet
  BY <1>1 DEF Stays, Quiet, Still
<1>4. /\ BeginFits(r, "ptk") /\ QuietAskFits(r, n)
      /\ AskFits(r, "ptk", m) /\ AnswerFits(r, "ptk") /\ AckFits(r, "ptk")
  BY <1>3 DEF Waits, QuietFits, Fits
<1>5. /\ FramesFit(r) /\ FreshFits(r, w, FALSE)
      /\ CourseFits(r, "ptk", n) /\ FirstSta(r, f)
  BY <1>3 DEF Holds
<1>13. \A a \in DOMAIN Rank : Urgent(s, a) =>
           /\ a \in r.ask
           /\ "Init" \in r.ask => a = "Init"
           /\ "Disconnect" \in r.ask => a \in {"Init", "Disconnect"}
           /\ a = "PTKRequest" => r.ask \subseteq {"PTKRequest", "PtkGroupInit"}
  BY SMTT(30) DEF SmType, Rank, Urgent
<1>14.
      /\ Urgent(s, "Init") => "Init" \in r.ask
      /\ Urgent(s, "AuthenticationRequest") => "AuthenticationRequest" \in r.ask
      /\ Urgent(s, "ReAuthenticationRequest") =>
            "ReAuthenticationRequest" \in r.ask /\ "Init" \notin r.ask
      /\ ~Urgent(s, "DeauthenticationRequest")
      /\ ~Urgent(s, "PTKRequest")
  BY <1>4, <1>13 DEF Rank, QuietAskFits
<1> HIDE DEF w
<1> DEFINE q == sm'[s]
<1> USE DEF AskFits, AnswerFits, AckFits, Answer, BeginFits, QuietAskFits,
     FramesFit, FreshFits, CourseFits, FirstSta, Due
(* What the steps below have in common.                                     *)
<1>15. ASSUME NEW u \in SmType,
              NEW state \in {"AUTHENTICATION2", "INITPSK", "PTKSTART",
                             "PTKCALCNEGOTIATING", "PTKCALCNEGOTIATING2",
                             "PTKINITNEGOTIATING"},
              EnterPtk(s, state, u), Same(u, r),
              u.rx \in {r.rx, "none"}, u.ask = r.ask, NoOld(u), g = f,
              r.ask \subseteq {"PtkGroupInit"},
              r.ptk \notin {"INITIALIZE", "AUTHENTICATION", "PTKINITDONE"},
              state = "PTKINITNEGOTIATING" => u.rx \notin {"pairwise", "wrong"}
       PROVE  /\ FramesFit(q) /\ FreshFits(q, w, FALSE)
              /\ CourseFits(q, "grp", n) /\ FirstSta(q, g)
  <2>1. /\ Same(q, r) /\ q.ptk = state /\ q.changed
        /\ q.rx \in {r.rx, "none"} /\ q.ask = r.ask
        /\ q.key_replay = u.key_replay /\ q.rx = u.rx
    <3>1. state \in PtkStates
      BY DEF PtkStates
    <3> QED BY <1>15, <3>1, PtkEntered DEF Same
  <2> HIDE DEF q
  <2>2. r.rx # "group" /\ NoOld(q)
    BY <1>4, <1>15, <2>1 DEF NoOld
  <2> QED BY <1>4, <1>5, <1>15, <2>1, <2>2 DEF Same
<1>16. CASE Initialize(s)
  <2> DEFINE b == r.PInitAKeys /\ s \in Wpa2
             c == "Init" \notin r.ask
  <2>2. /\ sm' = [sm EXCEPT ![s] =
                    [r EXCEPT !.ptk = "INITIALIZE", !.changed = c,
                              !.GUpdateStationKeys = FALSE, !.PInitAKeys = b,
                              !.PTK_valid = FALSE, !.TimeoutCtr = 0]]
        /\ Uncount(r)
    BY <1>16 DEF Initialize
  <2> HIDE DEF b, c
  <2>3. /\ q.ptk = "INITIALIZE" /\ q.grp = r.grp /\ q.rx = r.rx
        /\ q.ask = r.ask /\ q.GTimeoutCtr = r.GTimeoutCtr
        /\ q.started = r.started /\ q.known = r.known
        /\ q.key_replay = r.key_replay /\ q.fresh = r.fresh
    BY <1>0, <2>2 DEF SmType
  <2>4. "Init" \in r.ask
    BY <1>5, <1>14, <1>16 DEF Initialize
  <2>5. g = f
    BY <1>0, <2>2 DEF Uncount, GroupType
  <2> HIDE DEF q
  <2>6. FramesFit(q)
    BY <1>4, <1>5, <2>3, <2>4 DEF NoOld, NoKeys
  <2>7. /\ FreshFits(q, w, FALSE) /\ CourseFits(q, "grp", n)
        /\ FirstSta(q, g)
    BY <1>4, <1>5, <2>3, <2>4, <2>5
  <2> QED BY <2>6, <2>7 DEF q
<1>17. CASE Disconnect(s)
  BY <1>0, <1>17 DEF Disconnect, EnterPtk, Dropped, SmType, Stays
<1>18. CASE EnterDisconnected(s)
  BY <1>5, <1>14, <1>18 DEF EnterDisconnected
<1>19. CASE Authentication(s)
  <2>1. /\ q.ptk = "AUTHENTICATION" /\ q.grp = r.grp /\ q.rx = r.rx
        /\ q.ask = r.ask \ {"AuthenticationRequest"}
        /\ q.GTimeoutCtr = r.GTimeoutCtr /\ q.changed
        /\ q.started = r.started /\ q.known = r.known
        /\ q.key_replay = r.key_replay /\ q.fresh = r.fresh
    BY <1>0, <1>19 DEF Authentication, EnterPtk, SmType
  <2>2. "AuthenticationRequest" \in r.ask /\ g = f
    BY <1>14, <1>19 DEF Authentication
  <2> HIDE DEF q
  <2>3. FramesFit(q)
    BY <1>4, <1>5, <2>1, <2>2 DEF NoOld, NoKeys
  <2>4. /\ FreshFits(q, w, FALSE) /\ CourseFits(q, "grp", n)
        /\ FirstSta(q, g)
    BY <1>4, <1>5, <2>1, <2>2
  <2> QED BY <2>3, <2>4 DEF q
<1>20. CASE Authentication2(s)
  <2> DEFINE k == [i \in DOMAIN r.key_replay |->
                     IF r.key_replay[i] = "m1" THEN "m1old"
                                               ELSE r.key_replay[i]]
             a == r.ask \ {"ReAuthenticationRequest"}
             x == [r EXCEPT !.ptk = "AUTHENTICATION2", !.changed = TRUE,
                     !.ask = a, !.TimeoutCtr = 0, !.key_replay = k]
  <2>1. /\ f => q = x
        /\ ~f => q = NewGtk(x)
        /\ g
    <3> DEFINE c == group.reject_4way_hs_for_entropy \/ (~f /\ ~group.pool)
    <3>1. ASSUME f PROVE q = x
      BY <1>0, <1>20, <3>1 DEF Authentication2
    <3>2. ASSUME ~f PROVE q = NewGtk(x)
      BY <1>0, <1>20, <3>2 DEF Authentication2
    <3>3. group' = [group EXCEPT !.first_sta_seen = TRUE,
                                 !.reject_4way_hs_for_entropy = c]
      BY <1>20 DEF Authentication2
    <3> HIDE DEF c
    <3>4. g
      BY <1>0, <3>3 DEF GroupType
    <3> QED BY <3>1, <3>2, <3>4
  <2>2. \/ "ReAuthenticationRequest" \in r.ask
        \/ r.ptk = "AUTHENTICATION" /\ r.ask \subseteq {"PtkGroupInit"}
    BY <1>14, <1>20 DEF Authentication2
  <2>3. x \in SmType
    <3>1. k \in Seq(Frames)
      BY RenewedFrames DEF SmType
    <3>2. "AUTHENTICATION2" \in PtkStates /\ a \in SUBSET DOMAIN Rank
      BY DEF PtkStates, SmType
    <3> HIDE DEF k, a
    <3> QED BY <3>1, <3>2 DEF SmType
  <2>4. /\ NoOld(r) => \A i \in DOMAIN k : k[i] \notin {"m3old", "g1old"}
        /\ NoKeys(r) => \A i \in DOMAIN k : k[i] \notin {"m3", "g1"}
        /\ DOMAIN k = DOMAIN r.key_replay
    BY DEF NoOld, NoKeys
  <2> HIDE DEF k
  <2>5. /\ Same(x, r) /\ x.ptk = "AUTHENTICATION2" /\ x.changed
        /\ x.rx = r.rx /\ x.ask = a /\ x.key_replay = k
    BY DEF SmType, Same
  <2> HIDE DEF x, q
  <2>6. /\ NoOld(x)
        /\ NoKeys(r) => NoKeys(x)
        /\ r.rx # "group" /\ ~Answer(r)
    BY <1>4, <1>5, <2>2, <2>4, <2>5 DEF NoOld, NoKeys
  <2>7. Holds(x, "grp", w, n, FALSE, TRUE)
    BY <1>4, <1>5, <2>2, <2>5, <2>6 DEF Holds, Same
  <2>8. ASSUME ~f
        PROVE  Holds(NewGtk(x), "grp", w, n, FALSE, g)
    <3>1. NoKeys(r) /\ r.grp = "IDLE"
      BY <1>5, <2>8
    <3>2. NoKeys(x) /\ x.grp = "IDLE" /\ x.rx # "group"
          /\ x.ptk = "AUTHENTICATION2"
      BY <2>5, <2>6, <3>1 DEF Same
    <3> HIDE DEF g
    <3> QED BY <2>1, <2>3, <2>7, <3>2, NewGtkHolds
  <2> QED BY <2>1, <2>7, <2>8 DEF q, Holds
<1>21. CASE InitPsk(s)
  <2>1. EnterPtk(s, "INITPSK", r)
    BY <1>21 DEF InitPsk
  <2>2. r.ptk = "AUTHENTICATION2" /\ r.ask \subseteq {"PtkGroupInit"} /\ g = f
    BY <1>21 DEF InitPsk
  <2> HIDE DEF q
  <2> QED BY <1>5, <1>15, <2>1, <2>2 DEF q, Same
<1>22. CASE PtkCalcNegotiating2(s)
  <2> DEFINE u == [r EXCEPT !.TimeoutCtr = 0]
  <2>1. EnterPtk(s, "PTKCALCNEGOTIATING2", u)
    BY <1>22 DEF PtkCalcNegotiating2
  <2>2. /\ r.ptk = "PTKCALCNEGOTIATING" /\ r.ask \subseteq {"PtkGroupInit"}
        /\ g = f
    BY <1>22 DEF PtkCalcNegotiating2
  <2>3. /\ u \in SmType /\ Same(u, r) /\ u.rx = r.rx /\ u.ask = r.ask
        /\ u.key_replay = r.key_replay
    BY DEF SmType, Same
  <2> HIDE DEF q, u
  <2>4. NoOld(u)
    BY <1>5, <2>3 DEF NoOld
  <2> QED BY <1>15, <2>1, <2>2, <2>3, <2>4 DEF q
<1>23. CASE PtkStays(s)
  <2>1. q = r /\ g = f /\ r.ask \subseteq {"PtkGroupInit"}
        /\ r.ptk \notin {"AUTHENTICATION2", "INITPSK"}
    BY <1>23 DEF PtkStays
  <2> HIDE DEF q
  <2>2. r.ask = {}
    BY <1>5, <2>1
  <2> QED BY <1>4, <1>5, <2>1, <2>2 DEF q
<1>24. CASE PtkCalcNegotiating(s)
  <2> DEFINE x == [r EXCEPT !.rx = "none"]
             z == StopTimers(x)
             y == [z EXCEPT !.MICVerified = TRUE, !.PTK_valid = TRUE]
  <2>1. \/ EnterPtk(s, "PTKCALCNEGOTIATING", x)
        \/ EnterPtk(s, "PTKCALCNEGOTIATING", y)
    BY <1>24 DEF PtkCalcNegotiating
  <2>2. /\ r.ptk \in {"PTKSTART", "PTKCALCNEGOTIATING"}
        /\ r.ask \subseteq {"PtkGroupInit"} /\ g = f
    BY <1>24 DEF PtkCalcNegotiating
  <2>3. /\ x \in SmType /\ Same(x, r) /\ x.rx = "none" /\ x.ask = r.ask
        /\ x.key_replay = r.key_replay
    BY DEF SmType, Same
  <2> HIDE DEF x, q
  <2>4. /\ z \in SmType /\ Same(z, r) /\ z.rx = "none" /\ z.ask = r.ask
        /\ z.key_replay = r.key_replay
    BY <2>3, StopTimersSame DEF Same
  <2> HIDE DEF z
  <2>5. /\ y \in SmType /\ Same(y, r) /\ y.rx = "none" /\ y.ask = r.ask
        /\ y.key_replay = r.key_replay
    BY <2>4, ZenonT(30) DEF SmType, Same
  <2> HIDE DEF y
  <2>6. NoOld(x) /\ NoOld(y)
    BY <1>5, <2>3, <2>5 DEF NoOld
  <2> QED BY <1>15, <2>1, <2>2, <2>3, <2>5, <2>6 DEF q
<1>25. CASE PtkStart(s)
  <2> DEFINE a == r.ask \ {"PTKRequest"}
             c == r.TimeoutCtr + 1
             x == [r EXCEPT !.ask = a, !.TimeoutEvt = FALSE, !.TimeoutCtr = c]
             b == x.pending_1_of_4_timeout \/ x.TimeoutCtr = 1
             y == [x EXCEPT !.pending_1_of_4_timeout = b]
  <2>1. EnterPtk(s, "PTKSTART", x) \/ EnterPtk(s, "PTKSTART", Sent(y, "m1"))
    BY <1>25 DEF PtkStart
  <2>2. /\ r.ptk \in {"INITPSK", "PTKSTART", "PTKCALCNEGOTIATING"}
        /\ r.ask \subseteq {"PtkGroupInit"} /\ g = f
    BY <1>14, <1>25 DEF PtkStart
  <2>3. a = r.ask /\ c \in Nat
    BY <2>2 DEF SmType
  <2> HIDE DEF a, c
  <2>4. /\ x \in SmType /\ Same(x, r) /\ x.rx = r.rx /\ x.ask = r.ask
        /\ x.key_replay = r.key_replay
    BY <2>3, ZenonT(30) DEF SmType, Same
  <2> HIDE DEF x, q
  <2>5. b \in BOOLEAN
    BY <2>4 DEF SmType
  <2> HIDE DEF b
  <2>6. /\ y \in SmType /\ Same(y, r) /\ y.rx = r.rx /\ y.ask = r.ask
        /\ y.key_replay = r.key_replay
    BY <2>4, <2>5, SMTT(30) DEF SmType, Same
  <2> HIDE DEF y
  <2>7. NoOld(x) /\ NoOld(y)
    BY <1>5, <2>4, <2>6 DEF NoOld
  <2>8. /\ Sent(y, "m1") \in SmType /\ Same(Sent(y, "m1"), r)
        /\ Sent(y, "m1").rx = r.rx /\ Sent(y, "m1").ask = r.ask
        /\ NoOld(Sent(y, "m1"))
    BY <2>6, <2>7, SentSame, SentHolds DEF Frames, Same
  <2> QED BY <1>15, <2>1, <2>2, <2>4, <2>7, <2>8 DEF q
<1>26. CASE PtkInitNegotiating(s)
  <2> DEFINE c == r.TimeoutCtr + 1
             x == [r EXCEPT !.TimeoutEvt = FALSE, !.TimeoutCtr = c]
             k == IfKeyed(x, "m3")
  <2>1. \/ EnterPtk(s, "PTKINITNEGOTIATING", x)
        \/ EnterPtk(s, "PTKINITNEGOTIATING", Sent(x, k))
    BY <1>26 DEF PtkInitNegotiating
  <2>2. /\ \/ r.ptk = "PTKCALCNEGOTIATING2"
           \/ r.ptk = "PTKINITNEGOTIATING" /\ ~(Answer(r) /\ r.MICVerified)
        /\ r.ask \subseteq {"PtkGroupInit"} /\ g = f
    BY <1>26 DEF PtkInitNegotiating
  <2>3. r.rx \notin {"pairwise", "wrong"}
    BY <1>4, <2>2
  <2>4. c \in Nat
    BY DEF SmType
  <2> HIDE DEF c
  <2>5. /\ x \in SmType /\ Same(x, r) /\ x.rx = r.rx /\ x.ask = r.ask
        /\ x.key_replay = r.key_replay
    BY <2>4 DEF SmType, Same
  <2> HIDE DEF x, q
  <2>6. NoOld(x)
    BY <1>5, <2>5 DEF NoOld
  <2>7. k \in Frames \ {"m3old", "g1old"}
    BY DEF IfKeyed, Frames
  <2> HIDE DEF k
  <2>8. /\ Sent(x, k) \in SmType /\ Same(Sent(x, k), r)
        /\ Sent(x, k).rx = r.rx /\ Sent(x, k).ask = r.ask
        /\ NoOld(Sent(x, k))
    BY <2>5, <2>6, <2>7, SentSame, SentHolds DEF Same
  <2> QED BY <1>15, <2>1, <2>2, <2>3, <2>5, <2>6, <2>8 DEF q
<1>27. CASE PtkInitDone(s)
  <2> DEFINE x == [r EXCEPT !.rx = "none"]
             b == x.PInitAKeys \/ s \notin Wpa2
             y == [x EXCEPT !.PInitAKeys = b]
  <2>1. /\ r.ptk = "PTKINITNEGOTIATING" /\ Answer(r)
        /\ r.ask = {} /\ DOMAIN r.key_replay = {} /\ g = f
    BY <1>4, <1>27 DEF PtkInitDone
  <2>2. EnterPtk(s, "PTKINITDONE", y)
    <3>1. EnterPtk(s, "PTKINITDONE", Dropped(x)) =>
            sm'[s].timeout_next = "REMOVE"
      BY <1>0 DEF EnterPtk, Dropped, SmType
    <3> QED BY <1>27, <3>1 DEF PtkInitDone, Stays
  <2>3. b \in BOOLEAN /\ (w \/ b)
    BY DEF SmType, w
  <2> HIDE DEF b
  <2>4. /\ y \in SmType /\ Same(y, r) /\ y.rx = "none" /\ y.ask = r.ask
        /\ y.key_replay = r.key_replay /\ y.PInitAKeys = b
    BY <2>3, ZenonT(30) DEF SmType, Same
  <2> HIDE DEF y, q
  <2>5. "PTKINITDONE" \in PtkStates
    BY DEF PtkStates
  <2>6. /\ Same(q, r) /\ q.ptk = "PTKINITDONE" /\ q.changed
        /\ q.rx = "none" /\ q.ask = {} /\ q.key_replay = r.key_replay
    BY <2>1, <2>2, <2>4, <2>5, PtkEntered DEF q, Same
  <2>7. q.PInitAKeys = b
    <3>1. q = [y EXCEPT !.ptk = "PTKINITDONE", !.changed = TRUE]
      BY <1>0, <2>2 DEF EnterPtk, q
    <3> QED BY <2>4, <3>1 DEF SmType
  <2>8. FramesFit(q)
    BY <2>1, <2>6 DEF NoOld, NoKeys
  <2>9. FreshFits(q, w, FALSE)
    BY <1>4, <1>5, <2>1, <2>3, <2>6, <2>7 DEF Same
  <2>10. CourseFits(q, "grp", n) /\ FirstSta(q, g)
    BY <1>4, <1>5, <2>1, <2>6 DEF Same
  <2> QED BY <2>8, <2>9, <2>10 DEF q
<1> QED BY <1>16, <1>17, <1>18, <1>19, <1>20, <1>21, <1>22, <1>23, <1>24,
           <1>25, <1>26, <1>27 DEF PtkSm

(* A step of the group key machine.                                         *)
LEMMA PtkGroupHolds ==
  ASSUME Still, NEW s \in Sta, NEW r, r = sm[s], r \in SmType, NEW n, NEW m,
         Fits(r, "grp", m), Waits(r, "grp", s \in Wpa2, n),
         Holds(r, "grp", s \in Wpa2, n, FALSE, group.first_sta_seen),
         PtkGroupSm(s), IInv
  PROVE  Holds(sm'[s], "group", s \in Wpa2, n, FALSE, group'.first_sta_seen)
<1> DEFINE w == s \in Wpa2
           f == group.first_sta_seen
           g == group'.first_sta_seen
<1> USE DEF Grp, Started, Acknowledged, GivenUp
<1>0. sm \in [Sta -> SmType] /\ group \in GroupType /\ UpdateCount \in Nat
  BY WpaAuthAssumption DEF IInv, TypeOK
<1>1. sm'[s].timeout_next = r.timeout_next
  BY PtkGroupDisposes
<1>2. CASE ~Stays(sm'[s]) \/ n = "free"
  BY <1>2 DEF Holds
<1> SUFFICES ASSUME Stays(sm'[s]), n # "free"
             PROVE  /\ FramesFit(sm'[s]) /\ FreshFits(sm'[s], w, FALSE)
                    /\ CourseFits(sm'[s], "group", n) /\ FirstSta(sm'[s], g)
  BY <1>2 DEF Holds
<1>3. Stays(r) /\ Quiet
  BY <1>1 DEF Stays, Quiet, Still
<1>4. /\ BeginFits(r, "grp") /\ FirstFits(r, "grp", w, n)
      /\ DueFits(r, "grp", w) /\ AckFits(r, "grp") /\ GTriesFit(r, "grp")
  BY <1>3 DEF Waits, QuietFits, Fits
<1>5. /\ FramesFit(r) /\ FreshFits(r, w, FALSE)
      /\ CourseFits(r, "grp", n) /\ FirstSta(r, f)
  BY <1>3 DEF Holds
<1>6. g <=> f
  <2>1. group' = group \/ Uncount(r)
    BY DEF PtkGroupSm, GroupIdle, RekeyNegotiating, RekeyEstablished,
       KeyError, GroupStays
  <2> QED BY <1>0, <2>1 DEF Uncount, GroupType
<1> HIDE DEF w, f, g
<1> DEFINE q == sm'[s]
<1> USE DEF BeginFits, FirstFits, DueFits, AckFits, Answer, FramesFit,
     FreshFits, CourseFits, FirstSta, Due
<1>7. CASE GroupIdle(s)
  <2> DEFINE c == "Init" \notin r.ask
  <2>1. sm' = [sm EXCEPT ![s] =
                 [r EXCEPT !.grp = "IDLE", !.changed = c, !.GTimeoutCtr = 0,
                           !.ask = r.ask \ {"PtkGroupInit"}]]
    BY <1>7 DEF GroupIdle
  <2> HIDE DEF c
  <2>2. /\ q.ptk = r.ptk /\ q.grp = "IDLE" /\ q.rx = r.rx
        /\ q.ask = r.ask \ {"PtkGroupInit"}
        /\ q.started = r.started /\ q.known = r.known
        /\ q.key_replay = r.key_replay /\ q.fresh = r.fresh
        /\ q.changed = c
        /\ q.GUpdateStationKeys = r.GUpdateStationKeys
        /\ q.PInitAKeys = r.PInitAKeys
    BY <1>0, <2>1 DEF SmType
  <2>3. \/ r.ask \cap {"Init", "PtkGroupInit"} # {}
        \/ r.grp \in {"KEYERROR", "REKEYESTABLISHED"}
    BY <1>7 DEF GroupIdle
  <2>4. r.grp # "KEYERROR"
    BY <1>3, <1>4, <1>5 DEF GTriesFit, Stays
  <2> HIDE DEF q
  <2>5. FramesFit(q)
    BY <1>4, <1>5, <2>2, <2>3 DEF NoOld, NoKeys
  <2>6. FreshFits(q, w, FALSE)
    BY <1>4, <1>5, <2>2, <2>3, <2>4
  <2>7. CourseFits(q, "group", n) /\ FirstSta(q, g)
    BY <1>4, <1>5, <1>6, <2>2 DEF c
  <2> QED BY <2>5, <2>6, <2>7 DEF q
<1>8. CASE RekeyNegotiating(s)
  <2> DEFINE c == r.GTimeoutCtr + 1
             b == r.PInitAKeys /\ s \in Wpa2
             x == [r EXCEPT !.GTimeoutCtr = c]
             y == [x EXCEPT !.PInitAKeys = b, !.TimeoutEvt = FALSE]
             k == IfKeyed(x, "g1")
  <2>1. \/ EnterGrp(s, "REKEYNEGOTIATING", x)
        \/ EnterGrp(s, "REKEYNEGOTIATING", Sent(y, k))
    BY <1>8 DEF RekeyNegotiating
  <2>2. /\ r.ask \cap {"Init", "PtkGroupInit"} = {}
        /\ \/ Due(r, w)
           \/ r.grp = "REKEYNEGOTIATING"
        /\ ~(r.grp = "REKEYNEGOTIATING" /\ r.rx = "group" /\ r.MICVerified)
    BY <1>8 DEF RekeyNegotiating, w
  <2>3. c \in Nat /\ b \in BOOLEAN
    BY DEF SmType
  <2> HIDE DEF c, b
  <2>4. /\ x \in SmType /\ x.ptk = r.ptk /\ x.ask = r.ask /\ x.rx = r.rx
        /\ x.key_replay = r.key_replay
        /\ x.started = r.started /\ x.known = r.known
    BY <2>3 DEF SmType
  <2> HIDE DEF x
  <2>5. /\ y \in SmType /\ y.ptk = r.ptk /\ y.ask = r.ask /\ y.rx = r.rx
        /\ y.key_replay = r.key_replay
        /\ y.started = r.started /\ y.known = r.known
    BY <2>3, <2>4, ZenonT(30) DEF SmType
  <2> HIDE DEF y
  <2>6. k \in Frames \ {"m3old", "g1old"}
    BY DEF IfKeyed, Frames
  <2> HIDE DEF k
  <2> DEFINE z == Sent(y, k)
  <2>7. /\ z \in SmType /\ z.ptk = r.ptk /\ z.ask = r.ask /\ z.rx = r.rx
        /\ z.started = r.started /\ z.known = r.known
    <3>1. z \in SmType
      BY <2>5, <2>6, SentType
    <3>2. /\ z.ptk = y.ptk /\ z.ask = y.ask /\ z.rx = y.rx
          /\ z.started = y.started /\ z.known = y.known
      BY <2>5 DEF Sent, SmType
    <3> QED BY <2>5, <3>1, <3>2
  <2>8. NoOld(x) /\ NoOld(z)
    <3>1. NoOld(x) /\ NoOld(y)
      BY <1>5, <2>4, <2>5 DEF NoOld
    <3> QED BY <2>5, <2>6, <3>1, SentHolds
  <2> HIDE DEF z
  <2>9. /\ q.ptk = r.ptk /\ q.grp = "REKEYNEGOTIATING" /\ q.ask = r.ask
        /\ q.rx = r.rx /\ q.changed
        /\ q.started = r.started /\ q.known = r.known
        /\ NoOld(q)
    <3>1. \/ q = [x EXCEPT !.grp = "REKEYNEGOTIATING", !.changed = TRUE]
          \/ q = [z EXCEPT !.grp = "REKEYNEGOTIATING", !.changed = TRUE]
      BY <1>0, <2>1 DEF EnterGrp, z
    <3> HIDE DEF q
    <3>2. CASE q = [x EXCEPT !.grp = "REKEYNEGOTIATING", !.changed = TRUE]
      BY <2>4, <2>8, <3>2 DEF NoOld, SmType
    <3>3. CASE q = [z EXCEPT !.grp = "REKEYNEGOTIATING", !.changed = TRUE]
      BY <2>7, <2>8, <3>3 DEF NoOld, SmType
    <3> QED BY <3>1, <3>2, <3>3
  <2>10. /\ r.ptk = "PTKINITDONE" /\ r.rx # "group"
         /\ r.ask \cap {"Init", "AuthenticationRequest"} = {}
    BY <1>4, <2>2
  <2> HIDE DEF q
  <2>11. FramesFit(q)
    BY <2>9, <2>10
  <2>12. FreshFits(q, w, FALSE)
    BY <2>9, <2>10
  <2>13. CourseFits(q, "group", n) /\ FirstSta(q, g)
    BY <1>5, <1>6, <2>2, <2>9, <2>10
  <2> QED BY <2>11, <2>12, <2>13 DEF q
<1>9. CASE RekeyEstablished(s)
  <2>1. /\ q.ptk = r.ptk /\ q.grp = "REKEYESTABLISHED" /\ q.rx = "none"
        /\ q.ask = r.ask /\ q.changed
        /\ q.started = r.started /\ q.known = r.known
        /\ q.key_replay = r.key_replay /\ q.fresh = r.fresh
    BY <1>0, <1>9 DEF RekeyEstablished, EnterGrp, SmType
  <2>2. r.grp = "REKEYNEGOTIATING" /\ r.rx = "group"
    BY <1>9 DEF RekeyEstablished
  <2> HIDE DEF q
  <2>3. FramesFit(q)
    BY <1>5, <2>1, <2>2 DEF NoOld, NoKeys
  <2>4. FreshFits(q, w, FALSE)
    BY <1>5, <2>1, <2>2
  <2>5. CourseFits(q, "group", n) /\ FirstSta(q, g)
    BY <1>4, <1>5, <1>6, <2>1, <2>2
  <2> QED BY <2>3, <2>4, <2>5 DEF q
<1>10. CASE KeyError(s)
  <2>1. /\ q.ptk = r.ptk /\ q.grp = "KEYERROR" /\ q.rx = r.rx
        /\ q.ask = r.ask \cup {"Disconnect"} /\ q.changed
        /\ q.GTimeoutCtr = r.GTimeoutCtr
        /\ q.started = r.started /\ q.known = r.known
        /\ q.key_replay = r.key_replay /\ q.fresh = r.fresh
    BY <1>0, <1>10 DEF KeyError, EnterGrp, SmType
  <2>2. /\ r.grp = "REKEYNEGOTIATING" /\ r.GTimeoutCtr > UpdateCount
        /\ r.ask \cap {"Init", "PtkGroupInit"} = {}
    BY <1>10 DEF KeyError
  <2> HIDE DEF q
  <2>3. FramesFit(q)
    BY <1>5, <2>1, <2>2 DEF NoOld, NoKeys
  <2>4. FreshFits(q, w, FALSE)
    BY <1>5, <2>1, <2>2
  <2>5. CourseFits(q, "group", n) /\ FirstSta(q, g)
    BY <1>5, <1>6, <2>1, <2>2
  <2> QED BY <2>3, <2>4, <2>5 DEF q
<1>11. CASE GroupStays(s)
  <2>1. q = r /\ r.ask \cap {"Init", "PtkGroupInit"} = {}
    BY <1>11 DEF GroupStays
  <2> HIDE DEF q
  <2> QED BY <1>5, <1>6, <2>1 DEF q
<1> QED BY <1>7, <1>8, <1>9, <1>10, <1>11 DEF PtkGroupSm

(* A round ends: the next begins, or the call returns.                      *)
LEMMA RoundHolds ==
  ASSUME NEW r \in SmType, NEW w, NEW n, NEW m, NEW v, NEW f,
         Fits(r, "group", m), Holds(r, "group", w, n, v, f)
  PROVE  /\ Holds([r EXCEPT !.changed = FALSE], "ptk", w, n, v, f)
         /\ ~r.changed => Holds(r, "idle", w, n, v, f)
BY DEF Fits, AskFits, Holds, Stays, FramesFit, NoOld, NoKeys, FreshFits,
     CourseFits, FirstSta, Due, Answer, SmType

(* A step of the machines of s, in its wpa_sm_step.                         *)
LEMMA SmStepHolds ==
  ASSUME Still, IInv, RetryInv, WaitInv, HoldInv, NEW s \in Sta, SmStep(s)
  PROVE  HoldInv'
<1> DEFINE n == Todo(s)
           m == Follows(s)
           w == s \in Wpa2
           f == group.first_sta_seen
<1>0. /\ sm \in [Sta -> SmType] /\ sm[s] \in SmType /\ group \in GroupType
      /\ Fits(sm[s], Place(s), m) /\ Waits(sm[s], Place(s), w, n)
      /\ Holds(sm[s], Place(s), w, n, s \in todo, f)
  BY DEF IInv, TypeOK, RetryInv, WaitInv, HoldInv
<1>1. /\ call.of = {s} /\ s \notin todo /\ ~group.GTKReKey
      /\ group.pool /\ ~group.reject_4way_hs_for_entropy
      /\ todo' = todo /\ next' = next
  <2>1. call # NoCall /\ call.of = {s} /\ todo' = todo /\ next' = next
    <3>1. At("ptk", s) \/ At("grp", s) \/ At("group", s)
      BY DEF SmStep, Round, PtkGroupSm, GroupIdle, RekeyNegotiating,
         RekeyEstablished, KeyError, GroupStays,
         PtkSm, Initialize, Disconnect, EnterDisconnected,
         Authentication, Authentication2, InitPsk, PtkStart,
         PtkCalcNegotiating, PtkCalcNegotiating2, PtkInitNegotiating,
         PtkInitDone, PtkStays
    <3>2. todo' = todo /\ next' = next
      BY DEF SmStep, Round, PtkGroupSm, GroupIdle, RekeyNegotiating,
         RekeyEstablished, KeyError, GroupStays, EnterGrp,
         PtkSm, Initialize, Disconnect, EnterDisconnected,
         Authentication, Authentication2, InitPsk, PtkStart,
         PtkCalcNegotiating, PtkCalcNegotiating2, PtkInitNegotiating,
         PtkInitDone, PtkStays, EnterPtk
    <3> QED BY <3>1, <3>2 DEF At, NoCall
  <2> QED BY <2>1 DEF IInv, StackOK, HoldInv, GroupHolds
<1>2. /\ \A t \in Sta : Todo(t)' = Todo(t)
      /\ (s \in todo)' = FALSE /\ (s \in todo) = FALSE
      /\ todo \ {s} \subseteq todo'
  BY <1>1 DEF Todo
<1>3. CASE PtkSm(s)
  <2>1. At("ptk", s) /\ GoTo("grp", s)
    BY <1>3 DEF PtkSm, Initialize, Disconnect, EnterDisconnected,
         Authentication, Authentication2, InitPsk, PtkStart,
         PtkCalcNegotiating, PtkCalcNegotiating2, PtkInitNegotiating,
         PtkInitDone, PtkStays, EnterPtk
  <2>2. /\ \/ \A t \in Sta \ {s} : sm'[t] = sm[t]
           \/ ~f /\ \A t \in Sta \ {s} : sm'[t] \in {sm[t], NewGtk(sm[t])}
        /\ f => group'.first_sta_seen
        /\ group'.pool /\ ~group'.reject_4way_hs_for_entropy
        /\ ~group'.GTKReKey
    <3>1. CASE Authentication2(s)
      <4> DEFINE c == group.reject_4way_hs_for_entropy
                        \/ (~f /\ ~group.pool)
      <4>1. group' = [group EXCEPT !.first_sta_seen = TRUE,
                                   !.reject_4way_hs_for_entropy = c]
        BY <3>1 DEF Authentication2
      <4>2. ~c
        BY <1>1
      <4> HIDE DEF c
      <4>3. /\ group'.first_sta_seen /\ group'.pool
            /\ ~group'.reject_4way_hs_for_entropy /\ ~group'.GTKReKey
        BY <1>0, <1>1, <4>1, <4>2 DEF GroupType
      <4>4. ASSUME f, NEW t \in Sta \ {s}
            PROVE  sm'[t] = sm[t]
        BY <1>0, <3>1, <4>4 DEF Authentication2
      <4>5. ASSUME ~f, NEW t \in Sta \ {s}
            PROVE  sm'[t] \in {sm[t], NewGtk(sm[t])}
        BY <1>0, <3>1, <4>5 DEF Authentication2
      <4> QED BY <4>3, <4>4, <4>5
    <3>2. CASE ~Authentication2(s)
      <4>1. \A t \in Sta \ {s} : sm'[t] = sm[t]
        BY <1>0, <1>3, <3>2
        DEF PtkSm, Initialize, Disconnect, EnterDisconnected,
            Authentication, InitPsk, PtkStart,
            PtkCalcNegotiating, PtkCalcNegotiating2, PtkInitNegotiating,
            PtkInitDone, PtkStays, EnterPtk
      <4>2. group' = group \/ Uncount(sm[s])
        BY <1>3, <3>2
        DEF PtkSm, Initialize, Disconnect, EnterDisconnected,
            Authentication, InitPsk, PtkStart,
            PtkCalcNegotiating, PtkCalcNegotiating2, PtkInitNegotiating,
            PtkInitDone, PtkStays
      <4>3. /\ f => group'.first_sta_seen
            /\ group'.pool /\ ~group'.reject_4way_hs_for_entropy
            /\ ~group'.GTKReKey
        BY <1>0, <1>1, <4>2 DEF Uncount, GroupType
      <4> QED BY <4>1, <4>3
    <3> QED BY <3>1, <3>2
  <2>3. Place(s) = "ptk" /\ call'.of = {s} /\ Place(s)' = "grp"
    BY <2>1 DEF At, GoTo, Place
  <2>4. Holds(sm'[s], "grp", w, n, FALSE, group'.first_sta_seen)
    <3>1. Holds(sm[s], "ptk", w, n, FALSE, f)
      BY <1>0, <1>2, <2>3
    <3> HIDE DEF n, m
    <3> QED BY <1>0, <1>3, <2>3, <3>1, PtkHolds, ZenonT(30)
  <2> QED BY <1>1, <1>2, <2>2, <2>3, <2>4, OneHolds
<1>4. CASE PtkGroupSm(s)
  <2>1. /\ At("grp", s) /\ GoTo("group", s)
        /\ \A t \in Sta \ {s} : sm'[t] = sm[t]
        /\ group' = group \/ Uncount(sm[s])
    BY <1>0, <1>4 DEF PtkGroupSm, GroupIdle, RekeyNegotiating,
         RekeyEstablished, KeyError, GroupStays, EnterGrp
  <2>2. /\ f => group'.first_sta_seen
        /\ group'.pool /\ ~group'.reject_4way_hs_for_entropy
        /\ ~group'.GTKReKey
    BY <1>0, <1>1, <2>1 DEF Uncount, GroupType
  <2>3. Place(s) = "grp" /\ call'.of = {s} /\ Place(s)' = "group"
    BY <2>1 DEF At, GoTo, Place
  <2>4. Holds(sm'[s], "group", w, n, FALSE, group'.first_sta_seen)
    <3>1. Holds(sm[s], "grp", w, n, FALSE, f)
      BY <1>0, <1>2, <2>3
    <3> HIDE DEF n, m
    <3> QED BY <1>0, <1>4, <2>3, <3>1, PtkGroupHolds, ZenonT(30)
  <2> QED BY <1>1, <1>2, <2>1, <2>2, <2>3, <2>4, OneHolds
<1>5. CASE Round(s)
  <2>1. /\ At("group", s)
        /\ \/ sm' = [sm EXCEPT ![s] = [sm[s] EXCEPT !.changed = FALSE]]
              /\ GoTo("ptk", s)
           \/ ~sm[s].changed /\ sm' = sm /\ call' = NoCall
    BY <1>5 DEF Round, EndRound, Step
  <2>2. Place(s) = "group"
    BY <1>1, <2>1 DEF At, Place
  <2>3. group'.first_sta_seen = f /\ group'.pool /\ ~group'.GTKReKey
        /\ ~group'.reject_4way_hs_for_entropy
    <3>1. PICK g \in {group, [group EXCEPT !.state = "SETKEYSDONE",
                                             !.changed = TRUE]} :
            group' = g \/ group' = [g EXCEPT !.changed = FALSE]
      BY <1>5 DEF Round, EndRound, Step
    <3>2. g \in GroupType
      BY <1>0 DEF GroupType
    <3>3. /\ g.first_sta_seen = group.first_sta_seen
          /\ g.pool = group.pool /\ g.GTKReKey = group.GTKReKey
          /\ g.reject_4way_hs_for_entropy = group.reject_4way_hs_for_entropy
      BY <1>0 DEF GroupType
    <3>4. /\ group'.first_sta_seen = g.first_sta_seen
          /\ group'.pool = g.pool /\ group'.GTKReKey = g.GTKReKey
          /\ group'.reject_4way_hs_for_entropy = g.reject_4way_hs_for_entropy
      BY <3>1, <3>2 DEF GroupType
    <3> QED BY <1>1, <3>3, <3>4
  <2>4. /\ Holds([sm[s] EXCEPT !.changed = FALSE], "ptk", w, n, FALSE, f)
        /\ ~sm[s].changed => Holds(sm[s], "idle", w, n, FALSE, f)
    <3>1. Holds(sm[s], "group", w, n, FALSE, f)
      BY <1>0, <1>2, <2>2
    <3> HIDE DEF n, m, w, f
    <3> QED BY <1>0, <2>2, <3>1, RoundHolds
  <2>5. \/ call'.of = {s} /\ Place(s)' = "ptk"
        \/ call'.of = {} /\ Place(s)' = "idle" /\ call' = NoCall
    BY <2>1 DEF GoTo, NoCall, Place
  <2>6. \A t \in Sta \ {s} : sm'[t] = sm[t]
    BY <1>0, <2>1
  <2>7. Holds(sm'[s], Place(s)', w, n, FALSE, f)
    <3>1. CASE call' = NoCall
      BY <1>0, <2>1, <2>4, <2>5, <3>1 DEF GoTo, NoCall, Place
    <3>2. CASE call' # NoCall
      BY <1>0, <2>1, <2>4, <2>5, <3>2
    <3> QED BY <3>1, <3>2
  <2> QED BY <1>1, <1>2, <2>3, <2>5, <2>6, <2>7, OneHolds
<1> QED BY <1>3, <1>4, <1>5 DEF SmStep

(* What a station is like when no wpa_sm_step is running.                   *)
LEMMA AtHold ==
  ASSUME IInv, RetryInv, WaitInv, HoldInv, Returned, NEW s \in Sta
  PROVE  /\ sm \in [Sta -> SmType] /\ sm[s] \in SmType /\ group \in GroupType
         /\ sm[s].ask \subseteq {"Init"}
         /\ sm[s].rx \notin {"pairwise", "wrong", "group"}
         /\ Holds(sm[s], "idle", s \in Wpa2, Todo(s), s \in todo,
                  group.first_sta_seen)
         /\ Stays(sm[s]) => Rests(sm[s], s \in Wpa2, Todo(s))
<1>1. Place(s) = "idle"
  BY DEF Returned, NoCall, Place
<1> QED BY <1>1, AtRest, AtWait DEF HoldInv

(* Only the count of marked stations changes in the group.                  *)
Recounted(g) == \E c : g \in {group, [group EXCEPT !.GKeyDoneStations = c]}

LEMMA RecountHolds ==
  ASSUME IInv, HoldInv, rekey # "group", NEW g, Recounted(g),
         \/ group' = g
         \/ group' = [g EXCEPT !.changed = FALSE]
  PROVE  /\ group'.first_sta_seen = group.first_sta_seen
         /\ group'.pool /\ ~group'.reject_4way_hs_for_entropy
         /\ ~group'.GTKReKey
<1>1. /\ group \in GroupType /\ ~group.GTKReKey
      /\ group.pool /\ ~group.reject_4way_hs_for_entropy
  BY DEF IInv, TypeOK, StackOK, HoldInv, GroupHolds
<1>2. PICK c : g \in {group, [group EXCEPT !.GKeyDoneStations = c]}
  BY DEF Recounted
<1>3. /\ DOMAIN g = DOMAIN group
      /\ g.first_sta_seen = group.first_sta_seen
      /\ g.pool = group.pool /\ g.GTKReKey = group.GTKReKey
      /\ g.reject_4way_hs_for_entropy = group.reject_4way_hs_for_entropy
      /\ {"first_sta_seen", "pool", "GTKReKey", "changed",
          "reject_4way_hs_for_entropy"} \subseteq DOMAIN g
  BY <1>1, <1>2 DEF GroupType
<1>4. /\ group'.first_sta_seen = g.first_sta_seen
      /\ group'.pool = g.pool /\ group'.GTKReKey = g.GTKReKey
      /\ group'.reject_4way_hs_for_entropy = g.reject_4way_hs_for_entropy
  BY <1>3
<1> QED BY <1>1, <1>3, <1>4

(* A wpa_sm_step is called for s.                                           *)
LEMMA CallHolds ==
  ASSUME IInv, RetryInv, HoldInv, Returned, rekey # "group",
         NEW s \in Sta, NEW r \in SmType, NEW g, Step(s, r, g), Recounted(g),
         Holds(r, "ptk", s \in Wpa2, Todo(s)', (s \in todo)',
               group.first_sta_seen),
         todo \ {s} \subseteq todo',
         \A t \in Sta \ {s} : Todo(t)' = Todo(t)
  PROVE  HoldInv'
<1>1. sm \in [Sta -> SmType]
  BY DEF IInv, TypeOK
<1>2. call.of = {}
  BY DEF Returned, NoCall
<1>3. /\ sm' = [sm EXCEPT ![s] = [r EXCEPT !.changed = FALSE]]
      /\ call'.of = {s} /\ Place(s)' = "ptk"
      /\ group' = [g EXCEPT !.changed = FALSE]
  BY DEF Step, GoTo, Place
<1>4. /\ group'.first_sta_seen = group.first_sta_seen
      /\ group'.pool /\ ~group'.reject_4way_hs_for_entropy
      /\ ~group'.GTKReKey
  BY <1>3, RecountHolds
<1> DEFINE q == [r EXCEPT !.changed = FALSE]
           w == s \in Wpa2
           n == Todo(s)'
           v == (s \in todo)'
           f == group.first_sta_seen
<1>5. Holds(r, "ptk", w, n, v, f)
  OBVIOUS
<1> HIDE DEF n, w, v, f
<1>6. Holds(q, "ptk", w, n, v, f)
  BY <1>5 DEF Holds, Stays, FramesFit, NoOld, NoKeys, FreshFits,
     CourseFits, FirstSta, Due, Answer, SmType
<1> HIDE DEF q
<1>7. sm'[s] = q /\ \A t \in Sta \ {s} : sm'[t] = sm[t]
  BY <1>1, <1>3 DEF q
<1>8. Holds(sm'[s], Place(s)', s \in Wpa2, Todo(s)', (s \in todo)',
            group'.first_sta_seen)
  BY <1>3, <1>4, <1>6, <1>7 DEF w, n, v, f
<1> QED BY <1>2, <1>3, <1>4, <1>7, <1>8, OneHolds

(* s changes, and no call of wpa_sm_step is made.                           *)
LEMMA AloneHolds ==
  ASSUME IInv, RetryInv, HoldInv, Returned, rekey # "group", Recounted(group'),
         NEW s \in Sta, NEW r, sm' = [sm EXCEPT ![s] = r], call' = call,
         Holds(r, "idle", s \in Wpa2, Todo(s)', (s \in todo)',
               group.first_sta_seen),
         todo \ {s} \subseteq todo',
         \A t \in Sta \ {s} : Todo(t)' = Todo(t)
  PROVE  HoldInv'
<1>1. sm \in [Sta -> SmType]
  BY DEF IInv, TypeOK
<1>2. call.of = {} /\ call'.of = {} /\ Place(s)' = "idle"
  BY DEF Returned, NoCall, Place
<1>3. sm'[s] = r /\ \A t \in Sta \ {s} : sm'[t] = sm[t]
  BY <1>1
<1>4. /\ group'.first_sta_seen = group.first_sta_seen
      /\ group'.pool /\ ~group'.reject_4way_hs_for_entropy
      /\ ~group'.GTKReKey
  BY RecountHolds
<1> QED BY <1>2, <1>3, <1>4, OneHolds

(* A new group key comes when no timer runs: no handshake is under way, and *)
(* every station whose pairwise one has ended is to be visited.             *)
LEMMA SetKeysHolds ==
  ASSUME Still, IInv, RetryInv, WaitInv, HoldInv, RekeySetKeys
  PROVE  HoldInv'
<1>1. /\ Returned /\ next = NoNext /\ \A t \in Sta : sm[t].timers = 0
      /\ todo' = Known /\ group \in GroupType
      /\ group.pool /\ ~group.reject_4way_hs_for_entropy
  BY DEF RekeySetKeys, SetKeys, HoldInv, GroupHolds, IInv, TypeOK
<1>2. group' = [group EXCEPT !.state = "SETKEYS", !.GTKReKey = FALSE,
                             !.changed = TRUE, !.GKeyDoneStations = 0]
  BY DEF RekeySetKeys
<1>3. /\ group'.first_sta_seen = group.first_sta_seen
      /\ group'.pool /\ ~group'.reject_4way_hs_for_entropy
      /\ ~group'.GTKReKey
  BY <1>1, <1>2 DEF GroupType
<1>4. ASSUME NEW t \in Sta
      PROVE  Holds(sm'[t], Place(t)', t \in Wpa2, Todo(t)', (t \in todo)',
                   group'.first_sta_seen)
  <2> DEFINE r == sm[t]
             w == t \in Wpa2
             f == group.first_sta_seen
             u == t \in Known
             v == t \in todo
  <2>1. /\ sm'[t] = NewGtk(r) /\ Place(t)' = "idle" /\ Todo(t)' = "none"
        /\ Todo(t) = "none" /\ (t \in todo)' = u
    BY <1>1 DEF RekeySetKeys, Place, Todo, Returned, NoCall, NoNext
  <2>2. /\ r \in SmType /\ r.ask \subseteq {"Init"} /\ r.timers = 0
        /\ r.rx \notin {"pairwise", "wrong", "group"}
        /\ Holds(r, "idle", w, "none", v, f)
        /\ Stays(r) => Rests(r, w, "none")
    BY <1>1, <2>1, AtHold
  <2>3. u <=> r.known
    BY DEF Known
  <2> HIDE DEF r, w, f, u, v
  <2>4. ASSUME Stays(r)
        PROVE  /\ NoKeys(r) /\ r.grp # "REKEYESTABLISHED"
               /\ r.ptk = "PTKINITDONE" => r.known
    <3>1. /\ FramesFit(r) /\ CourseFits(r, "idle", "none")
          /\ Rests(r, w, "none") /\ Quiet
      BY <2>2, <2>4 DEF Holds, Still, Quiet
    <3>2. /\ r.ptk \notin {"PTKSTART", "PTKCALCNEGOTIATING",
                           "PTKINITNEGOTIATING", "PTKCALCNEGOTIATING2",
                           "DISCONNECT", "DISCONNECTED", "AUTHENTICATION2",
                           "INITPSK"}
          /\ r.ptk = "PTKINITDONE" =>
               r.grp # "REKEYNEGOTIATING" /\ r.started
          /\ r.grp # "REKEYESTABLISHED"
      BY <2>2, <3>1 DEF Rests, CourseFits, StartFits
    <3>3. r.ptk \in {"INITIALIZE", "AUTHENTICATION", "PTKINITDONE"}
      BY <2>2, <3>2 DEF SmType, PtkStates
    <3> QED BY <2>2, <3>1, <3>2, <3>3 DEF FramesFit, CourseFits
  <2>5. Holds(NewGtk(r), "idle", w, "none", u, f)
    BY <2>2, <2>3, <2>4, NewGtkHolds DEF Answer
  <2> QED BY <1>3, <2>1, <2>5 DEF w, f
<1> QED BY <1>3, <1>4 DEF HoldInv, GroupHolds

(* A running wpa_rekey_gtk.                                                 *)
LEMMA RekeyingHolds ==
  ASSUME Still, IInv, RetryInv, WaitInv, HoldInv, Rekeying
  PROVE  HoldInv'
<1> USE DEF Stays, FramesFit, FreshFits, CourseFits, FirstSta, Due, Answer
<1>1. CASE RekeySetKeysDone \/ RekeyVisited \/ RekeyReturns
  <2>1. group \in GroupType
    BY DEF IInv, TypeOK
  <2>2. UNCHANGED <<sm, call, todo, next>>
    BY <1>1 DEF RekeySetKeysDone, RekeyVisited, RekeyReturns
  <2>3. /\ group'.first_sta_seen = group.first_sta_seen
        /\ group'.pool = group.pool /\ group'.GTKReKey = group.GTKReKey
        /\ group'.reject_4way_hs_for_entropy
             = group.reject_4way_hs_for_entropy
    BY <1>1, <2>1
    DEF RekeySetKeysDone, RekeyVisited, RekeyReturns, GroupType
  <2> QED BY <2>2, <2>3 DEF HoldInv, GroupHolds, Place, Todo
<1>2. CASE RekeySetKeys
  BY <1>2, SetKeysHolds
<1>3. ASSUME NEW s \in Sta, Skip(s)
      PROVE  HoldInv'
  <2> DEFINE r == [sm[s] EXCEPT !.GUpdateStationKeys = FALSE]
             w == s \in Wpa2
             n == Todo(s)
             v == s \in todo
             f == group.first_sta_seen
  <2>1. /\ sm' = [sm EXCEPT ![s] = r] /\ Returned /\ call' = call
        /\ group' = group /\ next' = next /\ sm[s].ptk # "PTKINITDONE"
        /\ s \in todo /\ todo' = todo \ {s}
    BY <1>3 DEF Skip
  <2>2. /\ \A t \in Sta : Todo(t)' = Todo(t)
        /\ rekey # "group" /\ Recounted(group')
    BY <2>1 DEF Todo, IInv, StackOK, Recounted
  <2>3. sm[s] \in SmType /\ Holds(sm[s], "idle", w, n, v, f)
    BY <2>1, AtHold
  <2>6. (s \in todo)' = FALSE
    BY <2>1
  <2> HIDE DEF n, w, v, f
  <2>4. Holds(r, "idle", w, n, FALSE, f)
    BY <2>1, <2>3 DEF Holds, SmType, NoOld, NoKeys
  <2> HIDE DEF r
  <2>5. Holds(r, "idle", s \in Wpa2, Todo(s)', (s \in todo)',
              group.first_sta_seen)
    BY <2>2, <2>4, <2>6 DEF n, w, f
  <2> QED BY <2>1, <2>2, <2>5, AloneHolds
<1>4. ASSUME NEW s \in Sta, Update(s)
      PROVE  HoldInv'
  <2> DEFINE r == [sm[s] EXCEPT !.GUpdateStationKeys = TRUE]
             c == group.GKeyDoneStations + 1
             g == [group EXCEPT !.GKeyDoneStations = c]
             w == s \in Wpa2
             n == Todo(s)
             v == s \in todo
             f == group.first_sta_seen
  <2>1. /\ Step(s, r, g) /\ Returned /\ next' = next
        /\ s \in todo /\ todo' = todo \ {s}
    BY <1>4 DEF Update
  <2>2. /\ \A t \in Sta : Todo(t)' = Todo(t)
        /\ rekey # "group" /\ Recounted(g)
    BY <2>1 DEF Todo, IInv, StackOK, Recounted
  <2>3. /\ sm[s] \in SmType /\ Holds(sm[s], "idle", w, n, v, f)
        /\ sm[s].ask \subseteq {"Init"}
    BY <2>1, AtHold
  <2>6. (s \in todo)' = FALSE
    BY <2>1
  <2> HIDE DEF n, w, v, f
  <2>4. r \in SmType
    BY <2>3 DEF SmType
  <2>7. /\ r.ptk = sm[s].ptk /\ r.grp = sm[s].grp /\ r.rx = sm[s].rx
        /\ r.ask = sm[s].ask /\ r.GTimeoutCtr = sm[s].GTimeoutCtr
        /\ r.started = sm[s].started /\ r.known = sm[s].known
        /\ r.fresh = sm[s].fresh /\ r.key_replay = sm[s].key_replay
        /\ r.timeout_next = sm[s].timeout_next /\ r.GUpdateStationKeys
    BY <2>3 DEF SmType
  <2> HIDE DEF r, g
  <2>8. Holds(r, "ptk", w, n, FALSE, f)
    BY <2>3, <2>7 DEF Holds, NoOld, NoKeys
  <2>5. Holds(r, "ptk", s \in Wpa2, Todo(s)', (s \in todo)',
              group.first_sta_seen)
    BY <2>2, <2>6, <2>8 DEF n, w, f
  <2> QED BY <2>1, <2>2, <2>4, <2>5, CallHolds
<1> QED BY <1>1, <1>2, <1>3, <1>4 DEF Rekeying

(* The rest of a handler.                                                   *)
LEMMA RestOfHandlerHolds ==
  ASSUME Still, IInv, RetryInv, WaitInv, HoldInv, NEW s \in Sta, Rest(s)
  PROVE  HoldInv'
<1>1. /\ Returned /\ next.of = {s} /\ rekey # "group"
      /\ todo' = todo /\ todo = {}
  BY DEF Rest, NewAssoc, Initialized, ReAssoc, Free, KeyReceived, Continues,
     IInv, StackOK
<1>2. \A t \in Sta \ {s} : Todo(t)' = Todo(t)
  <2>1. next' = NoNext \/ \E what : Then(what, s)
    BY DEF Rest, NewAssoc, Initialized, ReAssoc, Free, KeyReceived
  <2> QED BY <1>1, <2>1 DEF Then, NoNext, Todo
<1>3. /\ todo \ {s} \subseteq todo' /\ (s \in todo)' = FALSE
      /\ (s \in todo) = FALSE /\ Recounted(group)
  BY <1>1 DEF Recounted
<1> DEFINE w == s \in Wpa2
           p == sm[s]
           f == group.first_sta_seen
<1>4. /\ sm \in [Sta -> SmType] /\ p \in SmType /\ p.ask \subseteq {"Init"}
      /\ p.rx \notin {"pairwise", "wrong", "group"}
      /\ Holds(p, "idle", w, Todo(s), FALSE, f)
      /\ Stays(p) => Rests(p, w, Todo(s))
  BY <1>1, <1>3, AtHold
<1>5. "Init" \in p.ask => Todo(s) = "initialized"
  BY <1>1, AtRest DEF Follows, Todo
<1>6. Quiet
  BY DEF Still, Quiet
<1> HIDE DEF w, f
<1> USE DEF Stays, FramesFit, FreshFits, CourseFits, FirstSta, Due, Answer
(* A call is made for s, r being its state machine.                         *)
<1>7. ASSUME NEW r \in SmType, NEW g, Step(s, r, g), Recounted(g),
             Holds(r, "ptk", w, Todo(s)', FALSE, f)
      PROVE  HoldInv'
  BY <1>1, <1>2, <1>3, <1>7, CallHolds DEF w, f
<1>8. CASE NewAssoc(s) /\ sm[s].started
  <2> DEFINE r == [sm[s] EXCEPT !.key_replay = <<>>,
                     !.ask = @ \cup {"ReAuthenticationRequest"}]
  <2>1. Todo(s) = "newAssoc" /\ p.ask = {}
    BY <1>4, <1>5, <1>8 DEF NewAssoc, Continues, Todo
  <2>2. <<>> \in Seq(Frames) /\ DOMAIN <<>> = {}
    OBVIOUS
  <2>3. r \in SmType
    BY <1>4, <2>2 DEF SmType, Rank
  <2>4. /\ r.ptk = p.ptk /\ r.grp = p.grp /\ r.rx = p.rx
        /\ r.ask = {"ReAuthenticationRequest"}
        /\ r.GTimeoutCtr = p.GTimeoutCtr
        /\ r.started = p.started /\ r.known = p.known
        /\ r.fresh = p.fresh /\ DOMAIN r.key_replay = {}
        /\ r.timeout_next = p.timeout_next
        /\ r.GUpdateStationKeys = p.GUpdateStationKeys
        /\ r.PInitAKeys = p.PInitAKeys
    BY <1>4, <2>1, <2>2 DEF SmType
  <2> HIDE DEF r
  <2>5. Step(s, r, group) /\ Todo(s)' = "none"
    BY <1>8 DEF NewAssoc, NoNext, Todo, r
  <2>6. Holds(r, "ptk", w, "none", FALSE, f)
    BY <1>4, <2>1, <2>4 DEF Holds, NoOld, NoKeys
  <2> HIDE DEF p
  <2> QED BY <1>3, <1>7, <2>3, <2>5, <2>6
<1>9. CASE NewAssoc(s) /\ ~sm[s].started
  <2> DEFINE r == [sm[s] EXCEPT !.started = TRUE, !.ask = @ \cup {"Init"}]
  <2>1. Todo(s) = "newAssoc" /\ p.ask = {}
    BY <1>4, <1>5, <1>9 DEF NewAssoc, Continues, Todo
  <2>2. Stays(p) => p.ptk = "INITIALIZE"
    BY <1>4, <1>6, <1>9, <2>1 DEF Rests, StartFits
  <2>3. r \in SmType
    BY <1>4 DEF SmType, Rank
  <2>4. /\ r.ptk = p.ptk /\ r.grp = p.grp /\ r.rx = p.rx
        /\ r.ask = {"Init"} /\ r.GTimeoutCtr = p.GTimeoutCtr
        /\ r.known = p.known /\ r.fresh = p.fresh
        /\ r.key_replay = p.key_replay /\ r.timeout_next = p.timeout_next
        /\ r.GUpdateStationKeys = p.GUpdateStationKeys
        /\ r.PInitAKeys = p.PInitAKeys
    BY <1>4, <2>1 DEF SmType
  <2> HIDE DEF r
  <2>5. Step(s, r, group) /\ Todo(s)' = "initialized"
    BY <1>9 DEF NewAssoc, Then, Todo, r
  <2>6. Holds(r, "ptk", w, "initialized", FALSE, f)
    BY <1>4, <2>1, <2>2, <2>4 DEF Holds, NoOld, NoKeys
  <2> HIDE DEF p
  <2> QED BY <1>3, <1>7, <2>3, <2>5, <2>6
<1>10. CASE Initialized(s)
  <2> DEFINE a == (sm[s].ask \ {"Init"}) \cup {"AuthenticationRequest"}
             r == [sm[s] EXCEPT !.ask = a]
  <2>1. Todo(s) = "initialized" /\ a = {"AuthenticationRequest"}
    BY <1>4, <1>10 DEF Initialized, Continues, Todo
  <2>2. Stays(p) => "Init" \in p.ask
    BY <1>4, <1>6, <2>1 DEF Rests, QuietAskFits
  <2>3. Step(s, r, group) /\ Todo(s)' = "none"
    BY <1>10 DEF Initialized, NoNext, Todo
  <2> HIDE DEF a
  <2>4. r \in SmType
    BY <1>4, <2>1 DEF SmType, Rank
  <2>5. /\ r.ptk = p.ptk /\ r.grp = p.grp /\ r.rx = p.rx
        /\ r.ask = {"AuthenticationRequest"}
        /\ r.GTimeoutCtr = p.GTimeoutCtr
        /\ r.started = p.started /\ r.known = p.known /\ r.fresh = p.fresh
        /\ r.key_replay = p.key_replay /\ r.timeout_next = p.timeout_next
        /\ r.GUpdateStationKeys = p.GUpdateStationKeys
        /\ r.PInitAKeys = p.PInitAKeys
    BY <1>4, <2>1 DEF SmType
  <2> HIDE DEF r
  <2>6. Holds(r, "ptk", w, "none", FALSE, f)
    BY <1>4, <2>1, <2>2, <2>5 DEF Holds, NoOld, NoKeys
  <2> HIDE DEF p
  <2> QED BY <1>3, <1>7, <2>3, <2>4, <2>6
<1>11. CASE ReAssoc(s)
  <2> DEFINE b == IF sm[s].GUpdateStationKeys THEN {"PtkGroupInit"} ELSE {}
             a == sm[s].ask \cup {"ReAuthenticationRequest"} \cup b
             r == [sm[s] EXCEPT !.GUpdateStationKeys = FALSE,
                                !.PTK_valid = FALSE, !.ask = a]
             c == group.GKeyDoneStations - Marks(sm[s])
             g == [group EXCEPT !.GKeyDoneStations = c]
  <2>1. Todo(s) = "reAssoc" /\ p.ask = {}
    BY <1>4, <1>5, <1>11 DEF ReAssoc, Continues, Todo
  <2>2. Step(s, r, g) /\ Todo(s)' = "none"
    BY <1>11 DEF ReAssoc, NoNext, Todo
  <2>3. /\ a \in SUBSET DOMAIN Rank
        /\ a \subseteq {"ReAuthenticationRequest", "PtkGroupInit"}
        /\ "ReAuthenticationRequest" \in a
    BY <2>1 DEF Rank
  <2>4. Recounted(g)
    BY DEF Recounted
  <2> HIDE DEF a, c
  <2>5. r \in SmType
    BY <1>4, <2>3 DEF SmType
  <2>6. /\ r.ptk = p.ptk /\ r.grp = p.grp /\ r.rx = p.rx /\ r.ask = a
        /\ r.GTimeoutCtr = p.GTimeoutCtr
        /\ r.started = p.started /\ r.known = p.known /\ r.fresh = p.fresh
        /\ r.key_replay = p.key_replay /\ r.timeout_next = p.timeout_next
    BY <1>4, <2>3 DEF SmType
  <2> HIDE DEF r, g
  <2>7. Stays(p) => ~Due(p, w)
    BY <1>4 DEF Rests
  <2>8. Holds(r, "ptk", w, "none", FALSE, f)
    BY <1>4, <2>1, <2>3, <2>6, <2>7 DEF Holds, NoOld, NoKeys
  <2> HIDE DEF p
  <2> QED BY <1>7, <2>2, <2>4, <2>5, <2>8
<1>12. CASE Free(s)
  <2>1. /\ sm' = [sm EXCEPT ![s] = Absent] /\ call' = call
        /\ Todo(s)' = "none" /\ Uncount(sm[s])
    BY <1>12 DEF Free, FreeSta, NoNext, Todo
  <2>2. Recounted(group')
    BY <2>1 DEF Uncount, Recounted
  <2> HIDE DEF Holds
  <2>3. Holds(Absent, "idle", s \in Wpa2, Todo(s)', (s \in todo)',
              group.first_sta_seen)
    BY <2>1, AbsentHolds
  <2> QED BY <1>1, <1>2, <1>3, <2>1, <2>2, <2>3, AloneHolds
<1>13. CASE KeyReceived(s)
  <2> DEFINE r == [sm[s] EXCEPT !.rx = "request"]
  <2>1. Todo(s) = "keyReceived" /\ p.ask = {}
    BY <1>4, <1>5, <1>13 DEF KeyReceived, Continues, Todo
  <2>2. Step(s, r, group) /\ Todo(s)' = "none"
    BY <1>13 DEF KeyReceived, NoNext, Todo
  <2>3. r \in SmType
    BY <1>4 DEF SmType
  <2>4. /\ r.ptk = p.ptk /\ r.grp = p.grp /\ r.rx = "request"
        /\ r.ask = p.ask /\ r.GTimeoutCtr = p.GTimeoutCtr
        /\ r.started = p.started /\ r.known = p.known /\ r.fresh = p.fresh
        /\ r.key_replay = p.key_replay /\ r.timeout_next = p.timeout_next
        /\ r.GUpdateStationKeys = p.GUpdateStationKeys
        /\ r.PInitAKeys = p.PInitAKeys
    BY <1>4 DEF SmType
  <2> HIDE DEF r
  <2>5. Holds(r, "ptk", w, "none", FALSE, f)
    BY <1>4, <2>1, <2>4 DEF Holds, NoOld, NoKeys
  <2> HIDE DEF p
  <2> QED BY <1>3, <1>7, <2>2, <2>3, <2>5
<1> QED BY <1>8, <1>9, <1>10, <1>11, <1>12, <1>13 DEF Rest

(* What there is before an event of s, and does not change with it.          *)
LEMMA AtEvent ==
  ASSUME IInv, RetryInv, WaitInv, HoldInv, Idle, NEW s \in Sta, Event(s)
  PROVE  /\ Returned /\ rekey # "group" /\ Todo(s) = "none"
         /\ todo \ {s} \subseteq todo' /\ (s \in todo)' = FALSE
         /\ sm \in [Sta -> SmType] /\ sm[s] \in SmType /\ sm[s].ask = {}
         /\ sm[s].rx \notin {"pairwise", "wrong", "group"}
         /\ Holds(sm[s], "idle", s \in Wpa2, "none", FALSE,
                  group.first_sta_seen)
         /\ Stays(sm[s]) => Rests(sm[s], s \in Wpa2, "none")
         /\ \A t \in Sta \ {s} : Todo(t)' = Todo(t)
         /\ Recounted(group)
<1>1. /\ Returned /\ rekey = "no" /\ todo = {} /\ Todo(s) = "none"
      /\ Recounted(group)
  BY DEF Idle, IInv, StackOK, NoNext, Todo, Recounted
<1>2. todo' = todo
  BY DEF Event, Associate, Disassociate, Remove, Inactive, Timeout, TxStatus,
     Receive, Pairwise2, Pairwise4, Group2, BadMic, RequestPtk, RequestGtk
<1>3. next' = next \/ \E what : Then(what, s)
  BY DEF Event, Associate, Disassociate, Remove, Inactive, Timeout, TxStatus,
     Receive, Pairwise2, Pairwise4, Group2, BadMic, RequestPtk, RequestGtk
<1>4. (s \in todo) = FALSE
  BY <1>1
<1> QED BY <1>1, <1>2, <1>3, <1>4, AtIdle, AtHold, OthersIdle

(* Associations and what ends them.                                         *)
LEMMA AssociationHolds ==
  ASSUME IInv, RetryInv, WaitInv, HoldInv, NEW s \in Sta,
         Associate(s) \/ Disassociate(s) \/ Remove(s) \/ Inactive(s)
  PROVE  HoldInv'
<1>1. Idle /\ Event(s)
  BY DEF Associate, Disassociate, Remove, Inactive, Event
<1> DEFINE w == s \in Wpa2
           p == sm[s]
           f == group.first_sta_seen
<1>2. /\ p \in SmType /\ p.ask = {} /\ sm \in [Sta -> SmType]
      /\ p.rx \notin {"pairwise", "wrong", "group"}
      /\ Holds(p, "idle", w, "none", FALSE, f)
      /\ Recounted(group)
  BY <1>1, AtEvent
<1>3. ASSUME NEW r \in SmType, Step(s, r, group),
             Holds(r, "ptk", w, Todo(s)', FALSE, f)
      PROVE  HoldInv'
  BY <1>1, <1>3, AtEvent, CallHolds
<1>4. ASSUME NEW r, sm' = [sm EXCEPT ![s] = r], call' = call,
             Recounted(group'), Holds(r, "idle", w, Todo(s)', FALSE, f)
      PROVE  HoldInv'
  BY <1>1, <1>4, AtEvent, AloneHolds
<1> HIDE DEF w, f
<1> USE DEF Stays, FramesFit, FreshFits, CourseFits, FirstSta, Due, Answer
<1>5. CASE Associate(s)
  <2> DEFINE r == [sm[s] EXCEPT !.known = TRUE, !.assoc = TRUE,
                                !.PTK_valid = FALSE]
             n == IF sm[s].assoc THEN "reAssoc" ELSE "newAssoc"
  <2>1. Step(s, r, group) /\ Todo(s)' = n
    BY <1>5 DEF Associate, Then, Todo
  <2>2. r \in SmType
    BY <1>2 DEF SmType
  <2>3. /\ r.ptk = p.ptk /\ r.grp = p.grp /\ r.rx = p.rx /\ r.ask = p.ask
        /\ r.GTimeoutCtr = p.GTimeoutCtr
        /\ r.started = p.started /\ r.known /\ r.fresh = p.fresh
        /\ r.key_replay = p.key_replay /\ r.timeout_next = p.timeout_next
        /\ r.GUpdateStationKeys = p.GUpdateStationKeys
        /\ r.PInitAKeys = p.PInitAKeys
    BY <1>2 DEF SmType
  <2> HIDE DEF r, n
  <2>4. Holds(r, "ptk", w, n, FALSE, f)
    BY <1>2, <2>3 DEF Holds, NoOld, NoKeys
  <2> HIDE DEF p
  <2> QED BY <1>3, <2>1, <2>2, <2>4
<1>6. CASE Disassociate(s)
  <2> DEFINE r == [sm[s] EXCEPT !.assoc = FALSE, !.PTK_valid = FALSE,
                     !.ask = @ \cup {"DeauthenticationRequest"}]
  <2>1. Step(s, r, group) /\ Todo(s)' = "free"
    BY <1>6 DEF Disassociate, Then, Todo
  <2>2. r \in SmType
    BY <1>2, ZenonT(30) DEF SmType, Rank
  <2> HIDE DEF r
  <2>3. Holds(r, "ptk", w, "free", FALSE, f)
    BY DEF Holds
  <2> QED BY <1>3, <2>1, <2>2, <2>3
<1>7. CASE Remove(s)
  <2>1. /\ sm' = [sm EXCEPT ![s] = Absent] /\ call' = call /\ Todo(s)' = "none"
        /\ Uncount(sm[s])
    BY <1>1, <1>7 DEF Remove, FreeSta, Idle, NoNext, Todo
  <2>2. Recounted(group')
    BY <2>1 DEF Uncount, Recounted
  <2>3. Holds(Absent, "idle", w, "none", FALSE, f)
    BY AbsentHolds
  <2> QED BY <1>4, <2>1, <2>2, <2>3
<1>8. CASE Inactive(s)
  <2> DEFINE r == [sm[s] EXCEPT !.assoc = FALSE, !.timeout_next = "DEAUTH"]
  <2>1. /\ sm' = [sm EXCEPT ![s] = r] /\ call' = call /\ group' = group
    BY <1>2, <1>8 DEF Inactive
  <2>2. r.timeout_next # "NULLFUNC"
    BY <1>2 DEF SmType
  <2> HIDE DEF r
  <2>3. Holds(r, "idle", w, Todo(s)', FALSE, f)
    BY <2>2 DEF Holds
  <2> QED BY <1>2, <1>4, <2>1, <2>3
<1> QED BY <1>5, <1>6, <1>7, <1>8

(* The timer, and the acknowledgement that sets it anew.                    *)
LEMMA TimerHolds ==
  ASSUME IInv, RetryInv, WaitInv, HoldInv, NEW s \in Sta,
         Timeout(s) \/ TxStatus(s)
  PROVE  HoldInv'
<1>1. Idle /\ Event(s) /\ Todo(s)' = "none" /\ group \in GroupType
  BY DEF Timeout, TxStatus, Event, Idle, NoNext, Todo, IInv, TypeOK
<1> DEFINE w == s \in Wpa2
           p == sm[s]
           f == group.first_sta_seen
<1>2. /\ p \in SmType /\ p.ask = {} /\ sm \in [Sta -> SmType]
      /\ Holds(p, "idle", w, "none", FALSE, f)
      /\ Recounted(group)
  BY <1>1, AtEvent
<1>3. ASSUME NEW r, r.ptk = p.ptk, r.grp = p.grp, r.rx = p.rx, r.ask = p.ask,
             r.GTimeoutCtr = p.GTimeoutCtr,
             r.started = p.started, r.known = p.known, r.fresh = p.fresh,
             r.key_replay = p.key_replay, r.timeout_next = p.timeout_next,
             r.GUpdateStationKeys = p.GUpdateStationKeys,
             r.PInitAKeys = p.PInitAKeys
      PROVE  /\ Holds(r, "idle", w, "none", FALSE, f)
             /\ Holds(r, "ptk", w, "none", FALSE, f)
  <2> HIDE DEF w, f, p
  <2> QED BY <1>2, <1>3 DEF Holds, Stays, FramesFit, NoOld, NoKeys, FreshFits,
       CourseFits, FirstSta, Due, Answer
<1>4. CASE Timeout(s)
  <2> DEFINE c == sm[s].timers - 1
             r == [sm[s] EXCEPT !.timers = c, !.TimeoutEvt = TRUE,
                                !.pending_1_of_4_timeout = FALSE]
  <2>1. Step(s, r, group)
    BY <1>4 DEF Timeout
  <2>2. c \in Nat
    BY <1>2, <1>4 DEF Timeout, SmType
  <2> HIDE DEF c
  <2>3. r \in SmType
    BY <1>2, <2>2 DEF SmType
  <2>4. Holds(r, "ptk", w, "none", FALSE, f)
    <3>1. /\ r.ptk = p.ptk /\ r.grp = p.grp /\ r.rx = p.rx /\ r.ask = p.ask
          /\ r.GTimeoutCtr = p.GTimeoutCtr
          /\ r.started = p.started /\ r.known = p.known /\ r.fresh = p.fresh
          /\ r.key_replay = p.key_replay /\ r.timeout_next = p.timeout_next
          /\ r.GUpdateStationKeys = p.GUpdateStationKeys
          /\ r.PInitAKeys = p.PInitAKeys
      BY <1>2 DEF SmType
    <3> HIDE DEF r, p, w, f
    <3> QED BY <1>3, <3>1
  <2> HIDE DEF r
  <2> QED BY <1>1, <1>2, <2>1, <2>3, <2>4, AtEvent, CallHolds
<1>5. CASE TxStatus(s)
  <2> DEFINE r == [sm[s] EXCEPT !.timers = 1]
  <2>1. sm' = [sm EXCEPT ![s] = r] /\ call' = call /\ group' = group
    BY <1>2, <1>5 DEF TxStatus
  <2>2. Holds(r, "idle", w, "none", FALSE, f)
    <3>1. /\ r.ptk = p.ptk /\ r.grp = p.grp /\ r.rx = p.rx /\ r.ask = p.ask
          /\ r.GTimeoutCtr = p.GTimeoutCtr
          /\ r.started = p.started /\ r.known = p.known /\ r.fresh = p.fresh
          /\ r.key_replay = p.key_replay /\ r.timeout_next = p.timeout_next
          /\ r.GUpdateStationKeys = p.GUpdateStationKeys
          /\ r.PInitAKeys = p.PInitAKeys
      BY <1>2 DEF SmType
    <3> HIDE DEF r, p, w, f
    <3> QED BY <1>3, <3>1
  <2> HIDE DEF r
  <2> QED BY <1>1, <1>2, <2>1, <2>2, AtEvent, AloneHolds
<1> QED BY <1>4, <1>5

(* A frame: with no earlier key outstanding, an answer is to the current     *)
(* one.                                                                     *)
LEMMA ReceiveHolds ==
  ASSUME Still, IInv, RetryInv, WaitInv, HoldInv, NEW s \in Sta, Receive(s)
  PROVE  HoldInv'
<1>1. Idle /\ Event(s) /\ Todo(s)' = "none"
  <2>1. Idle /\ Event(s)
    BY DEF Receive, Pairwise2, Pairwise4, Group2, BadMic, RequestPtk,
       RequestGtk, Event
  <2>2. next' = next
    BY DEF Receive, Pairwise2, Pairwise4, Group2, BadMic, RequestPtk,
       RequestGtk, Still, Requests
  <2> QED BY <2>1, <2>2 DEF Idle, NoNext, Todo
<1> DEFINE w == s \in Wpa2
           p == sm[s]
           f == group.first_sta_seen
<1>2. /\ p \in SmType /\ p.ask = {} /\ sm \in [Sta -> SmType]
      /\ p.rx \notin {"pairwise", "wrong", "group"}
      /\ Holds(p, "idle", w, "none", FALSE, f)
      /\ Stays(p) => Rests(p, w, "none")
      /\ Recounted(group)
  BY <1>1, AtEvent
<1>3. ASSUME NEW r \in SmType, Step(s, r, group),
             Holds(r, "ptk", w, "none", FALSE, f)
      PROVE  HoldInv'
  BY <1>1, <1>3, AtEvent, CallHolds
<1>4. ASSUME NEW r, sm' = [sm EXCEPT ![s] = r], call' = call, group' = group,
             Holds(r, "idle", w, "none", FALSE, f)
      PROVE  HoldInv'
  BY <1>1, <1>2, <1>4, AtEvent, AloneHolds
<1> HIDE DEF w, f
<1> USE DEF Stays, FramesFit, FreshFits, CourseFits, FirstSta, Due, Answer
<1>5. <<>> \in Seq(Frames) /\ DOMAIN <<>> = {}
  OBVIOUS
<1>6. CASE Pairwise2(s)
  <2>1. ~group.reject_4way_hs_for_entropy
    BY DEF HoldInv, GroupHolds
  <2>2. PICK what \in {"pairwise", "wrong"} :
          \/ /\ sm' = [sm EXCEPT ![s] = Dropped(sm[s])]
             /\ call' = call /\ group' = group
          \/ Step(s, [sm[s] EXCEPT !.MICVerified = FALSE,
                        !.key_replay = <<>>, !.rx = what], group)
    BY <1>6, <2>1 DEF Pairwise2
  <2>3. p.ptk \in {"PTKSTART", "PTKCALCNEGOTIATING"}
    BY <1>6 DEF Pairwise2
  <2> DEFINE r == [sm[s] EXCEPT !.MICVerified = FALSE,
                                !.key_replay = <<>>, !.rx = what]
  <2>4. CASE Step(s, r, group)
    <3>1. r \in SmType
      BY <1>2, <1>5 DEF SmType
    <3>2. /\ r.ptk = p.ptk /\ r.grp = p.grp /\ r.rx = what /\ r.ask = {}
          /\ r.GTimeoutCtr = p.GTimeoutCtr
          /\ r.started = p.started /\ r.known = p.known /\ r.fresh = p.fresh
          /\ DOMAIN r.key_replay = {} /\ r.timeout_next = p.timeout_next
      BY <1>2, <1>5 DEF SmType
    <3> HIDE DEF r
    <3>3. Holds(r, "ptk", w, "none", FALSE, f)
      BY <1>2, <2>3, <3>2 DEF Holds, NoOld, NoKeys
    <3> QED BY <1>3, <2>4, <3>1, <3>3
  <2>5. CASE /\ sm' = [sm EXCEPT ![s] = Dropped(sm[s])]
             /\ call' = call /\ group' = group
    <3>1. Dropped(p).timeout_next # "NULLFUNC"
      BY <1>2 DEF SmType, Dropped
    <3>2. Holds(Dropped(p), "idle", w, "none", FALSE, f)
      BY <3>1 DEF Holds
    <3> QED BY <1>4, <2>5, <3>2
  <2> QED BY <2>2, <2>4, <2>5
<1>7. CASE Pairwise4(s)
  <2>1. PICK frame \in {"m3", "m3old"} :
          /\ Outstanding(s, frame)
          /\ Step(s, [Taken(sm[s], "pairwise") EXCEPT
                        !.fresh = IF s \in Wpa2 THEN frame = "m3" ELSE @],
                  group)
    BY <1>7 DEF Pairwise4
  <2> DEFINE q == Taken(sm[s], "pairwise")
             b == IF s \in Wpa2 THEN frame = "m3" ELSE q.fresh
             r == [q EXCEPT !.fresh = b]
  <2>2. q \in SmType
    BY <1>2, TakenType
  <2>3. Stays(p) => frame = "m3"
    BY <1>2, <2>1 DEF Outstanding, Holds, NoOld
  <2>4. /\ q.ptk = p.ptk /\ p.ptk = "PTKINITNEGOTIATING"
        /\ q.grp = p.grp /\ q.rx = "pairwise" /\ q.ask = {}
        /\ q.GTimeoutCtr = p.GTimeoutCtr
        /\ q.started = p.started /\ q.known = p.known
        /\ DOMAIN q.key_replay = {} /\ q.timeout_next = p.timeout_next
    <3>1. p.ptk = "PTKINITNEGOTIATING"
      BY <1>7 DEF Pairwise4
    <3> QED BY <1>2, <1>5, <3>1 DEF SmType, Taken, StopTimers
  <2> HIDE DEF q
  <2>5. b \in BOOLEAN
    BY <2>2 DEF SmType
  <2>6. w /\ frame = "m3" => b
    BY DEF w
  <2>7. Step(s, r, group)
    BY <2>1 DEF q
  <2> HIDE DEF b
  <2>8. r \in SmType
    BY <2>2, <2>5 DEF SmType
  <2>9. /\ r.ptk = q.ptk /\ r.grp = q.grp /\ r.rx = q.rx /\ r.ask = q.ask
        /\ r.GTimeoutCtr = q.GTimeoutCtr
        /\ r.started = q.started /\ r.known = q.known /\ r.fresh = b
        /\ r.key_replay = q.key_replay /\ r.timeout_next = q.timeout_next
    BY <2>2, <2>5 DEF SmType
  <2> HIDE DEF r
  <2>10. Holds(r, "ptk", w, "none", FALSE, f)
    <3>1. Stays(p) => p.grp # "REKEYESTABLISHED"
      BY <1>2 DEF Rests
    <3> HIDE DEF p
    <3> SUFFICES ASSUME Stays(r)
                 PROVE  /\ FramesFit(r) /\ FreshFits(r, w, FALSE)
                        /\ CourseFits(r, "ptk", "none") /\ FirstSta(r, f)
      BY DEF Holds
    <3>2. /\ FramesFit(p) /\ FreshFits(p, w, FALSE)
          /\ CourseFits(p, "idle", "none") /\ FirstSta(p, f)
          /\ Stays(p)
      BY <1>2, <2>4, <2>9 DEF Holds
    <3>3. FramesFit(r)
      BY <2>4, <2>9 DEF NoOld, NoKeys
    <3>4. FreshFits(r, w, FALSE)
      BY <2>3, <2>4, <2>6, <2>9, <3>1, <3>2
    <3>5. CourseFits(r, "ptk", "none") /\ FirstSta(r, f)
      BY <2>4, <2>9, <3>2
    <3> QED BY <3>3, <3>4, <3>5
  <2> QED BY <1>3, <2>7, <2>8, <2>10
<1>8. CASE Group2(s)
  <2>1. PICK frame \in {"g1", "g1old"} :
          /\ Outstanding(s, frame)
          /\ Step(s, [Taken(sm[s], "group") EXCEPT !.fresh = frame = "g1"],
                  group)
    BY <1>8 DEF Group2
  <2> DEFINE q == Taken(sm[s], "group")
             b == frame = "g1"
             r == [q EXCEPT !.fresh = b]
  <2>2. q \in SmType
    BY <1>2, TakenType
  <2>3. Stays(p) => b
    BY <1>2, <2>1 DEF Outstanding, Holds, NoOld
  <2>4. /\ q.ptk = p.ptk /\ q.grp = p.grp /\ q.rx = "group" /\ q.ask = {}
        /\ q.GTimeoutCtr = p.GTimeoutCtr
        /\ q.started = p.started /\ q.known = p.known
        /\ DOMAIN q.key_replay = {} /\ q.timeout_next = p.timeout_next
    BY <1>2, <1>5 DEF SmType, Taken, StopTimers
  <2> HIDE DEF q
  <2>5. b \in BOOLEAN
    OBVIOUS
  <2>6. Step(s, r, group)
    BY <2>1 DEF q
  <2> HIDE DEF b
  <2>7. r \in SmType
    BY <2>2, <2>5 DEF SmType
  <2>8. /\ r.ptk = q.ptk /\ r.grp = q.grp /\ r.rx = q.rx /\ r.ask = q.ask
        /\ r.GTimeoutCtr = q.GTimeoutCtr
        /\ r.started = q.started /\ r.known = q.known /\ r.fresh = b
        /\ r.key_replay = q.key_replay /\ r.timeout_next = q.timeout_next
    BY <2>2, <2>5 DEF SmType
  <2> HIDE DEF r
  <2>9. Holds(r, "ptk", w, "none", FALSE, f)
    BY <1>2, <2>3, <2>4, <2>8 DEF Holds, NoOld, NoKeys
  <2> QED BY <1>3, <2>6, <2>7, <2>9
<1>9. CASE BadMic(s)
  <2> DEFINE r == [sm[s] EXCEPT !.MICVerified = FALSE]
  <2>1. sm' = [sm EXCEPT ![s] = r] /\ call' = call /\ group' = group
    BY <1>2, <1>9 DEF BadMic
  <2>2. /\ r.ptk = p.ptk /\ r.grp = p.grp /\ r.rx = p.rx /\ r.ask = p.ask
        /\ r.GTimeoutCtr = p.GTimeoutCtr
        /\ r.started = p.started /\ r.known = p.known /\ r.fresh = p.fresh
        /\ r.key_replay = p.key_replay /\ r.timeout_next = p.timeout_next
        /\ r.GUpdateStationKeys = p.GUpdateStationKeys
        /\ r.PInitAKeys = p.PInitAKeys
    BY <1>2 DEF SmType
  <2> HIDE DEF r
  <2>3. Holds(r, "idle", w, "none", FALSE, f)
    BY <1>2, <2>2 DEF Holds, NoOld, NoKeys
  <2> QED BY <1>4, <2>1, <2>3
<1>10. CASE RequestPtk(s) \/ RequestGtk(s)
  BY <1>10 DEF RequestPtk, RequestGtk, Still, Requests
<1> QED BY <1>6, <1>7, <1>8, <1>9, <1>10 DEF Receive
-----------------------------------------------------------------------------
(* The invariant holds at first and is kept by every step.                  *)
LEMMA InitHolds ==
  ASSUME Still
  PROVE  Init => HoldInv
<1> SUFFICES ASSUME Init PROVE HoldInv
  OBVIOUS
<1>1. ASSUME NEW s \in Sta
      PROVE  Holds(sm[s], Place(s), s \in Wpa2, Todo(s), s \in todo,
                   group.first_sta_seen)
  <2>1. sm[s] = Absent /\ Todo(s) = "none"
    BY DEF Init, Todo
  <2> QED BY <2>1, AbsentHolds
<1>2. GroupHolds
  BY DEF Init, GroupHolds, Still
<1> QED BY <1>1, <1>2 DEF HoldInv

LEMMA NextHolds ==
  ASSUME Still, IInv, RetryInv, WaitInv, HoldInv, [Next]_vars
  PROVE  HoldInv'
<1>1. CASE Rekeying
  BY <1>1, RekeyingHolds
<1>2. ASSUME NEW s \in Sta, SmStep(s) \/ Rest(s)
      PROVE  HoldInv'
  BY <1>2, SmStepHolds, RestOfHandlerHolds
<1>3. CASE RekeyGtk
  <2>1. /\ UNCHANGED <<sm, call, todo, next>> /\ next = NoNext
        /\ \A s \in Sta : sm[s].timers = 0
        /\ group' = [group EXCEPT !.GTKReKey = TRUE, !.changed = FALSE]
        /\ group \in GroupType
    BY <1>3 DEF RekeyGtk, Idle, StartRekey, Still, IInv, TypeOK
  <2>2. /\ group'.first_sta_seen = group.first_sta_seen
        /\ group'.pool = group.pool
        /\ group'.reject_4way_hs_for_entropy
             = group.reject_4way_hs_for_entropy
    BY <2>1 DEF GroupType
  <2>3. \A s \in Sta : Place(s)' = Place(s) /\ Todo(s)' = Todo(s)
    BY <2>1 DEF Place, Todo
  <2> QED BY <2>1, <2>2, <2>3 DEF HoldInv, GroupHolds
<1>4. CASE UNCHANGED vars
  BY <1>4 DEF vars, HoldInv, GroupHolds, Place, Todo
<1>5. ASSUME NEW s \in Sta, Event(s)
      PROVE  HoldInv'
  BY <1>5, AssociationHolds, TimerHolds, ReceiveHolds DEF Event
<1> QED BY <1>1, <1>2, <1>3, <1>4, <1>5 DEF Next, Internal

(* 2357: the group key in use is the one that every station whose handshakes *)
(* have ended has acknowledged last, although frames with a group key may be *)
(* outstanding elsewhere and the first station to come changes the key under *)
(* the others (1523).  Stations make no requests, none re-associates in the  *)
(* middle of its first group handshake, the random pool is ready, and the    *)
(* key is rekeyed between handshakes, not during one; frames and answers may *)
(* be lost, repeated or wrong, stations leave, and drivers refuse keys.      *)
THEOREM KeyCurrent ==
  ASSUME Adverse \cap (Requests \cup {"pending", "entropy", "overlap"}) = {}
  PROVE  Spec => []GtkCurrent
<1>1. Still /\ "gtk" \notin Adverse
  BY DEF Still, Requests
<1>2. IInv /\ RetryInv /\ WaitInv /\ HoldInv => GtkCurrent
  <2>1. ASSUME IInv, RetryInv, WaitInv, HoldInv, Idle, NEW s \in Sta,
               Staying(s), sm[s].ptk = "PTKINITDONE", sm[s].grp = "IDLE"
        PROVE  sm[s].fresh
    <3>1. Returned /\ todo = {} /\ Todo(s) = "none" /\ Stays(sm[s])
      BY <2>1 DEF Idle, IInv, StackOK, NoNext, Todo, Staying, Stays
    <3>2. /\ Holds(sm[s], "idle", s \in Wpa2, "none", s \in todo,
                   group.first_sta_seen)
          /\ Rests(sm[s], s \in Wpa2, "none")
      BY <2>1, <3>1, AtHold
    <3> QED BY <2>1, <3>1, <3>2 DEF Holds, FreshFits, Rests
  <2> QED BY <2>1 DEF GtkCurrent
<1>3. IInv /\ RetryInv /\ WaitInv /\ HoldInv /\ [Next]_vars
        => IInv' /\ RetryInv' /\ WaitInv' /\ HoldInv'
  BY <1>1, NextInv, NextRetry, NextWaits, NextHolds
<1> QED BY <1>1, <1>2, <1>3, InitInv, InitRetry, InitWaits, InitHolds,
           PTL DEF Spec
=============================================================================
