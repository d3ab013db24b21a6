---------------------------- MODULE WpaTimerProofs ----------------------------
(***************************************************************************)
(* Proofs that no handshake of the WPA authenticator waits for a retry      *)
(* without a timer (PairwiseRetried, GroupRetried), for any stations and    *)
(* limits.  Line numbers are those of src/hostapd/src/ap/wpa_auth.c.        *)
(*                                                                         *)
(* A station has one timer (1296) for both its handshakes.  Any frame with  *)
(* a good MIC stops it (972) and stands for a step that starts it again, if *)
(* the machine that is waiting consumes it.  WaitInv says at each place of  *)
(* a call (before the pairwise machine, the group machine, the group's) who *)
(* waits for what, and which of a timer, an expiry, a frame or a request is *)
(* there to wake it.  w: the station uses WPA2; n: what the handler has     *)
(* still to do with it.                                                     *)
(***************************************************************************)
EXTENDS WpaAuthProofs

(* What the rest of the running handler is to do with s.                    *)
Todo(s) == IF next.of = {s} THEN next.do ELSE "none"

(* No station requests keys, and none re-associates while its first group   *)
(* key handshake goes on: what makes a group handshake lose its timer.      *)
Quiet == Adverse \cap (Requests \cup {"pending"}) = {}

(* No timer of ap_handle_timer is to dispose of the station.                *)
Stays(r) == r.timeout_next = "NULLFUNC"

(* A pairwise handshake is between a good 2/4 and its end.                  *)
Keyed(r) == \/ r.ptk \in {"PTKCALCNEGOTIATING2", "PTKINITNEGOTIATING"}
            \/ r.ptk = "PTKCALCNEGOTIATING" /\ r.PTK_valid

(* The group machine is about to begin a handshake (2194).                  *)
Due(r, w) == r.grp = "IDLE" /\ (r.GUpdateStationKeys \/ (~w /\ r.PInitAKeys))

(* No answer to 1/2 would be taken.                                         *)
NoGroupFrame(r) ==
  \A i \in DOMAIN r.key_replay : r.key_replay[i] \notin {"g1", "g1old"}

(* Nothing is asked that takes the pairwise machine out of its state.       *)
Calmed(r) == r.ask \subseteq {"PtkGroupInit"}

(* A pairwise handshake begins without a key: an association, a request and *)
(* AUTHENTICATION have dropped the last one.                                *)
UnkeyedFits(r, n) ==
  /\ r.ptk \in {"AUTHENTICATION", "AUTHENTICATION2", "INITPSK", "PTKSTART"}
       => ~r.PTK_valid
  /\ r.ask \cap {"ReAuthenticationRequest", "PTKRequest"} # {} => ~r.PTK_valid
  /\ n \in {"newAssoc", "reAssoc"} => ~r.PTK_valid /\ ~Answer(r)

(* PTKCALCNEGOTIATING waits only for a better 2/4: with the key derived the *)
(* call goes on to 3/4 (2063).                                              *)
CalcFits(r, p) ==
  /\ r.ptk = "PTKCALCNEGOTIATING" =>
       /\ r.MICVerified <=> r.PTK_valid
       /\ r.PTK_valid => p # "idle" /\ (p # "ptk" => r.changed)
  /\ r.ptk = "PTKCALCNEGOTIATING2" => p # "idle" /\ (p # "ptk" => r.changed)

(* The group machine is left in IDLE or REKEYNEGOTIATING, with nothing due.  *)
DueFits(r, p, w) ==
  /\ "Init" \in r.ask /\ p # "ptk" =>
       r.ptk = "INITIALIZE" /\ ~r.GUpdateStationKeys /\ (w \/ ~r.PInitAKeys)
  /\ Due(r, w) => p # "idle" /\ (p = "group" => r.changed)
  /\ r.grp \notin {"IDLE", "REKEYNEGOTIATING"}
       => p # "idle" /\ (p = "group" => r.changed)

(* While the pairwise handshake is in its second half, no group handshake    *)
(* begins or is answered, so neither takes the timer of the other.          *)
KeyedFits(r, p, w) ==
  Keyed(r) \/ Answer(r) =>
    /\ ~Due(r, w) /\ r.grp \in {"IDLE", "REKEYNEGOTIATING"}
    /\ r.GTimeoutCtr <= UpdateCount
    /\ NoGroupFrame(r) /\ r.rx # "group"
    /\ p # "ptk" => r.ask = {}
    /\ "PtkGroupInit" \in r.ask => "ReAuthenticationRequest" \in r.ask

(* An expiry is served by the pairwise machine if that machine waits: it is *)
(* not left for the group machine to take (2059, 2086, 2205).               *)
EvtFits(r, p) ==
  /\ r.TimeoutEvt
  /\ r.ptk \in {"PTKSTART", "PTKCALCNEGOTIATING", "PTKCALCNEGOTIATING2",
                "PTKINITNEGOTIATING"}
  => /\ p = "ptk" /\ ~Answer(r) /\ r.ptk # "PTKCALCNEGOTIATING2"
     /\ r.ptk = "PTKCALCNEGOTIATING" => ~r.PTK_valid

(* What wakes a pairwise handshake that waits.                              *)
TimerFits(r, p) ==
  \/ r.ptk \in {"PTKSTART", "PTKINITNEGOTIATING"}
  \/ r.ptk = "PTKCALCNEGOTIATING" /\ ~r.PTK_valid
  => \/ r.timers > 0 \/ r.TimeoutEvt \/ r.rx = "pairwise"
     \/ ~Calmed(r) \/ r.TimeoutCtr > UpdateCount

(* What wakes a group handshake that waits, once the pairwise one has ended. *)
GTimerFits(r, p) ==
  r.ptk = "PTKINITDONE" /\ r.grp = "REKEYNEGOTIATING" =>
    \/ r.timers > 0 \/ r.rx = "group" \/ r.GTimeoutCtr > UpdateCount
    \/ r.TimeoutEvt /\ p # "idle" /\ (p = "group" => r.changed)
    \/ ~Calmed(r)

(* A station is started once (544, 1359), by its first association.         *)
StartFits(r, n) ==
  /\ n \in {"newAssoc", "reAssoc"} => r.assoc
  /\ n = "newAssoc" => ~r.started
  /\ r.started => r.assoc
  /\ ~r.started => /\ r.ptk = "INITIALIZE" /\ r.grp = "IDLE" /\ r.ask = {}
                   /\ ~r.PInitAKeys /\ ~r.GUpdateStationKeys

(* A re-association finds no group handshake, or one that it cancels (1378). *)
QuietAskFits(r, n) ==
  /\ r.ask \cap {"PTKRequest", "DeauthenticationRequest"} = {}
  /\ n = "initialized" => "Init" \in r.ask
  /\ n = "reAssoc" /\ r.grp = "REKEYNEGOTIATING" => r.GUpdateStationKeys

(* The first group handshake of a WPA station is begun in the call that     *)
(* ends its pairwise handshake.                                             *)
FirstFits(r, p, w, n) ==
  ~w /\ r.PInitAKeys =>
    /\ r.ptk = "PTKINITDONE" /\ p # "idle" /\ (p = "group" => r.changed)
    /\ r.ask \subseteq {"Disconnect"} /\ r.rx # "group" /\ n # "reAssoc"
    /\ r.grp = "REKEYNEGOTIATING" => r.GTimeoutCtr > UpdateCount

(* No group handshake is under way before the pairwise one has ended.       *)
BeginFits(r, p) ==
  \/ r.ptk # "PTKINITDONE"
  \/ r.ask \cap {"Init", "AuthenticationRequest", "ReAuthenticationRequest"}
       # {}
  => /\ ~r.GUpdateStationKeys
     /\ r.grp = "IDLE" \/ (p \in {"ptk", "grp"} /\ "PtkGroupInit" \in r.ask)

QuietFits(r, p, w, n) ==
  n # "free" => /\ GTimerFits(r, p) /\ StartFits(r, n) /\ QuietAskFits(r, n)
                /\ FirstFits(r, p, w, n) /\ BeginFits(r, p)

Waits(r, p, w, n) ==
  Stays(r) => /\ UnkeyedFits(r, n) /\ CalcFits(r, p) /\ DueFits(r, p, w)
              /\ KeyedFits(r, p, w) /\ EvtFits(r, p) /\ TimerFits(r, p)
              /\ Quiet => QuietFits(r, p, w, n)

(* The inductive invariant, beside those of the modules extended.           *)
WaitInv == \A s \in Sta : Waits(sm[s], Place(s), s \in Wpa2, Todo(s))
-----------------------------------------------------------------------------
(* A new group key only marks the frames sent with the one before.          *)
LEMMA NewGtkWaits ==
  ASSUME NEW r \in SmType, NEW p, NEW w, NEW n, Waits(r, p, w, n)
  PROVE  Waits(NewGtk(r), p, w, n)
<1> DEFINE k == [i \in DOMAIN r.key_replay |-> Aged(r.key_replay[i])]
           q == [r EXCEPT !.fresh = FALSE, !.key_replay = k]
<1>1. NewGtk(r) = q
  BY DEF NewGtk
<1>2. ASSUME NoGroupFrame(r)
      PROVE  \A i \in DOMAIN k : k[i] \notin {"g1", "g1old"}
  BY <1>2 DEF NoGroupFrame, Aged
<1> HIDE DEF k
<1>3. NoGroupFrame(r) => NoGroupFrame(q)
  BY <1>2 DEF NoGroupFrame, SmType
<1>4. Waits(q, p, w, n)
  BY <1>3 DEF Waits, Stays, UnkeyedFits, CalcFits, DueFits, KeyedFits,
     EvtFits, TimerFits, QuietFits, GTimerFits, StartFits, QuietAskFits,
     FirstFits, BeginFits, Keyed, Due, Calmed, Answer, SmType
<1> QED BY <1>1, <1>4

(* A frame of the pairwise handshake leaves no answer to 1/2 to be taken.    *)
LEMMA SentFrames ==
  ASSUME NEW r \in SmType, NoGroupFrame(r),
         NEW frame \in Frames \ {"g1", "g1old"}
  PROVE  NoGroupFrame(Sent(r, frame))
<1> DEFINE n == IF Len(r.key_replay) < Retries THEN Len(r.key_replay) + 1
                                          ELSE Retries
           k == <<frame>> \o r.key_replay
<1>1. /\ r.key_replay \in Seq(Frames) /\ <<frame>> \in Seq(Frames)
      /\ Retries \in Nat
  BY WpaAuthAssumption DEF SmType
<1>2. k \in Seq(Frames) /\ Len(k) = Len(r.key_replay) + 1
  BY <1>1
<1>3. n \in Nat /\ n <= Len(k)
  BY <1>1, <1>2
<1>4. \A i \in 1..Len(k) : k[i] \notin {"g1", "g1old"}
  <2>1. ASSUME NEW i \in 1..Len(k)
        PROVE  k[i] \notin {"g1", "g1old"}
    <3>1. CASE i = 1
      BY <1>1, <3>1
    <3>2. CASE i > 1
      <4>1. k[i] = r.key_replay[i - 1] /\ i - 1 \in DOMAIN r.key_replay
        BY <1>1, <1>2, <3>2
      <4> QED BY <4>1 DEF NoGroupFrame
    <3> QED BY <1>2, <3>1, <3>2
  <2> QED BY <2>1
<1> HIDE DEF k, n
<1>5. \A i \in DOMAIN SubSeq(k, 1, n) :
        SubSeq(k, 1, n)[i] \notin {"g1", "g1old"}
  BY <1>2, <1>3, <1>4
<1>6. Sent(r, frame).key_replay = SubSeq(k, 1, n)
  BY DEF Sent, SmType, k, n
<1> QED BY <1>5, <1>6 DEF NoGroupFrame

(* A station that has just been freed, or allocated.                        *)
LEMMA AbsentWaits ==
  ASSUME NEW p, NEW w, NEW n, n \notin {"newAssoc", "reAssoc", "initialized"}
  PROVE  Waits(Absent, p, w, n)
BY WpaAuthAssumption
DEF Waits, Stays, UnkeyedFits, CalcFits, DueFits, KeyedFits,
     EvtFits, TimerFits, QuietFits, GTimerFits, StartFits, QuietAskFits,
     FirstFits, BeginFits, Keyed, Due, Calmed, Answer, Absent

(* What a step of s does to the others keeps their part of the invariant.   *)
LEMMA OneWaits ==
  ASSUME IInv, WaitInv, NEW s \in Sta,
         call.of \subseteq {s}, call'.of \subseteq {s},
         \A t \in Sta \ {s} : /\ sm'[t] \in {sm[t], NewGtk(sm[t])}
                              /\ Todo(t)' = Todo(t),
         Waits(sm'[s], Place(s)', s \in Wpa2, Todo(s)')
  PROVE  WaitInv'
<1>1. ASSUME NEW t \in Sta \ {s}
      PROVE  Waits(sm'[t], Place(t)', t \in Wpa2, Todo(t)')
  <2>1. sm[t] \in SmType /\ Waits(sm[t], Place(t), t \in Wpa2, Todo(t))
    BY DEF IInv, TypeOK, WaitInv
  <2>2. Place(t) = "idle" /\ Place(t)' = "idle"
    <3>1. ~({t} \subseteq {s})
      OBVIOUS
    <3> QED BY <3>1 DEF Place
  <2>4. Waits(NewGtk(sm[t]), Place(t), t \in Wpa2, Todo(t))
    BY <2>1, NewGtkWaits
  <2> QED BY <2>1, <2>2, <2>4
<1> QED BY <1>1 DEF WaitInv

(* A round ends: the next begins, or the call returns.                      *)
LEMMA RoundWaits ==
  ASSUME NEW r \in SmType, NEW n, NEW m, NEW w,
         Fits(r, "group", m), Waits(r, "group", w, n)
  PROVE  /\ Waits([r EXCEPT !.changed = FALSE], "ptk", w, n)
         /\ ~r.changed => Waits(r, "idle", w, n)
BY DEF Fits, AskFits, AnswerFits, AckFits, TriesFit, GTriesFit,
     Waits, Stays, UnkeyedFits, CalcFits, DueFits, KeyedFits, NoGroupFrame,
     EvtFits, TimerFits, QuietFits, GTimerFits, StartFits, QuietAskFits,
     FirstFits, BeginFits, Keyed, Due, Calmed, Answer, SmType

(* The group key machine does not dispose of the station.                   *)
LEMMA PtkGroupDisposes ==
  ASSUME NEW s \in Sta, NEW r, r = sm[s], r \in SmType, PtkGroupSm(s), IInv
  PROVE  sm'[s].timeout_next = r.timeout_next
<1>0. sm \in [Sta -> SmType]
  BY DEF IInv, TypeOK
<1>1. CASE GroupIdle(s)
  BY <1>0, <1>1 DEF GroupIdle, SmType
<1>2. CASE RekeyNegotiating(s)
  BY <1>0, <1>2 DEF RekeyNegotiating, EnterGrp, Sent, SmType
<1>3. CASE RekeyEstablished(s)
  BY <1>0, <1>3 DEF RekeyEstablished, EnterGrp, SmType
<1>4. CASE KeyError(s)
  BY <1>0, <1>4 DEF KeyError, EnterGrp, SmType
<1> QED BY <1>1, <1>2, <1>3, <1>4 DEF PtkGroupSm, GroupStays

(* A step of the group key machine.                                         *)
LEMMA PtkGroupWaits ==
  ASSUME NEW s \in Sta, NEW r, r = sm[s], r \in SmType, NEW n, NEW m,
         Fits(r, "grp", m), Waits(r, "grp", s \in Wpa2, n), PtkGroupSm(s), IInv
  PROVE  Waits(sm'[s], "group", s \in Wpa2, n)
<1> DEFINE w == s \in Wpa2
<1> USE DEF Grp, Started, Acknowledged, GivenUp
<1>0. sm \in [Sta -> SmType] /\ UpdateCount \in Nat
  BY WpaAuthAssumption DEF IInv, TypeOK
<1> SUFFICES ASSUME Stays(r)
             PROVE  Stays(sm'[s]) =>
                      /\ UnkeyedFits(sm'[s], n) /\ CalcFits(sm'[s], "group")
                      /\ DueFits(sm'[s], "group", w)
                      /\ KeyedFits(sm'[s], "group", w)
                      /\ EvtFits(sm'[s], "group")
                      /\ TimerFits(sm'[s], "group")
                      /\ Quiet => QuietFits(sm'[s], "group", w, n)
  <2>1. sm'[s].timeout_next = r.timeout_next
    BY PtkGroupDisposes
  <2> QED BY <2>1 DEF Waits, Stays
<1>20. /\ UnkeyedFits(r, n) /\ CalcFits(r, "grp") /\ DueFits(r, "grp", w)
       /\ KeyedFits(r, "grp", w) /\ EvtFits(r, "grp") /\ TimerFits(r, "grp")
       /\ Quiet => QuietFits(r, "grp", w, n)
  BY DEF Waits
<1>21. /\ AskFits(r, "grp", m) /\ AnswerFits(r, "grp") /\ AckFits(r, "grp")
       /\ GTriesFit(r, "grp")
  BY DEF Fits
<1> HIDE DEF w
<1> DEFINE q == sm'[s]
<1>1. CASE GroupIdle(s)
  <2>2. /\ q.ptk = r.ptk /\ q.grp = "IDLE" /\ q.GTimeoutCtr = 0 /\ q.rx = r.rx
        /\ q.ask = r.ask \ {"PtkGroupInit"}
        /\ q.PTK_valid = r.PTK_valid /\ q.MICVerified = r.MICVerified
        /\ q.GUpdateStationKeys = r.GUpdateStationKeys
        /\ q.PInitAKeys = r.PInitAKeys
        /\ q.key_replay = r.key_replay /\ q.TimeoutEvt = r.TimeoutEvt
        /\ q.timers = r.timers /\ q.TimeoutCtr = r.TimeoutCtr
        /\ q.started = r.started /\ q.assoc = r.assoc
    BY <1>0, <1>1 DEF GroupIdle, SmType
  <2>20. "Init" \notin r.ask => q.changed
    BY <1>0, <1>1 DEF GroupIdle, SmType
  <2> HIDE DEF q
  <2>3. \/ r.ask \cap {"Init", "PtkGroupInit"} # {}
        \/ r.grp \in {"KEYERROR", "REKEYESTABLISHED"}
    BY <1>1 DEF GroupIdle
  <2> USE DEF Keyed, Due, Calmed, Answer, NoGroupFrame
  <2>4. UnkeyedFits(q, n) /\ CalcFits(q, "group") /\ EvtFits(q, "group")
    BY <1>20, <2>2, <2>20
    DEF UnkeyedFits, CalcFits, EvtFits, AnswerFits, DueFits
  <2>5. DueFits(q, "group", w)
    BY <1>20, <1>21, <2>2, <2>20, <2>3 DEF DueFits
  <2>6. KeyedFits(q, "group", w)
    BY <1>0, <1>20, <1>21, <2>2, <2>3 DEF KeyedFits, AnswerFits
  <2>7. TimerFits(q, "group")
    BY <1>20, <2>2 DEF TimerFits
  <2>8. Quiet => QuietFits(q, "group", w, n)
    BY <1>20, <1>21, <2>2, <2>20, <2>3 DEF QuietFits, GTimerFits, StartFits,
       QuietAskFits, FirstFits, BeginFits
  <2> QED BY <2>4, <2>5, <2>6, <2>7, <2>8 DEF q
<1> USE DEF AskFits, AnswerFits, AckFits, GTriesFit, Answer
<1> USE DEF UnkeyedFits, CalcFits, DueFits, KeyedFits, NoGroupFrame,
     EvtFits, TimerFits, QuietFits, GTimerFits, StartFits, QuietAskFits,
     FirstFits, BeginFits, Keyed, Due, Calmed
<1>2. CASE RekeyNegotiating(s)
  <2>1. /\ q.ptk = r.ptk /\ q.grp = "REKEYNEGOTIATING" /\ q.rx = r.rx
        /\ q.ask = r.ask /\ q.GTimeoutCtr = r.GTimeoutCtr + 1
        /\ q.PTK_valid = r.PTK_valid /\ q.MICVerified = r.MICVerified
        /\ q.GUpdateStationKeys = r.GUpdateStationKeys
        /\ q.TimeoutCtr = r.TimeoutCtr
        /\ q.started = r.started /\ q.assoc = r.assoc
        /\ q.changed
    BY <1>0, <1>2 DEF RekeyNegotiating, EnterGrp, Sent, SmType
  <2>2. \/ /\ q.GTimeoutCtr > UpdateCount
           /\ q.TimeoutEvt = r.TimeoutEvt /\ q.timers = r.timers
           /\ q.PInitAKeys = r.PInitAKeys
        \/ ~q.TimeoutEvt /\ q.timers > 0 /\ (w \/ ~q.PInitAKeys)
    <3> DEFINE x == [r EXCEPT !.GTimeoutCtr = @ + 1]
               b == r.PInitAKeys /\ s \in Wpa2
               y == [x EXCEPT !.PInitAKeys = b, !.TimeoutEvt = FALSE]
               f == IfKeyed(x, "g1")
    <3>1. CASE x.GTimeoutCtr > UpdateCount
      BY <1>0, <1>2, <3>1 DEF RekeyNegotiating, EnterGrp, SmType
    <3>2. CASE ~(x.GTimeoutCtr > UpdateCount)
      <4>0. EnterGrp(s, "REKEYNEGOTIATING", Sent(y, f))
        BY <1>2, <3>2 DEF RekeyNegotiating
      <4>1. q = [Sent(y, f) EXCEPT !.grp = "REKEYNEGOTIATING",
                                   !.changed = TRUE]
        BY <1>0, <4>0 DEF EnterGrp
      <4>2. b => w
        BY DEF w
      <4> HIDE DEF b, q, f
      <4>3. /\ ~y.TimeoutEvt /\ y.timers \in Nat /\ y.PInitAKeys = b
            /\ Sent(y, f).timers = y.timers + 1
            /\ Sent(y, f).PInitAKeys = b
            /\ Sent(y, f).TimeoutEvt = FALSE
        BY DEF SmType, Sent
      <4> DEFINE z == Sent(y, f)
      <4>5. {"grp", "changed", "timers", "TimeoutEvt", "PInitAKeys"}
              \subseteq DOMAIN z
        BY DEF Sent, SmType
      <4> HIDE DEF y, z
      <4>6. q.TimeoutEvt = FALSE /\ q.timers = y.timers + 1 /\ q.PInitAKeys = b
        BY <4>1, <4>3, <4>5 DEF z
      <4> QED BY <4>2, <4>3, <4>6
    <3> QED BY <3>1, <3>2
  <2>3. /\ r.ask \cap {"Init", "PtkGroupInit"} = {}
        /\ \/ r.grp = "IDLE" /\ (r.GUpdateStationKeys \/ (~w /\ r.PInitAKeys))
           \/ /\ r.grp = "REKEYNEGOTIATING" /\ r.TimeoutEvt
              /\ ~(r.rx = "group" /\ r.MICVerified)
              /\ ~(r.GTimeoutCtr > UpdateCount)
    BY <1>2 DEF RekeyNegotiating, w
  <2> HIDE DEF q
  <2>4. UnkeyedFits(q, n) /\ CalcFits(q, "group") /\ EvtFits(q, "group")
    BY <1>20, <2>1, <2>2
  <2>5. DueFits(q, "group", w)
    BY <1>20, <2>1, <2>3
  <2>6. KeyedFits(q, "group", w)
    <3>1. ~Keyed(r) /\ ~Answer(r)
      BY <1>20, <1>21, <2>3
    <3> QED BY <3>1, <2>1
  <2>7. TimerFits(q, "group")
    BY <1>20, <2>1, <2>2
  <2>8. Quiet => QuietFits(q, "group", w, n)
    <3>1. ASSUME Quiet, n # "free"
          PROVE  GTimerFits(q, "group") /\ StartFits(q, n) /\ QuietAskFits(q, n)
      BY <1>20, <2>1, <2>2, <2>3, <3>1
    <3>2. ASSUME Quiet, n # "free"
          PROVE  BeginFits(q, "group")
      BY <1>20, <2>1, <2>2, <2>3, <3>2
    <3>3. ASSUME Quiet, n # "free"
          PROVE  FirstFits(q, "group", w, n)
      BY <1>20, <1>21, <2>1, <2>2, <2>3, <3>3
    <3> QED BY <3>1, <3>2, <3>3
  <2> QED BY <2>4, <2>5, <2>6, <2>7, <2>8 DEF q
<1>3. CASE RekeyEstablished(s)
  <2>1. /\ q.ptk = r.ptk /\ q.grp = "REKEYESTABLISHED" /\ q.rx = "none"
        /\ q.ask = r.ask /\ q.GTimeoutCtr = 0
        /\ q.PTK_valid = r.PTK_valid /\ q.MICVerified = r.MICVerified
        /\ ~q.GUpdateStationKeys /\ q.PInitAKeys = r.PInitAKeys
        /\ q.TimeoutCtr = r.TimeoutCtr
        /\ q.started = r.started /\ q.assoc = r.assoc
        /\ q.changed
        /\ q.TimeoutEvt = r.TimeoutEvt /\ q.timers = r.timers
    BY <1>0, <1>3 DEF RekeyEstablished, EnterGrp, SmType
  <2>3. /\ r.ask \cap {"Init", "PtkGroupInit"} = {}
        /\ r.grp = "REKEYNEGOTIATING" /\ r.rx = "group"
    BY <1>3 DEF RekeyEstablished
  <2> HIDE DEF q
  <2>4. UnkeyedFits(q, n) /\ CalcFits(q, "group") /\ EvtFits(q, "group")
    BY <1>20, <2>1
  <2>5. DueFits(q, "group", w)
    BY <1>20, <2>1, <2>3
  <2>6. KeyedFits(q, "group", w)
    <3>1. ~Keyed(r) /\ ~Answer(r)
      BY <1>20, <1>21, <2>3
    <3> QED BY <3>1, <2>1
  <2>7. TimerFits(q, "group")
    BY <1>20, <2>1, <2>3
  <2>8. Quiet => QuietFits(q, "group", w, n)
    <3>1. ASSUME Quiet, n # "free"
          PROVE  GTimerFits(q, "group") /\ StartFits(q, n) /\ QuietAskFits(q, n)
      BY <1>20, <2>1, <2>3, <3>1
    <3>2. ASSUME Quiet, n # "free"
          PROVE  BeginFits(q, "group")
      BY <1>20, <2>1, <2>3, <3>2
    <3>3. ASSUME Quiet, n # "free"
          PROVE  FirstFits(q, "group", w, n)
      BY <1>20, <1>21, <2>1, <2>3, <3>3
    <3> QED BY <3>1, <3>2, <3>3
  <2> QED BY <2>4, <2>5, <2>6, <2>7, <2>8 DEF q
<1>4. CASE KeyError(s)
  BY <1>0, <1>4, <1>20, <1>21 DEF KeyError, EnterGrp, SmType
<1>5. CASE GroupStays(s)
  BY <1>0, <1>5, <1>20, <1>21 DEF GroupStays, SmType, w
<1> QED BY <1>1, <1>2, <1>3, <1>4, <1>5 DEF PtkGroupSm

(* The pairwise machine disposes of the station, or leaves that as it is.    *)
LEMMA PtkDisposes ==
  ASSUME NEW s \in Sta, NEW r, r = sm[s], r \in SmType, PtkSm(s), IInv
  PROVE  sm'[s].timeout_next \in {r.timeout_next, "REMOVE"}
<1>0. sm \in [Sta -> SmType]
  BY DEF IInv, TypeOK
<1>1. CASE Initialize(s)
  BY <1>0, <1>1 DEF Initialize, SmType
<1>2. CASE Disconnect(s)
  BY <1>0, <1>2 DEF Disconnect, EnterPtk, Dropped, SmType
<1>3. CASE EnterDisconnected(s)
  BY <1>0, <1>3 DEF EnterDisconnected, EnterPtk, SmType
<1>9. CASE Authentication(s)
  BY <1>0, <1>9 DEF Authentication, EnterPtk, SmType
<1>10. CASE InitPsk(s)
  BY <1>0, <1>10 DEF InitPsk, EnterPtk, SmType
<1>11. CASE PtkInitDone(s)
  <2> DEFINE x == [r EXCEPT !.rx = "none"]
             b == x.PInitAKeys \/ s \notin Wpa2
  <2>1. \/ EnterPtk(s, "PTKINITDONE", [x EXCEPT !.PInitAKeys = b])
        \/ EnterPtk(s, "PTKINITDONE", Dropped(x))
    BY <1>11 DEF PtkInitDone
  <2> HIDE DEF b
  <2>2. CASE EnterPtk(s, "PTKINITDONE", [x EXCEPT !.PInitAKeys = b])
    BY <1>0, <2>2 DEF EnterPtk, SmType
  <2>3. CASE EnterPtk(s, "PTKINITDONE", Dropped(x))
    BY <1>0, <2>3 DEF EnterPtk, Dropped, SmType
  <2> QED BY <2>1, <2>2, <2>3
<1>12. CASE PtkStays(s)
  BY <1>12 DEF PtkStays
<1>4. CASE Authentication2(s)
  BY <1>0, <1>4 DEF Authentication2, NewGtk, SmType
<1>5. CASE PtkStart(s)
  BY <1>0, <1>5 DEF PtkStart, Sent, EnterPtk, SmType
<1>6. CASE PtkInitNegotiating(s)
  BY <1>0, <1>6 DEF PtkInitNegotiating, Sent, EnterPtk, SmType
<1>7. CASE PtkCalcNegotiating(s)
  BY <1>0, <1>7 DEF PtkCalcNegotiating, StopTimers, EnterPtk, SmType
<1>8. CASE PtkCalcNegotiating2(s)
  BY <1>0, <1>8 DEF PtkCalcNegotiating2, EnterPtk, SmType
<1> QED BY <1>1, <1>2, <1>3, <1>4, <1>5, <1>6, <1>7, <1>8, <1>9, <1>10,
           <1>11, <1>12
        DEF PtkSm

(* A step of the pairwise machine.                                          *)
LEMMA PtkWaits ==
  ASSUME NEW s \in Sta, NEW r, r = sm[s], r \in SmType, NEW n, NEW m,
         Fits(r, "ptk", m), Waits(r, "ptk", s \in Wpa2, n), PtkSm(s), IInv
  PROVE  Waits(sm'[s], "grp", s \in Wpa2, n)
<1> DEFINE w == s \in Wpa2
<1> USE DEF In, Calm, Answered, Confirmed, Exhausted
<1>0. sm \in [Sta -> SmType] /\ UpdateCount \in Nat
  BY WpaAuthAssumption DEF IInv, TypeOK
<1> SUFFICES ASSUME Stays(r)
             PROVE  Stays(sm'[s]) =>
                      /\ UnkeyedFits(sm'[s], n) /\ CalcFits(sm'[s], "grp")
                      /\ DueFits(sm'[s], "grp", w)
                      /\ KeyedFits(sm'[s], "grp", w)
                      /\ EvtFits(sm'[s], "grp")
                      /\ TimerFits(sm'[s], "grp")
                      /\ Quiet => QuietFits(sm'[s], "grp", w, n)
  <2>1. sm'[s].timeout_next \in {r.timeout_next, "REMOVE"}
    BY PtkDisposes
  <2> QED BY <2>1 DEF Waits, Stays
<1>20. /\ UnkeyedFits(r, n) /\ CalcFits(r, "ptk") /\ DueFits(r, "ptk", w)
       /\ KeyedFits(r, "ptk", w) /\ EvtFits(r, "ptk") /\ TimerFits(r, "ptk")
       /\ Quiet => QuietFits(r, "ptk", w, n)
  BY DEF Waits
<1>21. /\ AskFits(r, "ptk", m) /\ AnswerFits(r, "ptk") /\ AckFits(r, "ptk")
       /\ GTriesFit(r, "ptk") /\ TriesFit(r, "ptk")
  BY DEF Fits
<1>13. \A a \in DOMAIN Rank : Urgent(s, a) =>
           /\ a \in r.ask
           /\ "Init" \in r.ask => a = "Init"
           /\ "Disconnect" \in r.ask => a \in {"Init", "Disconnect"}
           /\ a = "PTKRequest" => r.ask \subseteq {"PTKRequest", "PtkGroupInit"}
  BY SMTT(30) DEF SmType, Rank, Urgent
<1>14.
      /\ Urgent(s, "Init") => "Init" \in r.ask
      /\ Urgent(s, "DeauthenticationRequest") =>
            "DeauthenticationRequest" \in r.ask /\ "Disconnect" \notin r.ask
                /\ "Init" \notin r.ask
      /\ Urgent(s, "AuthenticationRequest") =>
            "AuthenticationRequest" \in r.ask /\ "Disconnect" \notin r.ask
                /\ "Init" \notin r.ask
      /\ Urgent(s, "ReAuthenticationRequest") =>
            "ReAuthenticationRequest" \in r.ask /\ "Disconnect" \notin r.ask
                /\ "Init" \notin r.ask
      /\ Urgent(s, "Disconnect") =>
            "Disconnect" \in r.ask /\ "Init" \notin r.ask
      /\ Urgent(s, "PTKRequest") =>
            /\ "PTKRequest" \in r.ask
            /\ r.ask \subseteq {"PTKRequest", "PtkGroupInit"}
  BY <1>13 DEF Rank
<1> HIDE DEF w
<1> DEFINE q == sm'[s]
<1> USE DEF AskFits, AnswerFits, AckFits, GTriesFit, TriesFit, Answer
<1> USE DEF UnkeyedFits, CalcFits, DueFits, KeyedFits, NoGroupFrame,
     EvtFits, TimerFits, QuietFits, GTimerFits, StartFits, QuietAskFits,
     FirstFits, BeginFits, Keyed, Due, Calmed, Stays
<1>1. CASE Initialize(s)
  <2> DEFINE b == r.PInitAKeys /\ s \in Wpa2
             c == "Init" \notin r.ask
  <2>1. b => w /\ r.PInitAKeys
    BY DEF w
  <2>2. sm' = [sm EXCEPT ![s] =
                 [r EXCEPT !.ptk = "INITIALIZE", !.changed = c,
                           !.GUpdateStationKeys = FALSE, !.PInitAKeys = b,
                           !.PTK_valid = FALSE, !.TimeoutCtr = 0]]
    BY <1>1 DEF Initialize
  <2> HIDE DEF b, c
  <2>3. /\ q.ptk = "INITIALIZE" /\ q.grp = r.grp /\ q.rx = r.rx
        /\ q.ask = r.ask /\ q.GTimeoutCtr = r.GTimeoutCtr
        /\ ~q.PTK_valid /\ ~q.GUpdateStationKeys /\ q.PInitAKeys = b
        /\ q.started = r.started /\ q.assoc = r.assoc /\ q.changed = c
        /\ q.TimeoutEvt = r.TimeoutEvt /\ q.timers = r.timers
    BY <1>0, <2>2 DEF SmType
  <2>4. "Init" \in r.ask \/ r.ptk = "DISCONNECTED"
    BY <1>1, <1>14 DEF Initialize
  <2> HIDE DEF q
  <2>5. ~Answer(r)
    BY <1>21, <2>4
  <2>6. /\ UnkeyedFits(q, n) /\ CalcFits(q, "grp") /\ EvtFits(q, "grp")
        /\ TimerFits(q, "grp")
    BY <1>20, <2>3
  <2>7. DueFits(q, "grp", w) /\ KeyedFits(q, "grp", w)
    BY <1>20, <2>1, <2>3, <2>5
  <2>8. Quiet => QuietFits(q, "grp", w, n)
    <3>1. ASSUME Quiet, n # "free"
          PROVE  GTimerFits(q, "grp") /\ StartFits(q, n) /\ QuietAskFits(q, n)
      BY <1>20, <2>1, <2>3, <2>4, <3>1
    <3>2. ASSUME Quiet, n # "free"
          PROVE  BeginFits(q, "grp")
      BY <1>20, <2>3, <2>4, <3>2
    <3>3. ASSUME Quiet, n # "free"
          PROVE  FirstFits(q, "grp", w, n)
      BY <2>1, <2>3
    <3> QED BY <3>1, <3>2, <3>3
  <2> QED BY <2>6, <2>7, <2>8 DEF q
<1>2. CASE Disconnect(s)
  BY <1>0, <1>2 DEF Disconnect, EnterPtk, Dropped, SmType
<1>3. CASE EnterDisconnected(s)
  BY <1>0, <1>3, <1>14, <1>20, <1>21 DEF EnterDisconnected, EnterPtk, SmType
<1>4. CASE Authentication(s)
  BY <1>0, <1>4, <1>14, <1>20, <1>21 DEF Authentication, EnterPtk, SmType
<1>5. CASE Authentication2(s)
  <2> DEFINE k == [i \in DOMAIN r.key_replay |->
                     IF r.key_replay[i] = "m1" THEN "m1old"
                                               ELSE r.key_replay[i]]
             a == r.ask \ {"ReAuthenticationRequest"}
             x == [r EXCEPT !.ptk = "AUTHENTICATION2", !.changed = TRUE,
                     !.ask = a, !.TimeoutCtr = 0, !.key_replay = k]
  <2>1. q \in {x, NewGtk(x)}
    BY <1>0, <1>5 DEF Authentication2
  <2>2. \/ "ReAuthenticationRequest" \in r.ask
        \/ r.ptk = "AUTHENTICATION" /\ r.ask \subseteq {"PtkGroupInit"}
    BY <1>5, <1>14 DEF Authentication2
  <2>3. x \in SmType
    <3>1. k \in Seq(Frames)
      BY RenewedFrames DEF SmType
    <3>2. "AUTHENTICATION2" \in PtkStates /\ a \in SUBSET DOMAIN Rank
      BY DEF PtkStates, SmType
    <3> HIDE DEF k, a
    <3> QED BY <3>1, <3>2 DEF SmType
  <2> HIDE DEF k
  <2>4. /\ x.ptk = "AUTHENTICATION2" /\ x.grp = r.grp /\ x.rx = r.rx
        /\ x.ask = a /\ x.GTimeoutCtr = r.GTimeoutCtr
        /\ x.PTK_valid = r.PTK_valid /\ x.PInitAKeys = r.PInitAKeys
        /\ x.GUpdateStationKeys = r.GUpdateStationKeys
        /\ x.started = r.started /\ x.assoc = r.assoc /\ x.changed
        /\ x.TimeoutEvt = r.TimeoutEvt /\ x.timers = r.timers
        /\ x.timeout_next = r.timeout_next
    BY DEF SmType
  <2> HIDE DEF x, q
  <2>5. ~Answer(r)
    BY <1>21, <2>2
  <2>6. /\ UnkeyedFits(x, n) /\ CalcFits(x, "grp") /\ EvtFits(x, "grp")
        /\ TimerFits(x, "grp")
    BY <1>20, <2>2, <2>4
  <2>7. DueFits(x, "grp", w) /\ KeyedFits(x, "grp", w)
    BY <1>20, <1>21, <2>2, <2>4, <2>5
  <2>8. Quiet => QuietFits(x, "grp", w, n)
    <3>1. ASSUME Quiet, n # "free"
          PROVE  GTimerFits(x, "grp") /\ StartFits(x, n) /\ QuietAskFits(x, n)
      BY <1>20, <1>21, <2>2, <2>4, <3>1
    <3>2. ASSUME Quiet, n # "free"
          PROVE  BeginFits(x, "grp")
      BY <1>20, <2>2, <2>4, <3>2
    <3>3. ASSUME Quiet, n # "free"
          PROVE  FirstFits(x, "grp", w, n)
      BY <1>20, <2>2, <2>4, <3>3
    <3> QED BY <3>1, <3>2, <3>3
  <2>9. Waits(x, "grp", w, n)
    BY <2>6, <2>7, <2>8 DEF Waits
  <2>10. Waits(q, "grp", w, n)
    BY <2>1, <2>3, <2>9, NewGtkWaits
  <2> QED BY <2>10 DEF q, Waits
<1>6. CASE InitPsk(s)
  BY <1>0, <1>6, <1>14, <1>20, <1>21 DEF InitPsk, EnterPtk, SmType
<1>7. CASE PtkStart(s)
  BY <1>0, <1>7, <1>14, <1>20, <1>21 DEF PtkStart, EnterPtk, SmType, Sent
<1>8. CASE PtkCalcNegotiating(s)
  <2> DEFINE x == [r EXCEPT !.rx = "none"]
             y == [StopTimers(x) EXCEPT !.MICVerified = TRUE,
                                        !.PTK_valid = TRUE]
  <2>1. /\ r.ptk \in {"PTKSTART", "PTKCALCNEGOTIATING"} /\ r.ask = {}
        /\ DOMAIN r.key_replay = {} /\ Answer(r) /\ ~r.MICVerified
    BY <1>8, <1>21 DEF PtkCalcNegotiating
  <2>2. \/ r.rx = "wrong" /\ EnterPtk(s, "PTKCALCNEGOTIATING", x)
        \/ EnterPtk(s, "PTKCALCNEGOTIATING", y)
    BY <1>8 DEF PtkCalcNegotiating
  <2>3. /\ q.ptk = "PTKCALCNEGOTIATING" /\ q.grp = r.grp /\ q.rx = "none"
        /\ q.ask = r.ask /\ q.GTimeoutCtr = r.GTimeoutCtr
        /\ q.PInitAKeys = r.PInitAKeys
        /\ q.GUpdateStationKeys = r.GUpdateStationKeys
        /\ q.started = r.started /\ q.assoc = r.assoc /\ q.changed
        /\ q.TimeoutEvt = r.TimeoutEvt /\ q.key_replay = r.key_replay
        /\ \/ /\ r.rx = "wrong" /\ q.timers = r.timers
              /\ q.PTK_valid = r.PTK_valid /\ q.MICVerified = r.MICVerified
           \/ q.PTK_valid /\ q.MICVerified
    <3>1. CASE r.rx = "wrong" /\ EnterPtk(s, "PTKCALCNEGOTIATING", x)
      BY <1>0, <3>1 DEF EnterPtk, SmType
    <3>2. CASE EnterPtk(s, "PTKCALCNEGOTIATING", y)
      BY <1>0, <3>2 DEF EnterPtk, StopTimers, SmType
    <3> QED BY <2>2, <3>1, <3>2
  <2> HIDE DEF q
  <2>4. ~r.PTK_valid /\ ~r.TimeoutEvt
    BY <1>20, <2>1
  <2>5. UnkeyedFits(q, n) /\ CalcFits(q, "grp") /\ EvtFits(q, "grp")
    BY <1>20, <2>1, <2>3, <2>4
  <2>6. DueFits(q, "grp", w)
    BY <1>20, <2>1, <2>3
  <2>7. KeyedFits(q, "grp", w)
    BY <1>20, <2>1, <2>3
  <2>8. TimerFits(q, "grp")
    BY <1>0, <1>20, <1>21, <2>1, <2>3, <2>4
  <2>9. Quiet => QuietFits(q, "grp", w, n)
    <3>1. ASSUME Quiet, n # "free"
          PROVE  GTimerFits(q, "grp") /\ StartFits(q, n) /\ QuietAskFits(q, n)
      BY <1>20, <1>21, <2>1, <2>3, <3>1
    <3>2. ASSUME Quiet, n # "free"
          PROVE  BeginFits(q, "grp")
      BY <1>20, <1>21, <2>1, <2>3, <3>2
    <3>3. ASSUME Quiet, n # "free"
          PROVE  FirstFits(q, "grp", w, n)
      BY <1>20, <1>21, <2>1, <2>3, <3>3
    <3> QED BY <3>1, <3>2, <3>3
  <2> QED BY <2>5, <2>6, <2>7, <2>8, <2>9 DEF q
<1>9. CASE PtkCalcNegotiating2(s)
  <2>1. /\ r.ptk = "PTKCALCNEGOTIATING" /\ r.PTK_valid
        /\ r.ask \subseteq {"PtkGroupInit"}
    BY <1>9, <1>20 DEF PtkCalcNegotiating2
  <2>2. r.ask = {} /\ ~r.TimeoutEvt
    BY <1>20, <2>1
  <2>3. /\ q.ptk = "PTKCALCNEGOTIATING2" /\ q.grp = r.grp /\ q.rx = r.rx
        /\ q.ask = r.ask /\ q.GTimeoutCtr = r.GTimeoutCtr
        /\ q.PInitAKeys = r.PInitAKeys /\ q.PTK_valid = r.PTK_valid
        /\ q.GUpdateStationKeys = r.GUpdateStationKeys
        /\ q.started = r.started /\ q.assoc = r.assoc /\ q.changed
        /\ q.TimeoutEvt = r.TimeoutEvt /\ q.key_replay = r.key_replay
    BY <1>0, <1>9 DEF PtkCalcNegotiating2, EnterPtk, SmType
  <2> HIDE DEF q
  <2>5. /\ UnkeyedFits(q, n) /\ CalcFits(q, "grp") /\ EvtFits(q, "grp")
        /\ TimerFits(q, "grp")
    BY <1>20, <2>1, <2>2, <2>3
  <2>6. DueFits(q, "grp", w)
    BY <1>20, <2>1, <2>3
  <2>7. KeyedFits(q, "grp", w)
    BY <1>20, <2>1, <2>2, <2>3
  <2>9. Quiet => QuietFits(q, "grp", w, n)
    <3>1. ASSUME Quiet, n # "free"
          PROVE  GTimerFits(q, "grp") /\ StartFits(q, n) /\ QuietAskFits(q, n)
      BY <1>20, <2>1, <2>2, <2>3, <3>1
    <3>2. ASSUME Quiet, n # "free"
          PROVE  BeginFits(q, "grp")
      BY <1>20, <2>1, <2>2, <2>3, <3>2
    <3>3. ASSUME Quiet, n # "free"
          PROVE  FirstFits(q, "grp", w, n)
      BY <1>20, <2>1, <2>2, <2>3, <3>3
    <3> QED BY <3>1, <3>2, <3>3
  <2> QED BY <2>5, <2>6, <2>7, <2>9 DEF q
<1>10. CASE PtkInitNegotiating(s)
  <2> DEFINE c == r.TimeoutCtr + 1
             x == [r EXCEPT !.TimeoutEvt = FALSE, !.TimeoutCtr = c]
             f == IfKeyed(x, "m3")
  <2>1. /\ r.ptk \in {"PTKCALCNEGOTIATING2", "PTKINITNEGOTIATING"}
        /\ r.ask \subseteq {"PtkGroupInit"}
    BY <1>10 DEF PtkInitNegotiating
  <2>2. r.ask = {} /\ Keyed(r)
    BY <1>20, <2>1
  <2>3. \/ c > UpdateCount /\ EnterPtk(s, "PTKINITNEGOTIATING", x)
        \/ EnterPtk(s, "PTKINITNEGOTIATING", Sent(x, f))
    <3>1. c = sm[s].TimeoutCtr + 1 /\ x.TimeoutCtr = c
      BY DEF SmType
    <3> QED BY <1>10, <3>1 DEF PtkInitNegotiating
  <2>4. c \in Nat /\ f \in Frames \ {"g1", "g1old"}
    BY DEF SmType, IfKeyed, Frames
  <2> HIDE DEF c, f
  <2>5. x \in SmType /\ x.key_replay = r.key_replay
    BY <2>4 DEF SmType
  <2>6. NoGroupFrame(x) /\ NoGroupFrame(r)
    BY <1>20, <2>2, <2>5
  <2>7. NoGroupFrame(Sent(x, f))
    BY <2>4, <2>5, <2>6, SentFrames
  <2> USE DEF PtkStates
  <2>8. /\ q.ptk = "PTKINITNEGOTIATING" /\ q.grp = r.grp /\ q.rx = r.rx
        /\ q.ask = r.ask /\ q.GTimeoutCtr = r.GTimeoutCtr
        /\ q.PInitAKeys = r.PInitAKeys /\ q.PTK_valid = r.PTK_valid
        /\ q.GUpdateStationKeys = r.GUpdateStationKeys
        /\ q.started = r.started /\ q.assoc = r.assoc /\ q.changed
        /\ ~q.TimeoutEvt /\ q.TimeoutCtr = c
        /\ c > UpdateCount \/ q.timers > 0
        /\ q.key_replay \in {r.key_replay, Sent(x, f).key_replay}
    <3> HIDE DEF NoGroupFrame
    <3>1. CASE c > UpdateCount /\ EnterPtk(s, "PTKINITNEGOTIATING", x)
      BY <1>0, <2>4, <3>1 DEF EnterPtk, SmType
    <3>2. CASE EnterPtk(s, "PTKINITNEGOTIATING", Sent(x, f))
      <4> DEFINE z == Sent(x, f)
      <4>1. /\ z.grp = r.grp /\ z.rx = r.rx
            /\ z.ask = r.ask /\ z.GTimeoutCtr = r.GTimeoutCtr
            /\ z.PInitAKeys = r.PInitAKeys /\ z.PTK_valid = r.PTK_valid
            /\ z.GUpdateStationKeys = r.GUpdateStationKeys
            /\ z.started = r.started /\ z.assoc = r.assoc
            /\ ~z.TimeoutEvt /\ z.TimeoutCtr = c /\ z.timers > 0
            /\ DOMAIN z = DOMAIN r /\ {"ptk", "changed"} \subseteq DOMAIN r
        BY <2>4 DEF Sent, SmType
      <4>2. sm' = [sm EXCEPT ![s] = [z EXCEPT !.ptk = "PTKINITNEGOTIATING",
                                              !.changed = TRUE]]
        BY <3>2 DEF EnterPtk
      <4>3. z.key_replay = Sent(x, f).key_replay
        OBVIOUS
      <4> HIDE DEF z, x
      <4> QED BY <1>0, <4>1, <4>2, <4>3
    <3> QED BY <2>3, <3>1, <3>2
  <2> HIDE DEF q
  <2>9. NoGroupFrame(q)
    BY <2>6, <2>7, <2>8
  <2> HIDE DEF x, NoGroupFrame
  <2>10. /\ UnkeyedFits(q, n) /\ CalcFits(q, "grp") /\ EvtFits(q, "grp")
         /\ TimerFits(q, "grp")
    BY <1>0, <1>20, <2>2, <2>4, <2>8
  <2>11. DueFits(q, "grp", w)
    BY <1>20, <2>2, <2>8
  <2>12. KeyedFits(q, "grp", w)
    BY <1>20, <2>2, <2>8, <2>9
  <2>13. Quiet => QuietFits(q, "grp", w, n)
    <3>1. ASSUME Quiet, n # "free"
          PROVE  GTimerFits(q, "grp") /\ StartFits(q, n) /\ QuietAskFits(q, n)
      BY <1>20, <2>1, <2>2, <2>8, <3>1
    <3>2. ASSUME Quiet, n # "free"
          PROVE  BeginFits(q, "grp")
      BY <1>20, <2>1, <2>2, <2>8, <3>2
    <3>3. ASSUME Quiet, n # "free"
          PROVE  FirstFits(q, "grp", w, n)
      BY <1>20, <2>1, <2>2, <2>8, <3>3
    <3> QED BY <3>1, <3>2, <3>3
  <2> QED BY <2>10, <2>11, <2>12, <2>13 DEF q
<1>11. CASE PtkInitDone(s)
  <2> DEFINE x == [r EXCEPT !.rx = "none"]
             b == x.PInitAKeys \/ s \notin Wpa2
  <2>1. r.ptk = "PTKINITNEGOTIATING" /\ r.ask = {} /\ r.rx # "group"
    BY <1>11, <1>21 DEF PtkInitDone
  <2>2. \/ EnterPtk(s, "PTKINITDONE", [x EXCEPT !.PInitAKeys = b])
        \/ EnterPtk(s, "PTKINITDONE", Dropped(x))
    BY <1>11 DEF PtkInitDone
  <2>3. r.PInitAKeys => b
    BY DEF SmType
  <2> HIDE DEF b
  <2>4. \/ q.timeout_next = "REMOVE"
        \/ /\ q.ptk = "PTKINITDONE" /\ q.grp = r.grp /\ q.rx = "none"
           /\ q.ask = r.ask /\ q.GTimeoutCtr = r.GTimeoutCtr
           /\ q.PInitAKeys = b /\ q.PTK_valid = r.PTK_valid
           /\ q.GUpdateStationKeys = r.GUpdateStationKeys
           /\ q.started = r.started /\ q.assoc = r.assoc /\ q.changed
    <3>1. CASE EnterPtk(s, "PTKINITDONE", [x EXCEPT !.PInitAKeys = b])
      BY <1>0, <3>1 DEF EnterPtk, SmType
    <3>2. CASE EnterPtk(s, "PTKINITDONE", Dropped(x))
      BY <1>0, <3>2 DEF EnterPtk, Dropped, SmType
    <3> QED BY <2>2, <3>1, <3>2
  <2> HIDE DEF q
  <2>5. CASE q.timeout_next = "REMOVE"
    BY <2>5 DEF q
  <2>6. CASE q.timeout_next # "REMOVE"
    <3>1. /\ UnkeyedFits(q, n) /\ CalcFits(q, "grp") /\ EvtFits(q, "grp")
          /\ TimerFits(q, "grp") /\ DueFits(q, "grp", w)
          /\ KeyedFits(q, "grp", w)
      BY <1>20, <2>1, <2>4, <2>6
    <3>2. Quiet => QuietFits(q, "grp", w, n)
      <4>1. ASSUME Quiet, n # "free"
            PROVE  r.grp = "IDLE" /\ n # "reAssoc" /\ r.started
        BY <1>20, <2>1, <4>1, <1>11 DEF PtkInitDone
      <4>2. ASSUME Quiet, n # "free"
            PROVE  /\ GTimerFits(q, "grp") /\ StartFits(q, n)
                   /\ QuietAskFits(q, n)
        BY <1>20, <2>1, <2>4, <2>6, <4>1, <4>2
      <4>3. ASSUME Quiet, n # "free"
            PROVE  BeginFits(q, "grp")
        BY <2>1, <2>4, <2>6
      <4>4. ASSUME Quiet, n # "free"
            PROVE  FirstFits(q, "grp", w, n)
        BY <2>1, <2>4, <2>6, <4>1, <4>4
      <4> QED BY <4>2, <4>3, <4>4
    <3> QED BY <3>1, <3>2 DEF q
  <2> QED BY <2>5, <2>6
<1>12. CASE PtkStays(s)
  BY <1>0, <1>12, <1>14, <1>20, <1>21 DEF PtkStays, SmType
<1> QED BY <1>1, <1>2, <1>3, <1>4, <1>5, <1>6, <1>7, <1>8, <1>9, <1>10,
           <1>11, <1>12
        DEF PtkSm

(* A step of the machines of s, in its wpa_sm_step.                         *)
LEMMA SmStepWaits ==
  ASSUME IInv, RetryInv, WaitInv, NEW s \in Sta, SmStep(s)
  PROVE  WaitInv'
<1> DEFINE n == Todo(s)
           m == Follows(s)
           w == s \in Wpa2
<1>0. /\ sm \in [Sta -> SmType] /\ sm[s] \in SmType
      /\ Fits(sm[s], Place(s), m) /\ Waits(sm[s], Place(s), w, n)
  BY DEF IInv, TypeOK, RetryInv, WaitInv
<1>1. CASE PtkSm(s)
  <2>1. At("ptk", s) /\ GoTo("grp", s) /\ next' = next
    BY <1>1 DEF PtkSm, Initialize, Disconnect, EnterDisconnected,
         Authentication, Authentication2, InitPsk, PtkStart,
         PtkCalcNegotiating, PtkCalcNegotiating2, PtkInitNegotiating,
         PtkInitDone, PtkStays, EnterPtk
  <2>2. \A t \in Sta \ {s} : sm'[t] \in {sm[t], NewGtk(sm[t])}
    BY <1>0, <1>1 DEF PtkSm, Initialize, Disconnect, EnterDisconnected,
         Authentication, Authentication2, InitPsk, PtkStart,
         PtkCalcNegotiating, PtkCalcNegotiating2, PtkInitNegotiating,
         PtkInitDone, PtkStays, EnterPtk
  <2>3. call.of = {s} /\ Place(s) = "ptk" /\ call'.of = {s} /\ Place(s)' = "grp"
    BY <2>1 DEF At, GoTo, Place
  <2>4. Waits(sm'[s], "grp", w, n)
    <3> HIDE DEF n, m
    <3> QED BY <1>0, <1>1, <2>3, PtkWaits
  <2>5. \A t \in Sta : Todo(t)' = Todo(t)
    BY <2>1 DEF Todo
  <2> HIDE DEF n
  <2> QED BY <2>2, <2>3, <2>4, <2>5, OneWaits DEF n
<1>2. CASE PtkGroupSm(s)
  <2>1. /\ At("grp", s) /\ GoTo("group", s) /\ next' = next
        /\ \A t \in Sta \ {s} : sm'[t] = sm[t]
    BY <1>0, <1>2 DEF PtkGroupSm, GroupIdle, RekeyNegotiating,
         RekeyEstablished, KeyError, GroupStays, EnterGrp
  <2>3. /\ call.of = {s} /\ Place(s) = "grp"
        /\ call'.of = {s} /\ Place(s)' = "group"
    BY <2>1 DEF At, GoTo, Place
  <2>4. Waits(sm'[s], "group", w, n)
    <3> HIDE DEF n, m
    <3> QED BY <1>0, <1>2, <2>3, PtkGroupWaits
  <2>5. \A t \in Sta : Todo(t)' = Todo(t)
    BY <2>1 DEF Todo
  <2> QED BY <2>1, <2>3, <2>4, <2>5, OneWaits
<1>3. CASE Round(s)
  <2>1. /\ At("group", s) /\ next' = next
        /\ \/ sm' = [sm EXCEPT ![s] = [sm[s] EXCEPT !.changed = FALSE]]
              /\ GoTo("ptk", s)
           \/ ~sm[s].changed /\ sm' = sm /\ call' = NoCall
    BY <1>3 DEF Round, EndRound, Step
  <2>2. call.of = {s} /\ Place(s) = "group"
    BY <2>1 DEF At, Place
  <2>3. /\ Waits([sm[s] EXCEPT !.changed = FALSE], "ptk", w, n)
        /\ ~sm[s].changed => Waits(sm[s], "idle", w, n)
    <3> HIDE DEF n, m, w
    <3> QED BY <1>0, <2>2, RoundWaits
  <2>4. \/ call'.of = {s} /\ Place(s)' = "ptk"
        \/ call'.of = {} /\ Place(s)' = "idle" /\ call' = NoCall
    BY <2>1 DEF GoTo, NoCall, Place
  <2>5. \A t \in Sta : Todo(t)' = Todo(t)
    BY <2>1 DEF Todo
  <2>6. \A t \in Sta \ {s} : sm'[t] = sm[t]
    BY <1>0, <2>1
  <2>7. Waits(sm'[s], Place(s)', w, n)
    <3>1. CASE call' = NoCall
      BY <1>0, <2>1, <2>3, <2>4, <3>1 DEF GoTo, NoCall, Place
    <3>2. CASE call' # NoCall
      BY <1>0, <2>1, <2>3, <2>4, <3>2
    <3> QED BY <3>1, <3>2
  <2> QED BY <2>2, <2>4, <2>5, <2>6, <2>7, OneWaits
<1> QED BY <1>1, <1>2, <1>3 DEF SmStep

(* What a station is like between two calls of its wpa_sm_step.              *)
Rests(r, w, n) ==
  /\ UnkeyedFits(r, n)
  /\ r.ptk = "PTKCALCNEGOTIATING" => ~r.MICVerified /\ ~r.PTK_valid
  /\ r.ptk # "PTKCALCNEGOTIATING2"
  /\ ~Due(r, w) /\ r.grp \in {"IDLE", "REKEYNEGOTIATING"}
  /\ "Init" \in r.ask => r.ptk = "INITIALIZE"
  /\ r.ptk = "PTKINITNEGOTIATING" => NoGroupFrame(r)
  /\ r.ptk \in {"PTKSTART", "PTKCALCNEGOTIATING", "PTKINITNEGOTIATING"}
       => ~r.TimeoutEvt /\ r.timers > 0
  /\ Quiet /\ n # "free" =>
       /\ r.ptk = "PTKINITDONE" /\ r.grp = "REKEYNEGOTIATING" => r.timers > 0
       /\ StartFits(r, n) /\ QuietAskFits(r, n)
       /\ w \/ ~r.PInitAKeys
       /\ r.ptk # "PTKINITDONE" \/ "Init" \in r.ask
            => ~r.GUpdateStationKeys /\ r.grp = "IDLE"

LEMMA AtWait ==
  ASSUME IInv, RetryInv, WaitInv, Returned, NEW s \in Sta, Stays(sm[s])
  PROVE  Rests(sm[s], s \in Wpa2, Todo(s))
<1> DEFINE r == sm[s]
           w == s \in Wpa2
           n == Todo(s)
<1>1. Waits(r, "idle", w, n)
  BY DEF Returned, NoCall, Place, WaitInv
<1>2. /\ r \in SmType /\ r.ask \subseteq {"Init"} /\ Stays(r)
      /\ r.rx \notin {"pairwise", "wrong", "group"}
      /\ r.TimeoutCtr <= UpdateCount /\ r.GTimeoutCtr <= UpdateCount
      /\ UpdateCount \in Nat
  BY AtRest, WpaAuthAssumption DEF Stays
<1> HIDE DEF r, w, n
<1> USE DEF Waits, CalcFits, DueFits, KeyedFits, EvtFits, TimerFits, Keyed,
            Answer, Calmed
<1>3. /\ UnkeyedFits(r, n)
      /\ r.ptk = "PTKCALCNEGOTIATING" => ~r.MICVerified /\ ~r.PTK_valid
      /\ r.ptk # "PTKCALCNEGOTIATING2"
      /\ ~Due(r, w) /\ r.grp \in {"IDLE", "REKEYNEGOTIATING"}
      /\ "Init" \in r.ask => r.ptk = "INITIALIZE"
      /\ r.ptk = "PTKINITNEGOTIATING" => NoGroupFrame(r)
  BY <1>1, <1>2
<1>4. r.ptk \in {"PTKSTART", "PTKCALCNEGOTIATING", "PTKINITNEGOTIATING"}
        => ~r.TimeoutEvt /\ r.timers > 0
  BY <1>1, <1>2, <1>3 DEF SmType
<1>5. ASSUME Quiet, n # "free"
      PROVE  /\ r.ptk = "PTKINITDONE" /\ r.grp = "REKEYNEGOTIATING"
                   => r.timers > 0
             /\ StartFits(r, n) /\ QuietAskFits(r, n)
             /\ w \/ ~r.PInitAKeys
             /\ r.ptk # "PTKINITDONE" \/ "Init" \in r.ask
                   => ~r.GUpdateStationKeys /\ r.grp = "IDLE"
  BY <1>1, <1>2, <1>5 DEF QuietFits, GTimerFits, FirstFits, BeginFits, SmType
<1> QED BY <1>3, <1>4, <1>5 DEF Rests, r, w, n

(* And before an event, when no handler has anything left to do.            *)
LEMMA AtIdle ==
  ASSUME IInv, RetryInv, WaitInv, Idle, NEW s \in Sta
  PROVE  /\ sm \in [Sta -> SmType] /\ sm[s] \in SmType /\ sm[s].ask = {}
         /\ sm[s].rx \notin {"pairwise", "wrong", "group"}
         /\ Stays(sm[s]) => /\ sm[s].GTimeoutCtr <= UpdateCount
                            /\ Rests(sm[s], s \in Wpa2, "none")
<1>1. Todo(s) = "none" /\ ~Follows(s) /\ Returned
  BY DEF Idle, NoNext, Todo, Follows
<1> QED BY <1>1, AtRest, AtWait DEF Stays

(* The others have nothing to do before the event of s, nor after it.       *)
LEMMA OthersIdle ==
  ASSUME Idle, NEW s \in Sta, next' = next \/ \E what : Then(what, s)
  PROVE  \A t \in Sta \ {s} : Todo(t)' = Todo(t)
BY DEF Idle, Then, NoNext, Todo

(* A wpa_sm_step is called for s.                                           *)
LEMMA CallWaits ==
  ASSUME IInv, WaitInv, Returned, NEW s \in Sta, NEW r \in SmType, NEW g,
         Step(s, r, g), Waits(r, "ptk", s \in Wpa2, Todo(s)'),
         \A t \in Sta \ {s} : Todo(t)' = Todo(t)
  PROVE  WaitInv'
<1>1. sm \in [Sta -> SmType]
  BY DEF IInv, TypeOK
<1>2. call.of = {} /\ Place(s) = "idle"
  BY DEF Returned, NoCall, Place
<1>3. /\ sm' = [sm EXCEPT ![s] = [r EXCEPT !.changed = FALSE]]
      /\ call'.of = {s} /\ Place(s)' = "ptk"
  BY DEF Step, GoTo, Place
<1> DEFINE q == [r EXCEPT !.changed = FALSE]
           w == s \in Wpa2
           n == Todo(s)'
<1>4. Waits(r, "ptk", w, n)
  OBVIOUS
<1> HIDE DEF n, w
<1>5. Waits(q, "ptk", w, n)
  BY <1>4 DEF Waits, Stays, UnkeyedFits, CalcFits, DueFits, KeyedFits,
     NoGroupFrame, EvtFits, TimerFits, QuietFits, GTimerFits, StartFits,
     QuietAskFits, FirstFits, BeginFits, Keyed, Due, Calmed, Answer, SmType
<1> HIDE DEF q
<1>6. sm'[s] = q /\ \A t \in Sta \ {s} : sm'[t] = sm[t]
  BY <1>1, <1>3 DEF q
<1> QED BY <1>2, <1>3, <1>5, <1>6, OneWaits DEF w, n

(* s changes, and no call of wpa_sm_step is made.                           *)
LEMMA RestWaits ==
  ASSUME IInv, WaitInv, Returned, NEW s \in Sta, NEW r,
         sm' = [sm EXCEPT ![s] = r], call' = call,
         Waits(r, "idle", s \in Wpa2, Todo(s)'),
         \A t \in Sta \ {s} : Todo(t)' = Todo(t)
  PROVE  WaitInv'
<1>1. sm \in [Sta -> SmType]
  BY DEF IInv, TypeOK
<1>2. call.of = {} /\ call'.of = {} /\ Place(s)' = "idle"
  BY DEF Returned, NoCall, Place
<1>3. sm'[s] = r /\ \A t \in Sta \ {s} : sm'[t] = sm[t]
  BY <1>1
<1> QED BY <1>2, <1>3, OneWaits

(* A running wpa_rekey_gtk.                                                 *)
LEMMA RekeyingWaits ==
  ASSUME IInv, RetryInv, WaitInv, Rekeying
  PROVE  WaitInv'
<1> USE DEF Waits, Stays, UnkeyedFits, CalcFits, DueFits, KeyedFits,
     EvtFits, TimerFits, QuietFits, GTimerFits, StartFits,
     QuietAskFits, FirstFits, BeginFits, Keyed, Due, Calmed, Answer
<1>1. CASE sm' = sm /\ call' = call /\ next' = next
  BY <1>1 DEF WaitInv, Place, Todo
<1>2. CASE RekeySetKeys
  <2>1. ASSUME NEW t \in Sta
        PROVE  Waits(sm'[t], Place(t)', t \in Wpa2, Todo(t)')
    <3> HIDE DEF Waits
    <3>1. /\ sm'[t] = NewGtk(sm[t])
          /\ Place(t)' = Place(t) /\ Todo(t)' = Todo(t)
      BY <1>2 DEF RekeySetKeys, Place, Todo
    <3>2. sm[t] \in SmType /\ Waits(sm[t], Place(t), t \in Wpa2, Todo(t))
      BY DEF IInv, TypeOK, WaitInv
    <3> QED BY <3>1, <3>2, NewGtkWaits
  <2> QED BY <2>1 DEF WaitInv
<1>3. ASSUME NEW s \in Sta, Skip(s)
      PROVE  WaitInv'
  <2> DEFINE r == [sm[s] EXCEPT !.GUpdateStationKeys = FALSE]
             w == s \in Wpa2
             n == Todo(s)
  <2>1. /\ sm' = [sm EXCEPT ![s] = r] /\ Returned
        /\ UNCHANGED <<call, next>> /\ sm[s].ptk # "PTKINITDONE"
    BY <1>3 DEF Skip
  <2>2. \A t \in Sta : Todo(t)' = Todo(t)
    BY <2>1 DEF Todo
  <2>3. /\ sm[s] \in SmType
        /\ Waits(sm[s], "idle", w, n)
    BY <2>1, AtRest DEF Returned, NoCall, Place, WaitInv
  <2> HIDE DEF n, w
  <2>4. Waits(r, "idle", w, n)
    BY <2>1, <2>3 DEF SmType, NoGroupFrame
  <2> HIDE DEF r, Waits
  <2> QED BY <2>1, <2>2, <2>4, RestWaits DEF n, w
<1>4. ASSUME NEW s \in Sta, Update(s)
      PROVE  WaitInv'
  <2> DEFINE r == [sm[s] EXCEPT !.GUpdateStationKeys = TRUE]
             c == group.GKeyDoneStations + 1
             g == [group EXCEPT !.GKeyDoneStations = c]
             w == s \in Wpa2
             n == Todo(s)
  <2>1. Step(s, r, g) /\ Returned /\ next' = next /\ sm[s].ptk = "PTKINITDONE"
    BY <1>4 DEF Update
  <2>2. \A t \in Sta : Todo(t)' = Todo(t)
    BY <2>1 DEF Todo
  <2>3. /\ sm[s] \in SmType
        /\ Waits(sm[s], "idle", w, n)
        /\ sm[s].ask \subseteq {"Init"}
        /\ sm[s].rx \notin {"pairwise", "wrong", "group"}
    BY <2>1, AtRest DEF Returned, NoCall, Place, WaitInv
  <2> HIDE DEF n, w
  <2>4. r \in SmType /\ (NoGroupFrame(sm[s]) => NoGroupFrame(r))
    BY <2>3 DEF SmType, NoGroupFrame
  <2>5. Stays(r) => /\ UnkeyedFits(r, n) /\ CalcFits(r, "ptk")
                    /\ DueFits(r, "ptk", w) /\ KeyedFits(r, "ptk", w)
                    /\ EvtFits(r, "ptk") /\ TimerFits(r, "ptk")
    BY <2>1, <2>3, <2>4 DEF SmType
  <2>6. Stays(r) /\ Quiet => QuietFits(r, "ptk", w, n)
    BY <2>1, <2>3 DEF SmType
  <2>7. Waits(r, "ptk", w, n)
    BY <2>5, <2>6
  <2> HIDE DEF r, g, Waits
  <2> QED BY <2>1, <2>2, <2>4, <2>7, CallWaits DEF n, w
<1> QED BY <1>1, <1>2, <1>3, <1>4
        DEF Rekeying, RekeySetKeysDone, RekeyVisited, RekeyReturns

(* The rest of a handler.                                                   *)
LEMMA RestOfHandlerWaits ==
  ASSUME IInv, RetryInv, WaitInv, NEW s \in Sta, Rest(s)
  PROVE  WaitInv'
<1>1. Returned /\ next.of = {s}
  BY DEF Rest, NewAssoc, Initialized, ReAssoc, Free, KeyReceived, Continues
<1>2. \A t \in Sta \ {s} : Todo(t) = "none"
  BY <1>1 DEF Todo
<1>3. /\ next' = NoNext \/ \E what : Then(what, s)
      /\ \A t \in Sta \ {s} : Todo(t)' = "none"
  <2>1. next' = NoNext \/ \E what : Then(what, s)
    BY DEF Rest, NewAssoc, Initialized, ReAssoc, Free, KeyReceived
  <2> QED BY <2>1 DEF Then, NoNext, Todo
<1>4. /\ sm[s] \in SmType /\ sm[s].ask \subseteq {"Init"}
      /\ sm[s].rx \notin {"pairwise", "wrong", "group"}
      /\ "Init" \in sm[s].ask => Follows(s)
      /\ Stays(sm[s]) => sm[s].GTimeoutCtr <= UpdateCount
  BY <1>1, AtRest DEF Stays
<1> DEFINE w == s \in Wpa2
           p == sm[s]
<1>5. Stays(p) => Rests(p, w, Todo(s))
  BY <1>1, AtWait
<1> HIDE DEF w
<1> USE DEF Waits, Stays, UnkeyedFits, CalcFits, DueFits, KeyedFits,
     EvtFits, TimerFits, QuietFits, GTimerFits, StartFits,
     QuietAskFits, FirstFits, BeginFits, Keyed, Due, Calmed, Answer, Rests
<1>6. CASE NewAssoc(s)
  <2>1. Todo(s) = "newAssoc" /\ p.ask = {}
    BY <1>4, <1>6 DEF NewAssoc, Continues, Todo, Follows
  <2>2. CASE sm[s].started
    <3> DEFINE r == [sm[s] EXCEPT !.key_replay = <<>>,
                       !.ask = @ \cup {"ReAuthenticationRequest"}]
    <3>1. <<>> \in Seq(Frames) /\ DOMAIN <<>> = {}
      OBVIOUS
    <3>2. /\ r \in SmType
          /\ Step(s, r, group) /\ Todo(s)' = "none"
      <4>1. r \in SmType
        BY <1>4, <3>1 DEF SmType, Rank
      <4> HIDE DEF r
      <4>2. Step(s, r, group) /\ Todo(s)' = "none"
        BY <1>6, <2>2 DEF NewAssoc, NoNext, Todo, r
      <4> QED BY <4>1, <4>2
    <3>3. NoGroupFrame(r)
      BY <1>4, <3>1 DEF NoGroupFrame, SmType
    <3>4. Waits(r, "ptk", w, "none")
      BY <1>4, <1>5, <2>1, <2>2, <3>3 DEF SmType
    <3> HIDE DEF r, Waits
    <3> QED BY <1>1, <1>2, <1>3, <3>2, <3>4, CallWaits DEF w
  <2>3. CASE ~sm[s].started
    <3> DEFINE r == [sm[s] EXCEPT !.started = TRUE, !.ask = @ \cup {"Init"}]
    <3>2. /\ r \in SmType
          /\ Step(s, r, group) /\ Todo(s)' = "initialized"
      <4>1. r \in SmType
        BY <1>4 DEF SmType, Rank
      <4> HIDE DEF r
      <4>2. Step(s, r, group) /\ Todo(s)' = "initialized"
        BY <1>6, <2>3 DEF NewAssoc, Then, Todo, r
      <4> QED BY <4>1, <4>2
    <3>3. NoGroupFrame(p) => NoGroupFrame(r)
      BY <1>4 DEF NoGroupFrame, SmType
    <3>4. Waits(r, "ptk", w, "initialized")
      BY <1>4, <1>5, <2>1, <2>3, <3>3 DEF SmType
    <3> HIDE DEF r, Waits
    <3> QED BY <1>1, <1>2, <1>3, <3>2, <3>4, CallWaits DEF w
  <2> QED BY <2>2, <2>3
<1>7. CASE Initialized(s)
  <2> DEFINE r == [sm[s] EXCEPT !.ask = (@ \ {"Init"}) \cup
                                          {"AuthenticationRequest"}]
  <2>1. Todo(s) = "initialized"
    BY <1>7 DEF Initialized, Continues, Todo
  <2>2. r \in SmType /\ Step(s, r, group) /\ Todo(s)' = "none"
    BY <1>4, <1>7 DEF Initialized, SmType, Rank, NoNext, Todo
  <2>3. NoGroupFrame(p) => NoGroupFrame(r)
    BY <1>4 DEF NoGroupFrame, SmType
  <2>4. Waits(r, "ptk", w, "none")
    BY <1>4, <1>5, <2>1, <2>3 DEF SmType
  <2> HIDE DEF r, Waits
  <2> QED BY <1>1, <1>2, <1>3, <2>2, <2>4, CallWaits DEF w
<1>8. CASE ReAssoc(s)
  <2> DEFINE b == IF sm[s].GUpdateStationKeys THEN {"PtkGroupInit"} ELSE {}
             a == sm[s].ask \cup {"ReAuthenticationRequest"} \cup b
             r == [sm[s] EXCEPT !.GUpdateStationKeys = FALSE,
                                !.PTK_valid = FALSE, !.ask = a]
             c == group.GKeyDoneStations - Marks(sm[s])
             g == [group EXCEPT !.GKeyDoneStations = c]
  <2>1. Todo(s) = "reAssoc" /\ p.ask = {} /\ p.started
    BY <1>4, <1>8 DEF ReAssoc, Continues, Todo, Follows
  <2>2. Step(s, r, g) /\ Todo(s)' = "none"
    BY <1>8 DEF ReAssoc, NoNext, Todo
  <2>3. /\ a \in SUBSET DOMAIN Rank
        /\ a \subseteq {"ReAuthenticationRequest", "PtkGroupInit"}
        /\ "ReAuthenticationRequest" \in a
        /\ p.GUpdateStationKeys => "PtkGroupInit" \in a
    BY <2>1 DEF Rank
  <2> HIDE DEF a, c
  <2>4. r \in SmType
    BY <1>4, <2>3 DEF SmType
  <2>5. NoGroupFrame(p) => NoGroupFrame(r)
    BY <1>4 DEF NoGroupFrame, SmType
  <2>6. Waits(r, "ptk", w, "none")
    BY <1>4, <1>5, <2>1, <2>3, <2>5 DEF SmType
  <2> HIDE DEF r, g, Waits
  <2> QED BY <1>1, <1>2, <1>3, <2>2, <2>4, <2>6, CallWaits DEF w
<1>9. CASE Free(s)
  <2>1. /\ sm' = [sm EXCEPT ![s] = Absent] /\ call' = call
        /\ Todo(s)' = "none"
    BY <1>9 DEF Free, FreeSta, NoNext, Todo
  <2> HIDE DEF Waits
  <2>2. Waits(Absent, "idle", s \in Wpa2, Todo(s)')
    BY <2>1, AbsentWaits
  <2> QED BY <1>1, <1>2, <1>3, <2>1, <2>2, RestWaits
<1>10. CASE KeyReceived(s)
  <2> DEFINE r == [sm[s] EXCEPT !.rx = "request"]
  <2>1. Todo(s) = "keyReceived" /\ p.ask = {}
    BY <1>4, <1>10 DEF KeyReceived, Continues, Todo, Follows
  <2>2. r \in SmType /\ Step(s, r, group) /\ Todo(s)' = "none"
    BY <1>4, <1>10 DEF KeyReceived, SmType, NoNext, Todo
  <2>3. NoGroupFrame(p) => NoGroupFrame(r)
    BY <1>4 DEF NoGroupFrame, SmType
  <2>4. Waits(r, "ptk", w, "none")
    BY <1>4, <1>5, <2>1, <2>3 DEF SmType
  <2> HIDE DEF r, Waits
  <2> QED BY <1>1, <1>2, <1>3, <2>2, <2>4, CallWaits DEF w
<1> QED BY <1>6, <1>7, <1>8, <1>9, <1>10 DEF Rest

(* Associations and what ends them.                                         *)
LEMMA AssociationWaits ==
  ASSUME IInv, RetryInv, WaitInv, NEW s \in Sta,
         Associate(s) \/ Disassociate(s) \/ Remove(s) \/ Inactive(s)
  PROVE  WaitInv'
<1>1. Idle /\ Returned
  BY DEF Associate, Disassociate, Remove, Inactive, Idle
<1>2. \A t \in Sta \ {s} : Todo(t)' = Todo(t)
  <2>1. next' = next \/ \E what : Then(what, s)
    BY DEF Associate, Disassociate, Remove, Inactive
  <2> QED BY <1>1, <2>1, OthersIdle
<1> DEFINE w == s \in Wpa2
           p == sm[s]
<1>4. /\ sm \in [Sta -> SmType] /\ p \in SmType /\ p.ask = {}
      /\ p.rx \notin {"pairwise", "wrong", "group"}
      /\ Stays(p) => p.GTimeoutCtr <= UpdateCount
  BY <1>1, AtIdle
<1>5. Stays(p) => Rests(p, w, "none")
  BY <1>1, AtIdle
<1> HIDE DEF w
<1> USE DEF Waits, Stays, UnkeyedFits, CalcFits, DueFits, KeyedFits,
     EvtFits, TimerFits, QuietFits, GTimerFits, StartFits,
     QuietAskFits, FirstFits, BeginFits, Keyed, Due, Calmed, Answer, Rests
<1>6. CASE Associate(s)
  <2> DEFINE r == [sm[s] EXCEPT !.known = TRUE, !.assoc = TRUE,
                                !.PTK_valid = FALSE]
             n == IF sm[s].assoc THEN "reAssoc" ELSE "newAssoc"
  <2>1. Step(s, r, group) /\ Todo(s)' = n
        /\ (Quiet /\ p.assoc /\ p.grp = "REKEYNEGOTIATING"
               => p.GUpdateStationKeys)
    BY <1>6 DEF Associate, Then, Todo, Quiet, PendingFirst
  <2>2. r \in SmType /\ (NoGroupFrame(p) => NoGroupFrame(r))
    BY <1>4 DEF SmType, NoGroupFrame
  <2>3. Waits(r, "ptk", w, n)
    BY <1>4, <1>5, <2>1, <2>2 DEF SmType
  <2> HIDE DEF r, n, Waits
  <2> QED BY <1>1, <1>2, <2>1, <2>2, <2>3, CallWaits DEF w
<1>7. CASE Disassociate(s)
  <2> DEFINE r == [sm[s] EXCEPT !.assoc = FALSE, !.PTK_valid = FALSE,
                     !.ask = @ \cup {"DeauthenticationRequest"}]
  <2>1. Step(s, r, group) /\ Todo(s)' = "free"
    BY <1>7 DEF Disassociate, Then, Todo
  <2>2. r \in SmType /\ (NoGroupFrame(p) => NoGroupFrame(r))
    BY <1>4, ZenonT(30) DEF SmType, NoGroupFrame, Rank
  <2>3. Waits(r, "ptk", w, "free")
    BY <1>4, <1>5, <2>2 DEF SmType
  <2> HIDE DEF r, Waits
  <2> QED BY <1>1, <1>2, <2>1, <2>2, <2>3, CallWaits DEF w
<1>8. CASE Remove(s)
  <2>1. /\ sm' = [sm EXCEPT ![s] = Absent] /\ call' = call /\ Todo(s)' = "none"
    BY <1>1, <1>8 DEF Remove, FreeSta, Idle, NoNext, Todo
  <2> HIDE DEF Waits
  <2>2. Waits(Absent, "idle", s \in Wpa2, Todo(s)')
    BY <2>1, AbsentWaits
  <2> QED BY <1>1, <1>2, <2>1, <2>2, RestWaits
<1>9. CASE Inactive(s)
  <2> DEFINE r == [sm[s] EXCEPT !.assoc = FALSE, !.timeout_next = "DEAUTH"]
  <2>1. sm' = [sm EXCEPT ![s] = r] /\ call' = call
    BY <1>4, <1>9 DEF Inactive
  <2>2. Waits(r, "idle", s \in Wpa2, Todo(s)')
    BY <1>4 DEF SmType
  <2> HIDE DEF r, Waits
  <2> QED BY <1>1, <1>2, <2>1, <2>2, RestWaits
<1> QED BY <1>6, <1>7, <1>8, <1>9

(* The timer, and the acknowledgement that sets it anew.                    *)
LEMMA TimerWaits ==
  ASSUME IInv, RetryInv, WaitInv, NEW s \in Sta, Timeout(s) \/ TxStatus(s)
  PROVE  WaitInv'
<1>1. Idle /\ Returned
  BY DEF Timeout, TxStatus, Idle
<1>2. \A t \in Sta \ {s} : Todo(t)' = Todo(t)
  <2>1. next' = next \/ \E what : Then(what, s)
    BY DEF Timeout, TxStatus
  <2> QED BY <1>1, <2>1, OthersIdle
<1> DEFINE w == s \in Wpa2
           p == sm[s]
<1>4. /\ sm \in [Sta -> SmType] /\ p \in SmType /\ p.ask = {}
      /\ p.rx \notin {"pairwise", "wrong", "group"}
      /\ Stays(p) => p.GTimeoutCtr <= UpdateCount
  BY <1>1, AtIdle
<1>5. Stays(p) => Rests(p, w, "none")
  BY <1>1, AtIdle
<1> HIDE DEF w
<1> USE DEF Waits, Stays, UnkeyedFits, CalcFits, DueFits, KeyedFits,
     EvtFits, TimerFits, QuietFits, GTimerFits, StartFits,
     QuietAskFits, FirstFits, BeginFits, Keyed, Due, Calmed, Answer, Rests
<1>3. Todo(s)' = "none"
  BY <1>1 DEF Timeout, TxStatus, Idle, NoNext, Todo
<1>6. CASE Timeout(s)
  <2> DEFINE c == sm[s].timers - 1
             r == [sm[s] EXCEPT !.timers = c, !.TimeoutEvt = TRUE,
                                !.pending_1_of_4_timeout = FALSE]
  <2>1. Step(s, r, group)
    BY <1>6 DEF Timeout
  <2>2. c \in Nat
    BY <1>4, <1>6 DEF Timeout, SmType
  <2> HIDE DEF c
  <2>3. r \in SmType /\ (NoGroupFrame(p) => NoGroupFrame(r))
    BY <1>4, <2>2 DEF SmType, NoGroupFrame
  <2>4. Waits(r, "ptk", w, "none")
    BY <1>4, <1>5, <2>2, <2>3 DEF SmType
  <2> HIDE DEF r, Waits
  <2> QED BY <1>1, <1>2, <1>3, <2>1, <2>3, <2>4, CallWaits DEF w
<1>7. CASE TxStatus(s)
  <2> DEFINE r == [sm[s] EXCEPT !.timers = 1]
  <2>1. sm' = [sm EXCEPT ![s] = r] /\ call' = call
    BY <1>4, <1>7 DEF TxStatus
  <2>2. NoGroupFrame(p) => NoGroupFrame(r)
    BY <1>4 DEF SmType, NoGroupFrame
  <2>3. Waits(r, "idle", w, "none")
    BY <1>4, <1>5, <2>2 DEF SmType
  <2> HIDE DEF r, Waits
  <2> QED BY <1>1, <1>2, <1>3, <2>1, <2>3, RestWaits DEF w
<1> QED BY <1>6, <1>7

(* A frame: the timer it stops is that of the machine that consumes it, or  *)
(* not needed any more.  A request for a group key is consumed by neither.   *)
LEMMA ReceiveWaits ==
  ASSUME IInv, RetryInv, WaitInv, "gtk" \notin Adverse,
         NEW s \in Sta, Receive(s)
  PROVE  WaitInv'
<1>1. Idle /\ Returned /\ next' = next
  BY DEF Receive, Pairwise2, Pairwise4, Group2, BadMic, RequestPtk,
         RequestGtk, Idle
<1>2. \A t \in Sta \ {s} : Todo(t)' = Todo(t)
  <2>1. next' = next \/ \E what : Then(what, s)
    BY <1>1
  <2> QED BY <1>1, <2>1, OthersIdle
<1> DEFINE w == s \in Wpa2
           p == sm[s]
<1>4. /\ sm \in [Sta -> SmType] /\ p \in SmType /\ p.ask = {}
      /\ p.rx \notin {"pairwise", "wrong", "group"}
      /\ Stays(p) => p.GTimeoutCtr <= UpdateCount
  BY <1>1, AtIdle
<1>5. Stays(p) => Rests(p, w, "none")
  BY <1>1, AtIdle
<1> HIDE DEF w
<1> USE DEF Waits, Stays, UnkeyedFits, CalcFits, DueFits, KeyedFits,
     EvtFits, TimerFits, QuietFits, GTimerFits, StartFits,
     QuietAskFits, FirstFits, BeginFits, Keyed, Due, Calmed, Answer, Rests
<1>3. Todo(s)' = "none"
  BY <1>1 DEF Idle, NoNext, Todo
<1>6. <<>> \in Seq(Frames) /\ DOMAIN <<>> = {}
  OBVIOUS
<1>7. CASE Pairwise2(s)
  <2>1. PICK what \in {"pairwise", "wrong"} :
          \/ sm' = [sm EXCEPT ![s] = Dropped(sm[s])] /\ call' = call
          \/ Step(s, [sm[s] EXCEPT !.MICVerified = FALSE,
                        !.key_replay = <<>>, !.rx = what], group)
    BY <1>1, <1>7 DEF Pairwise2
  <2>2. ~p.PTK_valid /\ p.ptk \in {"PTKSTART", "PTKCALCNEGOTIATING"}
    BY <1>7 DEF Pairwise2
  <2> DEFINE r == [sm[s] EXCEPT !.MICVerified = FALSE,
                                !.key_replay = <<>>, !.rx = what]
  <2>3. r \in SmType /\ NoGroupFrame(r)
    BY <1>4, <1>6 DEF SmType, NoGroupFrame
  <2>4. CASE Step(s, r, group)
    <3>1. Waits(r, "ptk", w, "none")
      BY <1>4, <1>5, <2>2, <2>3 DEF SmType
    <3> HIDE DEF r, Waits
    <3> QED BY <1>1, <1>2, <1>3, <2>3, <2>4, <3>1, CallWaits DEF w
  <2>5. CASE sm' = [sm EXCEPT ![s] = Dropped(sm[s])] /\ call' = call
    <3>1. Waits(Dropped(sm[s]), "idle", w, "none")
      BY <1>4 DEF SmType, Dropped
    <3> HIDE DEF Waits
    <3> QED BY <1>1, <1>2, <1>3, <2>5, <3>1, RestWaits DEF w
  <2> QED BY <2>1, <2>4, <2>5
<1>8. CASE Pairwise4(s)
  <2>1. PICK frame \in {"m3", "m3old"} :
          Step(s, [Taken(sm[s], "pairwise") EXCEPT
                     !.fresh = IF s \in Wpa2 THEN frame = "m3" ELSE @], group)
    BY <1>8 DEF Pairwise4
  <2> DEFINE q == Taken(sm[s], "pairwise")
             b == IF s \in Wpa2 THEN frame = "m3" ELSE q.fresh
             r == [q EXCEPT !.fresh = b]
  <2>2. q \in SmType
    BY <1>4, TakenType
  <2>3. NoGroupFrame(q) /\ Waits(q, "ptk", w, "none")
    <3>1. p.PTK_valid /\ p.ptk = "PTKINITNEGOTIATING"
      BY <1>8 DEF Pairwise4
    <3>2. NoGroupFrame(q)
      BY <1>4, <1>6 DEF SmType, NoGroupFrame, Taken, StopTimers
    <3>3. /\ q.timeout_next = p.timeout_next /\ q.ptk = p.ptk
          /\ q.rx = "pairwise" /\ q.grp = p.grp /\ q.MICVerified
          /\ q.GTimeoutCtr = p.GTimeoutCtr /\ q.ask = {}
          /\ q.PTK_valid = p.PTK_valid /\ q.TimeoutEvt = p.TimeoutEvt
          /\ q.GUpdateStationKeys = p.GUpdateStationKeys
          /\ q.PInitAKeys = p.PInitAKeys
          /\ q.started = p.started /\ q.assoc = p.assoc
      BY <1>4 DEF SmType, Taken, StopTimers
    <3> HIDE DEF q, NoGroupFrame
    <3> QED BY <1>4, <1>5, <3>1, <3>2, <3>3
  <2> HIDE DEF q
  <2>4. b \in BOOLEAN
    BY <2>2 DEF SmType
  <2> HIDE DEF b
  <2>5. r \in SmType /\ Step(s, r, group)
    <3>1. r \in SmType
      BY <2>2, <2>4 DEF SmType
    <3> QED BY <2>1, <3>1 DEF b, q
  <2>6. Waits(r, "ptk", w, "none")
    BY <2>2, <2>3 DEF SmType, NoGroupFrame
  <2> HIDE DEF r, Waits
  <2> QED BY <1>1, <1>2, <1>3, <2>5, <2>6, CallWaits DEF w
<1>9. CASE Group2(s)
  <2>1. PICK frame \in {"g1", "g1old"} :
          /\ Outstanding(s, frame)
          /\ Step(s, [Taken(sm[s], "group") EXCEPT !.fresh = frame = "g1"],
                  group)
    BY <1>9 DEF Group2
  <2> DEFINE q == Taken(sm[s], "group")
             b == frame = "g1"
             r == [q EXCEPT !.fresh = b]
  <2>2. q \in SmType
    BY <1>4, TakenType
  <2>3. Waits(q, "ptk", w, "none")
    <3>1. p.PTK_valid /\ p.grp = "REKEYNEGOTIATING"
      BY <1>9 DEF Group2
    <3>2. ~NoGroupFrame(p)
      BY <2>1 DEF Outstanding, NoGroupFrame
    <3>3. /\ q.timeout_next = p.timeout_next /\ q.ptk = p.ptk
          /\ q.rx = "group" /\ q.grp = p.grp /\ q.ask = {}
          /\ q.PTK_valid = p.PTK_valid /\ q.TimeoutEvt = p.TimeoutEvt
          /\ q.GUpdateStationKeys = p.GUpdateStationKeys
          /\ q.PInitAKeys = p.PInitAKeys
          /\ q.started = p.started /\ q.assoc = p.assoc
      BY <1>4 DEF SmType, Taken, StopTimers
    <3> HIDE DEF q
    <3> QED BY <1>4, <1>5, <3>1, <3>2, <3>3
  <2> HIDE DEF q
  <2>4. b \in BOOLEAN
    OBVIOUS
  <2> HIDE DEF b
  <2>5. r \in SmType /\ Step(s, r, group)
    <3>1. r \in SmType
      BY <2>2, <2>4 DEF SmType
    <3> QED BY <2>1, <3>1 DEF b, q
  <2>6. Waits(r, "ptk", w, "none")
    BY <2>2, <2>3 DEF SmType, NoGroupFrame
  <2> HIDE DEF r, Waits
  <2> QED BY <1>1, <1>2, <1>3, <2>5, <2>6, CallWaits DEF w
<1>10. CASE BadMic(s)
  <2> DEFINE r == [sm[s] EXCEPT !.MICVerified = FALSE]
  <2>1. /\ sm' = [sm EXCEPT ![s] = r] /\ call' = call
        /\ p.PTK_valid
    BY <1>4, <1>10 DEF BadMic
  <2>2. NoGroupFrame(p) => NoGroupFrame(r)
    BY <1>4 DEF SmType, NoGroupFrame
  <2>3. Waits(r, "idle", w, "none")
    BY <1>4, <1>5, <2>1, <2>2 DEF SmType
  <2> HIDE DEF r, Waits
  <2> QED BY <1>1, <1>2, <1>3, <2>1, <2>3, RestWaits DEF w
<1>11. CASE RequestPtk(s)
  <2> DEFINE q == StopTimers(sm[s])
             r == [q EXCEPT !.MICVerified = TRUE, !.PTK_valid = FALSE,
                            !.rx = "request", !.ask = @ \cup {"PTKRequest"}]
  <2>1. Step(s, r, group) /\ p.PTK_valid /\ ~Quiet
    BY <1>11 DEF RequestPtk, Quiet, Requests
  <2>2. /\ q \in SmType
        /\ q.timeout_next = p.timeout_next /\ q.ptk = p.ptk
        /\ q.grp = p.grp /\ q.ask = {} /\ q.GTimeoutCtr = p.GTimeoutCtr
        /\ q.TimeoutEvt = p.TimeoutEvt /\ q.key_replay = p.key_replay
        /\ q.GUpdateStationKeys = p.GUpdateStationKeys
        /\ q.PInitAKeys = p.PInitAKeys
    BY <1>4, StopTimersType, ZenonT(30) DEF StopTimers, SmType
  <2> HIDE DEF q
  <2>3. r \in SmType /\ (NoGroupFrame(p) => NoGroupFrame(r))
    BY <2>2, ZenonT(30) DEF SmType, Rank, NoGroupFrame
  <2>4. Waits(r, "ptk", w, "none")
    BY <1>4, <1>5, <2>1, <2>2, <2>3 DEF SmType
  <2> HIDE DEF r, Waits
  <2> QED BY <1>1, <1>2, <1>3, <2>1, <2>3, <2>4, CallWaits DEF w
<1> QED BY <1>7, <1>8, <1>9, <1>10, <1>11 DEF Receive, RequestGtk
-----------------------------------------------------------------------------
(* The invariant holds at first and is kept by every step.                  *)
LEMMA InitWaits == Init => WaitInv
BY AbsentWaits DEF Init, WaitInv, Todo

LEMMA NextWaits ==
  ASSUME IInv, RetryInv, WaitInv, "gtk" \notin Adverse, [Next]_vars
  PROVE  WaitInv'
<1>1. CASE Rekeying
  BY <1>1, RekeyingWaits
<1>2. ASSUME NEW s \in Sta, SmStep(s) \/ Rest(s)
      PROVE  WaitInv'
  BY <1>2, SmStepWaits, RestOfHandlerWaits
<1>3. CASE RekeyGtk \/ UNCHANGED vars
  BY <1>3 DEF RekeyGtk, vars, WaitInv, Place, Todo
<1>4. ASSUME NEW s \in Sta, Event(s)
      PROVE  WaitInv'
  BY <1>4, AssociationWaits, TimerWaits, ReceiveWaits DEF Event
<1> QED BY <1>1, <1>2, <1>3, <1>4 DEF Next, Internal

(* 1296: one timer serves the retries of both handshakes, and a frame with a *)
(* good MIC stops it (972) whichever handshake it belongs to.  Nevertheless  *)
(* a pairwise handshake never waits without a timer, whatever else happens,  *)
(* unless stations request group keys: such a frame stops the timer and      *)
(* belongs to no handshake.                                                  *)
THEOREM PairwiseWaits ==
  ASSUME "gtk" \notin Adverse
  PROVE  Spec => []PairwiseRetried
<1>1. IInv /\ RetryInv /\ WaitInv => PairwiseRetried
  BY AtWait DEF PairwiseRetried, Idle, Staying, Stays, Rests
<1>2. IInv /\ RetryInv /\ WaitInv /\ [Next]_vars
        => IInv' /\ RetryInv' /\ WaitInv'
  BY NextInv, NextRetry, NextWaits
<1> QED BY <1>1, <1>2, InitInv, InitRetry, InitWaits, PTL DEF Spec

(* The same of the group handshake (2112) with a station whose pairwise one  *)
(* has ended, while stations make no requests and do not re-associate in the *)
(* middle of their first group handshake: that one is not cancelled (1377),  *)
(* and its expiry and its timer go to the new pairwise handshake (1603, 972). *)
THEOREM GroupWaits ==
  ASSUME Adverse \cap (Requests \cup {"pending"}) = {}
  PROVE  Spec => []GroupRetried
<1>1. IInv /\ RetryInv /\ WaitInv => GroupRetried
  <2>1. ASSUME Idle
        PROVE  \A s \in Sta : Returned /\ Todo(s) = "none"
    BY <2>1 DEF Idle, NoNext, Todo
  <2> QED BY <2>1, AtWait DEF GroupRetried, Staying, Stays, Quiet, Rests
<1>2. "gtk" \notin Adverse
  BY DEF Requests
<1>3. IInv /\ RetryInv /\ WaitInv /\ [Next]_vars
        => IInv' /\ RetryInv' /\ WaitInv'
  BY <1>2, NextInv, NextRetry, NextWaits
<1> QED BY <1>1, <1>3, InitInv, InitRetry, InitWaits, PTL DEF Spec
=============================================================================
