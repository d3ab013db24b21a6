---------------------------- MODULE WpaAuthProofs ----------------------------
(***************************************************************************)
(* Proofs about the WPA authenticator, for any set of stations, of either   *)
(* version, any limits and any choice of adverse events: the state has its  *)
(* types, GKeyDoneStations counts the stations that a rekeying waits for,   *)
(* no wpa_sm_step is entered from another (IInv); and the retries end, and  *)
(* the pairwise handshake ends by an answer (RetryInv).                     *)
(***************************************************************************)
EXTENDS WpaAuth, FiniteSetTheorems, SequenceTheorems, TLAPS

(* What stands behind the count: stations that are not known are not marked, *)
(* and neither the running call nor a removal concerns a station that the    *)
(* rekeying has still to visit.                                              *)
StackOK ==
  /\ \A s \in Sta : sm[s].GUpdateStationKeys => sm[s].known
  /\ \A s \in todo : sm[s].known
  /\ call.of \cap todo = {}
  /\ todo # {} => rekey = "each"
  /\ group.GTKReKey => rekey = "group" /\ call = NoCall

IInv == TypeOK /\ DoneCounts /\ StackOK

Counted == {s \in Sta \ todo : sm[s].GUpdateStationKeys}
-----------------------------------------------------------------------------
(* Removing a station that counts leaves one less, any other leaves as many. *)
LEMMA CountFalls ==
  ASSUME IInv, NEW s \in Sta \ todo
  PROVE  /\ IsFiniteSet(Counted)
         /\ Cardinality(Counted \ {s}) = Cardinality(Counted) - Marks(sm[s])
         /\ group.GKeyDoneStations - Marks(sm[s]) \in Nat
<1>1. IsFiniteSet(Counted)
  BY WpaAuthAssumption, FS_Subset DEF Counted
<1>2. group.GKeyDoneStations = Cardinality(Counted)
  BY DEF IInv, DoneCounts, Counted
<1>3. Cardinality(Counted) \in Nat /\ IsFiniteSet(Counted \ {s})
      /\ Cardinality(Counted \ {s}) \in Nat
  BY <1>1, FS_CardinalityType, FS_RemoveElement, FS_Subset
<1>4. CASE sm[s].GUpdateStationKeys
  <2>1. s \in Counted
    BY <1>4 DEF Counted
  <2>2. Cardinality(Counted \ {s}) = Cardinality(Counted) - 1
    BY <1>1, <2>1, FS_RemoveElement
  <2>3. Marks(sm[s]) = 1
    BY <1>4 DEF Marks
  <2>4. Cardinality(Counted) - 1 \in Nat
    BY <1>3, <2>2
  <2> QED BY <1>1, <1>2, <2>2, <2>3, <2>4
<1>5. CASE ~sm[s].GUpdateStationKeys
  <2>1. Counted \ {s} = Counted
    BY <1>5 DEF Counted
  <2>2. Marks(sm[s]) = 0
    BY <1>5 DEF Marks
  <2>3. Cardinality(Counted) - 0 = Cardinality(Counted)
    BY <1>3
  <2> QED BY <1>1, <1>2, <1>3, <2>1, <2>2, <2>3
<1> QED BY <1>4, <1>5

(* A step on one station that a rekeying need not visit keeps the invariant *)
(* if the count follows the station's mark, which is not set by the step.   *)
LEMMA StaStep ==
  ASSUME IInv, NEW s \in Sta \ todo,
         sm' \in [Sta -> SmType], group' \in GroupType,
         call' \in CallType, next' \in NextType,
         rekey' \in {"no", "group", "each"}, todo' = todo,
         \A t \in Sta \ {s} :
           /\ sm'[t].known = sm[t].known
           /\ sm'[t].GUpdateStationKeys = sm[t].GUpdateStationKeys,
         sm'[s].GUpdateStationKeys =>
           sm'[s].known /\ sm[s].GUpdateStationKeys,
         group'.GKeyDoneStations =
           group.GKeyDoneStations - Marks(sm[s]) + Marks(sm'[s]),
         call'.of \subseteq {s},
         todo # {} => rekey' = "each",
         group'.GTKReKey => rekey' = "group" /\ call' = NoCall
  PROVE  IInv'
<1> USE DEF IInv
<1>1. TypeOK'
  BY DEF TypeOK
<1>2. StackOK'
  <2>1. \A t \in Sta : sm'[t].GUpdateStationKeys => sm'[t].known
    BY DEF StackOK
  <2>2. \A t \in todo' : sm'[t].known
    BY DEF StackOK, TypeOK
  <2>3. call'.of \cap todo' = {}
    OBVIOUS
  <2>4. group'.GTKReKey => rekey' = "group" /\ call' = NoCall'
    BY DEF NoCall
  <2> QED BY <2>1, <2>2, <2>3, <2>4 DEF StackOK
<1>3. Counted' = IF sm'[s].GUpdateStationKeys THEN Counted ELSE Counted \ {s}
  BY DEF Counted, TypeOK
<1>4. group'.GKeyDoneStations = Cardinality(Counted')
  <2>1. group.GKeyDoneStations = Cardinality(Counted)
    BY DEF DoneCounts, Counted
  <2>2. Cardinality(Counted \ {s}) = Cardinality(Counted) - Marks(sm[s])
    BY CountFalls
  <2>3. group.GKeyDoneStations \in Nat
    BY DEF TypeOK, GroupType
  <2>4. CASE sm'[s].GUpdateStationKeys
    <3>1. Marks(sm[s]) = 1 /\ Marks(sm'[s]) = 1
      BY <2>4 DEF Marks
    <3> QED BY <3>1, <2>1, <2>3, <2>4, <1>3
  <2>5. CASE ~sm'[s].GUpdateStationKeys
    <3>1. Marks(sm'[s]) = 0 /\ Marks(sm[s]) \in {0, 1}
      BY <2>5 DEF Marks
    <3> QED BY <3>1, <2>1, <2>2, <2>3, <2>5, <1>3
  <2> QED BY <2>4, <2>5
<1>5. DoneCounts'
  BY <1>4 DEF DoneCounts, Counted
<1> QED BY <1>1, <1>2, <1>5
-----------------------------------------------------------------------------
(* What the helpers do to the machine of a station.                         *)
Alike(q, r) ==
  q.known = r.known /\ q.GUpdateStationKeys = r.GUpdateStationKeys

LEMMA SentType ==
  ASSUME NEW r \in SmType, NEW f \in Frames
  PROVE  Sent(r, f) \in SmType /\ Alike(Sent(r, f), r)
<1>1. r.key_replay \in Seq(Frames)
  BY DEF SmType
<1>2. <<f>> \o r.key_replay \in Seq(Frames)
      /\ Len(<<f>> \o r.key_replay) = Len(r.key_replay) + 1
      /\ Len(r.key_replay) \in Nat
  BY <1>1
<1> DEFINE n == IF Len(r.key_replay) < Retries THEN Len(r.key_replay) + 1
                ELSE Retries
           k == SubSeq(<<f>> \o r.key_replay, 1, n)
<1>3. n \in Nat /\ n <= Len(<<f>> \o r.key_replay)
  BY <1>2, WpaAuthAssumption
<1>4. k \in Seq(Frames)
  BY <1>2, <1>3
<1> DEFINE m == r.timers + 1
<1>5. m \in Nat
  BY DEF SmType
<1>6. Sent(r, f) = [r EXCEPT !.key_replay = k, !.timers = m]
  BY DEF Sent
<1> HIDE DEF n, k, m
<1>7. [r EXCEPT !.key_replay = k, !.timers = m] \in SmType
  BY <1>4, <1>5 DEF SmType
<1>8. Alike([r EXCEPT !.key_replay = k, !.timers = m], r)
  BY DEF Alike, SmType
<1> QED BY <1>6, <1>7, <1>8

LEMMA StopTimersType ==
  ASSUME NEW r \in SmType
  PROVE  StopTimers(r) \in SmType /\ Alike(StopTimers(r), r)
BY DEF StopTimers, SmType, Alike

LEMMA TakenType ==
  ASSUME NEW r \in SmType, NEW what \in {"pairwise", "group"}
  PROVE  Taken(r, what) \in SmType /\ Alike(Taken(r, what), r)
<1>1. <<>> \in Seq(Frames)
  OBVIOUS
<1> DEFINE q == StopTimers(r)
<1>2. q \in SmType /\ Alike(q, r)
  BY StopTimersType
<1>3. Taken(r, what) = [q EXCEPT !.MICVerified = TRUE, !.key_replay = <<>>,
                                 !.rx = what]
  BY DEF Taken
<1> HIDE DEF q
<1>4. [q EXCEPT !.MICVerified = TRUE, !.key_replay = <<>>, !.rx = what]
        \in SmType
  BY <1>1, <1>2 DEF SmType
<1>5. Alike([q EXCEPT !.MICVerified = TRUE, !.key_replay = <<>>, !.rx = what],
            q)
  BY <1>2 DEF Alike, SmType
<1> QED BY <1>2, <1>3, <1>4, <1>5 DEF Alike

LEMMA DroppedType ==
  ASSUME NEW r \in SmType
  PROVE  Dropped(r) \in SmType /\ Alike(Dropped(r), r)
BY DEF Dropped, SmType, Alike

LEMMA NewGtkType ==
  ASSUME NEW r \in SmType
  PROVE  NewGtk(r) \in SmType /\ Alike(NewGtk(r), r)
<1> DEFINE k == [i \in DOMAIN r.key_replay |-> Aged(r.key_replay[i])]
<1>1. r.key_replay \in Seq(Frames)
  BY DEF SmType
<1>2. \A f \in Frames : Aged(f) \in Frames
  BY DEF Aged, Frames
<1>3. k \in Seq(Frames)
  <2>1. DOMAIN r.key_replay = 1..Len(r.key_replay) /\ Len(r.key_replay) \in Nat
    BY <1>1
  <2>2. \A i \in 1..Len(r.key_replay) : r.key_replay[i] \in Frames
    BY <1>1
  <2> QED BY <1>2, <2>1, <2>2
<1> HIDE DEF k
<1>4. [r EXCEPT !.fresh = FALSE, !.key_replay = k] \in SmType
  BY <1>3 DEF SmType
<1>5. NewGtk(r) = [r EXCEPT !.fresh = FALSE, !.key_replay = k]
  BY DEF NewGtk, k
<1> QED BY <1>4, <1>5 DEF Alike, SmType

LEMMA AbsentType == Absent \in SmType
<1>1. <<>> \in Seq(Frames)
  OBVIOUS
<1> QED BY <1>1 DEF Absent, SmType, PtkStates, GroupStates

(* One station changes.                                                     *)
LEMMA OneChanges ==
  ASSUME NEW s \in Sta, NEW r \in SmType, sm \in [Sta -> SmType],
         sm' = [sm EXCEPT ![s] = r]
  PROVE  /\ sm' \in [Sta -> SmType] /\ sm'[s] = r
         /\ \A t \in Sta \ {s} : sm'[t] = sm[t]
OBVIOUS

LEMMA StepCalls ==
  ASSUME NEW s \in Sta, NEW r \in SmType, NEW g \in GroupType,
         sm \in [Sta -> SmType], Step(s, r, g)
  PROVE  /\ sm' \in [Sta -> SmType] /\ Alike(sm'[s], r)
         /\ \A t \in Sta \ {s} : sm'[t] = sm[t]
         /\ group' \in GroupType
         /\ group'.GKeyDoneStations = g.GKeyDoneStations
         /\ group'.GTKReKey = g.GTKReKey
         /\ call' \in CallType /\ call'.of = {s}
<1>1. [r EXCEPT !.changed = FALSE] \in SmType
      /\ Alike([r EXCEPT !.changed = FALSE], r)
  BY DEF SmType, Alike
<1>2. sm' = [sm EXCEPT ![s] = [r EXCEPT !.changed = FALSE]]
  BY DEF Step
<1>3. sm' \in [Sta -> SmType] /\ Alike(sm'[s], r)
      /\ \A t \in Sta \ {s} : sm'[t] = sm[t]
  BY <1>1, <1>2, OneChanges
<1>4. group' = [g EXCEPT !.changed = FALSE]
  BY DEF Step
<1>5. call' = [at |-> "ptk", of |-> {s}]
  BY DEF Step, GoTo
<1> QED BY <1>3, <1>4, <1>5 DEF GroupType, CallType
-----------------------------------------------------------------------------
(* A step of the machines of s, while its wpa_sm_step is running.           *)
LEMMA AtFacts ==
  ASSUME IInv, NEW s \in Sta, NEW p \in {"ptk", "grp", "group"}, At(p, s)
  PROVE  s \in Sta \ todo /\ ~group.GTKReKey /\ sm[s] \in SmType
<1>1. call.of = {s} /\ call # NoCall
  BY DEF At, NoCall
<1> QED BY <1>1 DEF IInv, StackOK, TypeOK

LEMMA Machine ==
  ASSUME IInv, NEW s \in Sta, NEW p \in {"ptk", "grp", "group"}, At(p, s),
         sm' \in [Sta -> SmType],
         \A t \in Sta \ {s} : Alike(sm'[t], sm[t]),
         sm'[s].known = sm[s].known,
         sm'[s].GUpdateStationKeys => sm[s].GUpdateStationKeys,
         group' \in GroupType, group'.GTKReKey = group.GTKReKey,
         group'.GKeyDoneStations =
           group.GKeyDoneStations - Marks(sm[s]) + Marks(sm'[s]),
         call' \in CallType, call'.of \subseteq {s},
         UNCHANGED <<todo, rekey, next>>
  PROVE  IInv'
<1>1. s \in Sta \ todo /\ ~group.GTKReKey
  BY AtFacts
<1>2. TypeOK /\ StackOK
  BY DEF IInv
<1>3. next' \in NextType /\ rekey' \in {"no", "group", "each"} /\ todo' = todo
  BY <1>2 DEF TypeOK
<1>4. todo # {} => rekey' = "each"
  BY <1>2 DEF StackOK
<1>5. sm'[s].GUpdateStationKeys =>
        sm'[s].known /\ sm[s].GUpdateStationKeys
  BY <1>2 DEF StackOK
<1>6. \A t \in Sta \ {s} :
        /\ sm'[t].known = sm[t].known
        /\ sm'[t].GUpdateStationKeys = sm[t].GUpdateStationKeys
  BY DEF Alike
<1>7. group'.GTKReKey => rekey' = "group" /\ call' = NoCall
  BY <1>1
<1> QED BY <1>1, <1>3, <1>4, <1>5, <1>6, <1>7, StaStep

(* The marks stay, and with them the count.                                 *)
LEMMA SameMarks ==
  ASSUME IInv, NEW s \in Sta, sm'[s].GUpdateStationKeys = sm[s].GUpdateStationKeys,
         group'.GKeyDoneStations = group.GKeyDoneStations
  PROVE  group'.GKeyDoneStations =
           group.GKeyDoneStations - Marks(sm[s]) + Marks(sm'[s])
<1>1. Marks(sm'[s]) = Marks(sm[s]) /\ Marks(sm[s]) \in {0, 1}
  BY DEF Marks
<1>2. group.GKeyDoneStations \in Nat
  BY DEF IInv, TypeOK, GroupType
<1> QED BY <1>1, <1>2

LEMMA Kept ==
  ASSUME IInv, NEW s \in Sta, NEW p \in {"ptk", "grp", "group"}, At(p, s),
         NEW r \in SmType, Alike(r, sm[s]), sm' = [sm EXCEPT ![s] = r],
         group' = group, NEW q \in {"ptk", "grp", "group"}, GoTo(q, s),
         UNCHANGED <<todo, rekey, next>>
  PROVE  IInv'
<1>1. sm \in [Sta -> SmType] /\ group \in GroupType
  BY DEF IInv, TypeOK
<1>2. /\ sm' \in [Sta -> SmType] /\ sm'[s] = r
      /\ \A t \in Sta \ {s} : sm'[t] = sm[t]
  BY <1>1, OneChanges
<1>3. call' \in CallType /\ call'.of \subseteq {s}
  BY DEF GoTo, CallType
<1>4. group'.GKeyDoneStations =
        group.GKeyDoneStations - Marks(sm[s]) + Marks(sm'[s])
  BY <1>2, SameMarks DEF Alike
<1> QED BY <1>1, <1>2, <1>3, <1>4, Machine DEF Alike

LEMMA Unmarked ==
  ASSUME IInv, NEW s \in Sta, NEW p \in {"ptk", "grp", "group"}, At(p, s),
         NEW r \in SmType, r.known = sm[s].known, ~r.GUpdateStationKeys,
         sm' = [sm EXCEPT ![s] = r], Uncount(sm[s]),
         NEW q \in {"ptk", "grp", "group"}, GoTo(q, s),
         UNCHANGED <<todo, rekey, next>>
  PROVE  IInv'
<1>1. sm \in [Sta -> SmType] /\ group \in GroupType
  BY DEF IInv, TypeOK
<1>2. /\ sm' \in [Sta -> SmType] /\ sm'[s] = r
      /\ \A t \in Sta \ {s} : sm'[t] = sm[t]
  BY <1>1, OneChanges
<1>3. call' \in CallType /\ call'.of \subseteq {s}
  BY DEF GoTo, CallType
<1>4. Marks(sm'[s]) = 0
  BY <1>2 DEF Marks
<1>5. group.GKeyDoneStations - Marks(sm[s]) \in Nat
  BY AtFacts, CountFalls
<1>6. /\ group' \in GroupType /\ group'.GTKReKey = group.GTKReKey
      /\ group'.GKeyDoneStations = group.GKeyDoneStations - Marks(sm[s])
  BY <1>1, <1>5 DEF GroupType, Uncount
<1>7. group'.GKeyDoneStations =
        group.GKeyDoneStations - Marks(sm[s]) + Marks(sm'[s])
  BY <1>4, <1>5, <1>6
<1> QED BY <1>2, <1>3, <1>6, <1>7, Machine DEF Alike

LEMMA EnterPtkInv ==
  ASSUME IInv, NEW s \in Sta, At("ptk", s), NEW state \in PtkStates,
         NEW r \in SmType, Alike(r, sm[s]), EnterPtk(s, state, r),
         group' = group
  PROVE  IInv'
<1> DEFINE q == [r EXCEPT !.ptk = state, !.changed = TRUE]
<1>1. q \in SmType /\ Alike(q, sm[s])
  BY DEF SmType, Alike
<1>2. /\ sm' = [sm EXCEPT ![s] = q] /\ GoTo("grp", s)
      /\ UNCHANGED <<todo, rekey, next>>
  BY DEF EnterPtk
<1> HIDE DEF q
<1> QED BY <1>1, <1>2, Kept

LEMMA EnterGrpInv ==
  ASSUME IInv, NEW s \in Sta, At("grp", s), NEW state \in GroupStates,
         NEW r \in SmType, r.known = sm[s].known, EnterGrp(s, state, r),
         \/ Alike(r, sm[s]) /\ group' = group
         \/ ~r.GUpdateStationKeys /\ Uncount(sm[s])
  PROVE  IInv'
<1> DEFINE q == [r EXCEPT !.grp = state, !.changed = TRUE]
<1>1. q \in SmType /\ q.known = sm[s].known
      /\ q.GUpdateStationKeys = r.GUpdateStationKeys
  BY DEF SmType
<1>2. /\ sm' = [sm EXCEPT ![s] = q] /\ GoTo("group", s)
      /\ UNCHANGED <<todo, rekey, next>>
  BY DEF EnterGrp
<1> HIDE DEF q
<1>3. CASE Alike(r, sm[s]) /\ group' = group
  <2>1. Alike(q, sm[s])
    BY <1>1, <1>3 DEF Alike
  <2> QED BY <1>1, <1>2, <1>3, <2>1, Kept
<1>4. CASE ~r.GUpdateStationKeys /\ Uncount(sm[s])
  <2>1. ~q.GUpdateStationKeys
    BY <1>1, <1>4
  <2> QED BY <1>1, <1>2, <1>4, <2>1, Unmarked
<1> QED BY <1>3, <1>4

LEMMA PtkSmInv ==
  ASSUME IInv, NEW s \in Sta, PtkSm(s)
  PROVE  IInv'
<1>1. At("ptk", s)
  BY DEF PtkSm, Initialize, Disconnect, EnterDisconnected, Authentication,
         Authentication2, InitPsk, PtkStart, PtkCalcNegotiating,
         PtkCalcNegotiating2, PtkInitNegotiating, PtkInitDone, PtkStays
<1>2. /\ sm \in [Sta -> SmType] /\ sm[s] \in SmType /\ group \in GroupType
      /\ s \in Sta \ todo /\ ~group.GTKReKey
  BY <1>1, AtFacts DEF IInv, TypeOK
<1>3. CASE Initialize(s)
  <2> DEFINE a == "Init" \notin sm[s].ask
             b == sm[s].PInitAKeys /\ s \in Wpa2
             r == [sm[s] EXCEPT !.ptk = "INITIALIZE", !.changed = a,
                     !.GUpdateStationKeys = FALSE, !.PInitAKeys = b,
                     !.PTK_valid = FALSE, !.TimeoutCtr = 0]
  <2>1. r \in SmType /\ r.known = sm[s].known /\ ~r.GUpdateStationKeys
    <3>1. a \in BOOLEAN /\ b \in BOOLEAN
      OBVIOUS
    <3>2. "INITIALIZE" \in PtkStates
      BY DEF PtkStates
    <3> HIDE DEF a, b
    <3>3. r \in SmType
      BY <1>2, <3>1, <3>2 DEF SmType
    <3>4. r.known = sm[s].known /\ r.GUpdateStationKeys = FALSE
      BY <1>2 DEF SmType
    <3> QED BY <3>3, <3>4
  <2>2. sm' = [sm EXCEPT ![s] = r]
    BY <1>3, Zenon DEF Initialize
  <2> HIDE DEF r
  <2>3. /\ Uncount(sm[s]) /\ GoTo("grp", s)
        /\ UNCHANGED <<todo, rekey, next>>
    BY <1>3 DEF Initialize
  <2> QED BY <1>1, <2>1, <2>2, <2>3, Unmarked
<1>4. CASE Disconnect(s)
  <2> DEFINE r == [sm[s] EXCEPT !.ask = @ \ {"Disconnect"}]
  <2>1. r \in SmType /\ Alike(r, sm[s])
    BY <1>2 DEF SmType, Alike
  <2>2. EnterPtk(s, "DISCONNECT", Dropped(r)) /\ group' = group
    BY <1>4 DEF Disconnect
  <2> HIDE DEF r
  <2>3. Dropped(r) \in SmType /\ Alike(Dropped(r), sm[s])
    BY <2>1, DroppedType DEF Alike
  <2> QED BY <1>1, <2>2, <2>3, EnterPtkInv DEF PtkStates
<1>5. CASE EnterDisconnected(s)
  <2> DEFINE r == [sm[s] EXCEPT !.ask = @ \ {"DeauthenticationRequest"}]
  <2>1. r \in SmType /\ Alike(r, sm[s])
    BY <1>2 DEF SmType, Alike
  <2>2. EnterPtk(s, "DISCONNECTED", r) /\ group' = group
    BY <1>5 DEF EnterDisconnected
  <2> HIDE DEF r
  <2> QED BY <1>1, <2>1, <2>2, EnterPtkInv DEF PtkStates
<1>6. CASE Authentication(s)
  <2> DEFINE r == [sm[s] EXCEPT !.ask = @ \ {"AuthenticationRequest"},
                                !.PTK_valid = FALSE]
  <2>1. r \in SmType /\ Alike(r, sm[s])
    BY <1>2 DEF SmType, Alike
  <2>2. EnterPtk(s, "AUTHENTICATION", r) /\ group' = group
    BY <1>6 DEF Authentication
  <2> HIDE DEF r
  <2> QED BY <1>1, <2>1, <2>2, EnterPtkInv DEF PtkStates
<1>7. CASE Authentication2(s)
  <2> DEFINE k == [i \in DOMAIN sm[s].key_replay |->
                     IF sm[s].key_replay[i] = "m1" THEN "m1old"
                     ELSE sm[s].key_replay[i]]
             r == [sm[s] EXCEPT !.ptk = "AUTHENTICATION2", !.changed = TRUE,
                     !.ask = @ \ {"ReAuthenticationRequest"},
                     !.TimeoutCtr = 0, !.key_replay = k]
             now == [sm EXCEPT ![s] = r]
             first == ~group.first_sta_seen
             w == group.reject_4way_hs_for_entropy \/ (first /\ ~group.pool)
  <2>1. k \in Seq(Frames)
    <3>1. sm[s].key_replay \in Seq(Frames)
      BY <1>2 DEF SmType
    <3>2. /\ DOMAIN sm[s].key_replay = 1..Len(sm[s].key_replay)
          /\ Len(sm[s].key_replay) \in Nat
          /\ \A i \in 1..Len(sm[s].key_replay) : sm[s].key_replay[i] \in Frames
      BY <3>1
    <3> QED BY <3>2 DEF Frames
  <2>2. r \in SmType /\ Alike(r, sm[s])
    <3> HIDE DEF k
    <3> QED BY <1>2, <2>1 DEF SmType, PtkStates, Alike
  <2>3. w \in BOOLEAN
    OBVIOUS
  <2>4. /\ sm' = IF first THEN [t \in Sta |-> NewGtk(now[t])] ELSE now
        /\ group' = [group EXCEPT !.first_sta_seen = TRUE,
                                  !.reject_4way_hs_for_entropy = w]
        /\ call' = [at |-> "grp", of |-> {s}]
        /\ UNCHANGED <<todo, rekey, next>>
    BY <1>7, Zenon DEF Authentication2, GoTo
  <2> HIDE DEF r, w
  <2>5. now \in [Sta -> SmType] /\ \A t \in Sta : Alike(now[t], sm[t])
    BY <1>2, <2>2 DEF Alike
  <2> HIDE DEF now, first
  <2>6. sm' \in [Sta -> SmType] /\ \A t \in Sta : Alike(sm'[t], sm[t])
    <3>1. CASE first
      <4>1. \A t \in Sta : NewGtk(now[t]) \in SmType
                           /\ Alike(NewGtk(now[t]), sm[t])
        BY <2>5, NewGtkType DEF Alike
      <4> QED BY <2>4, <3>1, <4>1
    <3>2. CASE ~first
      BY <2>4, <2>5, <3>2
    <3> QED BY <3>1, <3>2
  <2>7. /\ group' \in GroupType /\ group'.GTKReKey = group.GTKReKey
        /\ group'.GKeyDoneStations = group.GKeyDoneStations
    BY <1>2, <2>3, <2>4 DEF GroupType
  <2>8. group'.GKeyDoneStations =
          group.GKeyDoneStations - Marks(sm[s]) + Marks(sm'[s])
    BY <2>6, <2>7, SameMarks DEF Alike
  <2>9. call' \in CallType /\ call'.of \subseteq {s}
    BY <2>4 DEF CallType
  <2> QED BY <1>1, <2>4, <2>6, <2>7, <2>8, <2>9, Machine DEF Alike
<1>8. CASE InitPsk(s)
  <2>1. EnterPtk(s, "INITPSK", sm[s]) /\ group' = group
    BY <1>8 DEF InitPsk
  <2>2. Alike(sm[s], sm[s])
    BY DEF Alike
  <2> QED BY <1>1, <1>2, <2>1, <2>2, EnterPtkInv DEF PtkStates
<1>9. CASE PtkStart(s)
  <2> DEFINE n == sm[s].TimeoutCtr + 1
             r == [sm[s] EXCEPT !.ask = @ \ {"PTKRequest"},
                                !.TimeoutEvt = FALSE, !.TimeoutCtr = n]
             b == r.pending_1_of_4_timeout \/ r.TimeoutCtr = 1
             q == [r EXCEPT !.pending_1_of_4_timeout = b]
             e == IF r.TimeoutCtr > UpdateCount THEN r ELSE Sent(q, "m1")
  <2>1. EnterPtk(s, "PTKSTART", e) /\ group' = group
    BY <1>9, Zenon DEF PtkStart
  <2>2. r \in SmType /\ Alike(r, sm[s])
    <3>1. n \in Nat
      BY <1>2 DEF SmType
    <3> HIDE DEF n
    <3> QED BY <1>2, <3>1 DEF SmType, Alike
  <2>3. b \in BOOLEAN
    OBVIOUS
  <2> HIDE DEF r, b
  <2>4. q \in SmType /\ Alike(q, sm[s])
    BY <2>2, <2>3 DEF SmType, Alike
  <2> HIDE DEF q
  <2>5. e \in SmType /\ Alike(e, sm[s])
    BY <2>2, <2>4, SentType DEF Alike, Frames
  <2> HIDE DEF e
  <2> QED BY <1>1, <2>1, <2>5, EnterPtkInv DEF PtkStates
<1>10. CASE PtkCalcNegotiating(s)
  <2> DEFINE r == [sm[s] EXCEPT !.rx = "none"]
             q == [StopTimers(r) EXCEPT !.MICVerified = TRUE,
                                        !.PTK_valid = TRUE]
             e == IF sm[s].rx = "wrong" THEN r ELSE q
  <2>1. EnterPtk(s, "PTKCALCNEGOTIATING", e) /\ group' = group
    BY <1>10, Zenon DEF PtkCalcNegotiating
  <2>2. r \in SmType /\ Alike(r, sm[s])
    BY <1>2 DEF SmType, Alike
  <2> HIDE DEF r
  <2>3. StopTimers(r) \in SmType /\ Alike(StopTimers(r), sm[s])
    BY <2>2, StopTimersType DEF Alike
  <2>4. q \in SmType /\ Alike(q, sm[s])
    BY <2>3 DEF SmType, Alike
  <2> HIDE DEF q
  <2> QED BY <1>1, <2>1, <2>2, <2>4, EnterPtkInv DEF PtkStates
<1>11. CASE PtkCalcNegotiating2(s)
  <2> DEFINE r == [sm[s] EXCEPT !.TimeoutCtr = 0]
  <2>1. r \in SmType /\ Alike(r, sm[s])
    BY <1>2 DEF SmType, Alike
  <2>2. EnterPtk(s, "PTKCALCNEGOTIATING2", r) /\ group' = group
    BY <1>11 DEF PtkCalcNegotiating2
  <2> HIDE DEF r
  <2> QED BY <1>1, <2>1, <2>2, EnterPtkInv DEF PtkStates
<1>12. CASE PtkInitNegotiating(s)
  <2> DEFINE n == sm[s].TimeoutCtr + 1
             r == [sm[s] EXCEPT !.TimeoutEvt = FALSE, !.TimeoutCtr = n]
             e == IF r.TimeoutCtr > UpdateCount THEN r
                  ELSE Sent(r, IfKeyed(r, "m3"))
  <2>1. EnterPtk(s, "PTKINITNEGOTIATING", e) /\ group' = group
    BY <1>12, Zenon DEF PtkInitNegotiating
  <2>2. r \in SmType /\ Alike(r, sm[s])
    <3>1. n \in Nat
      BY <1>2 DEF SmType
    <3> HIDE DEF n
    <3> QED BY <1>2, <3>1 DEF SmType, Alike
  <2> HIDE DEF r
  <2>3. IfKeyed(r, "m3") \in Frames
    BY DEF IfKeyed, Frames
  <2>4. e \in SmType /\ Alike(e, sm[s])
    BY <2>2, <2>3, SentType DEF Alike
  <2> HIDE DEF e
  <2> QED BY <1>1, <2>1, <2>4, EnterPtkInv DEF PtkStates
<1>13. CASE PtkInitDone(s)
  <2> DEFINE r == [sm[s] EXCEPT !.rx = "none"]
             b == r.PInitAKeys \/ s \notin Wpa2
             q == [r EXCEPT !.PInitAKeys = b]
  <2>1. \/ EnterPtk(s, "PTKINITDONE", q)
        \/ EnterPtk(s, "PTKINITDONE", Dropped(r))
    BY <1>13, Zenon DEF PtkInitDone
  <2>2. group' = group
    BY <1>13 DEF PtkInitDone
  <2>3. r \in SmType /\ Alike(r, sm[s])
    BY <1>2 DEF SmType, Alike
  <2>4. b \in BOOLEAN
    OBVIOUS
  <2> HIDE DEF r, b
  <2>5. q \in SmType /\ Alike(q, sm[s])
    BY <2>3, <2>4 DEF SmType, Alike
  <2>6. Dropped(r) \in SmType /\ Alike(Dropped(r), sm[s])
    BY <2>3, DroppedType DEF Alike
  <2> HIDE DEF q
  <2> QED BY <1>1, <2>1, <2>2, <2>5, <2>6, EnterPtkInv DEF PtkStates
<1>14. CASE PtkStays(s)
  <2>1. /\ call' = [at |-> "grp", of |-> {s}]
        /\ UNCHANGED <<sm, group, todo, rekey, next>>
    BY <1>14 DEF PtkStays, GoTo
  <2>2. call' \in CallType /\ call'.of \subseteq {s}
    BY <2>1 DEF CallType
  <2>3. group'.GKeyDoneStations =
          group.GKeyDoneStations - Marks(sm[s]) + Marks(sm'[s])
    BY <2>1, SameMarks
  <2> QED BY <1>1, <1>2, <2>1, <2>2, <2>3, Machine DEF Alike
<1> QED
  BY <1>3, <1>4, <1>5, <1>6, <1>7, <1>8, <1>9, <1>10, <1>11, <1>12, <1>13,
     <1>14 DEF PtkSm

LEMMA PtkGroupSmInv ==
  ASSUME IInv, NEW s \in Sta, PtkGroupSm(s)
  PROVE  IInv'
<1>1. At("grp", s)
  BY DEF PtkGroupSm, GroupIdle, RekeyNegotiating, RekeyEstablished, KeyError,
         GroupStays
<1>2. /\ sm \in [Sta -> SmType] /\ sm[s] \in SmType /\ group \in GroupType
      /\ s \in Sta \ todo /\ ~group.GTKReKey
  BY <1>1, AtFacts DEF IInv, TypeOK
<1>3. CASE GroupIdle(s)
  <2> DEFINE a == "Init" \notin sm[s].ask
             r == [sm[s] EXCEPT !.grp = "IDLE", !.changed = a,
                                !.GTimeoutCtr = 0,
                                !.ask = @ \ {"PtkGroupInit"}]
  <2>1. r \in SmType /\ Alike(r, sm[s])
    <3>1. a \in BOOLEAN /\ "IDLE" \in GroupStates
      BY DEF GroupStates
    <3> HIDE DEF a
    <3> QED BY <1>2, <3>1 DEF SmType, Alike
  <2>2. sm' = [sm EXCEPT ![s] = r]
    BY <1>3, Zenon DEF GroupIdle
  <2>3. /\ group' = group /\ GoTo("group", s)
        /\ UNCHANGED <<todo, rekey, next>>
    BY <1>3 DEF GroupIdle
  <2> HIDE DEF r
  <2> QED BY <1>1, <2>1, <2>2, <2>3, Kept
<1>4. CASE RekeyNegotiating(s)
  <2> DEFINE n == sm[s].GTimeoutCtr + 1
             r == [sm[s] EXCEPT !.GTimeoutCtr = n]
             b == r.PInitAKeys /\ s \in Wpa2
             q == [r EXCEPT !.PInitAKeys = b, !.TimeoutEvt = FALSE]
             e == IF r.GTimeoutCtr > UpdateCount THEN r
                  ELSE Sent(q, IfKeyed(r, "g1"))
  <2>1. EnterGrp(s, "REKEYNEGOTIATING", e) /\ group' = group
    BY <1>4, Zenon DEF RekeyNegotiating
  <2>2. r \in SmType /\ Alike(r, sm[s])
    <3>1. n \in Nat
      BY <1>2 DEF SmType
    <3> HIDE DEF n
    <3> QED BY <1>2, <3>1 DEF SmType, Alike
  <2>3. b \in BOOLEAN
    OBVIOUS
  <2> HIDE DEF r, b
  <2>4. q \in SmType /\ Alike(q, sm[s])
    BY <2>2, <2>3 DEF SmType, Alike
  <2>5. IfKeyed(r, "g1") \in Frames
    BY DEF IfKeyed, Frames
  <2> HIDE DEF q
  <2>6. e \in SmType /\ Alike(e, sm[s])
    BY <2>2, <2>4, <2>5, SentType DEF Alike
  <2> HIDE DEF e
  <2> QED BY <1>1, <2>1, <2>6, EnterGrpInv DEF GroupStates, Alike
<1>5. CASE RekeyEstablished(s)
  <2> DEFINE r == [sm[s] EXCEPT !.rx = "none", !.GUpdateStationKeys = FALSE,
                                !.GTimeoutCtr = 0]
  <2>1. r \in SmType /\ r.known = sm[s].known /\ r.GUpdateStationKeys = FALSE
    BY <1>2 DEF SmType
  <2>2. EnterGrp(s, "REKEYESTABLISHED", r) /\ Uncount(sm[s])
    BY <1>5 DEF RekeyEstablished
  <2> HIDE DEF r
  <2> QED BY <1>1, <2>1, <2>2, EnterGrpInv DEF GroupStates
<1>6. CASE KeyError(s)
  <2> DEFINE r == [sm[s] EXCEPT !.GUpdateStationKeys = FALSE,
                                !.ask = @ \cup {"Disconnect"}]
  <2>1. r \in SmType /\ r.known = sm[s].known /\ r.GUpdateStationKeys = FALSE
    BY <1>2 DEF SmType, Rank
  <2>2. EnterGrp(s, "KEYERROR", r) /\ Uncount(sm[s])
    BY <1>6 DEF KeyError
  <2> HIDE DEF r
  <2> QED BY <1>1, <2>1, <2>2, EnterGrpInv DEF GroupStates
<1>7. CASE GroupStays(s)
  <2>1. /\ sm' = [sm EXCEPT ![s] = sm[s]] /\ group' = group
        /\ GoTo("group", s) /\ UNCHANGED <<todo, rekey, next>>
    BY <1>2, <1>7 DEF GroupStays
  <2> QED BY <1>1, <1>2, <2>1, Kept DEF Alike
<1> QED BY <1>3, <1>4, <1>5, <1>6, <1>7 DEF PtkGroupSm

(* A wpa_sm_step is called, for a station that the rekeying need not visit. *)
LEMMA StepInv ==
  ASSUME IInv, NEW s \in Sta \ todo, NEW r \in SmType, NEW g \in GroupType,
         Step(s, r, g), r.GUpdateStationKeys => r.known /\ sm[s].GUpdateStationKeys,
         g.GKeyDoneStations =
           group.GKeyDoneStations - Marks(sm[s]) + Marks(r),
         ~g.GTKReKey, next' \in NextType, UNCHANGED <<todo, rekey>>
  PROVE  IInv'
<1>1. TypeOK /\ StackOK /\ sm \in [Sta -> SmType]
  BY DEF IInv, TypeOK
<1>2. /\ sm' \in [Sta -> SmType] /\ Alike(sm'[s], r)
      /\ \A t \in Sta \ {s} : sm'[t] = sm[t]
      /\ group' \in GroupType
      /\ group'.GKeyDoneStations = g.GKeyDoneStations
      /\ group'.GTKReKey = g.GTKReKey
      /\ call' \in CallType /\ call'.of = {s}
  BY <1>1, StepCalls
<1>3. Marks(sm'[s]) = Marks(r)
  BY <1>2 DEF Alike, Marks
<1>4. rekey' \in {"no", "group", "each"} /\ (todo # {} => rekey' = "each")
  BY <1>1 DEF TypeOK, StackOK
<1>5. sm'[s].GUpdateStationKeys => sm'[s].known /\ sm[s].GUpdateStationKeys
  BY <1>2 DEF Alike
<1> QED BY <1>2, <1>3, <1>4, <1>5, StaStep DEF Alike

LEMMA RoundInv ==
  ASSUME IInv, NEW s \in Sta, Round(s)
  PROVE  IInv'
<1>1. At("group", s) /\ UNCHANGED <<todo, rekey, next>>
  BY DEF Round
<1>2. /\ sm \in [Sta -> SmType] /\ sm[s] \in SmType /\ group \in GroupType
      /\ s \in Sta \ todo /\ ~group.GTKReKey
  BY <1>1, AtFacts DEF IInv, TypeOK
<1> DEFINE g == IF SetKeysDone
                THEN [group EXCEPT !.state = "SETKEYSDONE", !.changed = TRUE]
                ELSE group
<1>3. /\ g \in GroupType /\ g.GKeyDoneStations = group.GKeyDoneStations
      /\ g.GTKReKey = group.GTKReKey
  BY <1>2 DEF GroupType
<1>4. EndRound(s, g)
  BY DEF Round
<1> HIDE DEF g
<1>5. g.GKeyDoneStations =
        group.GKeyDoneStations - Marks(sm[s]) + Marks(sm[s])
  BY <1>2, <1>3 DEF Marks, GroupType
<1>6. sm[s].GUpdateStationKeys => sm[s].known
  BY DEF IInv, StackOK
<1>7. CASE sm[s].changed \/ g.changed
  <2>1. Step(s, sm[s], g)
    BY <1>4, <1>7 DEF EndRound
  <2>2. next' \in NextType /\ ~g.GTKReKey
    BY <1>1, <1>2, <1>3 DEF IInv, TypeOK
  <2> QED BY <1>1, <1>2, <1>3, <1>5, <1>6, <2>1, <2>2, StepInv
<1>8. CASE ~(sm[s].changed \/ g.changed)
  <2>1. call' = NoCall /\ group' = g /\ sm' = sm
    BY <1>4, <1>8 DEF EndRound
  <2>2. call' \in CallType /\ call'.of \subseteq {s}
    BY <2>1 DEF NoCall, CallType
  <2> QED BY <1>1, <1>2, <1>3, <1>5, <2>1, <2>2, Machine DEF Alike
<1> QED BY <1>7, <1>8
-----------------------------------------------------------------------------
(* The steps of wpa_rekey_gtk.                                              *)
LEMMA SetKeysInv ==
  ASSUME IInv, RekeySetKeys
  PROVE  IInv'
<1>1. TypeOK /\ StackOK
  BY DEF IInv
<1>2. /\ call = NoCall /\ rekey = "group" /\ todo' = Known /\ rekey' = "each"
      /\ group' = [group EXCEPT !.state = "SETKEYS", !.GTKReKey = FALSE,
                     !.changed = TRUE, !.GKeyDoneStations = 0]
      /\ sm' = [s \in Sta |-> NewGtk(sm[s])]
      /\ UNCHANGED <<call, next>>
  BY DEF RekeySetKeys, Returned
<1>3. \A s \in Sta : NewGtk(sm[s]) \in SmType /\ Alike(NewGtk(sm[s]), sm[s])
  BY <1>1, NewGtkType DEF TypeOK
<1>4. sm' \in [Sta -> SmType] /\ \A s \in Sta : Alike(sm'[s], sm[s])
  BY <1>2, <1>3
<1>5. /\ group' \in GroupType /\ ~group'.GTKReKey
      /\ group'.GKeyDoneStations = 0
  BY <1>1, <1>2 DEF TypeOK, GroupType
<1>6. TypeOK'
  BY <1>1, <1>2, <1>4, <1>5 DEF TypeOK, Known
<1>7. StackOK'
  <2>1. \A s \in Sta : sm'[s].GUpdateStationKeys => sm'[s].known
    BY <1>1, <1>4 DEF StackOK, Alike
  <2>2. \A s \in todo' : sm'[s].known
    BY <1>2, <1>4 DEF Known, Alike
  <2>3. call'.of \cap todo' = {}
    BY <1>2 DEF NoCall
  <2> QED BY <1>2, <1>5, <2>1, <2>2, <2>3 DEF StackOK
<1>8. {s \in Sta \ todo' : sm'[s].GUpdateStationKeys} = {}
  <2> SUFFICES ASSUME NEW s \in Sta \ todo', sm'[s].GUpdateStationKeys
               PROVE  FALSE
    OBVIOUS
  <2>1. sm[s].GUpdateStationKeys
    BY <1>4 DEF Alike
  <2>2. sm[s].known
    BY <1>1, <2>1 DEF StackOK
  <2> QED BY <1>2, <2>2 DEF Known
<1>9. DoneCounts'
  BY <1>5, <1>8, FS_EmptySet DEF DoneCounts
<1> QED BY <1>6, <1>7, <1>9 DEF IInv

LEMMA SkipInv ==
  ASSUME IInv, NEW s \in Sta, Skip(s)
  PROVE  IInv'
<1> DEFINE r == [sm[s] EXCEPT !.GUpdateStationKeys = FALSE]
<1>1. TypeOK /\ StackOK /\ sm[s] \in SmType
  BY DEF IInv, TypeOK
<1>2. r \in SmType /\ r.known = sm[s].known /\ r.GUpdateStationKeys = FALSE
  BY <1>1 DEF SmType
<1>3. /\ sm' = [sm EXCEPT ![s] = r] /\ todo' = todo \ {s} /\ s \in todo
      /\ UNCHANGED <<group, call, rekey, next>>
  BY DEF Skip
<1> HIDE DEF r
<1>4. /\ sm' \in [Sta -> SmType] /\ sm'[s] = r
      /\ \A t \in Sta \ {s} : sm'[t] = sm[t]
  BY <1>1, <1>2, <1>3, OneChanges DEF TypeOK
<1>5. TypeOK'
  BY <1>1, <1>3, <1>4 DEF TypeOK
<1>6. StackOK'
  <2>1. \A t \in Sta : sm'[t].GUpdateStationKeys => sm'[t].known
    BY <1>1, <1>2, <1>4 DEF StackOK
  <2>2. \A t \in todo' : sm'[t].known
    BY <1>1, <1>3, <1>4 DEF StackOK, TypeOK
  <2>3. call'.of \cap todo' = {} /\ (todo' # {} => rekey' = "each")
    BY <1>1, <1>3 DEF StackOK
  <2>4. group'.GTKReKey => rekey' = "group" /\ call' = NoCall
    BY <1>1, <1>3 DEF StackOK
  <2> QED BY <2>1, <2>2, <2>3, <2>4 DEF StackOK, NoCall
<1>7. {t \in Sta \ todo' : sm'[t].GUpdateStationKeys} = Counted
  BY <1>2, <1>3, <1>4 DEF Counted
<1> QED BY <1>3, <1>5, <1>6, <1>7 DEF IInv, DoneCounts, Counted

(* A station is marked, and counted: it was not before, being in todo.      *)
LEMMA UpdateInv ==
  ASSUME IInv, NEW s \in Sta, Update(s)
  PROVE  IInv'
<1> DEFINE r == [sm[s] EXCEPT !.GUpdateStationKeys = TRUE]
           n == group.GKeyDoneStations + 1
           g == [group EXCEPT !.GKeyDoneStations = n]
<1>1. TypeOK /\ StackOK /\ sm \in [Sta -> SmType] /\ sm[s] \in SmType
  BY DEF IInv, TypeOK
<1>2. Step(s, r, g) /\ todo' = todo \ {s} /\ s \in todo
      /\ UNCHANGED <<rekey, next>>
  BY DEF Update
<1>3. r \in SmType /\ r.known = sm[s].known /\ r.GUpdateStationKeys = TRUE
  BY <1>1 DEF SmType
<1>4. n \in Nat /\ n = group.GKeyDoneStations + 1
  BY <1>1 DEF TypeOK, GroupType
<1> HIDE DEF r, n
<1>5. /\ g \in GroupType /\ g.GKeyDoneStations = n
      /\ g.GTKReKey = group.GTKReKey
  BY <1>1, <1>4 DEF TypeOK, GroupType
<1> HIDE DEF g
<1>6. /\ sm' \in [Sta -> SmType] /\ Alike(sm'[s], r)
      /\ \A t \in Sta \ {s} : sm'[t] = sm[t]
      /\ group' \in GroupType
      /\ group'.GKeyDoneStations = n
      /\ group'.GTKReKey = group.GTKReKey
      /\ call' \in CallType /\ call'.of = {s}
  BY <1>1, <1>2, <1>3, <1>5, StepCalls
<1>7. TypeOK'
  BY <1>1, <1>2, <1>6 DEF TypeOK
<1>8. rekey = "each" /\ ~group.GTKReKey
  BY <1>1, <1>2 DEF StackOK
<1>9. StackOK'
  <2>1. \A t \in Sta : sm'[t].GUpdateStationKeys => sm'[t].known
    <3>1. sm[s].known
      BY <1>1, <1>2 DEF StackOK
    <3> QED BY <1>1, <1>3, <1>6, <3>1 DEF StackOK, Alike
  <2>2. \A t \in todo' : sm'[t].known
    BY <1>1, <1>2, <1>6 DEF StackOK, TypeOK
  <2>3. call'.of \cap todo' = {} /\ rekey' = "each" /\ ~group'.GTKReKey
    BY <1>2, <1>6, <1>8
  <2> QED BY <2>1, <2>2, <2>3 DEF StackOK
<1>10. {t \in Sta \ todo' : sm'[t].GUpdateStationKeys} = Counted \cup {s}
  <2>1. sm'[s].GUpdateStationKeys = TRUE
    BY <1>3, <1>6 DEF Alike
  <2> QED BY <1>2, <1>6, <2>1 DEF Counted
<1>11. IsFiniteSet(Counted) /\ s \notin Counted
  BY <1>2, WpaAuthAssumption, FS_Subset DEF Counted
<1>12. Cardinality(Counted \cup {s}) = Cardinality(Counted) + 1
  BY <1>11, FS_AddElement
<1>13. DoneCounts'
  BY <1>4, <1>6, <1>10, <1>12 DEF IInv, DoneCounts, Counted
<1> QED BY <1>7, <1>9, <1>13 DEF IInv

LEMMA RekeyingInv ==
  ASSUME IInv, Rekeying
  PROVE  IInv'
<1>1. TypeOK /\ StackOK
  BY DEF IInv
<1>2. CASE RekeySetKeysDone
  <2>1. /\ group' = [group EXCEPT !.state = "SETKEYSDONE", !.changed = FALSE]
        /\ UNCHANGED <<sm, call, todo, rekey, next>>
    BY <1>2 DEF RekeySetKeysDone
  <2>2. /\ group' \in GroupType /\ group'.GTKReKey = group.GTKReKey
        /\ group'.GKeyDoneStations = group.GKeyDoneStations
    BY <1>1, <2>1 DEF TypeOK, GroupType
  <2>3. TypeOK' /\ StackOK'
    BY <1>1, <2>1, <2>2 DEF TypeOK, StackOK, NoCall
  <2>4. DoneCounts'
    BY <2>1, <2>2 DEF IInv, DoneCounts
  <2> QED BY <2>3, <2>4 DEF IInv
<1>3. CASE RekeySetKeys
  BY <1>3, SetKeysInv
<1>4. CASE RekeyVisited
  <2>1. /\ call = NoCall /\ rekey = "each" /\ todo = {}
        /\ rekey' = IF group.changed THEN "group" ELSE "no"
        /\ group' = [group EXCEPT !.changed = FALSE]
        /\ UNCHANGED <<sm, call, todo, next>>
    BY <1>4 DEF RekeyVisited, Returned
  <2>2. /\ group' \in GroupType /\ group'.GTKReKey = group.GTKReKey
        /\ group'.GKeyDoneStations = group.GKeyDoneStations
    BY <1>1, <2>1 DEF TypeOK, GroupType
  <2>3. ~group.GTKReKey
    BY <1>1, <2>1 DEF StackOK
  <2>4. TypeOK' /\ StackOK'
    BY <1>1, <2>1, <2>2, <2>3 DEF TypeOK, StackOK
  <2>5. DoneCounts'
    BY <2>1, <2>2 DEF IInv, DoneCounts
  <2> QED BY <2>4, <2>5 DEF IInv
<1>5. CASE RekeyReturns
  <2>1. /\ rekey = "group" /\ ~SetKeysDone /\ ~SetKeys /\ rekey' = "no"
        /\ UNCHANGED <<sm, group, call, todo, next>>
    BY <1>5 DEF RekeyReturns
  <2>2. ~group.GTKReKey
    <3>1. group.state \in {"SETKEYS", "SETKEYSDONE"}
      BY <1>1 DEF TypeOK, GroupType
    <3> QED BY <2>1, <3>1 DEF SetKeys, SetKeysDone
  <2>3. todo = {}
    BY <1>1, <2>1 DEF StackOK
  <2>4. TypeOK' /\ StackOK'
    BY <1>1, <2>1, <2>2, <2>3 DEF TypeOK, StackOK
  <2>5. DoneCounts'
    BY <2>1 DEF IInv, DoneCounts
  <2> QED BY <2>4, <2>5 DEF IInv
<1>6. ASSUME NEW s \in Sta, Skip(s)
      PROVE  IInv'
  BY <1>6, SkipInv
<1>7. ASSUME NEW s \in Sta, Update(s)
      PROVE  IInv'
  BY <1>7, UpdateInv
<1> QED BY <1>2, <1>3, <1>4, <1>5, <1>6, <1>7 DEF Rekeying
-----------------------------------------------------------------------------
(* The rest of a handler, and the events.                                   *)
LEMMA NoneToVisit ==
  ASSUME IInv, rekey = "no"
  PROVE  /\ todo = {} /\ ~group.GTKReKey
         /\ sm \in [Sta -> SmType] /\ group \in GroupType
         /\ group.GKeyDoneStations \in Nat /\ next \in NextType
BY DEF IInv, StackOK, TypeOK, GroupType

(* A wpa_sm_step is called for s, whose mark stays.                         *)
LEMMA CallInv ==
  ASSUME IInv, rekey = "no", NEW s \in Sta, NEW r \in SmType,
         r.known = sm[s].known \/ r.known = TRUE,
         r.GUpdateStationKeys = sm[s].GUpdateStationKeys,
         Step(s, r, group), next' \in NextType, UNCHANGED <<todo, rekey>>
  PROVE  IInv'
<1>1. todo = {} /\ ~group.GTKReKey /\ group \in GroupType
  BY NoneToVisit
<1>2. r.GUpdateStationKeys => r.known /\ sm[s].GUpdateStationKeys
  BY DEF IInv, StackOK
<1>3. group.GKeyDoneStations = group.GKeyDoneStations - Marks(sm[s]) + Marks(r)
  <2>1. Marks(r) = Marks(sm[s]) /\ Marks(r) \in {0, 1}
    BY DEF Marks
  <2> QED BY <2>1, NoneToVisit
<1> QED BY <1>1, <1>2, <1>3, StepInv

(* Only s changes, its mark stays, and no wpa_sm_step is called.            *)
LEMMA AloneInv ==
  ASSUME IInv, Idle, NEW s \in Sta, NEW r \in SmType, Alike(r, sm[s]),
         sm' = [sm EXCEPT ![s] = r], group' \in GroupType,
         group'.GKeyDoneStations = group.GKeyDoneStations,
         group'.GTKReKey => rekey' = "group",
         call' = call, todo' = todo, rekey' \in {"no", "group", "each"},
         next' \in NextType
  PROVE  IInv'
<1>1. /\ todo = {} /\ call = NoCall /\ sm \in [Sta -> SmType]
  BY NoneToVisit DEF Idle, Returned
<1>2. /\ sm' \in [Sta -> SmType] /\ sm'[s] = r
      /\ \A t \in Sta \ {s} : sm'[t] = sm[t]
  BY <1>1, OneChanges
<1>3. call' \in CallType /\ call'.of \subseteq {s}
  BY <1>1 DEF NoCall, CallType
<1>4. group'.GKeyDoneStations =
        group.GKeyDoneStations - Marks(sm[s]) + Marks(sm'[s])
  BY <1>2, SameMarks DEF Alike
<1>5. sm'[s].GUpdateStationKeys => sm'[s].known /\ sm[s].GUpdateStationKeys
  BY <1>2 DEF Alike, IInv, StackOK
<1> QED BY <1>1, <1>2, <1>3, <1>4, <1>5, StaStep

LEMMA FreeInv ==
  ASSUME IInv, Returned, rekey = "no", NEW s \in Sta, FreeSta(s),
         next' \in NextType, UNCHANGED <<call, todo, rekey>>
  PROVE  IInv'
<1>1. /\ todo = {} /\ ~group.GTKReKey /\ call = NoCall
      /\ sm \in [Sta -> SmType] /\ group \in GroupType
  BY NoneToVisit DEF Returned
<1>2. sm' = [sm EXCEPT ![s] = Absent] /\ Uncount(sm[s])
  BY DEF FreeSta
<1>3. /\ sm' \in [Sta -> SmType] /\ sm'[s] = Absent
      /\ \A t \in Sta \ {s} : sm'[t] = sm[t]
  BY <1>1, <1>2, AbsentType, OneChanges
<1>4. Marks(sm'[s]) = 0 /\ ~sm'[s].GUpdateStationKeys
  BY <1>3 DEF Marks, Absent
<1>5. group.GKeyDoneStations - Marks(sm[s]) \in Nat
  BY <1>1, CountFalls
<1>6. /\ group' \in GroupType /\ ~group'.GTKReKey
      /\ group'.GKeyDoneStations = group.GKeyDoneStations - Marks(sm[s])
  BY <1>1, <1>2, <1>5 DEF GroupType, Uncount
<1>7. group'.GKeyDoneStations =
        group.GKeyDoneStations - Marks(sm[s]) + Marks(sm'[s])
  BY <1>4, <1>5, <1>6
<1>8. call' \in CallType /\ call'.of \subseteq {s}
  BY <1>1 DEF NoCall, CallType
<1> QED BY <1>1, <1>3, <1>4, <1>6, <1>7, <1>8, StaStep

LEMMA RestInv ==
  ASSUME IInv, NEW s \in Sta, Rest(s)
  PROVE  IInv'
<1>1. Returned /\ rekey = "no"
  BY DEF Rest, NewAssoc, Initialized, ReAssoc, Free, KeyReceived, Continues
<1>2. /\ sm[s] \in SmType /\ group \in GroupType /\ NoNext \in NextType
      /\ todo = {} /\ ~group.GTKReKey
  BY <1>1, NoneToVisit DEF NoNext, NextType
<1>3. CASE NewAssoc(s)
  <2> DEFINE r == [sm[s] EXCEPT !.key_replay = <<>>,
                     !.ask = @ \cup {"ReAuthenticationRequest"}]
             q == [sm[s] EXCEPT !.started = TRUE, !.ask = @ \cup {"Init"}]
  <2>1. r \in SmType /\ Alike(r, sm[s])
    <3>1. <<>> \in Seq(Frames)
      OBVIOUS
    <3> QED BY <1>2, <3>1 DEF SmType, Alike, Rank
  <2>2. q \in SmType /\ Alike(q, sm[s])
    BY <1>2 DEF SmType, Alike, Rank
  <2>3. /\ Step(s, r, group) \/ Step(s, q, group)
        /\ next' = NoNext \/ next' = [do |-> "initialized", of |-> {s}]
        /\ UNCHANGED <<todo, rekey>>
    BY <1>3 DEF NewAssoc, Then
  <2> HIDE DEF r, q
  <2>4. next' \in NextType
    BY <1>2, <2>3 DEF NextType
  <2> QED BY <1>1, <2>1, <2>2, <2>3, <2>4, CallInv DEF Alike
<1>4. CASE Initialized(s)
  <2> DEFINE r == [sm[s] EXCEPT !.ask = (@ \ {"Init"}) \cup
                                          {"AuthenticationRequest"}]
  <2>1. r \in SmType /\ Alike(r, sm[s])
    BY <1>2 DEF SmType, Alike, Rank
  <2>2. Step(s, r, group) /\ next' = NoNext /\ UNCHANGED <<todo, rekey>>
    BY <1>4 DEF Initialized
  <2> HIDE DEF r
  <2> QED BY <1>1, <1>2, <2>1, <2>2, CallInv DEF Alike
<1>5. CASE ReAssoc(s)
  <2> DEFINE a == sm[s].ask \cup {"ReAuthenticationRequest"} \cup
                  (IF sm[s].GUpdateStationKeys THEN {"PtkGroupInit"} ELSE {})
             r == [sm[s] EXCEPT !.GUpdateStationKeys = FALSE,
                                !.PTK_valid = FALSE, !.ask = a]
             n == group.GKeyDoneStations - Marks(sm[s])
             g == [group EXCEPT !.GKeyDoneStations = n]
  <2>1. Step(s, r, g) /\ next' = NoNext /\ UNCHANGED <<todo, rekey>>
    BY <1>5 DEF ReAssoc
  <2>2. a \in SUBSET DOMAIN Rank
    BY <1>2 DEF SmType, Rank
  <2> HIDE DEF a
  <2>3. r \in SmType /\ r.GUpdateStationKeys = FALSE
    BY <1>2, <2>2 DEF SmType
  <2> HIDE DEF r
  <2>4. n \in Nat
    BY <1>2, CountFalls
  <2>5. Marks(r) = 0 /\ n = group.GKeyDoneStations - Marks(sm[s]) + Marks(r)
    <3>1. Marks(r) = 0
      BY <2>3 DEF Marks
    <3> QED BY <2>4, <3>1
  <2> HIDE DEF n
  <2>6. g \in GroupType /\ g.GKeyDoneStations = n /\ ~g.GTKReKey
    BY <1>2, <2>4 DEF GroupType
  <2> HIDE DEF g
  <2> QED BY <1>2, <2>1, <2>3, <2>5, <2>6, StepInv
<1>6. CASE Free(s)
  BY <1>1, <1>2, <1>6, FreeInv DEF Free
<1>7. CASE KeyReceived(s)
  <2> DEFINE r == [sm[s] EXCEPT !.rx = "request"]
  <2>1. r \in SmType /\ Alike(r, sm[s])
    BY <1>2 DEF SmType, Alike
  <2>2. Step(s, r, group) /\ next' = NoNext /\ UNCHANGED <<todo, rekey>>
    BY <1>7 DEF KeyReceived
  <2> HIDE DEF r
  <2> QED BY <1>1, <1>2, <2>1, <2>2, CallInv DEF Alike
<1> QED BY <1>3, <1>4, <1>5, <1>6, <1>7 DEF Rest

LEMMA RekeyGtkInv ==
  ASSUME IInv, RekeyGtk
  PROVE  IInv'
<1>1. /\ todo = {} /\ call = NoCall /\ rekey = "no" /\ group \in GroupType
      /\ TypeOK /\ StackOK
  BY NoneToVisit DEF RekeyGtk, Idle, Returned, IInv
<1>2. /\ group' = [group EXCEPT !.GTKReKey = TRUE, !.changed = FALSE]
      /\ rekey' = "group" /\ UNCHANGED <<sm, call, todo, next>>
  BY DEF RekeyGtk, StartRekey
<1>3. group' \in GroupType /\ group'.GKeyDoneStations = group.GKeyDoneStations
  BY <1>1, <1>2 DEF GroupType
<1>4. TypeOK' /\ StackOK'
  BY <1>1, <1>2, <1>3 DEF TypeOK, StackOK, NoCall
<1>5. DoneCounts'
  BY <1>2, <1>3 DEF IInv, DoneCounts
<1> QED BY <1>4, <1>5 DEF IInv

LEMMA AssociationInv ==
  ASSUME IInv, NEW s \in Sta,
         Associate(s) \/ Disassociate(s) \/ Remove(s) \/ Inactive(s)
  PROVE  IInv'
<1>1. Idle /\ Returned /\ rekey = "no"
  BY DEF Associate, Disassociate, Remove, Inactive, Idle
<1>2. /\ sm[s] \in SmType /\ group \in GroupType /\ next \in NextType
      /\ group.GTKReKey => rekey = "group"
  BY <1>1, NoneToVisit
<1>3. CASE Associate(s)
  <2> DEFINE r == [sm[s] EXCEPT !.known = TRUE, !.assoc = TRUE,
                                !.PTK_valid = FALSE]
  <2>1. r \in SmType /\ r.known = TRUE
        /\ r.GUpdateStationKeys = sm[s].GUpdateStationKeys
    BY <1>2 DEF SmType
  <2>2. Step(s, r, group) /\ UNCHANGED <<todo, rekey>>
    BY <1>3 DEF Associate
  <2>3. next' \in NextType
    BY <1>3 DEF Associate, Then, NextType
  <2> HIDE DEF r
  <2> QED BY <1>1, <2>1, <2>2, <2>3, CallInv
<1>4. CASE Disassociate(s)
  <2> DEFINE r == [sm[s] EXCEPT !.assoc = FALSE, !.PTK_valid = FALSE,
                     !.ask = @ \cup {"DeauthenticationRequest"}]
  <2>1. r \in SmType /\ Alike(r, sm[s])
    BY <1>2, ZenonT(30) DEF SmType, Alike, Rank
  <2>2. Step(s, r, group) /\ UNCHANGED <<todo, rekey>>
    BY <1>4 DEF Disassociate
  <2>3. next' \in NextType
    BY <1>4 DEF Disassociate, Then, NextType
  <2> HIDE DEF r
  <2> QED BY <1>1, <2>1, <2>2, <2>3, CallInv DEF Alike
<1>5. CASE Remove(s)
  <2>1. FreeSta(s) /\ UNCHANGED <<call, todo, rekey, next>>
    BY <1>5 DEF Remove
  <2> QED BY <1>1, <1>2, <2>1, FreeInv
<1>6. CASE Inactive(s)
  <2> DEFINE r == [sm[s] EXCEPT !.assoc = FALSE, !.timeout_next = "DEAUTH"]
  <2>1. r \in SmType /\ Alike(r, sm[s])
    BY <1>2 DEF SmType, Alike
  <2>2. sm' = [sm EXCEPT ![s] = r] /\ UNCHANGED <<group, call, todo, rekey, next>>
    BY <1>6, NoneToVisit, <1>1 DEF Inactive
  <2> HIDE DEF r
  <2> QED BY <1>1, <1>2, <2>1, <2>2, AloneInv
<1> QED BY <1>3, <1>4, <1>5, <1>6

LEMMA TimerInv ==
  ASSUME IInv, NEW s \in Sta, Timeout(s) \/ TxStatus(s)
  PROVE  IInv'
<1>1. Idle /\ Returned /\ rekey = "no"
  BY DEF Timeout, TxStatus, Idle
<1>2. /\ sm[s] \in SmType /\ group \in GroupType /\ next \in NextType
      /\ sm \in [Sta -> SmType]
      /\ group.GTKReKey => rekey = "group"
  BY <1>1, NoneToVisit
<1>3. CASE Timeout(s)
  <2> DEFINE n == sm[s].timers - 1
             r == [sm[s] EXCEPT !.timers = n, !.TimeoutEvt = TRUE,
                                !.pending_1_of_4_timeout = FALSE]
  <2>1. Step(s, r, group) /\ UNCHANGED <<todo, rekey, next>>
    BY <1>3 DEF Timeout
  <2>2. n \in Nat
    BY <1>2, <1>3 DEF Timeout, SmType
  <2> HIDE DEF n
  <2>3. r \in SmType /\ Alike(r, sm[s])
    BY <1>2, <2>2 DEF SmType, Alike
  <2> HIDE DEF r
  <2> QED BY <1>1, <1>2, <2>1, <2>3, CallInv DEF Alike
<1>4. CASE TxStatus(s)
  <2> DEFINE r == [sm[s] EXCEPT !.timers = 1]
  <2>1. r \in SmType /\ Alike(r, sm[s])
    BY <1>2 DEF SmType, Alike
  <2>2. sm' = [sm EXCEPT ![s] = r] /\ UNCHANGED <<group, call, todo, rekey, next>>
    BY <1>2, <1>4 DEF TxStatus
  <2> HIDE DEF r
  <2> QED BY <1>1, <1>2, <2>1, <2>2, AloneInv
<1> QED BY <1>3, <1>4

LEMMA ReceiveInv ==
  ASSUME IInv, NEW s \in Sta, Receive(s)
  PROVE  IInv'
<1>1. Idle /\ Returned /\ rekey = "no"
  BY DEF Receive, Pairwise2, Pairwise4, Group2, BadMic, RequestPtk,
         RequestGtk, Idle
<1>2. /\ sm[s] \in SmType /\ group \in GroupType /\ next \in NextType
      /\ sm \in [Sta -> SmType]
      /\ group.GTKReKey => rekey = "group"
  BY <1>1, NoneToVisit
<1>3. <<>> \in Seq(Frames)
  OBVIOUS
<1>4. Dropped(sm[s]) \in SmType /\ Alike(Dropped(sm[s]), sm[s])
  BY <1>2, DroppedType
<1>5. StopTimers(sm[s]) \in SmType /\ Alike(StopTimers(sm[s]), sm[s])
  BY <1>2, StopTimersType
<1>6. CASE Pairwise2(s)
  <2>1. PICK what \in {"pairwise", "wrong"} :
          IF group.reject_4way_hs_for_entropy
          THEN /\ group' = [group EXCEPT !.reject_4way_hs_for_entropy = FALSE,
                              !.pool = TRUE, !.first_sta_seen = FALSE]
               /\ sm' = [sm EXCEPT ![s] = Dropped(@)]
               /\ UNCHANGED call
          ELSE \/ Step(s, [sm[s] EXCEPT !.MICVerified = FALSE,
                             !.key_replay = <<>>, !.rx = what], group)
               \/ /\ "mismatch" \in Adverse
                  /\ sm' = [sm EXCEPT ![s] = Dropped(@)]
                  /\ UNCHANGED <<group, call>>
    BY <1>6 DEF Pairwise2
  <2> DEFINE r == [sm[s] EXCEPT !.MICVerified = FALSE,
                                !.key_replay = <<>>, !.rx = what]
  <2>2. UNCHANGED <<todo, rekey, next>>
    BY <1>6 DEF Pairwise2
  <2>3. r \in SmType /\ Alike(r, sm[s])
    BY <1>2, <1>3 DEF SmType, Alike
  <2>4. CASE Step(s, r, group)
    <3> HIDE DEF r
    <3> QED BY <1>1, <1>2, <2>2, <2>3, <2>4, CallInv DEF Alike
  <2>5. CASE ~Step(s, r, group)
    <3>1. sm' = [sm EXCEPT ![s] = Dropped(sm[s])] /\ call' = call
      BY <2>1, <2>5
    <3>2. \/ group' = group
          \/ group' = [group EXCEPT !.reject_4way_hs_for_entropy = FALSE,
                         !.pool = TRUE, !.first_sta_seen = FALSE]
      BY <2>1, <2>5
    <3>3. /\ group' \in GroupType /\ group'.GTKReKey = group.GTKReKey
          /\ group'.GKeyDoneStations = group.GKeyDoneStations
      BY <1>2, <3>2 DEF GroupType
    <3> QED BY <1>1, <1>2, <1>4, <2>2, <3>1, <3>3, AloneInv
  <2> QED BY <2>4, <2>5
<1>7. CASE Pairwise4(s)
  <2>1. PICK frame \in {"m3", "m3old"} :
          Step(s, [Taken(sm[s], "pairwise") EXCEPT
                     !.fresh = IF s \in Wpa2 THEN frame = "m3" ELSE @], group)
    BY <1>7 DEF Pairwise4
  <2> DEFINE q == Taken(sm[s], "pairwise")
             b == IF s \in Wpa2 THEN frame = "m3" ELSE q.fresh
             r == [q EXCEPT !.fresh = b]
  <2>2. q \in SmType /\ Alike(q, sm[s])
    BY <1>2, TakenType
  <2>3. Step(s, r, group) /\ UNCHANGED <<todo, rekey, next>>
    BY <1>7, <2>1 DEF Pairwise4
  <2> HIDE DEF q
  <2>4. b \in BOOLEAN
    BY <2>2 DEF SmType
  <2> HIDE DEF b
  <2>5. r \in SmType /\ Alike(r, sm[s])
    BY <2>2, <2>4 DEF SmType, Alike
  <2> HIDE DEF r
  <2> QED BY <1>1, <1>2, <2>3, <2>5, CallInv DEF Alike
<1>8. CASE Group2(s)
  <2>1. PICK frame \in {"g1", "g1old"} :
          Step(s, [Taken(sm[s], "group") EXCEPT !.fresh = frame = "g1"], group)
    BY <1>8 DEF Group2
  <2> DEFINE q == Taken(sm[s], "group")
             b == frame = "g1"
             r == [q EXCEPT !.fresh = b]
  <2>2. q \in SmType /\ Alike(q, sm[s])
    BY <1>2, TakenType
  <2>3. Step(s, r, group) /\ UNCHANGED <<todo, rekey, next>>
    BY <1>8, <2>1 DEF Group2
  <2>4. b \in BOOLEAN
    OBVIOUS
  <2> HIDE DEF q, b
  <2>5. r \in SmType /\ Alike(r, sm[s])
    BY <2>2, <2>4 DEF SmType, Alike
  <2> HIDE DEF r
  <2> QED BY <1>1, <1>2, <2>3, <2>5, CallInv DEF Alike
<1>9. CASE BadMic(s)
  <2> DEFINE r == [sm[s] EXCEPT !.MICVerified = FALSE]
  <2>1. r \in SmType /\ Alike(r, sm[s])
    BY <1>2 DEF SmType, Alike
  <2>2. sm' = [sm EXCEPT ![s] = r] /\ UNCHANGED <<group, call, todo, rekey, next>>
    BY <1>2, <1>9 DEF BadMic
  <2> HIDE DEF r
  <2> QED BY <1>1, <1>2, <2>1, <2>2, AloneInv
<1>10. CASE RequestPtk(s)
  <2> DEFINE q == StopTimers(sm[s])
             r == [q EXCEPT !.MICVerified = TRUE, !.PTK_valid = FALSE,
                            !.rx = "request", !.ask = @ \cup {"PTKRequest"}]
  <2>1. Step(s, r, group) /\ UNCHANGED <<todo, rekey, next>>
    BY <1>10 DEF RequestPtk
  <2>2. q \in SmType /\ Alike(q, sm[s])
    BY <1>5
  <2> HIDE DEF q
  <2>3. r \in SmType /\ Alike(r, sm[s])
    BY <2>2, ZenonT(30) DEF SmType, Alike, Rank
  <2> HIDE DEF r
  <2> QED BY <1>1, <1>2, <2>1, <2>3, CallInv DEF Alike
<1>11. CASE RequestGtk(s)
  <2> DEFINE q == StopTimers(sm[s])
             r == [q EXCEPT !.MICVerified = TRUE]
  <2>1. /\ sm' = [sm EXCEPT ![s] = r] /\ rekey' = "group"
        /\ group' = [group EXCEPT !.GTKReKey = TRUE, !.changed = FALSE]
        /\ next' = [do |-> "keyReceived", of |-> {s}]
        /\ UNCHANGED <<call, todo>>
    BY <1>2, <1>11 DEF RequestGtk, StartRekey, Then
  <2>2. q \in SmType /\ Alike(q, sm[s])
    BY <1>5
  <2> HIDE DEF q
  <2>3. r \in SmType /\ Alike(r, sm[s])
    BY <2>2 DEF SmType, Alike
  <2> HIDE DEF r
  <2>4. /\ group' \in GroupType
        /\ group'.GKeyDoneStations = group.GKeyDoneStations
    BY <1>2, <2>1 DEF GroupType
  <2>5. next' \in NextType
    BY <2>1 DEF NextType
  <2> QED BY <1>1, <2>1, <2>3, <2>4, <2>5, AloneInv
<1> QED BY <1>6, <1>7, <1>8, <1>9, <1>10, <1>11 DEF Receive
-----------------------------------------------------------------------------
LEMMA InitInv == Init => IInv
<1> SUFFICES ASSUME Init
             PROVE  IInv
  OBVIOUS
<1>1. /\ sm \in [Sta -> SmType] /\ todo = {} /\ rekey = "no"
      /\ \A s \in Sta : sm[s].GUpdateStationKeys = FALSE
      /\ \A s \in Sta : sm[s] = Absent
  BY AbsentType DEF Init, Absent
<1>2. group \in GroupType /\ group.GKeyDoneStations = 0 /\ ~group.GTKReKey
  BY DEF Init, GroupType
<1>3. /\ call \in CallType /\ next \in NextType
  BY DEF Init, CallType, NextType
<1>4. {s \in Sta \ todo : sm[s].GUpdateStationKeys} = {}
  BY <1>1
<1>5. DoneCounts
  BY <1>2, <1>4, FS_EmptySet DEF DoneCounts
<1> QED BY <1>1, <1>2, <1>3, <1>5 DEF IInv, TypeOK, StackOK

LEMMA NextInv == IInv /\ [Next]_vars => IInv'
<1> SUFFICES ASSUME IInv, [Next]_vars
             PROVE  IInv'
  OBVIOUS
<1>1. CASE Rekeying
  BY <1>1, RekeyingInv
<1>2. ASSUME NEW s \in Sta, SmStep(s)
      PROVE  IInv'
  BY <1>2, PtkSmInv, PtkGroupSmInv, RoundInv DEF SmStep
<1>3. ASSUME NEW s \in Sta, Rest(s)
      PROVE  IInv'
  BY <1>3, RestInv
<1>4. CASE RekeyGtk
  BY <1>4, RekeyGtkInv
<1>5. ASSUME NEW s \in Sta, Event(s)
      PROVE  IInv'
  BY <1>5, AssociationInv, TimerInv, ReceiveInv DEF Event
<1>6. CASE UNCHANGED vars
  BY <1>6 DEF vars, IInv, TypeOK, DoneCounts, StackOK, NoCall
<1> QED BY <1>1, <1>2, <1>3, <1>4, <1>5, <1>6 DEF Next, Internal

(* Every state has the types of TypeOK: in particular GKeyDoneStations, an  *)
(* int that five places decrement (wpa_auth.c:578, 1382, 1450, 2166, 2181), *)
(* never falls below zero.                                                  *)
THEOREM TypeCorrect == Spec => []TypeOK
<1>1. IInv => TypeOK
  BY DEF IInv
<1> QED BY <1>1, InitInv, NextInv, PTL DEF Spec

(* GKeyDoneStations is at all times the number of marked stations that no   *)
(* running rekeying has still to visit (wpa_auth.c:2316-2327), whatever     *)
(* number of stations associate, leave, answer or are given up meanwhile.   *)
THEOREM CountExact == Spec => []DoneCounts
<1>1. IInv => DoneCounts
  BY DEF IInv
<1> QED BY <1>1, InitInv, NextInv, PTL DEF Spec

(* No wpa_sm_step is called from another (wpa_auth.c:2397): a rekeying that *)
(* is wanted starts only from wpa_rekey_gtk, never from the group's step at *)
(* the end of a round (wpa_auth.c:2410), where it would visit all stations. *)
THEOREM NoRecursion == Spec => []NeverRecursive
<1>1. IInv => NeverRecursive
  BY DEF IInv, StackOK, NeverRecursive
<1> QED BY <1>1, InitInv, NextInv, PTL DEF Spec
-----------------------------------------------------------------------------
(* The retries of the authenticator end (SpentDisconnected) and the         *)
(* pairwise handshake ends by an answer (DoneAnswered).  Line numbers are   *)
(* those of src/hostapd/src/ap/wpa_auth.c.                                  *)
(*                                                                          *)
(* Both are about a call of wpa_sm_step, in the middle of which neither     *)
(* holds: past the limit the state is entered, sends nothing, and only the  *)
(* next round disconnects.  RetryInv says of a station, at each place of    *)
(* the call (before its pairwise machine, its group machine, the group's),  *)
(* what of its requests, its received frame and its counters can be there.  *)

(* Where in its wpa_sm_step s is ("idle": in none), and whether the rest of *)
(* the running handler is the second half of its first association.         *)
Place(s) == IF call.of = {s} THEN call.at ELSE "idle"
Follows(s) == next = [do |-> "initialized", of |-> {s}]

(* A pairwise frame to be consumed.                                         *)
Answer(r) == r.rx \in {"pairwise", "wrong"}

(* Init is asked alone and dropped when the call returns (556-558); all else *)
(* is served in the call it is asked in, by the machine it is meant for.     *)
AskFits(r, p, n) ==
  /\ "Init" \in r.ask => r.ask = {"Init"} /\ n
  /\ p = "idle" => r.ask \subseteq {"Init"}
  /\ p = "grp" /\ ~r.changed => r.ask \subseteq {"Init", "PtkGroupInit"}
  /\ p = "group" /\ ~r.changed => r.ask \subseteq {"Init"}

(* A pairwise frame is consumed by the first step of the call, in the state  *)
(* that waits for it; taking it has emptied key_replay (971, 1060).          *)
AnswerFits(r, p) ==
  Answer(r) => 
     /\ p = "ptk" /\ r.ask = {} /\ DOMAIN r.key_replay = {}
     /\ \/ r.ptk \in {"PTKSTART", "PTKCALCNEGOTIATING"} /\ ~r.MICVerified
        \/ r.ptk = "PTKINITNEGOTIATING" /\ r.MICVerified

(* So is a group frame, by the first step of the group key machine.         *)
AckFits(r, p) ==
  r.rx = "group" =>
     /\ p \in {"ptk", "grp"} /\ r.ask = {}
     /\ r.grp = "REKEYNEGOTIATING" /\ r.MICVerified

(* Past the limit PTKSTART and PTKINITNEGOTIATING were entered and nothing   *)
(* was sent (1606, 1805): the call goes on and the next round disconnects.   *)
TriesFit(r, p) ==
  r.timeout_next = "NULLFUNC" /\ r.TimeoutCtr > UpdateCount =>
     /\ p # "idle" /\ (p # "ptk" => r.changed)
     /\ r.ptk \in {"PTKSTART", "PTKINITNEGOTIATING"} /\ ~Answer(r)
     /\ r.ask \subseteq {"PtkGroupInit", "Disconnect"}

(* Past the limit REKEYNEGOTIATING (2118) is left for KEYERROR in the next   *)
(* round, unless a frame has come; KEYERROR has asked for the disconnection. *)
GTriesFit(r, p) ==
  r.timeout_next = "NULLFUNC" /\ r.GTimeoutCtr > UpdateCount =>
     /\ p # "idle" /\ (p = "group" => r.changed) /\ "Init" \notin r.ask
     /\ \/ r.grp = "REKEYNEGOTIATING" /\ r.rx # "group"
        \/ /\ r.grp = "KEYERROR" /\ "Disconnect" \in r.ask
           /\ p \in {"group", "ptk"}

Fits(r, p, n) ==
  /\ AskFits(r, p, n) /\ AnswerFits(r, p) /\ AckFits(r, p)
  /\ TriesFit(r, p) /\ GTriesFit(r, p)

(* The inductive invariant, beside that of WpaAuthProofs.                   *)
RetryInv == \A s \in Sta : Fits(sm[s], Place(s), Follows(s))
-----------------------------------------------------------------------------
(* A new group key only marks the frames sent with the one before.          *)
LEMMA NewGtkFits ==
  ASSUME NEW r \in SmType, NEW p, NEW n, Fits(r, p, n)
  PROVE  Fits(NewGtk(r), p, n)
BY DEF Fits, AskFits, AnswerFits, AckFits, TriesFit, GTriesFit, Answer,
       NewGtk, SmType

(* What a step of s does to the others keeps their part of the invariant.   *)
LEMMA OneFits ==
  ASSUME IInv, RetryInv, NEW s \in Sta,
         call.of \subseteq {s}, call'.of \subseteq {s},
         \A t \in Sta \ {s} : /\ sm'[t] \in {sm[t], NewGtk(sm[t])}
                              /\ Follows(t) => Follows(t)',
         Fits(sm'[s], Place(s)', Follows(s)')
  PROVE  RetryInv'
<1>1. ASSUME NEW t \in Sta \ {s}
      PROVE  Fits(sm'[t], Place(t)', Follows(t)')
  <2>1. sm[t] \in SmType /\ Fits(sm[t], Place(t), Follows(t))
    BY DEF IInv, TypeOK, RetryInv
  <2>2. Place(t) = "idle" /\ Place(t)' = "idle"
    <3>1. ~({t} \subseteq {s})
      OBVIOUS
    <3> QED BY <3>1 DEF Place
  <2>3. Fits(sm[t], "idle", Follows(t)')
    BY <2>1, <2>2 DEF Fits, AskFits
  <2>4. Fits(NewGtk(sm[t]), "idle", Follows(t)')
    BY <2>1, <2>3, NewGtkFits
  <2> QED BY <2>2, <2>3, <2>4
<1> QED BY <1>1 DEF RetryInv

(* 1/4 with an earlier ANonce is one more frame.                            *)
LEMMA RenewedFrames ==
  ASSUME NEW frames \in Seq(Frames)
  PROVE  [i \in DOMAIN frames |->
            IF frames[i] = "m1" THEN "m1old" ELSE frames[i]] \in Seq(Frames)
<1>1. DOMAIN frames = 1..Len(frames) /\ Len(frames) \in Nat
  OBVIOUS
<1>2. \A i \in 1..Len(frames) : frames[i] \in Frames
  OBVIOUS
<1>3. "m1old" \in Frames
  BY DEF Frames
<1> QED BY <1>1, <1>2, <1>3

(* A step of the pairwise machine.                                          *)
LEMMA PtkFits ==
  ASSUME NEW s \in Sta, NEW r, r = sm[s], r \in SmType, NEW n,
         Fits(r, "ptk", n), At("ptk", s), PtkSm(s), IInv
  PROVE  Fits(sm'[s], "grp", n)
<1> USE DEF Fits, AskFits, AnswerFits, AckFits, TriesFit, GTriesFit, Answer
<1> USE DEF In, Calm, Answered, Confirmed, Exhausted
<1>0. sm \in [Sta -> SmType] /\ UpdateCount \in Nat
  BY WpaAuthAssumption DEF IInv, TypeOK
<1>13. \A a \in DOMAIN Rank : Urgent(s, a) =>
           /\ a \in r.ask
           /\ "Init" \in r.ask => a = "Init"
           /\ "Disconnect" \in r.ask => a \in {"Init", "Disconnect"}
           /\ a = "PTKRequest" => r.ask \subseteq {"PTKRequest", "PtkGroupInit"}
  BY SMTT(30) DEF SmType, Rank, Urgent
<1>14.
      /\ Urgent(s, "Init") => "Init" \in r.ask
      /\ Urgent(s, "DeauthenticationRequest") =>
            "DeauthenticationRequest" \in r.ask /\ "Disconnect" \notin r.ask
                /\ "Init" \notin r.ask
      /\ Urgent(s, "AuthenticationRequest") =>
            "AuthenticationRequest" \in r.ask /\ "Disconnect" \notin r.ask
                /\ "Init" \notin r.ask
      /\ Urgent(s, "ReAuthenticationRequest") =>
            "ReAuthenticationRequest" \in r.ask /\ "Disconnect" \notin r.ask
                /\ "Init" \notin r.ask
      /\ Urgent(s, "Disconnect") =>
            "Disconnect" \in r.ask /\ "Init" \notin r.ask
      /\ Urgent(s, "PTKRequest") =>
            /\ "PTKRequest" \in r.ask
            /\ r.ask \subseteq {"PTKRequest", "PtkGroupInit"}
  BY <1>13 DEF Rank
<1>1. CASE Initialize(s)
  BY <1>0, <1>1, <1>14 DEF Initialize, SmType
<1>2. CASE Disconnect(s)
  BY <1>0, <1>2, <1>14 DEF Disconnect, EnterPtk, Dropped, SmType
<1>3. CASE EnterDisconnected(s)
  <2> DEFINE q == [r EXCEPT !.ask = @ \ {"DeauthenticationRequest"}]
  <2>1. sm'[s] = [q EXCEPT !.ptk = "DISCONNECTED", !.changed = TRUE]
    BY <1>0, <1>3 DEF EnterDisconnected, EnterPtk
  <2>2. sm'[s].changed /\ sm'[s].ptk = "DISCONNECTED"
        /\ sm'[s].ask = r.ask \ {"DeauthenticationRequest"}
        /\ sm'[s].rx = r.rx /\ sm'[s].grp = r.grp
        /\ sm'[s].MICVerified = r.MICVerified
        /\ sm'[s].timeout_next = r.timeout_next
        /\ sm'[s].TimeoutCtr = r.TimeoutCtr
        /\ sm'[s].GTimeoutCtr = r.GTimeoutCtr
        /\ sm'[s].key_replay = r.key_replay
    BY <2>1 DEF SmType
  <2> HIDE DEF q
  <2>3. \/ "DeauthenticationRequest" \in r.ask /\ "Disconnect" \notin r.ask
              /\ "Init" \notin r.ask
        \/ r.ask \subseteq {"PtkGroupInit"} /\ r.ptk = "DISCONNECT"
    BY <1>3, <1>14 DEF EnterDisconnected
  <2>4. ~(r.timeout_next = "NULLFUNC" /\ r.TimeoutCtr > UpdateCount)
    BY <2>3
  <2>5. r.timeout_next = "NULLFUNC" /\ r.GTimeoutCtr > UpdateCount =>
           r.grp = "REKEYNEGOTIATING" /\ r.rx # "group"
    BY <2>3
  <2>6. ~Answer(r)
    BY <2>3
  <2> QED BY <1>0, <2>2, <2>3, <2>4, <2>5, <2>6
<1>4. CASE Authentication(s)
  <2> DEFINE q == [r EXCEPT !.ask = @ \ {"AuthenticationRequest"},
                     !.PTK_valid = FALSE]
  <2>1. sm'[s] = [q EXCEPT !.ptk = "AUTHENTICATION", !.changed = TRUE]
    BY <1>0, <1>4 DEF Authentication, EnterPtk
  <2>2. sm'[s].changed /\ sm'[s].ptk = "AUTHENTICATION"
        /\ sm'[s].ask = r.ask \ {"AuthenticationRequest"}
        /\ sm'[s].rx = r.rx /\ sm'[s].grp = r.grp
        /\ sm'[s].MICVerified = r.MICVerified
        /\ sm'[s].timeout_next = r.timeout_next
        /\ sm'[s].TimeoutCtr = r.TimeoutCtr
        /\ sm'[s].GTimeoutCtr = r.GTimeoutCtr
        /\ sm'[s].key_replay = r.key_replay
    BY <2>1 DEF SmType
  <2> HIDE DEF q
  <2> QED BY <1>0, <1>4, <1>14, <2>2 DEF Authentication, SmType
<1>6. CASE InitPsk(s)
  BY <1>0, <1>6, <1>14 DEF InitPsk, EnterPtk, SmType
<1>7. CASE PtkStart(s)
  BY <1>0, <1>7, <1>14 DEF PtkStart, EnterPtk, SmType, Sent
<1>8. CASE PtkCalcNegotiating(s)
  BY <1>0, <1>8, <1>14 DEF PtkCalcNegotiating, EnterPtk, SmType, StopTimers
<1>9. CASE PtkCalcNegotiating2(s)
  BY <1>0, <1>9, <1>14 DEF PtkCalcNegotiating2, EnterPtk, SmType
<1>10. CASE PtkInitNegotiating(s)
  BY <1>0, <1>10, <1>14 DEF PtkInitNegotiating, EnterPtk, SmType, Sent
<1>5. CASE Authentication2(s)
  <2> DEFINE k == [i \in DOMAIN r.key_replay |->
                     IF r.key_replay[i] = "m1" THEN "m1old"
                                               ELSE r.key_replay[i]]
             q == [r EXCEPT !.ptk = "AUTHENTICATION2", !.changed = TRUE,
                     !.ask = @ \ {"ReAuthenticationRequest"}, !.TimeoutCtr = 0,
                     !.key_replay = k]
  <2>1. Fits(q, "grp", n)
    <3>1. DOMAIN k = DOMAIN r.key_replay
      OBVIOUS
    <3>2. Urgent(s, "ReAuthenticationRequest") \/ In(s, "AUTHENTICATION")
      BY <1>5 DEF Authentication2
    <3> HIDE DEF k
    <3> QED BY <1>0, <1>14, <3>1, <3>2 DEF SmType
  <2>2. sm'[s] \in {q, NewGtk(q)}
    BY <1>0, <1>5 DEF Authentication2
  <2>3. k \in Seq(Frames)
    BY RenewedFrames DEF SmType
  <2>4. q \in SmType
    <3>1. "AUTHENTICATION2" \in PtkStates
      BY DEF PtkStates
    <3> DEFINE a == r.ask \ {"ReAuthenticationRequest"}
    <3>2. a \in SUBSET DOMAIN Rank
      BY DEF SmType
    <3> HIDE DEF k, a
    <3>3. [r EXCEPT !.ptk = "AUTHENTICATION2", !.changed = TRUE, !.ask = a,
                    !.TimeoutCtr = 0, !.key_replay = k] \in SmType
      BY <2>3, <3>1, <3>2, ZenonT(30) DEF SmType
    <3> QED BY <3>3 DEF a
  <2> HIDE DEF q, Fits
  <2> QED BY <2>1, <2>2, <2>4, NewGtkFits
<1>11. CASE PtkInitDone(s)
  <2> DEFINE q == [r EXCEPT !.rx = "none"]
             b == q.PInitAKeys \/ s \notin Wpa2
             x == [q EXCEPT !.PInitAKeys = b, !.ptk = "PTKINITDONE",
                            !.changed = TRUE]
             y == [Dropped(q) EXCEPT !.ptk = "PTKINITDONE", !.changed = TRUE]
  <2>1. sm'[s] = x \/ sm'[s] = y
    <3> HIDE DEF b
    <3>1. \/ EnterPtk(s, "PTKINITDONE", [q EXCEPT !.PInitAKeys = b])
          \/ EnterPtk(s, "PTKINITDONE", Dropped(q))
      BY <1>11 DEF PtkInitDone, b
    <3> HIDE DEF q
    <3>2. \/ sm' = [sm EXCEPT ![s] =
                      [[q EXCEPT !.PInitAKeys = b]
                         EXCEPT !.ptk = "PTKINITDONE", !.changed = TRUE]]
          \/ sm' = [sm EXCEPT ![s] = y]
      BY <3>1 DEF EnterPtk
    <3> QED BY <1>0, <3>2
  <2> HIDE DEF b
  <2>2. r.ptk = "PTKINITNEGOTIATING" /\ r.rx \in {"pairwise", "wrong"}
    BY <1>11 DEF PtkInitDone
  <2>3. r.ask = {}
    BY <2>2
  <2>4. /\ sm'[s].ask = {} /\ sm'[s].changed = TRUE /\ sm'[s].rx = "none"
        /\ sm'[s].GTimeoutCtr = r.GTimeoutCtr /\ sm'[s].grp = r.grp
        /\ sm'[s].TimeoutCtr = r.TimeoutCtr
        /\ sm'[s].timeout_next \in {r.timeout_next, "REMOVE"}
    <3>1. CASE sm'[s] = x
      BY <2>3, <3>1 DEF SmType
    <3>2. CASE sm'[s] = y
      BY <2>3, <3>2 DEF SmType, Dropped
    <3> QED BY <2>1, <3>1, <3>2
  <2> QED BY <1>0, <2>2, <2>3, <2>4 DEF SmType
<1>12. CASE PtkStays(s)
  BY <1>0, <1>12, <1>14 DEF PtkStays, SmType
<1> QED BY <1>1, <1>2, <1>3, <1>4, <1>5, <1>6, <1>7, <1>8, <1>9, <1>10,
           <1>11, <1>12
        DEF PtkSm

(* A step of the group key machine.                                         *)
LEMMA PtkGroupFits ==
  ASSUME NEW s \in Sta, NEW r, r = sm[s], r \in SmType, NEW n,
         Fits(r, "grp", n), PtkGroupSm(s), IInv
  PROVE  Fits(sm'[s], "group", n)
<1> USE DEF Fits, AskFits, AnswerFits, AckFits, TriesFit, GTriesFit, Answer
<1> USE DEF Grp, Started, Acknowledged, GivenUp
<1>0. sm \in [Sta -> SmType] /\ UpdateCount \in Nat
  BY WpaAuthAssumption DEF IInv, TypeOK
<1>1. CASE GroupIdle(s)
  BY <1>0, <1>1 DEF GroupIdle, SmType
<1>2. CASE RekeyNegotiating(s)
  BY <1>0, <1>2 DEF RekeyNegotiating, EnterGrp, Sent, SmType
<1>3. CASE RekeyEstablished(s)
  BY <1>0, <1>3 DEF RekeyEstablished, EnterGrp, SmType
<1>4. CASE KeyError(s)
  BY <1>0, <1>4 DEF KeyError, EnterGrp, SmType
<1>5. CASE GroupStays(s)
  BY <1>0, <1>5 DEF GroupStays, SmType
<1> QED BY <1>1, <1>2, <1>3, <1>4, <1>5 DEF PtkGroupSm

(* A round ends: the next begins, or the call returns.                      *)
LEMMA RoundFits ==
  ASSUME NEW r \in SmType, NEW n, Fits(r, "group", n)
  PROVE  /\ Fits([r EXCEPT !.changed = FALSE], "ptk", n)
         /\ ~r.changed => Fits(r, "idle", n)
BY DEF Fits, AskFits, AnswerFits, AckFits, TriesFit, GTriesFit, Answer, SmType

(* A station just allocated, or none.                                       *)
LEMMA AbsentFits ==
  ASSUME NEW p, NEW n
  PROVE  Fits(Absent, p, n)
BY WpaAuthAssumption
   DEF Fits, AskFits, AnswerFits, AckFits, TriesFit, GTriesFit, Answer, Absent

(* Nothing is asked of a station at rest but its first step.                *)
LEMMA CalledFits ==
  ASSUME NEW r \in SmType, NEW q \in SmType, NEW n, NEW m, Fits(r, "idle", n),
         q.timeout_next = r.timeout_next,
         q.TimeoutCtr = r.TimeoutCtr, q.GTimeoutCtr = r.GTimeoutCtr,
         "Init" \in q.ask => q.ask = {"Init"} /\ m,
         AnswerFits(q, "ptk"), AckFits(q, "ptk")
  PROVE  Fits([q EXCEPT !.changed = FALSE], "ptk", m)
BY DEF Fits, AskFits, AnswerFits, AckFits, TriesFit, GTriesFit, Answer, SmType

(* No step but those of its pairwise machine, and its removal, change the    *)
(* state of the pairwise machine of a station.                               *)
PtkKept == \A s \in Sta : sm'[s].ptk \in {sm[s].ptk, "INITIALIZE"}

(* A step of the machines of s, in its wpa_sm_step.                         *)
LEMMA SmStepRetry ==
  ASSUME IInv, RetryInv, NEW s \in Sta, SmStep(s)
  PROVE  RetryInv'
<1> DEFINE n == Follows(s)
<1>0. /\ sm \in [Sta -> SmType] /\ sm[s] \in SmType
      /\ Fits(sm[s], Place(s), n)
  BY DEF IInv, TypeOK, RetryInv
<1>1. CASE PtkSm(s)
  <2>1. At("ptk", s) /\ GoTo("grp", s) /\ next' = next
    BY <1>1 DEF PtkSm, Initialize, Disconnect, EnterDisconnected,
         Authentication, Authentication2, InitPsk, PtkStart,
         PtkCalcNegotiating, PtkCalcNegotiating2, PtkInitNegotiating,
         PtkInitDone, PtkStays, EnterPtk
  <2>2. \A t \in Sta \ {s} : sm'[t] \in {sm[t], NewGtk(sm[t])}
    BY <1>0, <1>1 DEF PtkSm, Initialize, Disconnect, EnterDisconnected,
         Authentication, Authentication2, InitPsk, PtkStart,
         PtkCalcNegotiating, PtkCalcNegotiating2, PtkInitNegotiating,
         PtkInitDone, PtkStays, EnterPtk
  <2>3. call.of = {s} /\ Place(s) = "ptk" /\ call'.of = {s} /\ Place(s)' = "grp"
    BY <2>1 DEF At, GoTo, Place
  <2>4. Fits(sm'[s], "grp", n)
    BY <1>0, <1>1, <2>1, <2>3, PtkFits
  <2>5. \A t \in Sta : Follows(t)' = Follows(t)
    BY <2>1 DEF Follows
  <2> HIDE DEF n
  <2> QED BY <2>2, <2>3, <2>4, <2>5, OneFits DEF n
<1>2. CASE PtkGroupSm(s)
  <2>1. /\ At("grp", s) /\ GoTo("group", s) /\ next' = next
        /\ \A t \in Sta \ {s} : sm'[t] = sm[t]
    BY <1>0, <1>2 DEF PtkGroupSm, GroupIdle, RekeyNegotiating,
         RekeyEstablished, KeyError, GroupStays, EnterGrp
  <2>3. /\ call.of = {s} /\ Place(s) = "grp"
        /\ call'.of = {s} /\ Place(s)' = "group"
    BY <2>1 DEF At, GoTo, Place
  <2>4. Fits(sm'[s], "group", n)
    BY <1>0, <1>2, <2>3, PtkGroupFits
  <2>5. \A t \in Sta : Follows(t)' = Follows(t)
    BY <2>1 DEF Follows
  <2> QED BY <2>1, <2>3, <2>4, <2>5, OneFits
<1>3. CASE Round(s)
  <2>1. /\ At("group", s) /\ next' = next
        /\ \/ sm' = [sm EXCEPT ![s] = [sm[s] EXCEPT !.changed = FALSE]]
              /\ GoTo("ptk", s)
           \/ ~sm[s].changed /\ sm' = sm /\ call' = NoCall
    BY <1>3 DEF Round, EndRound, Step
  <2>2. call.of = {s} /\ Place(s) = "group"
    BY <2>1 DEF At, Place
  <2>3. /\ Fits([sm[s] EXCEPT !.changed = FALSE], "ptk", n)
        /\ ~sm[s].changed => Fits(sm[s], "idle", n)
    BY <1>0, <2>2, RoundFits
  <2>4. \/ call'.of = {s} /\ Place(s)' = "ptk"
        \/ call'.of = {} /\ Place(s)' = "idle" /\ call' = NoCall
    BY <2>1 DEF GoTo, NoCall, Place
  <2>5. \A t \in Sta : Follows(t)' = Follows(t)
    BY <2>1 DEF Follows
  <2>6. \A t \in Sta \ {s} : sm'[t] = sm[t]
    BY <1>0, <2>1
  <2>7. Fits(sm'[s], Place(s)', n)
    <3>1. CASE call' = NoCall
      BY <1>0, <2>1, <2>3, <2>4, <3>1 DEF GoTo, NoCall, Place
    <3>2. CASE call' # NoCall
      BY <1>0, <2>1, <2>3, <2>4, <3>2
    <3> QED BY <3>1, <3>2
  <2> QED BY <2>2, <2>4, <2>5, <2>6, <2>7, OneFits
<1> QED BY <1>1, <1>2, <1>3 DEF SmStep

(* The group key machine and the group's leave the pairwise state alone.    *)
LEMMA SmStepKeepsPtk ==
  ASSUME IInv, NEW s \in Sta, SmStep(s), ~PtkSm(s)
  PROVE  PtkKept
<1>1. sm \in [Sta -> SmType] /\ sm[s] \in SmType
  BY DEF IInv, TypeOK
<1>2. CASE sm' = sm
  BY <1>2 DEF PtkKept
<1>3. CASE PtkGroupSm(s)
  <2>2. CASE GroupIdle(s)
    <3> DEFINE a == "Init" \notin sm[s].ask
               r == [sm[s] EXCEPT !.grp = "IDLE", !.changed = a,
                            !.GTimeoutCtr = 0, !.ask = @ \ {"PtkGroupInit"}]
    <3>1. sm' = [sm EXCEPT ![s] = r]
      BY <2>2 DEF GroupIdle
    <3>2. r.ptk = sm[s].ptk
      BY <1>1 DEF SmType
    <3> HIDE DEF r
    <3> QED BY <1>1, <3>1, <3>2 DEF PtkKept
  <2>3. CASE RekeyNegotiating(s)
    BY <1>1, <2>3 DEF RekeyNegotiating, EnterGrp, Sent, SmType, PtkKept
  <2>4. CASE RekeyEstablished(s)
    BY <1>1, <2>4 DEF RekeyEstablished, EnterGrp, SmType, PtkKept
  <2>5. CASE KeyError(s)
    BY <1>1, <2>5 DEF KeyError, EnterGrp, SmType, PtkKept
  <2> QED BY <1>2, <1>3, <2>2, <2>3, <2>4, <2>5 DEF PtkGroupSm, GroupStays
<1>4. CASE Round(s)
  <2>1. \/ sm' = sm
        \/ sm' = [sm EXCEPT ![s] = [sm[s] EXCEPT !.changed = FALSE]]
    BY <1>4 DEF Round, EndRound, Step
  <2> DEFINE q == [sm[s] EXCEPT !.changed = FALSE]
  <2>2. q.ptk = sm[s].ptk
    BY <1>1 DEF SmType
  <2> HIDE DEF q
  <2>3. sm' = sm \/ sm' = [sm EXCEPT ![s] = q]
    BY <2>1 DEF q
  <2> QED BY <1>1, <1>2, <2>2, <2>3 DEF PtkKept
<1> QED BY <1>3, <1>4 DEF SmStep

(* A wpa_sm_step is called for s, from the rest of a handler.               *)
LEMMA CallRetry ==
  ASSUME IInv, RetryInv, Returned, NEW s \in Sta, NEW r \in SmType,
         NEW g \in GroupType, Step(s, r, g),
         r.timeout_next = sm[s].timeout_next, r.ptk = sm[s].ptk,
         r.TimeoutCtr = sm[s].TimeoutCtr, r.GTimeoutCtr = sm[s].GTimeoutCtr,
         "Init" \in r.ask => r.ask = {"Init"} /\ Follows(s)',
         AnswerFits(r, "ptk"), AckFits(r, "ptk"),
         \A t \in Sta \ {s} : Follows(t) => Follows(t)'
  PROVE  RetryInv' /\ PtkKept
<1>1. sm \in [Sta -> SmType] /\ sm[s] \in SmType
  BY DEF IInv, TypeOK
<1>2. call.of = {} /\ Place(s) = "idle" /\ Fits(sm[s], "idle", Follows(s))
  BY DEF Returned, NoCall, Place, RetryInv
<1>3. /\ sm' = [sm EXCEPT ![s] = [r EXCEPT !.changed = FALSE]]
      /\ call'.of = {s} /\ Place(s)' = "ptk"
  BY DEF Step, GoTo, Place
<1> DEFINE q == [r EXCEPT !.changed = FALSE]
<1>4. Fits(q, "ptk", Follows(s)')
  BY <1>1, <1>2, CalledFits
<1> HIDE DEF q
<1>5. sm'[s] = q /\ \A t \in Sta \ {s} : sm'[t] = sm[t]
  BY <1>1, <1>3 DEF q
<1>6. q.ptk = sm[s].ptk
  BY DEF q, SmType
<1>7. RetryInv'
  BY <1>2, <1>3, <1>4, <1>5, OneFits
<1>8. PtkKept
  BY <1>5, <1>6 DEF PtkKept
<1> QED BY <1>7, <1>8

(* s changes at rest.                                                       *)
LEMMA RestRetry ==
  ASSUME IInv, RetryInv, Returned, NEW s \in Sta, NEW r,
         sm' = [sm EXCEPT ![s] = r], call' = call,
         r.ptk \in {sm[s].ptk, "INITIALIZE"},
         Fits(r, "idle", Follows(s)'),
         \A t \in Sta \ {s} : Follows(t) => Follows(t)'
  PROVE  RetryInv' /\ PtkKept
<1>1. sm \in [Sta -> SmType]
  BY DEF IInv, TypeOK
<1>2. call.of = {} /\ call'.of = {} /\ Place(s)' = "idle"
  BY DEF Returned, NoCall, Place
<1>5. sm'[s] = r /\ \A t \in Sta \ {s} : sm'[t] = sm[t]
  BY <1>1
<1>6. RetryInv'
  BY <1>2, <1>5, OneFits
<1>7. PtkKept
  BY <1>5 DEF PtkKept
<1> QED BY <1>6, <1>7

(* What is known of s between two calls.                                    *)
LEMMA AtRest ==
  ASSUME IInv, RetryInv, Returned, NEW s \in Sta
  PROVE  /\ sm \in [Sta -> SmType] /\ sm[s] \in SmType /\ group \in GroupType
         /\ Fits(sm[s], "idle", Follows(s))
         /\ sm[s].ask \subseteq {"Init"}
         /\ "Init" \in sm[s].ask => Follows(s)
         /\ sm[s].rx \notin {"pairwise", "wrong", "group"}
         /\ sm[s].timeout_next = "NULLFUNC" =>
               /\ sm[s].TimeoutCtr <= UpdateCount
               /\ sm[s].GTimeoutCtr <= UpdateCount
<1>1. sm \in [Sta -> SmType] /\ sm[s] \in SmType /\ group \in GroupType
  BY DEF IInv, TypeOK
<1>2. Fits(sm[s], "idle", Follows(s))
  BY DEF Returned, NoCall, Place, RetryInv
<1>3. UpdateCount \in Nat
  BY WpaAuthAssumption
<1> QED BY <1>1, <1>2, <1>3
     DEF Fits, AskFits, AnswerFits, AckFits, TriesFit, GTriesFit, Answer, SmType

(* A running wpa_rekey_gtk.                                                 *)
LEMMA RekeyingRetry ==
  ASSUME IInv, RetryInv, Rekeying
  PROVE  RetryInv' /\ PtkKept
<1>1. CASE sm' = sm /\ call' = call /\ next' = next
  BY <1>1 DEF RetryInv, Place, Follows, PtkKept
<1>2. CASE RekeySetKeys
  <2>1. ASSUME NEW t \in Sta
        PROVE  Fits(sm'[t], Place(t)', Follows(t)')
    <3>1. /\ sm'[t] = NewGtk(sm[t])
          /\ Place(t)' = Place(t) /\ Follows(t)' = Follows(t)
      BY <1>2 DEF RekeySetKeys, Place, Follows
    <3>2. sm[t] \in SmType /\ Fits(sm[t], Place(t), Follows(t))
      BY DEF IInv, TypeOK, RetryInv
    <3> QED BY <3>1, <3>2, NewGtkFits
  <2>2. ASSUME NEW t \in Sta
        PROVE  sm'[t].ptk = sm[t].ptk
    <3>1. sm'[t] = NewGtk(sm[t]) /\ sm[t] \in SmType
      BY <1>2 DEF RekeySetKeys, IInv, TypeOK
    <3> QED BY <3>1 DEF NewGtk, SmType
  <2> QED BY <2>1, <2>2 DEF RetryInv, PtkKept
<1>3. ASSUME NEW s \in Sta, Skip(s)
      PROVE  RetryInv' /\ PtkKept
  <2> DEFINE r == [sm[s] EXCEPT !.GUpdateStationKeys = FALSE]
  <2>1. /\ sm' = [sm EXCEPT ![s] = r] /\ Returned
        /\ UNCHANGED <<call, next>>
    BY <1>3 DEF Skip
  <2>2. Fits(r, "idle", Follows(s))
    BY <2>1, AtRest DEF Fits, AskFits, AnswerFits, AckFits, TriesFit, GTriesFit,
                        Answer, SmType
  <2>4. r.ptk = sm[s].ptk
    BY <2>1, AtRest DEF SmType
  <2>3. \A t \in Sta : Follows(t)' = Follows(t)
    BY <2>1 DEF Follows
  <2> HIDE DEF r
  <2> QED BY <2>1, <2>2, <2>3, <2>4, RestRetry
<1>4. ASSUME NEW s \in Sta, Update(s)
      PROVE  RetryInv' /\ PtkKept
  <2> DEFINE r == [sm[s] EXCEPT !.GUpdateStationKeys = TRUE]
             c == group.GKeyDoneStations + 1
             g == [group EXCEPT !.GKeyDoneStations = c]
  <2>1. Step(s, r, g) /\ Returned /\ next' = next
    BY <1>4 DEF Update
  <2>2. c \in Nat
    BY <2>1, AtRest DEF GroupType
  <2> HIDE DEF c
  <2>3. r \in SmType /\ g \in GroupType
    <3>1. sm[s] \in SmType /\ group \in GroupType
      BY <2>1, AtRest
    <3>2. r \in SmType
      BY <3>1 DEF SmType
    <3>3. g \in GroupType
      BY <2>2, <3>1 DEF GroupType
    <3> QED BY <3>2, <3>3
  <2>4. /\ r.timeout_next = sm[s].timeout_next /\ r.ptk = sm[s].ptk
        /\ r.TimeoutCtr = sm[s].TimeoutCtr /\ r.GTimeoutCtr = sm[s].GTimeoutCtr
        /\ "Init" \in r.ask => r.ask = {"Init"} /\ Follows(s)
        /\ r.rx \notin {"pairwise", "wrong", "group"}
    BY <2>1, AtRest DEF SmType
  <2>5. \A t \in Sta : Follows(t)' = Follows(t)
    BY <2>1 DEF Follows
  <2> HIDE DEF r, g
  <2>6. AnswerFits(r, "ptk") /\ AckFits(r, "ptk")
    BY <2>4 DEF AnswerFits, AckFits, Answer
  <2> QED BY <2>1, <2>3, <2>4, <2>5, <2>6, CallRetry
<1> QED BY <1>1, <1>2, <1>3, <1>4
        DEF Rekeying, RekeySetKeysDone, RekeyVisited, RekeyReturns

(* The rest of a handler: what is asked for is asked before the call.       *)
LEMMA RestOfHandlerRetry ==
  ASSUME IInv, RetryInv, NEW s \in Sta, Rest(s)
  PROVE  RetryInv' /\ PtkKept
<1>1. Returned /\ ~Follows(s) => Returned /\ sm[s].ask = {}
  BY AtRest
<1>2. Returned /\ next.of = {s}
  BY DEF Rest, NewAssoc, Initialized, ReAssoc, Free, KeyReceived, Continues
<1>3. \A t \in Sta \ {s} : Follows(t) = FALSE
  BY <1>2 DEF Follows
<1>4. sm[s] \in SmType /\ group \in GroupType
      /\ sm[s].rx \notin {"pairwise", "wrong", "group"}
      /\ sm[s].ask \subseteq {"Init"}
  BY <1>2, AtRest
<1> USE DEF AnswerFits, AckFits, Answer
<1>5. CASE NewAssoc(s)
  <2>1. next = [do |-> "newAssoc", of |-> {s}]
    BY <1>5 DEF NewAssoc, Continues
  <2>2. sm[s].ask = {}
    BY <1>1, <1>2, <2>1 DEF Follows
  <2>3. CASE sm[s].started
    <3> DEFINE r == [sm[s] EXCEPT !.key_replay = <<>>,
                       !.ask = @ \cup {"ReAuthenticationRequest"}]
    <3>1. <<>> \in Seq(Frames)
      OBVIOUS
    <3>2. r \in SmType /\ Step(s, r, group)
      BY <1>4, <1>5, <2>3, <3>1 DEF NewAssoc, SmType, Rank
    <3>3. /\ r.timeout_next = sm[s].timeout_next /\ r.ptk = sm[s].ptk
          /\ r.rx = sm[s].rx
          /\ r.TimeoutCtr = sm[s].TimeoutCtr
          /\ r.GTimeoutCtr = sm[s].GTimeoutCtr
          /\ "Init" \notin r.ask
      BY <1>4, <2>2 DEF SmType
    <3> HIDE DEF r
    <3> QED BY <1>2, <1>3, <1>4, <3>2, <3>3, CallRetry
  <2>4. CASE ~sm[s].started
    <3> DEFINE r == [sm[s] EXCEPT !.started = TRUE, !.ask = @ \cup {"Init"}]
    <3>2. r \in SmType /\ Step(s, r, group)
      BY <1>4, <1>5, <2>4 DEF NewAssoc, SmType, Rank
    <3>3. /\ r.timeout_next = sm[s].timeout_next /\ r.ptk = sm[s].ptk
          /\ r.rx = sm[s].rx
          /\ r.TimeoutCtr = sm[s].TimeoutCtr
          /\ r.GTimeoutCtr = sm[s].GTimeoutCtr
          /\ r.ask = {"Init"}
      BY <1>4, <2>2 DEF SmType
    <3>4. Follows(s)'
      BY <1>5, <2>4 DEF NewAssoc, Then, Follows
    <3> HIDE DEF r
    <3> QED BY <1>2, <1>3, <1>4, <3>2, <3>3, <3>4, CallRetry
  <2> QED BY <2>3, <2>4
<1>6. CASE Initialized(s)
  <2> DEFINE r == [sm[s] EXCEPT !.ask = (@ \ {"Init"}) \cup
                                          {"AuthenticationRequest"}]
  <2>1. r \in SmType /\ Step(s, r, group)
    BY <1>4, <1>6 DEF Initialized, SmType, Rank
  <2>2. /\ r.timeout_next = sm[s].timeout_next /\ r.ptk = sm[s].ptk
        /\ r.rx = sm[s].rx
        /\ r.TimeoutCtr = sm[s].TimeoutCtr /\ r.GTimeoutCtr = sm[s].GTimeoutCtr
        /\ "Init" \notin r.ask
    BY <1>4 DEF SmType
  <2> HIDE DEF r
  <2> QED BY <1>2, <1>3, <1>4, <2>1, <2>2, CallRetry
<1>7. CASE ReAssoc(s)
  <2>1. next = [do |-> "reAssoc", of |-> {s}]
    BY <1>7 DEF ReAssoc, Continues
  <2>2. sm[s].ask = {}
    BY <1>1, <1>2, <2>1 DEF Follows
  <2> DEFINE a == sm[s].ask \cup {"ReAuthenticationRequest"} \cup
                  (IF sm[s].GUpdateStationKeys THEN {"PtkGroupInit"} ELSE {})
             r == [sm[s] EXCEPT !.GUpdateStationKeys = FALSE,
                                !.PTK_valid = FALSE, !.ask = a]
             c == group.GKeyDoneStations - Marks(sm[s])
             g == [group EXCEPT !.GKeyDoneStations = c]
  <2>3. Step(s, r, g)
    BY <1>7 DEF ReAssoc
  <2>4. a \in SUBSET DOMAIN Rank /\ "Init" \notin a
    BY <2>2 DEF Rank
  <2>5. c \in Nat
    <3>1. todo = {}
      BY <1>7, NoneToVisit DEF ReAssoc, Continues
    <3> QED BY <3>1, CountFalls
  <2> HIDE DEF a, c
  <2>6. r \in SmType /\ g \in GroupType
    BY <1>4, <2>4, <2>5 DEF SmType, GroupType
  <2>7. /\ r.timeout_next = sm[s].timeout_next /\ r.ptk = sm[s].ptk
        /\ r.rx = sm[s].rx
        /\ r.TimeoutCtr = sm[s].TimeoutCtr /\ r.GTimeoutCtr = sm[s].GTimeoutCtr
        /\ "Init" \notin r.ask
    BY <1>4, <2>4 DEF SmType
  <2> HIDE DEF r, g
  <2> QED BY <1>2, <1>3, <1>4, <2>3, <2>6, <2>7, CallRetry
<1>8. CASE Free(s)
  <2>1. sm' = [sm EXCEPT ![s] = Absent] /\ call' = call
    BY <1>8 DEF Free, FreeSta
  <2> QED BY <1>2, <1>3, <2>1, AbsentFits, RestRetry DEF Absent
<1>9. CASE KeyReceived(s)
  <2>1. next = [do |-> "keyReceived", of |-> {s}]
    BY <1>9 DEF KeyReceived, Continues
  <2>2. sm[s].ask = {}
    BY <1>1, <1>2, <2>1 DEF Follows
  <2> DEFINE r == [sm[s] EXCEPT !.rx = "request"]
  <2>3. r \in SmType /\ Step(s, r, group)
    BY <1>4, <1>9 DEF KeyReceived, SmType
  <2>4. /\ r.timeout_next = sm[s].timeout_next /\ r.ptk = sm[s].ptk
        /\ r.rx = "request"
        /\ r.TimeoutCtr = sm[s].TimeoutCtr /\ r.GTimeoutCtr = sm[s].GTimeoutCtr
        /\ "Init" \notin r.ask
    BY <1>4, <2>2 DEF SmType
  <2> HIDE DEF r
  <2> QED BY <1>2, <1>3, <1>4, <2>3, <2>4, CallRetry
<1> QED BY <1>5, <1>6, <1>7, <1>8, <1>9 DEF Rest
-----------------------------------------------------------------------------
(* The events: nothing is asked of any station, and next is empty.          *)
LEMMA AssociationRetry ==
  ASSUME IInv, RetryInv, NEW s \in Sta,
         Associate(s) \/ Disassociate(s) \/ Remove(s) \/ Inactive(s)
  PROVE  RetryInv' /\ PtkKept
<1>1. Idle /\ Returned
  BY DEF Associate, Disassociate, Remove, Inactive, Idle
<1>2. \A t \in Sta : Follows(t) = FALSE
  BY <1>1 DEF Idle, NoNext, Follows
<1>3. /\ sm[s] \in SmType /\ group \in GroupType
      /\ sm[s].rx \notin {"pairwise", "wrong", "group"}
      /\ sm[s].ask = {} /\ Fits(sm[s], "idle", FALSE)
  BY <1>1, <1>2, AtRest
<1>4. CASE Associate(s)
  <2> DEFINE r == [sm[s] EXCEPT !.known = TRUE, !.assoc = TRUE,
                                !.PTK_valid = FALSE]
  <2>1. r \in SmType /\ Step(s, r, group)
    BY <1>3, <1>4 DEF Associate, SmType
  <2>2. /\ r.timeout_next = sm[s].timeout_next /\ r.ptk = sm[s].ptk
        /\ r.rx = sm[s].rx
        /\ r.TimeoutCtr = sm[s].TimeoutCtr /\ r.GTimeoutCtr = sm[s].GTimeoutCtr
        /\ "Init" \notin r.ask
    BY <1>3 DEF SmType
  <2> HIDE DEF r
  <2>3. AnswerFits(r, "ptk") /\ AckFits(r, "ptk")
    BY <1>3, <2>2 DEF AnswerFits, AckFits, Answer
  <2> QED BY <1>1, <1>2, <1>3, <2>1, <2>2, <2>3, CallRetry
<1>5. CASE Disassociate(s)
  <2> DEFINE r == [sm[s] EXCEPT !.assoc = FALSE, !.PTK_valid = FALSE,
                     !.ask = @ \cup {"DeauthenticationRequest"}]
  <2>1. r \in SmType /\ Step(s, r, group)
    BY <1>3, <1>5, ZenonT(30) DEF Disassociate, SmType, Rank
  <2>2. /\ r.timeout_next = sm[s].timeout_next /\ r.ptk = sm[s].ptk
        /\ r.rx = sm[s].rx
        /\ r.TimeoutCtr = sm[s].TimeoutCtr /\ r.GTimeoutCtr = sm[s].GTimeoutCtr
        /\ "Init" \notin r.ask
    BY <1>3 DEF SmType
  <2> HIDE DEF r
  <2>3. AnswerFits(r, "ptk") /\ AckFits(r, "ptk")
    BY <1>3, <2>2 DEF AnswerFits, AckFits, Answer
  <2> QED BY <1>1, <1>2, <1>3, <2>1, <2>2, <2>3, CallRetry
<1>6. CASE Remove(s)
  <2>1. sm' = [sm EXCEPT ![s] = Absent] /\ call' = call
    BY <1>6 DEF Remove, FreeSta
  <2> QED BY <1>1, <1>2, <2>1, AbsentFits, RestRetry DEF Absent
<1>7. CASE Inactive(s)
  <2> DEFINE r == [sm[s] EXCEPT !.assoc = FALSE, !.timeout_next = "DEAUTH"]
  <2>1. sm' = [sm EXCEPT ![s] = r] /\ call' = call /\ next' = next
    BY <1>1, AtRest, <1>7 DEF Inactive
  <2>2. Fits(r, "idle", Follows(s)')
    BY <1>3 DEF Fits, AskFits, AnswerFits, AckFits, TriesFit, GTriesFit,
                Answer, SmType
  <2>3. r.ptk = sm[s].ptk
    BY <1>3 DEF SmType, StopTimers
  <2> HIDE DEF r
  <2> QED BY <1>1, <1>2, <2>1, <2>2, <2>3, RestRetry
<1> QED BY <1>4, <1>5, <1>6, <1>7

(* The timer, and the acknowledgement that sets it anew.                    *)
LEMMA TimerRetry ==
  ASSUME IInv, RetryInv, NEW s \in Sta, Timeout(s) \/ TxStatus(s)
  PROVE  RetryInv' /\ PtkKept
<1>1. Idle /\ Returned
  BY DEF Timeout, TxStatus, Idle
<1>2. \A t \in Sta : Follows(t) = FALSE
  BY <1>1 DEF Idle, NoNext, Follows
<1>3. /\ sm[s] \in SmType /\ group \in GroupType
      /\ sm[s].rx \notin {"pairwise", "wrong", "group"}
      /\ sm[s].ask = {} /\ Fits(sm[s], "idle", FALSE)
  BY <1>1, <1>2, AtRest
<1>4. CASE Timeout(s)
  <2> DEFINE c == sm[s].timers - 1
             r == [sm[s] EXCEPT !.timers = c, !.TimeoutEvt = TRUE,
                                !.pending_1_of_4_timeout = FALSE]
  <2>1. Step(s, r, group)
    BY <1>4 DEF Timeout
  <2>2. c \in Nat
    BY <1>3, <1>4 DEF Timeout, SmType
  <2> HIDE DEF c
  <2>3. r \in SmType
    BY <1>3, <2>2 DEF SmType
  <2>4. /\ r.timeout_next = sm[s].timeout_next /\ r.ptk = sm[s].ptk
        /\ r.rx = sm[s].rx
        /\ r.TimeoutCtr = sm[s].TimeoutCtr /\ r.GTimeoutCtr = sm[s].GTimeoutCtr
        /\ "Init" \notin r.ask
    BY <1>3 DEF SmType
  <2> HIDE DEF r
  <2>5. AnswerFits(r, "ptk") /\ AckFits(r, "ptk")
    BY <1>3, <2>4 DEF AnswerFits, AckFits, Answer
  <2> QED BY <1>1, <1>2, <1>3, <2>1, <2>3, <2>4, <2>5, CallRetry
<1>5. CASE TxStatus(s)
  <2> DEFINE r == [sm[s] EXCEPT !.timers = 1]
  <2>1. sm' = [sm EXCEPT ![s] = r] /\ call' = call
    BY <1>1, AtRest, <1>5 DEF TxStatus
  <2>2. Fits(r, "idle", Follows(s)')
    BY <1>3 DEF Fits, AskFits, AnswerFits, AckFits, TriesFit, GTriesFit,
                Answer, SmType
  <2>3. r.ptk = sm[s].ptk
    BY <1>3 DEF SmType, StopTimers
  <2> HIDE DEF r
  <2> QED BY <1>1, <1>2, <2>1, <2>2, <2>3, RestRetry
<1> QED BY <1>4, <1>5

(* A frame that is taken is consumed in the call it is taken in.            *)
LEMMA ReceiveRetry ==
  ASSUME IInv, RetryInv, NEW s \in Sta, Receive(s)
  PROVE  RetryInv' /\ PtkKept
<1>1. Idle /\ Returned
  BY DEF Receive, Pairwise2, Pairwise4, Group2, BadMic, RequestPtk,
         RequestGtk, Idle
<1>2. \A t \in Sta : Follows(t) = FALSE
  BY <1>1 DEF Idle, NoNext, Follows
<1>3. /\ sm[s] \in SmType /\ group \in GroupType /\ sm \in [Sta -> SmType]
      /\ sm[s].rx \notin {"pairwise", "wrong", "group"}
      /\ sm[s].ask = {} /\ Fits(sm[s], "idle", FALSE)
  BY <1>1, <1>2, AtRest
<1>4. <<>> \in Seq(Frames) /\ DOMAIN <<>> = {}
  OBVIOUS
<1>5. CASE Pairwise2(s)
  <2>1. PICK what \in {"pairwise", "wrong"} :
          \/ sm' = [sm EXCEPT ![s] = Dropped(sm[s])] /\ call' = call
          \/ Step(s, [sm[s] EXCEPT !.MICVerified = FALSE,
                        !.key_replay = <<>>, !.rx = what], group)
    BY <1>1, <1>5 DEF Pairwise2
  <2>2. next' = next /\ sm[s].ptk \in {"PTKSTART", "PTKCALCNEGOTIATING"}
    BY <1>5 DEF Pairwise2
  <2>3. \A t \in Sta : Follows(t)' = Follows(t)
    BY <2>2 DEF Follows
  <2> DEFINE r == [sm[s] EXCEPT !.MICVerified = FALSE,
                                !.key_replay = <<>>, !.rx = what]
  <2>4. r \in SmType
    BY <1>3, <1>4 DEF SmType
  <2>5. /\ r.timeout_next = sm[s].timeout_next /\ r.ptk = sm[s].ptk
        /\ r.rx = what
        /\ r.TimeoutCtr = sm[s].TimeoutCtr /\ r.GTimeoutCtr = sm[s].GTimeoutCtr
        /\ r.ask = {} /\ ~r.MICVerified /\ r.key_replay = <<>>
        /\ r.ptk = sm[s].ptk
    BY <1>3 DEF SmType
  <2>6. CASE Step(s, r, group)
    <3> HIDE DEF r
    <3>1. AnswerFits(r, "ptk") /\ AckFits(r, "ptk")
      BY <1>4, <2>2, <2>5 DEF AnswerFits, AckFits, Answer
    <3> QED BY <1>1, <1>3, <2>3, <2>4, <2>5, <2>6, <3>1, CallRetry
  <2>7. CASE sm' = [sm EXCEPT ![s] = Dropped(sm[s])] /\ call' = call
    <3>1. Fits(Dropped(sm[s]), "idle", Follows(s)')
      BY <1>2, <1>3, <2>3 DEF Fits, AskFits, AnswerFits, AckFits, TriesFit,
                  GTriesFit, Answer, SmType, Dropped
    <3>2. Dropped(sm[s]).ptk = sm[s].ptk
      BY <1>3 DEF Dropped, SmType
    <3> QED BY <1>1, <2>3, <2>7, <3>1, <3>2, RestRetry
  <2> QED BY <2>1, <2>6, <2>7
<1>6. CASE Pairwise4(s)
  <2>1. PICK frame \in {"m3", "m3old"} :
          Step(s, [Taken(sm[s], "pairwise") EXCEPT
                     !.fresh = IF s \in Wpa2 THEN frame = "m3" ELSE @], group)
    BY <1>6 DEF Pairwise4
  <2> DEFINE q == Taken(sm[s], "pairwise")
             b == IF s \in Wpa2 THEN frame = "m3" ELSE q.fresh
             r == [q EXCEPT !.fresh = b]
  <2>2. q \in SmType
    BY <1>3, TakenType
  <2>3. /\ q.timeout_next = sm[s].timeout_next /\ q.ptk = sm[s].ptk
        /\ q.rx = "pairwise"
        /\ q.TimeoutCtr = sm[s].TimeoutCtr /\ q.GTimeoutCtr = sm[s].GTimeoutCtr
        /\ q.ask = {} /\ q.MICVerified /\ q.key_replay = <<>>
        /\ q.ptk = "PTKINITNEGOTIATING"
    BY <1>3, <1>6 DEF Pairwise4, Taken, StopTimers, SmType
  <2>4. Step(s, r, group) /\ next' = next
    BY <1>6, <2>1 DEF Pairwise4
  <2> HIDE DEF q
  <2>5. b \in BOOLEAN
    BY <2>2 DEF SmType
  <2> HIDE DEF b
  <2>6. /\ r \in SmType
        /\ r.timeout_next = sm[s].timeout_next /\ r.ptk = sm[s].ptk
        /\ r.rx = "pairwise"
        /\ r.TimeoutCtr = sm[s].TimeoutCtr /\ r.GTimeoutCtr = sm[s].GTimeoutCtr
        /\ r.ask = {} /\ r.MICVerified /\ r.key_replay = <<>>
        /\ r.ptk = "PTKINITNEGOTIATING"
    BY <2>2, <2>3, <2>5 DEF SmType
  <2> HIDE DEF r
  <2>7. AnswerFits(r, "ptk") /\ AckFits(r, "ptk")
    BY <1>4, <2>6 DEF AnswerFits, AckFits, Answer
  <2>8. \A t \in Sta : Follows(t)' = Follows(t)
    BY <2>4 DEF Follows
  <2> QED BY <1>1, <1>3, <2>4, <2>6, <2>7, <2>8, CallRetry
<1>7. CASE Group2(s)
  <2>1. PICK frame \in {"g1", "g1old"} :
          Step(s, [Taken(sm[s], "group") EXCEPT !.fresh = frame = "g1"], group)
    BY <1>7 DEF Group2
  <2> DEFINE q == Taken(sm[s], "group")
             b == frame = "g1"
             r == [q EXCEPT !.fresh = b]
  <2>2. q \in SmType
    BY <1>3, TakenType
  <2>3. /\ q.timeout_next = sm[s].timeout_next /\ q.ptk = sm[s].ptk
        /\ q.rx = "group"
        /\ q.TimeoutCtr = sm[s].TimeoutCtr /\ q.GTimeoutCtr = sm[s].GTimeoutCtr
        /\ q.ask = {} /\ q.MICVerified
        /\ q.grp = "REKEYNEGOTIATING"
    BY <1>3, <1>7 DEF Group2, Taken, StopTimers, SmType
  <2>4. Step(s, r, group) /\ next' = next
    BY <1>7, <2>1 DEF Group2
  <2>5. b \in BOOLEAN
    OBVIOUS
  <2> HIDE DEF q, b
  <2>6. /\ r \in SmType
        /\ r.timeout_next = sm[s].timeout_next /\ r.ptk = sm[s].ptk
        /\ r.rx = "group"
        /\ r.TimeoutCtr = sm[s].TimeoutCtr /\ r.GTimeoutCtr = sm[s].GTimeoutCtr
        /\ r.ask = {} /\ r.MICVerified
        /\ r.grp = "REKEYNEGOTIATING"
    BY <2>2, <2>3, <2>5 DEF SmType
  <2> HIDE DEF r
  <2>7. AnswerFits(r, "ptk") /\ AckFits(r, "ptk")
    BY <2>6 DEF AnswerFits, AckFits, Answer
  <2>8. \A t \in Sta : Follows(t)' = Follows(t)
    BY <2>4 DEF Follows
  <2> QED BY <1>1, <1>3, <2>4, <2>6, <2>7, <2>8, CallRetry
<1>8. CASE BadMic(s)
  <2> DEFINE r == [sm[s] EXCEPT !.MICVerified = FALSE]
  <2>1. sm' = [sm EXCEPT ![s] = r] /\ call' = call
    BY <1>3, <1>8 DEF BadMic
  <2>2. Fits(r, "idle", Follows(s)')
    BY <1>3 DEF Fits, AskFits, AnswerFits, AckFits, TriesFit, GTriesFit,
                Answer, SmType
  <2>3. r.ptk = sm[s].ptk
    BY <1>3 DEF SmType, StopTimers
  <2> HIDE DEF r
  <2> QED BY <1>1, <1>2, <2>1, <2>2, <2>3, RestRetry
<1>9. CASE RequestPtk(s)
  <2> DEFINE q == StopTimers(sm[s])
             r == [q EXCEPT !.MICVerified = TRUE, !.PTK_valid = FALSE,
                            !.rx = "request", !.ask = @ \cup {"PTKRequest"}]
  <2>1. Step(s, r, group)
    BY <1>9 DEF RequestPtk
  <2>2. /\ q \in SmType
        /\ q.timeout_next = sm[s].timeout_next /\ q.ptk = sm[s].ptk
        /\ q.TimeoutCtr = sm[s].TimeoutCtr /\ q.GTimeoutCtr = sm[s].GTimeoutCtr
        /\ q.ask = {}
    BY <1>3, StopTimersType, ZenonT(30) DEF StopTimers, SmType
  <2> HIDE DEF q
  <2>3. /\ r \in SmType
        /\ r.timeout_next = sm[s].timeout_next /\ r.ptk = sm[s].ptk
        /\ r.rx = "request"
        /\ r.TimeoutCtr = sm[s].TimeoutCtr /\ r.GTimeoutCtr = sm[s].GTimeoutCtr
        /\ "Init" \notin r.ask
    BY <2>2, ZenonT(30) DEF SmType, Rank
  <2> HIDE DEF r
  <2>4. AnswerFits(r, "ptk") /\ AckFits(r, "ptk")
    BY <2>3 DEF AnswerFits, AckFits, Answer
  <2> QED BY <1>1, <1>2, <1>3, <2>1, <2>3, <2>4, CallRetry
<1>10. CASE RequestGtk(s)
  <2> DEFINE r == [StopTimers(sm[s]) EXCEPT !.MICVerified = TRUE]
  <2>1. sm' = [sm EXCEPT ![s] = r] /\ call' = call
    BY <1>3, <1>10 DEF RequestGtk
  <2>2. Fits(r, "idle", Follows(s)')
    BY <1>3 DEF Fits, AskFits, AnswerFits, AckFits, TriesFit, GTriesFit,
                Answer, SmType, StopTimers
  <2>3. r.ptk = sm[s].ptk
    BY <1>3 DEF SmType, StopTimers
  <2> HIDE DEF r
  <2> QED BY <1>1, <1>2, <2>1, <2>2, <2>3, RestRetry
<1> QED BY <1>5, <1>6, <1>7, <1>8, <1>9, <1>10 DEF Receive
-----------------------------------------------------------------------------
(* The invariant holds at first and is kept by every step.                  *)
LEMMA InitRetry == Init => RetryInv
BY AbsentFits DEF Init, RetryInv

LEMMA NextRetry ==
  ASSUME IInv, RetryInv, [Next]_vars
  PROVE  RetryInv' /\ (PtkKept \/ \E s \in Sta : PtkSm(s))
<1>1. CASE Rekeying
  BY <1>1, RekeyingRetry
<1>2. ASSUME NEW s \in Sta, SmStep(s)
      PROVE  RetryInv' /\ (PtkKept \/ PtkSm(s))
  BY <1>2, SmStepRetry, SmStepKeepsPtk
<1>3. ASSUME NEW s \in Sta, Rest(s)
      PROVE  RetryInv' /\ PtkKept
  BY <1>3, RestOfHandlerRetry
<1>4. CASE RekeyGtk \/ UNCHANGED vars
  BY <1>4 DEF RekeyGtk, vars, RetryInv, Place, Follows, PtkKept
<1>5. ASSUME NEW s \in Sta, Event(s)
      PROVE  RetryInv' /\ PtkKept
  BY <1>5, AssociationRetry, TimerRetry, ReceiveRetry DEF Event
<1> QED BY <1>1, <1>2, <1>3, <1>4, <1>5 DEF Next, Internal

(* Of the steps of the pairwise machine only one leads to its last state.   *)
Done(s) == sm[s].ptk # "PTKINITDONE" /\ sm'[s].ptk = "PTKINITDONE"

LEMMA DoneOnly ==
  ASSUME IInv, NEW t \in Sta, PtkSm(t), NEW s \in Sta, Done(s)
  PROVE  s = t /\ PtkInitDone(s)
<1>0. sm \in [Sta -> SmType] /\ \A u \in Sta : sm[u] \in SmType
  BY DEF IInv, TypeOK
<1>1. CASE Authentication2(t)
  BY <1>0, <1>1 DEF Authentication2, Done, NewGtk, SmType
<1>2. CASE PtkStays(t)
  BY <1>2 DEF PtkStays, Done
<1>13. CASE Initialize(t)
  <2> DEFINE r == [sm[t] EXCEPT !.ptk = "INITIALIZE",
                     !.changed = "Init" \notin sm[t].ask,
                     !.GUpdateStationKeys = FALSE,
                     !.PInitAKeys = @ /\ t \in Wpa2,
                     !.PTK_valid = FALSE, !.TimeoutCtr = 0]
  <2>1. sm' = [sm EXCEPT ![t] = r]
    BY <1>13 DEF Initialize
  <2>2. r.ptk = "INITIALIZE"
    BY <1>0 DEF SmType
  <2> HIDE DEF r
  <2> QED BY <1>0, <2>1, <2>2 DEF Done
<1>3. ASSUME NEW state \in PtkStates \ {"PTKINITDONE"}, NEW r,
             "ptk" \in DOMAIN r, EnterPtk(t, state, r)
      PROVE  FALSE
  BY <1>0, <1>3 DEF EnterPtk, Done, SmType
<1>4. ASSUME PtkInitDone(t), s # t
      PROVE  FALSE
  BY <1>0, <1>4 DEF PtkInitDone, EnterPtk, Done
<1>5. CASE Disconnect(t)
  BY <1>0, <1>5 DEF Disconnect, EnterPtk, Done, Dropped, SmType
<1>6. CASE EnterDisconnected(t)
  BY <1>0, <1>6 DEF EnterDisconnected, EnterPtk, Done, SmType
<1>10. CASE Authentication(t)
  BY <1>0, <1>10 DEF Authentication, EnterPtk, Done, SmType
<1>11. CASE InitPsk(t)
  BY <1>0, <1>11 DEF InitPsk, EnterPtk, Done, SmType
<1>12. CASE PtkCalcNegotiating2(t)
  BY <1>0, <1>12 DEF PtkCalcNegotiating2, EnterPtk, Done, SmType
<1>7. CASE PtkStart(t)
  <2> DEFINE r == [sm[t] EXCEPT !.ask = @ \ {"PTKRequest"},
                     !.TimeoutEvt = FALSE, !.TimeoutCtr = @ + 1]
             q == [r EXCEPT !.pending_1_of_4_timeout =
                               @ \/ r.TimeoutCtr = 1]
  <2>1. EnterPtk(t, "PTKSTART", r) \/ EnterPtk(t, "PTKSTART", Sent(q, "m1"))
    BY <1>7 DEF PtkStart
  <2>2. "ptk" \in DOMAIN r /\ "ptk" \in DOMAIN Sent(q, "m1")
    BY <1>0 DEF Sent, SmType
  <2> HIDE DEF r, q
  <2> QED BY <2>1, <2>2, <1>3 DEF PtkStates
<1>8. CASE PtkInitNegotiating(t)
  <2> DEFINE r == [sm[t] EXCEPT !.TimeoutEvt = FALSE, !.TimeoutCtr = @ + 1]
  <2>1. \/ EnterPtk(t, "PTKINITNEGOTIATING", r)
        \/ EnterPtk(t, "PTKINITNEGOTIATING", Sent(r, IfKeyed(r, "m3")))
    BY <1>8 DEF PtkInitNegotiating
  <2>2. "ptk" \in DOMAIN r /\ "ptk" \in DOMAIN Sent(r, IfKeyed(r, "m3"))
    BY <1>0 DEF Sent, SmType
  <2> HIDE DEF r
  <2> QED BY <2>1, <2>2, <1>3 DEF PtkStates
<1>9. CASE PtkCalcNegotiating(t)
  <2> DEFINE r == [sm[t] EXCEPT !.rx = "none"]
             q == [StopTimers(r) EXCEPT !.MICVerified = TRUE,
                                        !.PTK_valid = TRUE]
  <2>1. \/ EnterPtk(t, "PTKCALCNEGOTIATING", r)
        \/ EnterPtk(t, "PTKCALCNEGOTIATING", q)
    BY <1>9 DEF PtkCalcNegotiating
  <2>2. "ptk" \in DOMAIN r /\ "ptk" \in DOMAIN q
    BY <1>0 DEF StopTimers, SmType
  <2> HIDE DEF r, q
  <2> QED BY <2>1, <2>2, <1>3 DEF PtkStates
<1> QED BY <1>1, <1>2, <1>4, <1>5, <1>6, <1>7, <1>8, <1>9,
        <1>10, <1>11, <1>12, <1>13 DEF PtkSm

(* A sequence without indices is the empty one.                             *)
LEMMA EmptyDomain ==
  ASSUME NEW q \in Seq(Frames), DOMAIN q = {}
  PROVE  q = <<>>
<1>1. DOMAIN q = 1..Len(q) /\ Len(q) \in Nat
  OBVIOUS
<1>2. Len(q) = 0
  <2>1. Len(q) # 0 => 1 \in 1..Len(q)
    BY <1>1
  <2> QED BY <1>1, <2>1
<1> QED BY <1>2, EmptySeq

(* PTKINITDONE is entered with no frame outstanding.                        *)
LEMMA DoneStep ==
  ASSUME IInv, RetryInv, [Next]_vars, NEW s \in Sta, Done(s)
  PROVE  sm[s].key_replay = <<>>
<1>1. ~PtkKept
  BY DEF PtkKept, Done
<1>2. PtkInitDone(s)
  BY <1>1, NextRetry, DoneOnly
<1>3. Answer(sm[s]) /\ Fits(sm[s], "ptk", Follows(s)) /\ sm[s] \in SmType
  BY <1>2 DEF PtkInitDone, Confirmed, Answered, Answer, At, RetryInv, Place,
              IInv, TypeOK
<1>4. DOMAIN sm[s].key_replay = {} /\ sm[s].key_replay \in Seq(Frames)
  BY <1>3 DEF Fits, AnswerFits, SmType
<1> QED BY <1>4, EmptyDomain

(* 1606, 1805, 2118: "we will disconnect immediately following this".  A     *)
(* station that stays has never spent its tries when the thread is at rest,  *)
(* however the two handshakes and what resets their counters interleave.     *)
THEOREM RetriesBounded == Spec => []SpentDisconnected
<1>1. IInv /\ RetryInv => SpentDisconnected
  BY AtRest DEF SpentDisconnected, Idle, Staying
<1>2. IInv /\ RetryInv /\ [Next]_vars => IInv' /\ RetryInv'
  BY NextInv, NextRetry
<1> QED BY <1>1, <1>2, InitInv, InitRetry, PTL DEF Spec

(* 1925: the step into PTKINITDONE finds no frame outstanding.  The frame it *)
(* consumes has emptied key_replay, and no frame is sent in between, so that *)
(* a repeated 2/4 is not taken for the 4/4.                                  *)
THEOREM EndsAnswered == Spec => DoneAnswered
<1>1. IInv /\ RetryInv /\ [Next]_vars
        => [\A s \in Sta :
              sm[s].ptk # "PTKINITDONE" /\ sm'[s].ptk = "PTKINITDONE"
                => sm[s].key_replay = <<>>]_vars
  BY DoneStep DEF Done
<1>2. IInv /\ RetryInv /\ [Next]_vars => IInv' /\ RetryInv'
  BY NextInv, NextRetry
<1> QED BY <1>1, <1>2, InitInv, InitRetry, PTL DEF Spec, DoneAnswered
=============================================================================
