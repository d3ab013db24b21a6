------------------------------ MODULE WpaAuth ------------------------------
(***************************************************************************)
(* The WPA authenticator of the access point, src/hostapd/src/ap/wpa_auth.c *)
(* as this repository deploys it (pre-shared keys; no 802.11r, no 802.11w): *)
(* the 4-way handshake with every station, the group key handshake, and    *)
(* the rekeying of the group key that runs through both.                   *)
(*                                                                         *)
(* hostapd is one thread.  An event is handled to its end before the next, *)
(* but a handler calls wpa_sm_step, which runs the two state machines of a *)
(* station and the one of the group in turns until nothing changes, and    *)
(* wpa_rekey_gtk calls it once for every station.  Here each entry of a    *)
(* state is a step, and the handler's place is in call (the running        *)
(* wpa_sm_step), rekey and todo (the running wpa_rekey_gtk) and next (what *)
(* is left of the handler).                                                *)
(***************************************************************************)
EXTENDS Integers, FiniteSets, Sequences

CONSTANTS Sta,          \* stations
          Wpa2,         \* those that negotiated WPA2; the others use WPA
          UpdateCount,  \* dot11RSNAConfig{Group,Pairwise}UpdateCount
          Retries,      \* RSNA_MAX_EAPOL_RETRIES, length of key_replay
          MaxTimers,    \* bound on the timers re-associations leave behind
          Returning,    \* stations that associate while a timer of theirs runs
          Adverse       \* the adverse events that happen (see below)

(* "error", "ptk", "gtk": stations request new keys; "wrongKey": a station  *)
(* has another pre-shared key; "mismatch": its 2/4 repeats another IE;      *)
(* "setkey": the driver refuses a pairwise key; "inactive": a station stops *)
(* acknowledging; "entropy": the random pool is not ready when the first    *)
(* station comes; "overlap": the group key is rekeyed while handshakes go   *)
(* on, and not only between them; "pending": a station re-associates in the *)
(* middle of its first group key handshake.                                 *)
Requests == {"error", "ptk", "gtk"}

ASSUME WpaAuthAssumption ==
  /\ IsFiniteSet(Sta) /\ Wpa2 \subseteq Sta /\ Returning \subseteq Sta
  /\ {UpdateCount, Retries, MaxTimers} \subseteq Nat \ {0}
  /\ Adverse \subseteq Requests \cup {"wrongKey", "mismatch", "setkey",
                                      "inactive", "entropy", "overlap",
                                      "pending"}

VARIABLES sm, group, call, todo, rekey, next

vars == <<sm, group, call, todo, rekey, next>>
-----------------------------------------------------------------------------
(* Requests to the state machines of a station, the most urgent first.      *)
Rank == [Init |-> 1, Disconnect |-> 2, DeauthenticationRequest |-> 3,
         AuthenticationRequest |-> 4, ReAuthenticationRequest |-> 5,
         PTKRequest |-> 6, PtkGroupInit |-> 7]

(* What answers may come to: frames sent with a replay counter that is still *)
(* outstanding.  m1old: 1/4 with an earlier ANonce; m3old, g1old: 3/4 and    *)
(* 1/2 with an earlier group key; lost: no frame was sent.                   *)
Frames == {"m1", "m1old", "m3", "m3old", "g1", "g1old", "lost"}

PtkStates == {"INITIALIZE", "DISCONNECT", "DISCONNECTED", "AUTHENTICATION",
              "AUTHENTICATION2", "INITPSK", "PTKSTART", "PTKCALCNEGOTIATING",
              "PTKCALCNEGOTIATING2", "PTKINITNEGOTIATING", "PTKINITDONE"}
GroupStates == {"IDLE", "REKEYNEGOTIATING", "REKEYESTABLISHED", "KEYERROR"}

(* A station that is not known, and (with known) one just allocated.  rx is  *)
(* the received frame not yet consumed, "wrong" if it is a 2/4 that fits no  *)
(* pre-shared key; fresh is history: the last group key that the station     *)
(* acknowledged is the current one.                                          *)
Absent ==
  [known |-> FALSE, assoc |-> FALSE, timeout_next |-> "NULLFUNC",
   started |-> FALSE, ask |-> {}, changed |-> FALSE,
   ptk |-> "INITIALIZE", grp |-> "IDLE", TimeoutCtr |-> 0, GTimeoutCtr |-> 0,
   timers |-> 0, pending_1_of_4_timeout |-> FALSE, TimeoutEvt |-> FALSE,
   rx |-> "none", MICVerified |-> FALSE, PTK_valid |-> FALSE,
   GUpdateStationKeys |-> FALSE, PInitAKeys |-> FALSE,
   key_replay |-> <<>>, fresh |-> FALSE]

(* wpa_group_init has run the group's machine to SETKEYSDONE.               *)
Init ==
  /\ sm = [s \in Sta |-> Absent]
  /\ group = [state |-> "SETKEYSDONE", GKeyDoneStations |-> 0,
              GTKReKey |-> FALSE, changed |-> TRUE, first_sta_seen |-> FALSE,
              reject_4way_hs_for_entropy |-> FALSE,
              pool |-> "entropy" \notin Adverse]
  /\ call = [at |-> "idle", of |-> {}]
  /\ todo = {}
  /\ rekey = "no"
  /\ next = [do |-> "none", of |-> {}]
-----------------------------------------------------------------------------
(* The stack of the running handler.                                        *)
Known == {s \in Sta : sm[s].known}

NoCall  == [at |-> "idle", of |-> {}]
NoNext  == [do |-> "none", of |-> {}]
At(place, s) == call = [at |-> place, of |-> {s}]
GoTo(place, s) == call' = [at |-> place, of |-> {s}]
Then(what, s) == next' = [do |-> what, of |-> {s}]

Returned == call = NoCall
Idle     == Returned /\ rekey = "no" /\ next = NoNext

(* wpa_sm_step(s) is called, with r the state machine of s.                 *)
Step(s, r, g) ==
  /\ sm' = [sm EXCEPT ![s] = [r EXCEPT !.changed = FALSE]]
  /\ group' = [g EXCEPT !.changed = FALSE]
  /\ GoTo("ptk", s)

(* A frame is sent, or not for want of a key, and its timer is started.     *)
Sent(r, frame) ==
  [r EXCEPT !.key_replay = SubSeq(<<frame>> \o @, 1,
                                  IF Len(@) < Retries THEN Len(@) + 1
                                  ELSE Retries),
            !.timers = @ + 1]

IfKeyed(r, frame) == IF r.PTK_valid THEN frame ELSE "lost"

StopTimers(r) ==
  [r EXCEPT !.timers = 0, !.pending_1_of_4_timeout = FALSE]

(* The group key changes: what was sent of it, and acknowledged, is old.    *)
Aged(frame) == CASE frame = "m3" -> "m3old" [] frame = "g1" -> "g1old"
               [] OTHER -> frame
NewGtk(r) ==
  [r EXCEPT !.fresh = FALSE,
            !.key_replay = [i \in DOMAIN @ |-> Aged(@[i])]]

(* One station less to wait for, if r is one.                               *)
Marks(r) == IF r.GUpdateStationKeys THEN 1 ELSE 0
Uncount(r) == group' = [group EXCEPT !.GKeyDoneStations = @ - Marks(r)]

(* ap_sta_disconnect: the station is removed by a timer of 0 s.             *)
Dropped(r) == [r EXCEPT !.assoc = FALSE, !.timeout_next = "REMOVE"]
-----------------------------------------------------------------------------
(* SM_STEP(WPA_PTK): the pairwise machine of s, once in each round.         *)
Urgent(s, a) ==
  a \in sm[s].ask /\ \A b \in sm[s].ask : Rank[a] <= Rank[b]

Calm(s)      == sm[s].ask \subseteq {"PtkGroupInit"}
In(s, state) == Calm(s) /\ sm[s].ptk = state

Answered(s)  == sm[s].rx \in {"pairwise", "wrong"}
Confirmed(s) == Answered(s) /\ sm[s].MICVerified
(* a slip: the limit is off by one *)
ExhaustedLate(s) == sm[s].TimeoutCtr > UpdateCount + 1

Exhausted(s) == sm[s].TimeoutCtr > UpdateCount

(* s enters a state of its pairwise machine, r being what that state does.  *)
EnterPtk(s, state, r) ==
  /\ sm' = [sm EXCEPT ![s] = [r EXCEPT !.ptk = state, !.changed = TRUE]]
  /\ GoTo("grp", s)
  /\ UNCHANGED <<todo, rekey, next>>

(* a slip: the mark is cleared, and still counted *)
InitializeUncounted(s) ==
  /\ At("ptk", s)
  /\ Urgent(s, "Init") \/ In(s, "DISCONNECTED")
  /\ EnterPtk(s, "INITIALIZE", [sm[s] EXCEPT !.GUpdateStationKeys = FALSE,
                                 !.PTK_valid = FALSE, !.TimeoutCtr = 0])
  /\ UNCHANGED group

Initialize(s) ==
  /\ At("ptk", s)
  /\ Urgent(s, "Init") \/ In(s, "DISCONNECTED")
  /\ LET r == [sm[s] EXCEPT !.ptk = "INITIALIZE",
                            !.changed = "Init" \notin sm[s].ask,
                            !.GUpdateStationKeys = FALSE,
                            !.PInitAKeys = @ /\ s \in Wpa2,
                            !.PTK_valid = FALSE, !.TimeoutCtr = 0]
     IN sm' = [sm EXCEPT ![s] = r]
  /\ Uncount(sm[s])
  /\ GoTo("grp", s)
  /\ UNCHANGED <<todo, rekey, next>>

Disconnect(s) ==
  /\ At("ptk", s)
  /\ \/ Urgent(s, "Disconnect")
     \/ In(s, "PTKSTART") /\ Exhausted(s) /\ ~Answered(s)
     \/ In(s, "PTKINITNEGOTIATING") /\ Exhausted(s) /\ ~Confirmed(s)
  /\ EnterPtk(s, "DISCONNECT",
              Dropped([sm[s] EXCEPT !.ask = @ \ {"Disconnect"}]))
  /\ UNCHANGED group

EnterDisconnected(s) ==
  /\ At("ptk", s)
  /\ Urgent(s, "DeauthenticationRequest") \/ In(s, "DISCONNECT")
  /\ EnterPtk(s, "DISCONNECTED",
              [sm[s] EXCEPT !.ask = @ \ {"DeauthenticationRequest"}])
  /\ UNCHANGED group

Authentication(s) ==
  /\ At("ptk", s)
  /\ Urgent(s, "AuthenticationRequest")
  /\ EnterPtk(s, "AUTHENTICATION",
              [sm[s] EXCEPT !.ask = @ \ {"AuthenticationRequest"},
                            !.PTK_valid = FALSE])
  /\ UNCHANGED group

(* A new ANonce; for the first station also a new group key, in the place   *)
(* of the old one.                                                          *)
Authentication2(s) ==
  /\ At("ptk", s)
  /\ Urgent(s, "ReAuthenticationRequest") \/ In(s, "AUTHENTICATION")
  /\ LET r == [sm[s] EXCEPT
                 !.ptk = "AUTHENTICATION2", !.changed = TRUE,
                 !.ask = @ \ {"ReAuthenticationRequest"}, !.TimeoutCtr = 0,
                 !.key_replay = [i \in DOMAIN @ |->
                                   IF @[i] = "m1" THEN "m1old" ELSE @[i]]]
         first == ~group.first_sta_seen
         now   == [sm EXCEPT ![s] = r]
     IN /\ sm' = IF first THEN [t \in Sta |-> NewGtk(now[t])] ELSE now
        /\ group' = [group EXCEPT !.first_sta_seen = TRUE,
                       !.reject_4way_hs_for_entropy = @ \/ (first /\ ~group.pool)]
  /\ GoTo("grp", s)
  /\ UNCHANGED <<todo, rekey, next>>

InitPsk(s) ==
  /\ At("ptk", s)
  /\ In(s, "AUTHENTICATION2")
  /\ EnterPtk(s, "INITPSK", sm[s])
  /\ UNCHANGED group

(* 1/4 is sent, unless the limit is reached.                                *)
PtkStart(s) ==
  /\ At("ptk", s)
  /\ \/ Urgent(s, "PTKRequest")
     \/ In(s, "INITPSK")
     \/ In(s, "PTKSTART") /\ ~Answered(s) /\ ~Exhausted(s) /\ sm[s].TimeoutEvt
     \/ /\ In(s, "PTKCALCNEGOTIATING") /\ ~sm[s].MICVerified
        /\ ~Answered(s) /\ sm[s].TimeoutEvt
  /\ LET r == [sm[s] EXCEPT !.ask = @ \ {"PTKRequest"}, !.TimeoutEvt = FALSE,
                            !.TimeoutCtr = @ + 1]
     IN EnterPtk(s, "PTKSTART",
                 IF r.TimeoutCtr > UpdateCount THEN r
                 ELSE Sent([r EXCEPT !.pending_1_of_4_timeout =
                                         @ \/ r.TimeoutCtr = 1], "m1"))
  /\ UNCHANGED group

(* a slip: the 2/4 is not consumed *)
PtkCalcKeeps(s) ==
  /\ At("ptk", s)
  /\ \/ In(s, "PTKSTART")
     \/ In(s, "PTKCALCNEGOTIATING") /\ ~sm[s].MICVerified
  /\ Answered(s)
  /\ EnterPtk(s, "PTKCALCNEGOTIATING",
              [StopTimers(sm[s]) EXCEPT !.MICVerified = TRUE,
                                        !.PTK_valid = TRUE])
  /\ UNCHANGED group

(* 2/4 is checked against every pre-shared key.                             *)
PtkCalcNegotiating(s) ==
  /\ At("ptk", s)
  /\ \/ In(s, "PTKSTART")
     \/ In(s, "PTKCALCNEGOTIATING") /\ ~sm[s].MICVerified
  /\ Answered(s)
  /\ LET r == [sm[s] EXCEPT !.rx = "none"]
     IN EnterPtk(s, "PTKCALCNEGOTIATING",
                 IF sm[s].rx = "wrong" THEN r
                 ELSE [StopTimers(r) EXCEPT !.MICVerified = TRUE,
                                            !.PTK_valid = TRUE])
  /\ UNCHANGED group

PtkCalcNegotiating2(s) ==
  /\ At("ptk", s)
  /\ In(s, "PTKCALCNEGOTIATING") /\ sm[s].MICVerified
  /\ EnterPtk(s, "PTKCALCNEGOTIATING2", [sm[s] EXCEPT !.TimeoutCtr = 0])
  /\ UNCHANGED group

(* 3/4 is sent, unless the limit is reached.                                *)
PtkInitNegotiating(s) ==
  /\ At("ptk", s)
  /\ \/ In(s, "PTKCALCNEGOTIATING2")
     \/ /\ In(s, "PTKINITNEGOTIATING")
        /\ ~Confirmed(s) /\ ~Exhausted(s) /\ sm[s].TimeoutEvt
  /\ LET r == [sm[s] EXCEPT !.TimeoutEvt = FALSE, !.TimeoutCtr = @ + 1]
     IN EnterPtk(s, "PTKINITNEGOTIATING",
                 IF r.TimeoutCtr > UpdateCount THEN r
                 ELSE Sent(r, IfKeyed(r, "m3")))
  /\ UNCHANGED group

(* 4/4 has come: the key is given to the driver, which may refuse it.       *)
PtkInitDone(s) ==
  /\ At("ptk", s)
  /\ In(s, "PTKINITNEGOTIATING") /\ Confirmed(s)
  /\ LET r == [sm[s] EXCEPT !.rx = "none"]
     IN \/ EnterPtk(s, "PTKINITDONE",
                    [r EXCEPT !.PInitAKeys = @ \/ s \notin Wpa2])
        \/ "setkey" \in Adverse /\ EnterPtk(s, "PTKINITDONE", Dropped(r))
  /\ UNCHANGED group

PtkStays(s) ==
  /\ At("ptk", s)
  /\ \/ In(s, "INITIALIZE")
     \/ In(s, "PTKINITDONE")
     \/ /\ In(s, "PTKSTART")
        /\ ~Answered(s) /\ ~Exhausted(s) /\ ~sm[s].TimeoutEvt
     \/ /\ In(s, "PTKCALCNEGOTIATING") /\ ~sm[s].MICVerified
        /\ ~Answered(s) /\ ~sm[s].TimeoutEvt
     \/ /\ In(s, "PTKINITNEGOTIATING")
        /\ ~Confirmed(s) /\ ~Exhausted(s) /\ ~sm[s].TimeoutEvt
  /\ GoTo("grp", s)
  /\ UNCHANGED <<sm, group, todo, rekey, next>>

PtkSm(s) ==
  \/ Initialize(s) \/ Disconnect(s) \/ EnterDisconnected(s)
  \/ Authentication(s) \/ Authentication2(s) \/ InitPsk(s)
  \/ PtkStart(s) \/ PtkCalcNegotiating(s) \/ PtkCalcNegotiating2(s)
  \/ PtkInitNegotiating(s) \/ PtkInitDone(s) \/ PtkStays(s)
-----------------------------------------------------------------------------
(* SM_STEP(WPA_PTK_GROUP): the group key machine of s, once in each round.  *)
Acknowledged(s) == sm[s].rx = "group" /\ sm[s].MICVerified
GivenUp(s)      == sm[s].GTimeoutCtr > UpdateCount
Started(s)      == sm[s].ask \cap {"Init", "PtkGroupInit"} # {}
Grp(s, state)   == ~Started(s) /\ sm[s].grp = state

EnterGrp(s, state, r) ==
  /\ sm' = [sm EXCEPT ![s] = [r EXCEPT !.grp = state, !.changed = TRUE]]
  /\ GoTo("group", s)
  /\ UNCHANGED <<todo, rekey, next>>

(* a slip: entering the state counts as a change, also when told to by Init *)
GroupIdleBusy(s) ==
  /\ At("grp", s)
  /\ Started(s) \/ Grp(s, "KEYERROR") \/ Grp(s, "REKEYESTABLISHED")
  /\ EnterGrp(s, "IDLE", [sm[s] EXCEPT !.GTimeoutCtr = 0,
                                       !.ask = @ \ {"PtkGroupInit"}])
  /\ UNCHANGED group

GroupIdle(s) ==
  /\ At("grp", s)
  /\ Started(s) \/ Grp(s, "KEYERROR") \/ Grp(s, "REKEYESTABLISHED")
  /\ LET r == [sm[s] EXCEPT !.grp = "IDLE",
                            !.changed = "Init" \notin sm[s].ask,
                            !.GTimeoutCtr = 0, !.ask = @ \ {"PtkGroupInit"}]
     IN sm' = [sm EXCEPT ![s] = r]
  /\ GoTo("group", s)
  /\ UNCHANGED <<group, todo, rekey, next>>

(* 1/2 is sent, unless the limit is reached.                                *)
RekeyNegotiating(s) ==
  /\ At("grp", s)
  /\ \/ /\ Grp(s, "IDLE")
        /\ sm[s].GUpdateStationKeys \/ (s \notin Wpa2 /\ sm[s].PInitAKeys)
     \/ /\ Grp(s, "REKEYNEGOTIATING")
        /\ ~Acknowledged(s) /\ ~GivenUp(s) /\ sm[s].TimeoutEvt
  /\ LET r == [sm[s] EXCEPT !.GTimeoutCtr = @ + 1]
     IN EnterGrp(s, "REKEYNEGOTIATING",
                 IF r.GTimeoutCtr > UpdateCount THEN r
                 ELSE Sent([r EXCEPT !.PInitAKeys = @ /\ s \in Wpa2,
                                     !.TimeoutEvt = FALSE],
                           IfKeyed(r, "g1")))
  /\ UNCHANGED group

RekeyEstablished(s) ==
  /\ At("grp", s)
  /\ Grp(s, "REKEYNEGOTIATING") /\ Acknowledged(s)
  /\ EnterGrp(s, "REKEYESTABLISHED",
              [sm[s] EXCEPT !.rx = "none", !.GUpdateStationKeys = FALSE,
                            !.GTimeoutCtr = 0])
  /\ Uncount(sm[s])

(* a slip: the station is given up and kept *)
KeyErrorKept(s) ==
  /\ At("grp", s)
  /\ Grp(s, "REKEYNEGOTIATING") /\ GivenUp(s) /\ ~Acknowledged(s)
  /\ EnterGrp(s, "KEYERROR", [sm[s] EXCEPT !.GUpdateStationKeys = FALSE])
  /\ Uncount(sm[s])

(* a slip: uncounted, and still marked *)
KeyErrorMarked(s) ==
  /\ At("grp", s)
  /\ Grp(s, "REKEYNEGOTIATING") /\ GivenUp(s) /\ ~Acknowledged(s)
  /\ EnterGrp(s, "KEYERROR", [sm[s] EXCEPT !.ask = @ \cup {"Disconnect"}])
  /\ Uncount(sm[s])

KeyError(s) ==
  /\ At("grp", s)
  /\ Grp(s, "REKEYNEGOTIATING") /\ GivenUp(s) /\ ~Acknowledged(s)
  /\ EnterGrp(s, "KEYERROR",
              [sm[s] EXCEPT !.GUpdateStationKeys = FALSE,
                            !.ask = @ \cup {"Disconnect"}])
  /\ Uncount(sm[s])

GroupStays(s) ==
  /\ At("grp", s)
  /\ \/ /\ Grp(s, "IDLE") /\ ~sm[s].GUpdateStationKeys
        /\ s \in Wpa2 \/ ~sm[s].PInitAKeys
     \/ /\ Grp(s, "REKEYNEGOTIATING")
        /\ ~Acknowledged(s) /\ ~GivenUp(s) /\ ~sm[s].TimeoutEvt
  /\ GoTo("group", s)
  /\ UNCHANGED <<sm, group, todo, rekey, next>>

PtkGroupSm(s) ==
  \/ GroupIdle(s) \/ RekeyNegotiating(s) \/ RekeyEstablished(s)
  \/ KeyError(s) \/ GroupStays(s)
-----------------------------------------------------------------------------
(* wpa_group_sm_step, the group's machine: at the end of each round of a    *)
(* wpa_sm_step, and in wpa_rekey_gtk.                                       *)
SetKeysDone == group.state = "SETKEYS" /\ group.GKeyDoneStations = 0
SetKeys ==
  /\ group.GTKReKey
  /\ \/ group.state = "SETKEYSDONE"
     \/ group.state = "SETKEYS" /\ group.GKeyDoneStations # 0

(* The round ends, and with it the call if nothing changed.                 *)
EndRound(s, g) ==
  IF sm[s].changed \/ g.changed THEN Step(s, sm[s], g)
  ELSE call' = NoCall /\ group' = g /\ UNCHANGED sm

(* A rekeying would visit s, whose wpa_sm_step is running: no step for it.  *)
Round(s) ==
  /\ At("group", s)
  /\ ~SetKeys
  /\ EndRound(s, IF SetKeysDone
                 THEN [group EXCEPT !.state = "SETKEYSDONE", !.changed = TRUE]
                 ELSE group)
  /\ UNCHANGED <<todo, rekey, next>>

SmStep(s) == PtkSm(s) \/ PtkGroupSm(s) \/ Round(s)
-----------------------------------------------------------------------------
(* wpa_rekey_gtk                                                            *)
StartRekey(g) == [g EXCEPT !.GTKReKey = TRUE, !.changed = FALSE]

RekeySetKeysDone ==
  /\ Returned /\ rekey = "group" /\ SetKeysDone
  /\ group' = [group EXCEPT !.state = "SETKEYSDONE", !.changed = FALSE]
  /\ UNCHANGED <<sm, call, todo, rekey, next>>

(* a slip: the request is not cleared *)
RekeySetKeysAgain ==
  /\ Returned /\ rekey = "group" /\ SetKeys
  /\ group' = [group EXCEPT !.state = "SETKEYS", !.changed = TRUE,
                            !.GKeyDoneStations = 0]
  /\ sm' = [s \in Sta |-> NewGtk(sm[s])]
  /\ todo' = Known
  /\ rekey' = "each"
  /\ UNCHANGED <<call, next>>

(* A new group key, and every station is to be visited (wpa_group_setkeys). *)
RekeySetKeys ==
  /\ Returned /\ rekey = "group" /\ SetKeys
  /\ group' = [group EXCEPT !.state = "SETKEYS", !.GTKReKey = FALSE,
                            !.changed = TRUE, !.GKeyDoneStations = 0]
  /\ sm' = [s \in Sta |-> NewGtk(sm[s])]
  /\ todo' = Known
  /\ rekey' = "each"
  /\ UNCHANGED <<call, next>>

(* wpa_group_update_sta                                                     *)
Skip(s) ==
  /\ Returned /\ s \in todo /\ sm[s].ptk # "PTKINITDONE"
  /\ sm' = [sm EXCEPT ![s].GUpdateStationKeys = FALSE]
  /\ todo' = todo \ {s}
  /\ UNCHANGED <<group, call, rekey, next>>

Update(s) ==
  /\ Returned /\ s \in todo /\ sm[s].ptk = "PTKINITDONE"
  /\ Step(s, [sm[s] EXCEPT !.GUpdateStationKeys = TRUE],
          [group EXCEPT !.GKeyDoneStations = @ + 1])
  /\ todo' = todo \ {s}
  /\ UNCHANGED <<rekey, next>>

(* Every station is visited: once more if the last step left group->changed. *)
RekeyVisited ==
  /\ Returned /\ rekey = "each" /\ todo = {}
  /\ rekey' = IF group.changed THEN "group" ELSE "no"
  /\ group' = [group EXCEPT !.changed = FALSE]
  /\ UNCHANGED <<sm, call, todo, next>>

RekeyReturns ==
  /\ Returned /\ rekey = "group" /\ ~SetKeysDone /\ ~SetKeys
  /\ rekey' = "no"
  /\ UNCHANGED <<sm, group, call, todo, next>>

Rekeying ==
  \/ RekeySetKeysDone \/ RekeySetKeys \/ RekeyVisited \/ RekeyReturns
  \/ \E s \in Sta : Skip(s) \/ Update(s)
-----------------------------------------------------------------------------
(* The rest of a handler.                                                   *)
Continues(what, s) ==
  Returned /\ rekey = "no" /\ next = [do |-> what, of |-> {s}]

(* hostapd_new_assoc_sta: wpa_auth_sta_associated                            *)
NewAssoc(s) ==
  /\ Continues("newAssoc", s)
  /\ IF sm[s].started
     THEN /\ Step(s, [sm[s] EXCEPT !.key_replay = <<>>,
                        !.ask = @ \cup {"ReAuthenticationRequest"}], group)
          /\ next' = NoNext
     ELSE /\ Step(s, [sm[s] EXCEPT !.started = TRUE, !.ask = @ \cup {"Init"}],
                  group)
          /\ Then("initialized", s)
  /\ UNCHANGED <<todo, rekey>>

Initialized(s) ==
  /\ Continues("initialized", s)
  /\ Step(s, [sm[s] EXCEPT !.ask = (@ \ {"Init"}) \cup
                                      {"AuthenticationRequest"}], group)
  /\ next' = NoNext
  /\ UNCHANGED <<todo, rekey>>

(* hostapd_new_assoc_sta: wpa_auth_sm_event(WPA_REAUTH)                      *)
ReAssoc(s) ==
  /\ Continues("reAssoc", s)
  /\ sm[s].started
  /\ Step(s, [sm[s] EXCEPT
                !.GUpdateStationKeys = FALSE, !.PTK_valid = FALSE,
                !.ask = @ \cup {"ReAuthenticationRequest"} \cup
                        (IF sm[s].GUpdateStationKeys THEN {"PtkGroupInit"}
                         ELSE {})],
          [group EXCEPT !.GKeyDoneStations = @ - Marks(sm[s])])
  /\ next' = NoNext
  /\ UNCHANGED <<todo, rekey>>

(* a slip: a station leaves with its mark *)
FreeStaMarked(s) == sm' = [sm EXCEPT ![s] = Absent] /\ UNCHANGED group

(* ap_free_sta: the station leaves without a step of any machine.           *)
FreeSta(s) ==
  /\ sm' = [sm EXCEPT ![s] = Absent]
  /\ Uncount(sm[s])

Free(s) ==
  /\ Continues("free", s)
  /\ FreeSta(s)
  /\ next' = NoNext
  /\ UNCHANGED <<call, todo, rekey>>

(* The end of wpa_receive, after the rekeying that a frame asked for.       *)
KeyReceived(s) ==
  /\ Continues("keyReceived", s)
  /\ Step(s, [sm[s] EXCEPT !.rx = "request"], group)
  /\ next' = NoNext
  /\ UNCHANGED <<todo, rekey>>

Rest(s) ==
  NewAssoc(s) \/ Initialized(s) \/ ReAssoc(s) \/ Free(s) \/ KeyReceived(s)

(* What the thread does before it takes the next event.                     *)
Internal == Rekeying \/ \E s \in Sta : SmStep(s) \/ Rest(s)
-----------------------------------------------------------------------------
(* The events of the event loop.                                            *)

(* The first group key handshake of s is under way.                         *)
PendingFirst(s) ==
  sm[s].assoc /\ sm[s].grp = "REKEYNEGOTIATING" /\ ~sm[s].GUpdateStationKeys

(* hostapd_notif_assoc: the driver reports a (re-)association.  The test of *)
(* timers is a bound of the model, not of the code: it keeps down how many  *)
(* timers, which nobody cancels, re-associations leave running, and which   *)
(* stations re-associate in the middle of a handshake at all.               *)
Associate(s) ==
  /\ Idle
  /\ sm[s].timers = 0 \/ (s \in Returning /\ sm[s].timers < MaxTimers)
  /\ PendingFirst(s) => "pending" \in Adverse
  /\ LET r == [sm[s] EXCEPT !.known = TRUE, !.assoc = TRUE,
                            !.PTK_valid = FALSE]
     IN Step(s, r, group)
  /\ Then(IF sm[s].assoc THEN "reAssoc" ELSE "newAssoc", s)
  /\ UNCHANGED <<todo, rekey>>

(* hostapd_notif_disassoc                                                   *)
Disassociate(s) ==
  /\ Idle
  /\ sm[s].known
  /\ Step(s, [sm[s] EXCEPT !.assoc = FALSE, !.PTK_valid = FALSE,
                           !.ask = @ \cup {"DeauthenticationRequest"}], group)
  /\ Then("free", s)
  /\ UNCHANGED <<todo, rekey>>

(* ap_handle_timer, of a station to be removed                              *)
Remove(s) ==
  /\ Idle
  /\ sm[s].known /\ sm[s].timeout_next # "NULLFUNC"
  /\ FreeSta(s)
  /\ UNCHANGED <<call, todo, rekey, next>>

(* ap_handle_timer, of a station that did not acknowledge the poll          *)
Inactive(s) ==
  /\ Idle
  /\ "inactive" \in Adverse
  /\ sm[s].assoc /\ sm[s].timeout_next = "NULLFUNC"
  /\ sm' = [sm EXCEPT ![s].assoc = FALSE, ![s].timeout_next = "DEAUTH"]
  /\ UNCHANGED <<group, call, todo, rekey, next>>

(* wpa_send_eapol_timeout                                                   *)
Timeout(s) ==
  /\ Idle
  /\ sm[s].timers > 0
  /\ Step(s, [sm[s] EXCEPT !.timers = @ - 1, !.TimeoutEvt = TRUE,
                           !.pending_1_of_4_timeout = FALSE], group)
  /\ UNCHANGED <<todo, rekey, next>>

(* a slip: the timer is stopped and not started *)
TxStatusStops(s) ==
  /\ Idle
  /\ sm[s].pending_1_of_4_timeout
  /\ sm' = [sm EXCEPT ![s].timers = 0]
  /\ UNCHANGED <<group, call, todo, rekey, next>>

(* wpa_auth_eapol_key_tx_status: the first 1/4 was acknowledged             *)
TxStatus(s) ==
  /\ Idle
  /\ sm[s].pending_1_of_4_timeout
  /\ sm' = [sm EXCEPT ![s].timers = 1]
  /\ UNCHANGED <<group, call, todo, rekey, next>>

(* wpa_rekey_gtk, from its timer: the interval is 600 s and a handshake     *)
(* lasts a few seconds, but a handshake may start at any moment.            *)
RekeyGtk ==
  /\ Idle
  /\ "overlap" \in Adverse \/ \A s \in Sta : sm[s].timers = 0
  /\ group' = StartRekey(group)
  /\ rekey' = "group"
  /\ UNCHANGED <<sm, call, todo, next>>

(* A frame is dropped unless its sender is associated (ieee802_1x.c:692).   *)
(* The timer of 0 s that removes a station (sta_info.c:794) fires in the    *)
(* next turn of the event loop, before the answer to any frame sent since.  *)
Heard(s) == sm[s].assoc /\ sm[s].timeout_next # "REMOVE"

(* wpa_receive: an answer to an outstanding frame arrives.  r is the state  *)
(* machine once the frame is taken, if its MIC fits the key.                *)
Outstanding(s, frame) == \E i \in DOMAIN sm[s].key_replay :
                            sm[s].key_replay[i] = frame

Taken(r, what) == [StopTimers(r) EXCEPT !.MICVerified = TRUE,
                                        !.key_replay = <<>>, !.rx = what]

(* 2/4; its MIC is checked only in the machine, when its key is known.      *)
Pairwise2(s) ==
  /\ Idle
  /\ Heard(s) /\ ~sm[s].PTK_valid
  /\ sm[s].ptk \in {"PTKSTART", "PTKCALCNEGOTIATING"}
  /\ \E frame \in {"m1", "m1old"}, what \in {"pairwise", "wrong"} :
       /\ Outstanding(s, frame)
       /\ what = "pairwise" => frame = "m1"
       /\ what = "wrong" => frame = "m1old" \/ "wrongKey" \in Adverse
       /\ IF group.reject_4way_hs_for_entropy
          THEN /\ group' = [group EXCEPT !.reject_4way_hs_for_entropy = FALSE,
                              !.pool = TRUE, !.first_sta_seen = FALSE]
               /\ sm' = [sm EXCEPT ![s] = Dropped(@)]
               /\ UNCHANGED call
          ELSE \/ Step(s, [sm[s] EXCEPT !.MICVerified = FALSE,
                             !.key_replay = <<>>, !.rx = what], group)
               \/ /\ "mismatch" \in Adverse
                  /\ sm' = [sm EXCEPT ![s] = Dropped(@)]
                  /\ UNCHANGED <<group, call>>
  /\ UNCHANGED <<todo, rekey, next>>

Pairwise4(s) ==
  /\ Idle
  /\ Heard(s) /\ sm[s].PTK_valid
  /\ sm[s].ptk = "PTKINITNEGOTIATING"
  /\ \E frame \in {"m3", "m3old"} :
       /\ Outstanding(s, frame)
       /\ Step(s, [Taken(sm[s], "pairwise") EXCEPT
                     !.fresh = IF s \in Wpa2 THEN frame = "m3" ELSE @], group)
  /\ UNCHANGED <<todo, rekey, next>>

Group2(s) ==
  /\ Idle
  /\ Heard(s) /\ sm[s].PTK_valid
  /\ sm[s].grp = "REKEYNEGOTIATING"
  /\ \E frame \in {"g1", "g1old"} :
       /\ Outstanding(s, frame)
       /\ Step(s, [Taken(sm[s], "group") EXCEPT !.fresh = frame = "g1"], group)
  /\ UNCHANGED <<todo, rekey, next>>

(* a slip: the timer is stopped before the MIC is checked *)
BadMicStops(s) ==
  /\ Idle
  /\ Heard(s) /\ sm[s].PTK_valid /\ sm[s].key_replay # <<>>
  /\ \/ sm[s].ptk = "PTKINITNEGOTIATING"
     \/ sm[s].grp = "REKEYNEGOTIATING"
  /\ sm' = [sm EXCEPT ![s] = [StopTimers(@) EXCEPT !.MICVerified = FALSE]]
  /\ UNCHANGED <<group, call, todo, rekey, next>>

(* 4/4 or 2/2 under a key that is not the current one                       *)
BadMic(s) ==
  /\ Idle
  /\ Heard(s) /\ sm[s].PTK_valid /\ sm[s].key_replay # <<>>
  /\ \/ sm[s].ptk = "PTKINITNEGOTIATING"
     \/ sm[s].grp = "REKEYNEGOTIATING"
  /\ sm' = [sm EXCEPT ![s].MICVerified = FALSE]
  /\ UNCHANGED <<group, call, todo, rekey, next>>

(* A request, whose replay counter is the station's own: for a new pairwise *)
(* key (or the report of a Michael MIC failure), or for a new group key.    *)
RequestPtk(s) ==
  /\ Idle
  /\ {"error", "ptk"} \cap Adverse # {}
  /\ Heard(s) /\ sm[s].PTK_valid
  /\ Step(s, [StopTimers(sm[s]) EXCEPT
                !.MICVerified = TRUE, !.PTK_valid = FALSE, !.rx = "request",
                !.ask = @ \cup {"PTKRequest"}], group)
  /\ UNCHANGED <<todo, rekey, next>>

RequestGtk(s) ==
  /\ Idle
  /\ "gtk" \in Adverse
  /\ Heard(s) /\ sm[s].PTK_valid
  /\ sm' = [sm EXCEPT ![s] = [StopTimers(@) EXCEPT !.MICVerified = TRUE]]
  /\ group' = StartRekey(group)
  /\ rekey' = "group"
  /\ Then("keyReceived", s)
  /\ UNCHANGED <<call, todo>>

Receive(s) ==
  \/ Pairwise2(s) \/ Pairwise4(s) \/ Group2(s) \/ BadMic(s)
  \/ RequestPtk(s) \/ RequestGtk(s)

Event(s) ==
  \/ Associate(s) \/ Disassociate(s) \/ Remove(s) \/ Inactive(s)
  \/ Timeout(s) \/ TxStatus(s) \/ Receive(s)

Next == Internal \/ RekeyGtk \/ \E s \in Sta : Event(s)

Spec == Init /\ [][Next]_vars

(* A handler runs to its end.  A timer expires however many other events    *)
(* come first: each turn of the event loop handles one that is due          *)
(* (eloop.c:544-555) before the sockets.                                    *)
Fair == /\ WF_vars(Internal)
        /\ \A s \in Sta : SF_vars(Timeout(s)) /\ SF_vars(Remove(s))

FairSpec == Spec /\ Fair
-----------------------------------------------------------------------------
SmType ==
  [known : BOOLEAN, assoc : BOOLEAN,
   timeout_next : {"NULLFUNC", "DEAUTH", "REMOVE"},
   started : BOOLEAN, ask : SUBSET DOMAIN Rank, changed : BOOLEAN,
   ptk : PtkStates, grp : GroupStates,
   TimeoutCtr : Nat, GTimeoutCtr : Nat,
   timers : Nat, pending_1_of_4_timeout : BOOLEAN, TimeoutEvt : BOOLEAN,
   rx : {"none", "pairwise", "wrong", "group", "request"},
   MICVerified : BOOLEAN, PTK_valid : BOOLEAN,
   GUpdateStationKeys : BOOLEAN, PInitAKeys : BOOLEAN,
   key_replay : Seq(Frames), fresh : BOOLEAN]

GroupType ==
  [state : {"SETKEYS", "SETKEYSDONE"}, GKeyDoneStations : Nat,
   GTKReKey : BOOLEAN, changed : BOOLEAN, first_sta_seen : BOOLEAN,
   reject_4way_hs_for_entropy : BOOLEAN, pool : BOOLEAN]

CallType == [at : {"idle", "ptk", "grp", "group"}, of : SUBSET Sta]
NextType == [do : {"none", "newAssoc", "initialized", "reAssoc", "free",
                   "keyReceived"}, of : SUBSET Sta]

(* Types of the state; GKeyDoneStations, an int, is never negative however  *)
(* its decrements (578, 1382, 1450, 2166, 2181) and resets (2325) fall.     *)
TypeOK ==
  /\ sm \in [Sta -> SmType]
  /\ group \in GroupType
  /\ call \in CallType
  /\ todo \subseteq Sta
  /\ rekey \in {"no", "group", "each"}
  /\ next \in NextType

(* wpa_auth.c:2316: "GKeyDoneStations = GNoStations" is done by "counting   *)
(* the STAs that are marked with GUpdateStationKeys": in every state but    *)
(* for those a running rekeying has still to visit, whatever leaves,        *)
(* re-associates, gives up or acknowledges (577, 1377, 1449, 2165, 2180).   *)
DoneCounts ==
  group.GKeyDoneStations =
    Cardinality({s \in Sta \ todo : sm[s].GUpdateStationKeys})

(* wpa_auth.c:2398: "wpa_sm_step() called recursively", "This should not    *)
(* happen": no group rekeying is left for the machine of a station to start *)
(* (2380, 2386), which would visit that station.                            *)
NeverRecursive == call # NoCall => ~group.GTKReKey

(* A station of which no timer, other than its own, is to dispose.          *)
Staying(s) == sm[s].assoc /\ sm[s].timeout_next = "NULLFUNC"

(* wpa_auth.c:1606, 1805, 2118: past the limit "we will disconnect          *)
(* immediately following this": no station that stays has spent its tries,  *)
(* whichever handshake raised its counters and whatever came in between.    *)
SpentDisconnected ==
  Idle => \A s \in Sta :
    Staying(s) => /\ sm[s].TimeoutCtr <= UpdateCount
                  /\ sm[s].GTimeoutCtr <= UpdateCount

(* A pairwise handshake never waits without a timer for its next retry:     *)
(* the one timer (1296) is shared with the group handshake, stopped by any  *)
(* frame with a good MIC (972), and left over by re-associations.           *)
PairwiseRetried ==
  Idle => \A s \in Sta :
    Staying(s) /\ sm[s].ptk \in {"PTKSTART", "PTKCALCNEGOTIATING",
                                 "PTKINITNEGOTIATING"} => sm[s].timers > 0

(* The same of a group handshake with a station that has its pairwise key.  *)
GroupRetried ==
  Idle => \A s \in Sta :
    Staying(s) /\ sm[s].ptk = "PTKINITDONE" /\ sm[s].grp = "REKEYNEGOTIATING"
      => sm[s].timers > 0

(* Once the group key is in use (2357) every station whose handshakes have  *)
(* ended has acknowledged that very key, and not an earlier one.            *)
GtkCurrent ==
  Idle /\ group.state = "SETKEYSDONE" => \A s \in Sta :
    Staying(s) /\ sm[s].ptk = "PTKINITDONE" /\ sm[s].grp = "IDLE"
      => sm[s].fresh

(* The pairwise handshake ends (1925) by an answer to what was sent last,   *)
(* so no frame of it is outstanding: 2/4 is not taken for the 4/4.          *)
DoneAnswered ==
  [][\A s \in Sta : sm[s].ptk # "PTKINITDONE" /\ sm'[s].ptk = "PTKINITDONE"
                       => sm[s].key_replay = <<>>]_vars

(* wpa_auth.c:1378: "Reauthentication cancels the pending group key update  *)
(* for this STA": no group handshake is pending when the new 4-way          *)
(* handshake has begun.                                                     *)
ReauthCancels ==
  Idle => \A s \in Sta :
    Staying(s) /\ sm[s].ptk = "PTKSTART" => sm[s].grp = "IDLE"

(* wpa_sm_step returns (2403-2418): whatever is pending, the machines come  *)
(* to rest; "avoid busy loop" (1443, 2099).                                 *)
StepReturns == call # NoCall ~> call = NoCall

(* A rekeying ends: the new key is in use (2357) once every marked station  *)
(* has acknowledged it, has been given up (2177) or has left.               *)
RekeyEnds == group.state = "SETKEYS" ~> group.state = "SETKEYSDONE"
=============================================================================
