----------------------------- MODULE Handshake -----------------------------
(***************************************************************************)
(* The two ends of the WPA handshakes composed: the authenticator of the   *)
(* access point for one station (src/hostapd/src/ap/wpa_auth.c), and that  *)
(* station, as the supplicant of the same tree plays it                    *)
(* (src/hostapd/src/rsn_supp/wpa.c).  WpaAuth has the authenticator's      *)
(* machines step by step, for any stations and with answers out of thin    *)
(* air; here a handler is one step, and an answer is a frame that the      *)
(* station has sent because of a frame that it has received.               *)
(*                                                                         *)
(* Frames are lost, delayed, repeated and reordered: air holds every one   *)
(* ever sent, and a frame may be received, or not, from then on.  Events   *)
(* of the driver come "through different paths" (wpa_supplicant.c:1899):   *)
(* either end learns of a new association, or of the end of one, at some   *)
(* time before or after the frames of the other.                           *)
(***************************************************************************)
EXTENDS Naturals, Sequences

CONSTANTS Limits,        \* limits, of which a behaviour has one (below)
          SetKeyFails    \* a driver may refuse a key

(* A limit has the number of tries of a frame, which is as well the length  *)
(* of key_replay (dot11RSNAConfigPairwiseUpdateCount, its like for the      *)
(* group key, and RSNA_MAX_EAPOL_RETRIES), and bounds on the associations,  *)
(* the rekeyings, the station's requests for new keys, and the Michael MIC  *)
(* failures, of which there has been one if any may follow; and says        *)
(* whether a minute may pass without such a failure.                        *)
ASSUME HandshakeAssumption ==
  /\ Limits \subseteq [tries : Nat \ {0}, assocs : Nat, gtks : Nat \ {0},
                       requests : Nat, mics : Nat, minutes : BOOLEAN]
  /\ SetKeyFails \in BOOLEAN

VARIABLES
  limit,      \* the limit of this behaviour
  rsn,        \* WPA2 was negotiated, else WPA
  assoc,      \* number of associations made so far
  link,       \* the last of them is alive
  gtk,        \* number of the last group key made
  ap,         \* the authenticator's state machine of the station
  sta,        \* the station's
  mic,        \* what both keep of Michael MIC failures
  air,        \* frames sent
  confirmed   \* history: the key of the station's last 4/4

vars == <<limit, rsn, assoc, link, gtk, ap, sta, mic, air, confirmed>>
-----------------------------------------------------------------------------
(* A pairwise key is what it is derived from, an ANonce and an SNonce; the  *)
(* MIC of a frame is the key it is made with.  Nonces and group keys are    *)
(* numbered from 1.                                                         *)
NoKey == <<0, 0>>
Keys  == (Nat \ {0}) \X (Nat \ {0})

Frame(kind, c, nonce, key, g) ==
  [kind |-> kind, c |-> c, nonce |-> nonce, key |-> key, gtk |-> g]

(* "1/4", "3/4" and "1/2" come from the authenticator, "2/4", "4/4", "2/2", *)
(* the "request" for new pairwise keys and the "error" report of a Michael  *)
(* MIC failure from the station.                                            *)
Down == {"1/4", "3/4", "1/2"}

(* Not an EAPOL frame, and not in air: it ends the association at once.     *)
Deauth == Frame("deauth", 0, 0, NoKey, 0)

(* wpa_auth_sta_init: a state machine, that is to authenticate a station.   *)
(* rx is the frame received and not consumed, replay the frames whose       *)
(* answer is awaited, the last one first; given is history, the group key   *)
(* of the last frame whose answer, with a MIC that was checked, was taken.  *)
NewSm ==
  [known |-> TRUE, started |-> TRUE, assoc |-> TRUE, next |-> "NULLFUNC",
   ask |-> {"AuthenticationRequest"}, ptk |-> "INITIALIZE", grp |-> "IDLE",
   TimeoutCtr |-> 0, GTimeoutCtr |-> 0, timers |-> 0, TimeoutEvt |-> FALSE,
   rx |-> {}, ANonce |-> 0, PTK |-> NoKey, installed |-> NoKey,
   counter |-> 0, replay |-> <<>>, req |-> 0,
   GUpdateStationKeys |-> FALSE, PInitAKeys |-> FALSE, refused |-> FALSE,
   out |-> {}, seen |-> 0, given |-> 0]

(* ap_free_sta: the authenticator does not know the station.                *)
Gone(r) == [NewSm EXCEPT !.known = FALSE, !.assoc = FALSE, !.ask = {},
                         !.seen = r.seen]

Init ==
  /\ limit \in Limits
  /\ rsn \in BOOLEAN
  /\ assoc = 0 /\ link = FALSE /\ gtk = 1
  /\ ap = Gone(NewSm)
  /\ sta = [state |-> "DISCONNECTED", due |-> FALSE, timer |-> FALSE,
            pending |-> {},
            ptk |-> NoKey, tptk |-> NoKey, key |-> NoKey, gtk |-> 0,
            anonce |-> 0, snonce |-> 0, renew |-> TRUE, rx |-> 0,
            requests |-> 0, out |-> {}]
  /\ mic = [count |-> 0, recent |-> limit.mics > 0, on |-> FALSE,
            seen |-> limit.mics > 0, held |-> FALSE]
  /\ air = {}
  /\ confirmed = NoKey
-----------------------------------------------------------------------------
(* The authenticator's machines, as functions of their record r and of the  *)
(* current group key g.                                                     *)

(* a slip: all the counters that are sent are kept *)
SentAlways(r, kind, nonce, g) ==
  LET f == Frame(kind, r.counter + 1, nonce, r.PTK, g) IN
  [r EXCEPT !.counter = @ + 1, !.timers = @ + 1, !.replay = <<f>> \o @,
            !.out = IF kind # "1/4" /\ r.PTK = NoKey THEN @ ELSE @ \cup {f}]

(* __wpa_send_eapol, wpa_send_eapol: a counter is used and a timer started, *)
(* even if the frame is not sent for want of a key for its MIC.             *)
Sent(r, kind, nonce, g) ==
  LET f == Frame(kind, r.counter + 1, nonce, r.PTK, g) IN
  [r EXCEPT !.counter = @ + 1, !.timers = @ + 1,
            !.replay = SubSeq(<<f>> \o @, 1,
                              IF Len(@) < limit.tries THEN Len(@) + 1
                              ELSE limit.tries),
            !.out = IF kind # "1/4" /\ r.PTK = NoKey THEN @ ELSE @ \cup {f}]

Exhausted(r) == r.TimeoutCtr > limit.tries
Answered(r)  == \E m \in r.rx : m.kind \in {"2/4", "4/4"}
Acknowledged(r) == \E m \in r.rx : m.kind = "2/2"
Calm(r, states) ==
  r.ask \subseteq {"PtkGroupInit"} /\ r.ptk \in states

(* wpa_sta_disconnect, ap_sta_disconnect: a frame to the station, and a     *)
(* timer of 0 s to forget it.                                               *)
Disconnect(r) ==
  [r EXCEPT !.ptk = "DISCONNECT", !.ask = @ \ {"Disconnect"},
            !.assoc = FALSE, !.next = "REMOVE", !.out = @ \cup {Deauth}]

Initialize(r) ==
  [r EXCEPT !.ptk = "INITIALIZE", !.GUpdateStationKeys = FALSE,
            !.PInitAKeys = @ /\ rsn, !.PTK = NoKey, !.installed = NoKey,
            !.TimeoutCtr = 0]

(* Each association has its ANonce.                                         *)
Authentication2(r) ==
  [r EXCEPT !.ptk = "AUTHENTICATION2", !.ask = @ \ {"ReAuthenticationRequest"},
            !.ANonce = r.seen, !.TimeoutCtr = 0]

PtkStart(r) ==
  LET t == [r EXCEPT !.ptk = "PTKSTART", !.ask = @ \ {"PTKRequest"},
                     !.TimeoutEvt = FALSE, !.TimeoutCtr = @ + 1]
  IN IF Exhausted(t) THEN t ELSE Sent(t, "1/4", r.ANonce, 0)

(* a slip: the 2/4 stays to be consumed, and passes for the 4/4 *)
PtkCalcKeeps(r) ==
  LET m == CHOOSE f \in r.rx : TRUE
  IN [r EXCEPT !.ptk = "PTKCALCNEGOTIATING", !.timers = 0,
               !.PTK = IF m.key = <<r.ANonce, m.nonce>> THEN m.key ELSE @]

(* The key that the nonces of both ends give must be the one of the MIC.    *)
PtkCalcNegotiating(r) ==
  LET m == CHOOSE f \in r.rx : TRUE
      t == [r EXCEPT !.ptk = "PTKCALCNEGOTIATING", !.rx = {}]
  IN IF m.key = <<r.ANonce, m.nonce>>
     THEN [t EXCEPT !.PTK = m.key, !.timers = 0] ELSE t

(* a slip: the timer of the retries is forgotten *)
PtkInitNegotiatingUntimed(r, g) ==
  LET t == [r EXCEPT !.ptk = "PTKINITNEGOTIATING", !.TimeoutEvt = FALSE,
                     !.TimeoutCtr = @ + 1]
  IN IF Exhausted(t) THEN t
     ELSE [Sent(t, "3/4", r.ANonce, IF rsn THEN g ELSE 0) EXCEPT !.timers = 0]

(* 3/4 holds the group key if WPA2 is used.                                 *)
PtkInitNegotiating(r, g) ==
  LET t == [r EXCEPT !.ptk = "PTKINITNEGOTIATING", !.TimeoutEvt = FALSE,
                     !.TimeoutCtr = @ + 1]
  IN IF Exhausted(t) THEN t
     ELSE Sent(t, "3/4", r.ANonce, IF rsn THEN g ELSE 0)

(* The driver may refuse the key.                                           *)
PtkInitDone(r) ==
  LET t == [r EXCEPT !.ptk = "PTKINITDONE", !.rx = {}]
  IN IF r.refused
     THEN [t EXCEPT !.assoc = FALSE, !.next = "REMOVE", !.out = @ \cup {Deauth}]
     ELSE [t EXCEPT !.installed = r.PTK, !.PInitAKeys = @ \/ ~rsn]

(* SM_STEP(WPA_PTK)                                                         *)
PtkSm(r, g) ==
  CASE \/ "Disconnect" \in r.ask
       \/ /\ Calm(r, {"PTKSTART", "PTKINITNEGOTIATING"})
          /\ Exhausted(r) /\ ~Answered(r) -> Disconnect(r)
    [] Calm(r, {"DISCONNECT"}) -> [r EXCEPT !.ptk = "DISCONNECTED"]
    [] Calm(r, {"DISCONNECTED"}) -> Initialize(r)
    [] "AuthenticationRequest" \in r.ask ->
         [r EXCEPT !.ptk = "AUTHENTICATION", !.PTK = NoKey,
                   !.ask = @ \ {"AuthenticationRequest"}]
    [] Calm(r, {"AUTHENTICATION"}) \/ "ReAuthenticationRequest" \in r.ask ->
         Authentication2(r)
    [] Calm(r, {"AUTHENTICATION2"}) -> [r EXCEPT !.ptk = "INITPSK", !.req = 0]
    [] \/ Calm(r, {"INITPSK"})
       \/ r.ask \cap {"PTKRequest", "Disconnect"} = {"PTKRequest"}
       \/ /\ Calm(r, {"PTKSTART"})
          /\ ~Answered(r) /\ ~Exhausted(r) /\ r.TimeoutEvt
       \/ /\ Calm(r, {"PTKCALCNEGOTIATING"})
          /\ r.PTK = NoKey /\ ~Answered(r) /\ r.TimeoutEvt -> PtkStart(r)
    [] \/ Calm(r, {"PTKSTART"}) /\ Answered(r)
       \/ /\ Calm(r, {"PTKCALCNEGOTIATING"})
          /\ r.PTK = NoKey /\ Answered(r) -> PtkCalcNegotiating(r)
    [] Calm(r, {"PTKCALCNEGOTIATING"}) /\ r.PTK # NoKey ->
         [r EXCEPT !.ptk = "PTKCALCNEGOTIATING2", !.TimeoutCtr = 0]
    [] \/ Calm(r, {"PTKCALCNEGOTIATING2"})
       \/ /\ Calm(r, {"PTKINITNEGOTIATING"})
          /\ ~Answered(r) /\ ~Exhausted(r) /\ r.TimeoutEvt ->
         PtkInitNegotiating(r, g)
    [] Calm(r, {"PTKINITNEGOTIATING"}) /\ Answered(r) -> PtkInitDone(r)
    [] OTHER -> r

RekeyNegotiating(r, g) ==
  LET t == [r EXCEPT !.grp = "REKEYNEGOTIATING", !.GTimeoutCtr = @ + 1]
  IN IF t.GTimeoutCtr > limit.tries THEN t
     ELSE Sent([t EXCEPT !.PInitAKeys = @ /\ rsn, !.TimeoutEvt = FALSE],
               "1/2", 0, g)

(* SM_STEP(WPA_PTK_GROUP)                                                   *)
GroupSm(r, g) ==
  CASE \/ "PtkGroupInit" \in r.ask
       \/ r.grp \in {"REKEYESTABLISHED", "KEYERROR"} ->
         [r EXCEPT !.grp = "IDLE", !.GTimeoutCtr = 0,
                   !.ask = @ \ {"PtkGroupInit"}]
    [] \/ /\ r.grp = "IDLE" /\ "PtkGroupInit" \notin r.ask
          /\ r.GUpdateStationKeys \/ (~rsn /\ r.PInitAKeys)
       \/ /\ r.grp = "REKEYNEGOTIATING" /\ "PtkGroupInit" \notin r.ask
          /\ ~Acknowledged(r) /\ r.GTimeoutCtr <= limit.tries
          /\ r.TimeoutEvt -> RekeyNegotiating(r, g)
    [] /\ r.grp = "REKEYNEGOTIATING" /\ "PtkGroupInit" \notin r.ask
       /\ Acknowledged(r) ->
         [r EXCEPT !.grp = "REKEYESTABLISHED", !.rx = {}, !.GTimeoutCtr = 0,
                   !.GUpdateStationKeys = FALSE]
    [] /\ r.grp = "REKEYNEGOTIATING" /\ "PtkGroupInit" \notin r.ask
       /\ ~Acknowledged(r) /\ r.GTimeoutCtr > limit.tries ->
         [r EXCEPT !.grp = "KEYERROR", !.GUpdateStationKeys = FALSE,
                   !.ask = @ \cup {"Disconnect"}]
    [] OTHER -> r

(* wpa_sm_step: round after round, until a round changes nothing; it comes  *)
(* to rest within MaxRounds rounds (TypeOK).  What the machines become, in  *)
(* a set of one.                                                            *)
MaxRounds == 9
Rounds(R, g) == {GroupSm(t, g) : t \in {PtkSm(r, g) : r \in R}}
SmStep(r, g) ==
  LET after[n \in 0 .. MaxRounds] ==
        IF n = 0 THEN {r} ELSE Rounds(after[n - 1], g)
  IN  after[MaxRounds]
-----------------------------------------------------------------------------
(* The authenticator's handlers.  Each ends with wpa_sm_step.               *)
Handled(r, g) ==
  \E t \in SmStep(r, g) :
    /\ ap' = [t EXCEPT !.out = {}, !.refused = FALSE]
    /\ air' = air \cup (t.out \ {Deauth})
    /\ link' = (link /\ Deauth \notin t.out)

(* wpa_auth_sm_event(WPA_REAUTH)                                            *)
Reauth(r) ==
  [r EXCEPT !.ask = @ \cup {"ReAuthenticationRequest"} \cup
                     (IF r.GUpdateStationKeys THEN {"PtkGroupInit"} ELSE {}),
            !.GUpdateStationKeys = FALSE]

(* wpa_auth_sta_associated, or wpa_auth_sm_event(WPA_REAUTH), which also    *)
(* starts a machine that is not.                                            *)
Authenticate(r, reassoc) ==
  CASE ~r.started -> [r EXCEPT !.started = TRUE,
                               !.ask = @ \cup {"AuthenticationRequest"}]
    [] r.started /\ reassoc -> Reauth(r)
    [] OTHER -> [r EXCEPT !.counter = 0, !.replay = <<>>,
                          !.ask = @ \cup {"ReAuthenticationRequest"}]

(* a slip: countermeasures are for the stations of the moment *)
NewAssocStaAnyway(r, reassoc) == Authenticate(r, reassoc)

(* hostapd_new_assoc_sta                                                    *)
NewAssocSta(r, reassoc) ==
  IF mic.on THEN [r EXCEPT !.out = {Deauth}] ELSE Authenticate(r, reassoc)

(* hostapd_notif_assoc: a new station, one that was associated, or one that *)
(* has been disconnected and is not yet forgotten.                          *)
ApAssociated ==
  /\ ap.seen < assoc
  /\ UNCHANGED <<limit, rsn, assoc, gtk, sta, mic, confirmed>>
  /\ LET r == IF ap.known THEN ap
              ELSE [NewSm EXCEPT !.started = FALSE, !.ask = {}]
     IN Handled(NewAssocSta(
          [r EXCEPT !.PTK = NoKey, !.installed = NoKey, !.assoc = TRUE,
                    !.seen = assoc, !.given = 0], ap.known /\ ap.assoc), gtk)

(* hostapd_notif_disassoc: the end of the association that the access point *)
(* knows of, which may be reported when the station has begun the next one. *)
ApDisassociated ==
  /\ ap.known /\ (ap.seen = assoc => ~link)
  /\ ap' = Gone(ap)
  /\ UNCHANGED <<limit, rsn, assoc, link, gtk, sta, mic, air, confirmed>>

(* ap_handle_timer, of a station that did not acknowledge the poll, or that *)
(* is no longer associated and is told so: it is to be removed one second   *)
(* later.                                                                   *)
ApInactive ==
  /\ ap.known /\ ap.next = "NULLFUNC" /\ ~(link /\ ap.assoc)
  /\ ap' = [ap EXCEPT !.assoc = FALSE, !.next = "DEAUTH"]
  /\ link' = FALSE
  /\ UNCHANGED <<limit, rsn, assoc, gtk, sta, mic, air, confirmed>>

(* ap_handle_timer, of a station to be removed: 0 s after                   *)
(* ap_sta_disconnect, or for its inactivity, which the station is told.  A  *)
(* new association does not stop the timer.                                 *)
ApRemoves ==
  /\ ap.known /\ ap.next # "NULLFUNC"
  /\ ap' = Gone(ap)
  /\ link' = (link /\ ap.next = "REMOVE")
  /\ UNCHANGED <<limit, rsn, assoc, gtk, sta, mic, air, confirmed>>

(* wpa_send_eapol_timeout                                                   *)
ApTimeout ==
  /\ ap.known /\ ap.timers > 0
  /\ UNCHANGED <<limit, rsn, assoc, gtk, sta, mic, confirmed>>
  /\ Handled([ap EXCEPT !.timers = @ - 1, !.TimeoutEvt = TRUE], gtk)

(* wpa_rekey_gtk, wpa_group_setkeys and wpa_group_update_sta               *)
RekeyGtk ==
  /\ gtk < limit.gtks
  /\ gtk' = gtk + 1
  /\ LET done == ap.known /\ ap.ptk = "PTKINITDONE"
     IN Handled([ap EXCEPT !.GUpdateStationKeys = done], gtk')
  /\ UNCHANGED <<limit, rsn, assoc, sta, mic, confirmed>>

(* wpa_receive: from a station that is associated, and not to be forgotten  *)
(* in the next turn of the event loop.                                      *)
Heard == ap.known /\ ap.assoc /\ ap.next # "REMOVE"

(* wpa_replay_counter_valid, and what is done with any answer: its counter  *)
(* and those of the other tries are spent.                                  *)
Outstanding(m) == \E i \in DOMAIN ap.replay : ap.replay[i].c = m.c

Taken(m) ==
  [ap EXCEPT !.rx = {m}, !.replay = <<>>,
             !.timers = IF ap.PTK = NoKey THEN @ ELSE 0,
             !.given = IF ap.PTK = NoKey THEN @
                       ELSE ap.replay[CHOOSE i \in DOMAIN ap.replay :
                                        ap.replay[i].c = m.c].gtk]

Receive2of4(m) ==
  /\ m.kind = "2/4" /\ Heard /\ Outstanding(m)
  /\ ap.ptk \in {"PTKSTART", "PTKCALCNEGOTIATING"} /\ ap.PTK = NoKey
  /\ Handled(Taken(m), gtk)
  /\ UNCHANGED <<limit, rsn, assoc, gtk, sta, mic, confirmed>>

Receive4of4(m) ==
  /\ m.kind = "4/4" /\ Heard /\ Outstanding(m)
  /\ ap.ptk = "PTKINITNEGOTIATING" /\ ap.PTK # NoKey /\ m.key = ap.PTK
  /\ \E refused \in {FALSE, SetKeyFails} :
       Handled([Taken(m) EXCEPT !.refused = refused], gtk)
  /\ UNCHANGED <<limit, rsn, assoc, gtk, sta, mic, confirmed>>

Receive2of2(m) ==
  /\ m.kind = "2/2" /\ Heard /\ Outstanding(m)
  /\ ap.grp = "REKEYNEGOTIATING" /\ ap.PTK # NoKey /\ m.key = ap.PTK
  /\ Handled(Taken(m), gtk)
  /\ UNCHANGED <<limit, rsn, assoc, gtk, sta, mic, confirmed>>

(* A request has a counter of its own; wpa_request_new_ptk.                 *)
Requested(r, m) ==
  [r EXCEPT !.req = m.c, !.timers = 0, !.PTK = NoKey,
            !.ask = @ \cup {"PTKRequest"}]

ReceiveRequest(m) ==
  /\ m.kind = "request" /\ Heard /\ m.c > ap.req
  /\ ap.PTK # NoKey /\ m.key = ap.PTK
  /\ Handled(Requested(ap, m), gtk)
  /\ UNCHANGED <<limit, rsn, assoc, gtk, sta, mic, confirmed>>

(* michael_mic_failure, ieee80211_tkip_countermeasures_start: the second    *)
(* failure within a minute ends all associations, and makes a group key     *)
(* that the driver is never given (wpa_gtk_rekey).  All failures            *)
(* are reported by stations: driver_rtw.c has no event for one of its own.  *)
MichaelMicFailure(count) ==
  /\ mic' = [mic EXCEPT !.count = count, !.recent = TRUE,
                        !.on = @ \/ mic.recent]
  /\ gtk' = gtk + (IF mic.recent THEN 1 ELSE 0)

Struck(r) ==
  IF mic.recent /\ r.known
  THEN [r EXCEPT !.assoc = FALSE, !.out = {Deauth}] ELSE r

(* The report of another station.                                           *)
OtherMicFailure ==
  /\ mic.count < limit.mics
  /\ MichaelMicFailure(mic.count + 1)
  /\ Handled(Struck(ap), gtk')
  /\ UNCHANGED <<limit, rsn, assoc, sta, confirmed>>

(* The report of a failure is taken for a request, too.                     *)
ReceiveError(m) ==
  /\ m.kind = "error" /\ Heard /\ m.c > ap.req
  /\ ap.PTK # NoKey /\ m.key = ap.PTK
  /\ MichaelMicFailure(mic.count)
  /\ Handled(Requested(Struck(ap), m), gtk')
  /\ UNCHANGED <<limit, rsn, assoc, sta, confirmed>>

(* A minute without a failure; it matters only to the next one.             *)
ApMinute ==
  /\ limit.minutes /\ mic.recent /\ ~mic.on /\ mic.count < limit.mics
  /\ mic' = [mic EXCEPT !.recent = FALSE]
  /\ UNCHANGED <<limit, rsn, assoc, link, gtk, ap, sta, air, confirmed>>

(* ieee80211_tkip_countermeasures_stop                                      *)
ApCalm ==
  /\ mic.on /\ mic' = [mic EXCEPT !.on = FALSE]
  /\ UNCHANGED <<limit, rsn, assoc, link, gtk, ap, sta, air, confirmed>>

ApReceives(m) == Receive2of4(m) \/ Receive4of4(m) \/ Receive2of2(m)
                   \/ ReceiveRequest(m) \/ ReceiveError(m)
-----------------------------------------------------------------------------
(* The station.                                                             *)
On(s) == s.state \notin {"DISCONNECTED", "ASSOCIATING"}

(* wpa_supplicant_clear_connection: its keys are removed from the driver.   *)
(* Those that the supplicant has are of no use until NotifyAssoc resets     *)
(* them; they are dropped here, with the counter of the frames received.    *)
Off(s) == [s EXCEPT !.state = "DISCONNECTED", !.timer = FALSE,
                    !.key = NoKey, !.gtk = 0,
                    !.ptk = NoKey, !.tptk = NoKey, !.anonce = 0, !.rx = 0]

Leaves(s) == [Off(s) EXCEPT !.out = @ \cup {Deauth}]

(* wpa_supplicant_key_neg_complete: the timer of the authentication stops.  *)
Complete(s) == [s EXCEPT !.state = "COMPLETED", !.timer = FALSE]

Reply(s, kind, m, nonce) ==
  [s EXCEPT !.out = {Frame(kind, m.c, nonce, IF kind = "2/4" THEN s.tptk
                                             ELSE s.ptk, 0)}]

(* wpa_supplicant_process_1_of_4                                            *)
Process1of4(s, m) ==
  LET n == s.snonce + (IF s.renew THEN 1 ELSE 0)
  IN {Reply([s EXCEPT !.state = "4WAY_HANDSHAKE", !.snonce = n,
                      !.renew = FALSE, !.tptk = <<m.nonce, n>>,
                      !.anonce = m.nonce], "2/4", m, n)}

(* wpa_supplicant_verify_eapol_key_mic                                      *)
Verified(s, m) == m.key \in {s.tptk, s.ptk} \ {NoKey}

(* a slip: the counter is not kept *)
VerifyForgets(s, m) ==
  IF m.key = s.tptk THEN [s EXCEPT !.ptk = s.tptk, !.tptk = NoKey] ELSE s

Verify(s, m) ==
  LET t == [s EXCEPT !.rx = m.c]
  IN IF m.key = s.tptk THEN [t EXCEPT !.ptk = s.tptk, !.tptk = NoKey] ELSE t

(* a slip: a station that has a key in use does not install the new one *)
Process3of4Once(s, m) ==
  LET t == [Verify(s, m) EXCEPT !.state = "4WAY_HANDSHAKE"]
      u == [Reply(t, "4/4", m, 0) EXCEPT !.renew = TRUE]
      k == [u EXCEPT !.state = "GROUP_HANDSHAKE",
                     !.key = IF s.key = NoKey THEN t.ptk ELSE @]
  IN {IF m.gtk = 0 THEN k ELSE Complete([k EXCEPT !.gtk = m.gtk])}

(* wpa_supplicant_process_3_of_4: the answer goes first, then the driver is *)
(* given the pairwise key, and the group key if there is one; it may refuse *)
(* either.                                                                  *)
Process3of4(s, m) ==
  LET t == [Verify(s, m) EXCEPT !.state = "4WAY_HANDSHAKE"]
      u == [Reply(t, "4/4", m, 0) EXCEPT !.renew = TRUE]
      k == [u EXCEPT !.state = "GROUP_HANDSHAKE", !.key = t.ptk]
  IN IF m.nonce # t.anonce THEN {Leaves(t)}
     ELSE {IF m.gtk = 0 THEN k ELSE Complete([k EXCEPT !.gtk = m.gtk])}
            \cup (IF SetKeyFails THEN {Leaves(u)} ELSE {})

(* a slip: answered first, and a group key that is refused is passed over *)
Process1of2Early(s, m) ==
  LET t == Reply([Verify(s, m) EXCEPT !.state = "GROUP_HANDSHAKE"],
                 "2/2", m, 0)
  IN {Complete([t EXCEPT !.gtk = m.gtk])}
       \cup (IF SetKeyFails THEN {Complete(t)} ELSE {})

(* wpa_supplicant_process_1_of_2: the group key is installed first.         *)
Process1of2(s, m) ==
  LET t == [Verify(s, m) EXCEPT !.state = "GROUP_HANDSHAKE"]
  IN {Complete(Reply([t EXCEPT !.gtk = m.gtk], "2/2", m, 0))}
       \cup (IF SetKeyFails THEN {Leaves(t)} ELSE {})

(* wpa_sm_rx_eapol: the states it may leave; a frame that is dropped leaves *)
(* the same.                                                                *)
Processed(s, m) ==
  CASE m.c > s.rx /\ m.kind = "1/4" -> Process1of4(s, m)
    [] m.c > s.rx /\ m.kind = "3/4" /\ Verified(s, m) -> Process3of4(s, m)
    [] m.c > s.rx /\ m.kind = "1/2" /\ Verified(s, m) -> Process1of2(s, m)
    [] OTHER -> {s}

StaBecomes(t) ==
  /\ sta' = [t EXCEPT !.out = {}]
  /\ air' = air \cup (t.out \ {Deauth})
  /\ link' = (link /\ Deauth \notin t.out)
  /\ LET said == {m \in t.out : m.kind = "4/4"}
     IN confirmed' = IF said = {} THEN confirmed
                     ELSE (CHOOSE m \in said : TRUE).key

(* wpa_supplicant_rx_eapol: a frame that comes before the association it is *)
(* for has been reported is kept, the last one of several.  None is used    *)
(* during countermeasures.                                                  *)
StaReceives(m) ==
  /\ m.kind \in Down
  /\ \/ On(sta) /\ ~mic.held /\ \E t \in Processed(sta, m) : StaBecomes(t)
     \/ ~On(sta) /\ StaBecomes([sta EXCEPT !.pending = {m}])
  /\ UNCHANGED <<limit, rsn, assoc, gtk, ap, mic>>

(* wpa_supplicant_associate: the station associates, for the first time or  *)
(* again, while it believes itself associated or not.  The event of it is   *)
(* due.                                                                     *)
StaAssociates ==
  /\ assoc < limit.assocs /\ ap.seen = assoc /\ sta.state # "ASSOCIATING"
  /\ assoc' = assoc + 1 /\ link' = TRUE
  /\ sta' = [Off(sta) EXCEPT !.state = "ASSOCIATING", !.due = TRUE,
                             !.timer = TRUE]
  /\ UNCHANGED <<limit, rsn, gtk, ap, mic, air, confirmed>>

(* wpa_sm_notify_assoc, and the timer of the authentication                 *)
NotifyAssoc(s) ==
  [s EXCEPT !.state = "ASSOCIATED", !.due = FALSE, !.timer = TRUE,
            !.pending = {}, !.ptk = NoKey, !.tptk = NoKey, !.renew = TRUE,
            !.rx = 0]

(* wpa_supplicant_event_assoc: a frame that was kept is processed, unless   *)
(* it has grown old.                                                        *)
StaAssociated ==
  /\ sta.due
  /\ UNCHANGED <<limit, rsn, assoc, gtk, ap, mic>>
  /\ LET s == NotifyAssoc(sta)
     IN \/ StaBecomes(s)
        \/ /\ ~mic.held
           /\ \E m \in sta.pending : \E t \in Processed(s, m) : StaBecomes(t)

(* wpa_supplicant_event_disassoc: the timer goes on.  While the station     *)
(* associates again, the end of the association before may be reported.     *)
StaDisassociated ==
  /\ \/ On(sta) /\ ~link
     \/ sta.state = "ASSOCIATING" /\ assoc > 1
  /\ sta' = [Off(sta) EXCEPT !.timer = sta.timer]
  /\ UNCHANGED <<limit, rsn, assoc, link, gtk, ap, mic, air, confirmed>>

(* wpa_supplicant_timeout: the access point is told if its address is kept, *)
(* as it may be while the station associates again.                         *)
StaTimeout ==
  /\ sta.timer
  /\ UNCHANGED <<limit, rsn, assoc, gtk, ap, mic>>
  /\ \E t \in {Off(sta), Leaves(sta)} :
       /\ On(sta) => t = Leaves(sta)
       /\ sta.state = "DISCONNECTED" => t = Off(sta)
       /\ StaBecomes(t)

(* wpa_sm_key_request.  Without a key, for want of a MIC, it is of no use.  *)
KeyRequest(s, kind) ==
  [s EXCEPT !.requests = @ + 1,
            !.out = {Frame(kind, s.requests + 1, 0, s.ptk, 0)}]

(* The timer of wpa_sm_key_request: this station asks for new pairwise keys *)
(* only.  The end of an association does not stop the timer; a request made *)
(* with the key of an association that has ended is left out.               *)
StaRequests ==
  /\ On(sta) /\ sta.ptk # NoKey /\ sta.requests < limit.requests
  /\ StaBecomes(KeyRequest(sta, "request"))
  /\ UNCHANGED <<limit, rsn, assoc, gtk, ap, mic>>

(* wpa_supplicant_event_michael_mic_failure: a report, and for the second   *)
(* failure within a minute the end of the association, after the report.    *)
StaMicFailure ==
  /\ On(sta) /\ sta.ptk # NoKey /\ mic.count < limit.mics
  /\ LET t == KeyRequest(sta, "error")
     IN StaBecomes(IF mic.seen THEN Leaves(t) ELSE t)
  /\ mic' = [mic EXCEPT !.count = @ + 1, !.seen = TRUE,
                        !.held = @ \/ mic.seen]
  /\ UNCHANGED <<limit, rsn, assoc, gtk, ap>>

(* The same of the station.                                                 *)
StaMinute ==
  /\ limit.minutes /\ mic.seen /\ ~mic.held /\ mic.count < limit.mics
  /\ mic' = [mic EXCEPT !.seen = FALSE]
  /\ UNCHANGED <<limit, rsn, assoc, link, gtk, ap, sta, air, confirmed>>

(* wpa_supplicant_stop_countermeasures                                      *)
StaCalm ==
  /\ mic.held /\ mic' = [mic EXCEPT !.held = FALSE]
  /\ UNCHANGED <<limit, rsn, assoc, link, gtk, ap, sta, air, confirmed>>

(* The radio link is lost, which either end may learn, or not (external).   *)
LinkLost ==
  /\ link /\ link' = FALSE
  /\ UNCHANGED <<limit, rsn, assoc, gtk, ap, sta, mic, air, confirmed>>

Ap  == ApAssociated \/ ApDisassociated \/ ApInactive \/ ApRemoves \/ ApTimeout
         \/ RekeyGtk \/ OtherMicFailure \/ ApMinute \/ ApCalm
Station == StaAssociates \/ StaAssociated \/ StaDisassociated \/ StaTimeout
             \/ StaRequests \/ StaMicFailure \/ StaMinute \/ StaCalm

Next == \/ Ap \/ Station \/ LinkLost
        \/ \E m \in air : ApReceives(m)
        \/ \E m \in air : StaReceives(m)

Spec == Init /\ [][Next]_vars

(* Timers expire, and the reports of associations are handled; frames need  *)
(* not arrive.  What becomes of a link that is lost, or of a station that   *)
(* left unheard, the access point finds by its timer, and the station by    *)
(* the report of its driver.                                                *)
Fair == /\ WF_vars(ApAssociated) /\ WF_vars(ApInactive)
        /\ WF_vars(ApRemoves) /\ WF_vars(ApTimeout)
        /\ WF_vars(StaAssociated) /\ WF_vars(StaDisassociated)
        /\ WF_vars(StaTimeout)

FairSpec == Spec /\ Fair
-----------------------------------------------------------------------------
(* Types; and wpa_sm_step always comes to rest within nine rounds.          *)
TypeOK ==
  /\ limit \in Limits
  /\ rsn \in BOOLEAN /\ link \in BOOLEAN
  /\ assoc \in 0 .. limit.assocs
  /\ gtk \in 1 .. limit.gtks + limit.mics
  /\ {ap.PTK, ap.installed, sta.ptk, sta.tptk, sta.key, confirmed}
       \subseteq Keys \cup {NoKey}
  /\ ap.seen \in 0 .. assoc /\ ap.TimeoutCtr \in 0 .. limit.tries + 1
  /\ ap.GTimeoutCtr \in 0 .. limit.tries + 1 /\ Len(ap.replay) <= limit.tries
  /\ ap.known => Rounds({ap}, gtk) = {ap}
  /\ mic \in [count : 0 .. limit.mics, recent : BOOLEAN, on : BOOLEAN,
            seen : BOOLEAN, held : BOOLEAN]
  /\ air \subseteq [kind : Down \cup {"2/4", "4/4", "2/2", "request", "error"},
                    c : Nat, nonce : Nat, key : Keys \cup {NoKey},
                    gtk : 0 .. gtk]

(* Both ends use the same pairwise key, once the access point has taken the *)
(* 4/4, as long as the association that they know of lasts (the driver is   *)
(* given the key after 4/4 at the station, wpa_supplicant_process_3_of_4,   *)
(* and after 4/4 at the access point, PTKINITDONE).                         *)
KeysAgree ==
  ap.known /\ ap.assoc /\ ap.ptk = "PTKINITDONE" /\ ap.seen = assoc
    /\ link /\ On(sta) => sta.key = ap.installed /\ sta.key # NoKey

(* The station has the group key whose receipt the access point has taken   *)
(* note of (the counters of other frames are spent with it, Taken).         *)
GroupKeyDelivered ==
  ap.known /\ ap.seen = assoc /\ link /\ On(sta) => sta.gtk >= ap.given

(* During countermeasures no station is served, whatever handshake was      *)
(* under way when they began and whatever association comes after, once the *)
(* access point has been told of it (tkip_countermeasures.c:46-59,          *)
(* hostapd.c:894).                                                          *)
NoneServed ==
  mic.on /\ link /\ ap.seen = assoc => ~(ap.known /\ ap.assoc)

(* As long as a station stays associated, no old frame takes its group key  *)
(* back to one before (the replay counter, wpa_sm_rx_eapol).                *)
GtkForward ==
  [][On(sta) /\ On(sta') /\ sta.key # NoKey => sta'.gtk >= sta.gtk]_vars

(* The access point uses a pairwise key only if it is the last that the     *)
(* station has said, in 4/4, to use; both machines implement KeyAgreement.  *)
Agreement == INSTANCE KeyAgreement WITH
  Key <- Keys, said <- confirmed, station <- sta.key, ap <- ap.installed

KeyAgreed == Agreement!Spec

(* Whatever is lost, the two ends do not stay at odds: in the end both use  *)
(* the same key, or both know that they are apart (the retries of both,     *)
(* their timers and what they do when these run out).                       *)
Settled ==
  \/ link /\ ap.known /\ On(sta) /\ sta.key = ap.installed /\ sta.key # NoKey
  \/ ~link /\ ~ap.known /\ ~On(sta)

Settles == <>[]Settled
=============================================================================
