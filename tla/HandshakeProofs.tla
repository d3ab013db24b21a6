--------------------------- MODULE HandshakeProofs ---------------------------
(***************************************************************************)
(* Proofs about the WPA handshakes of an access point and a station, for    *)
(* any limits and whether or not drivers refuse keys: the types, with the   *)
(* end of wpa_sm_step; both ends use the same pairwise key; the group key   *)
(* is delivered and never taken back; no station is served during           *)
(* countermeasures; and both machines implement KeyAgreement.               *)
(*                                                                          *)
(* The invariant has two halves.  Fits says where the two machines of the   *)
(* access point can be with what they have been asked, received and sent;   *)
(* with Work, the steps they may still make, it bounds wpa_sm_step.  Holds  *)
(* relates the frames sent, of which any may still arrive, to both ends.    *)
(***************************************************************************)
EXTENDS Handshake, FiniteSetTheorems, SequenceTheorems, TLAPS

PtkStates == {"INITIALIZE", "AUTHENTICATION", "AUTHENTICATION2", "INITPSK",
              "PTKSTART", "PTKCALCNEGOTIATING", "PTKCALCNEGOTIATING2",
              "PTKINITNEGOTIATING", "PTKINITDONE", "DISCONNECT",
              "DISCONNECTED"}
GrpStates == {"IDLE", "REKEYNEGOTIATING", "REKEYESTABLISHED", "KEYERROR"}
Asks == {"AuthenticationRequest", "ReAuthenticationRequest", "PTKRequest",
         "PtkGroupInit", "Disconnect"}
StaStates == {"DISCONNECTED", "ASSOCIATING", "ASSOCIATED", "4WAY_HANDSHAKE",
              "GROUP_HANDSHAKE", "COMPLETED"}
Up      == {"2/4", "4/4", "2/2", "request", "error"}
KeyType == Keys \cup {NoKey}

FrameType == [kind : Down \cup Up \cup {"deauth"}, c : Nat, nonce : Nat,
              key : KeyType, gtk : Nat]

ApType ==
  [known : BOOLEAN, started : BOOLEAN, assoc : BOOLEAN,
   next : {"NULLFUNC", "DEAUTH", "REMOVE"}, ask : SUBSET Asks,
   ptk : PtkStates, grp : GrpStates, TimeoutCtr : Nat, GTimeoutCtr : Nat,
   timers : Nat, TimeoutEvt : BOOLEAN, rx : SUBSET FrameType, ANonce : Nat,
   PTK : KeyType, installed : KeyType, counter : Nat, replay : Seq(FrameType),
   req : Nat, GUpdateStationKeys : BOOLEAN, PInitAKeys : BOOLEAN,
   refused : BOOLEAN, out : SUBSET FrameType, seen : Nat, given : Nat]

StaType ==
  [state : StaStates, due : BOOLEAN, timer : BOOLEAN,
   pending : SUBSET FrameType, ptk : KeyType, tptk : KeyType, key : KeyType,
   gtk : Nat, anonce : Nat, snonce : Nat, renew : BOOLEAN, rx : Nat,
   requests : Nat, out : SUBSET FrameType]
-----------------------------------------------------------------------------
(* Where the machines of the access point are, of which r is the record.    *)

(* The pairwise machine is to be restarted for a new association.           *)
Pending(r) == \/ r.ask \cap {"AuthenticationRequest",
                             "ReAuthenticationRequest"} # {}
              \/ r.ptk = "AUTHENTICATION"

(* It has been, and has not sent 1/4.                                       *)
Early(r) == r.ptk \in {"AUTHENTICATION", "AUTHENTICATION2", "INITPSK"}

(* It waits for an answer.                                                  *)
Waits(r) == \/ r.ptk \in {"PTKSTART", "PTKINITNEGOTIATING"}
            \/ r.ptk = "PTKCALCNEGOTIATING" /\ r.PTK = NoKey

(* It has a key that the station has not confirmed.                         *)
Midway(r) == /\ r.ptk \in {"PTKCALCNEGOTIATING", "PTKCALCNEGOTIATING2",
                           "PTKINITNEGOTIATING"}
             /\ r.PTK # NoKey

(* The group machine is to begin a handshake.                               *)
Begins(r) == r.GUpdateStationKeys \/ (~rsn /\ r.PInitAKeys)

(* The group machine makes no step.                                         *)
Silent(r) ==
  /\ r.grp \in {"IDLE", "REKEYNEGOTIATING"} /\ r.ask = {}
  /\ r.grp = "IDLE" => ~Begins(r)
  /\ r.grp = "REKEYNEGOTIATING" =>
       r.GTimeoutCtr <= limit.tries /\ (r.TimeoutEvt => Waits(r))

(* Requests come one by one, and none with a frame.                         *)
AskFits(r) ==
  /\ r.ask \in {{}, {"AuthenticationRequest"}, {"ReAuthenticationRequest"},
                {"ReAuthenticationRequest", "PtkGroupInit"}, {"PTKRequest"},
                {"Disconnect"}, {"PtkGroupInit"}}
  /\ Early(r) => r.ask \subseteq {"PtkGroupInit"} /\ r.rx = {}
  /\ r.ask # {} => r.rx = {}
  /\ r.ptk \in {"DISCONNECT", "DISCONNECTED"}
       => r.ask \subseteq {"PtkGroupInit", "Disconnect"}
  /\ Pending(r) => r.seen > 0
  /\ \/ "PTKRequest" \in r.ask
     \/ r.ptk \notin {"INITIALIZE", "AUTHENTICATION", "DISCONNECT",
                      "DISCONNECTED"}
     => r.ANonce > 0
  /\ ~r.started => /\ r.ptk = "INITIALIZE" /\ r.grp = "IDLE"
                   /\ r.ask = {} /\ r.PTK = NoKey
                   /\ ~r.GUpdateStationKeys /\ ~r.PInitAKeys

(* There is a key from the good 2/4 on, derived from the last ANonce; until *)
(* the 4/4 no group frame is sent.                                          *)
PtkFits(r) ==
  /\ r.PTK # NoKey =>
       /\ \/ Midway(r)
          \/ r.ptk \in {"PTKINITDONE", "DISCONNECT", "DISCONNECTED"}
       /\ r.ask \subseteq {"Disconnect"} /\ r.PTK[1] = r.ANonce
  /\ r.ptk = "PTKCALCNEGOTIATING2" => r.PTK # NoKey
  /\ Midway(r) =>
       Silent(r) /\ (r.ptk # "PTKINITNEGOTIATING" => r.rx = {})

(* A frame received is consumed by the first step of the call.              *)
RxFits(r) ==
  r.rx = {} \/ \E m \in r.rx :
    /\ r.rx = {m}
    /\ Waits(r) => ~r.TimeoutEvt
    /\ \/ /\ m.kind = "2/4" /\ r.PTK = NoKey /\ r.replay = <<>>
          /\ r.ptk \in {"PTKSTART", "PTKCALCNEGOTIATING"} /\ Silent(r)
       \/ /\ m.kind = "4/4" /\ r.PTK # NoKey /\ m.key = r.PTK
          /\ r.ptk = "PTKINITNEGOTIATING"
       \/ /\ m.kind = "2/2" /\ r.PTK # NoKey /\ m.key = r.PTK
          /\ r.grp = "REKEYNEGOTIATING" /\ r.GTimeoutCtr <= limit.tries
          /\ r.ptk = "PTKINITDONE"

(* An expired timer is served by the first step of the call, too.           *)
EvtFits(r) ==
  /\ r.TimeoutEvt /\ Waits(r) =>
       /\ r.ask = {} /\ r.rx = {} /\ r.TimeoutCtr <= limit.tries
       /\ r.GTimeoutCtr <= limit.tries
  /\ r.TimeoutEvt /\ r.grp = "REKEYNEGOTIATING" =>
       r.ask = {} /\ r.rx = {} /\ ~Early(r)

(* Past a limit the machine goes on to disconnect the station.              *)
TriesFit(r) ==
  /\ r.TimeoutCtr <= limit.tries + 1 /\ r.GTimeoutCtr <= limit.tries + 1
  /\ Len(r.replay) <= limit.tries
  /\ r.TimeoutCtr > limit.tries =>
       \/ /\ r.ptk \in {"PTKSTART", "PTKINITNEGOTIATING"} /\ r.ask = {}
          /\ r.rx = {} /\ ~r.TimeoutEvt
       \/ r.ptk \in {"DISCONNECT", "DISCONNECTED"}
  /\ r.ptk \in {"AUTHENTICATION2", "INITPSK", "PTKCALCNEGOTIATING2"}
       => r.TimeoutCtr = 0
  /\ r.grp \in {"IDLE", "REKEYESTABLISHED"} => r.GTimeoutCtr = 0
  /\ r.GTimeoutCtr > limit.tries =>
       \/ r.grp = "KEYERROR"
       \/ r.grp = "REKEYNEGOTIATING" /\ r.TimeoutEvt /\ r.ask = {}

(* Before the step of the pairwise machine, and between it and the step of  *)
(* the group machine, which no expired timer of the other reaches.          *)
Fits(r) == /\ r \in ApType
           /\ AskFits(r) /\ PtkFits(r) /\ RxFits(r) /\ EvtFits(r) /\ TriesFit(r)
Between(r) == Fits(r) /\ ~(r.TimeoutEvt /\ Waits(r))

(* The most steps that a machine may still make.                            *)
PtkWork(r) ==
  IF "Disconnect" \in r.ask THEN 3
  ELSE IF "AuthenticationRequest" \in r.ask THEN 4
  ELSE IF "ReAuthenticationRequest" \in r.ask THEN 3
  ELSE IF "PTKRequest" \in r.ask THEN 4
  ELSE IF r.ptk = "AUTHENTICATION" THEN 3
  ELSE IF r.ptk \in {"AUTHENTICATION2", "DISCONNECT"} THEN 2
  ELSE IF r.ptk \in {"INITPSK", "PTKCALCNEGOTIATING2", "DISCONNECTED"} THEN 1
  ELSE IF r.ptk = "PTKCALCNEGOTIATING" /\ ~Waits(r) THEN 2
  ELSE IF ~Waits(r) THEN 0
  ELSE IF r.TimeoutEvt THEN 4
  ELSE IF Answered(r) \/ Exhausted(r) THEN 3
  ELSE 0

GroupWork(r) ==
  IF "PtkGroupInit" \in r.ask \/ r.grp \in {"REKEYESTABLISHED", "KEYERROR"}
    THEN 2
  ELSE IF r.grp = "IDLE" THEN (IF Begins(r) THEN 1 ELSE 0)
  ELSE IF Acknowledged(r) THEN 3
  ELSE IF r.GTimeoutCtr > limit.tries THEN 6
  ELSE IF r.TimeoutEvt /\ ~Waits(r) THEN 7
  ELSE 0

Work(r) == PtkWork(r) + GroupWork(r)


-----------------------------------------------------------------------------
(* The conditions of the pairwise machine's transitions that have several.  *)
ToDisconnect(r) ==
  \/ "Disconnect" \in r.ask
  \/ /\ Calm(r, {"PTKSTART", "PTKINITNEGOTIATING"})
     /\ Exhausted(r) /\ ~Answered(r)
ToAuthentication2(r) ==
  Calm(r, {"AUTHENTICATION"}) \/ "ReAuthenticationRequest" \in r.ask
ToPtkStart(r) ==
  \/ Calm(r, {"INITPSK"})
  \/ r.ask \cap {"PTKRequest", "Disconnect"} = {"PTKRequest"}
  \/ /\ Calm(r, {"PTKSTART"})
     /\ ~Answered(r) /\ ~Exhausted(r) /\ r.TimeoutEvt
  \/ /\ Calm(r, {"PTKCALCNEGOTIATING"})
     /\ r.PTK = NoKey /\ ~Answered(r) /\ r.TimeoutEvt
ToCalc(r) ==
  \/ Calm(r, {"PTKSTART"}) /\ Answered(r)
  \/ /\ Calm(r, {"PTKCALCNEGOTIATING"})
     /\ r.PTK = NoKey /\ Answered(r)
ToInitNegotiating(r) ==
  \/ Calm(r, {"PTKCALCNEGOTIATING2"})
  \/ /\ Calm(r, {"PTKINITNEGOTIATING"})
     /\ ~Answered(r) /\ ~Exhausted(r) /\ r.TimeoutEvt

(* The machines make a step.                                                *)
PtkMoves(r) ==
  \/ ToDisconnect(r) \/ ToAuthentication2(r) \/ ToPtkStart(r) \/ ToCalc(r)
  \/ ToInitNegotiating(r)
  \/ "AuthenticationRequest" \in r.ask
  \/ Calm(r, {"DISCONNECT"}) \/ Calm(r, {"DISCONNECTED"})
  \/ Calm(r, {"AUTHENTICATION2"})
  \/ Calm(r, {"PTKCALCNEGOTIATING"}) /\ r.PTK # NoKey
  \/ Calm(r, {"PTKINITNEGOTIATING"}) /\ Answered(r)
GroupMoves(r) ==
  \/ "PtkGroupInit" \in r.ask
  \/ r.grp \in {"REKEYESTABLISHED", "KEYERROR"}
  \/ r.grp = "IDLE" /\ Begins(r)
  \/ /\ r.grp = "REKEYNEGOTIATING"
     /\ \/ Acknowledged(r) \/ r.GTimeoutCtr > limit.tries
        \/ r.GTimeoutCtr <= limit.tries /\ r.TimeoutEvt

(* The steps of the two machines, one by one.                               *)
PtkStep(r, g, q) ==
  \/ ToDisconnect(r) /\ q = Disconnect(r)
  \/ /\ Calm(r, {"DISCONNECT"})
     /\ q = [r EXCEPT !.ptk = "DISCONNECTED"]
  \/ Calm(r, {"DISCONNECTED"}) /\ q = Initialize(r)
  \/ /\ "AuthenticationRequest" \in r.ask
     /\ q = [r EXCEPT !.ptk = "AUTHENTICATION", !.PTK = NoKey,
                      !.ask = @ \ {"AuthenticationRequest"}]
  \/ ToAuthentication2(r) /\ q = Authentication2(r)
  \/ /\ Calm(r, {"AUTHENTICATION2"})
     /\ q = [r EXCEPT !.ptk = "INITPSK", !.req = 0]
  \/ ToPtkStart(r) /\ q = PtkStart(r)
  \/ ToCalc(r) /\ q = PtkCalcNegotiating(r)
  \/ /\ Calm(r, {"PTKCALCNEGOTIATING"}) /\ r.PTK # NoKey
     /\ q = [r EXCEPT !.ptk = "PTKCALCNEGOTIATING2", !.TimeoutCtr = 0]
  \/ ToInitNegotiating(r) /\ q = PtkInitNegotiating(r, g)
  \/ /\ Calm(r, {"PTKINITNEGOTIATING"}) /\ Answered(r)
     /\ q = PtkInitDone(r)
  \/ q = r /\ ~PtkMoves(r)

GroupStep(r, g, q) ==
  \/ /\ \/ "PtkGroupInit" \in r.ask
        \/ r.grp \in {"REKEYESTABLISHED", "KEYERROR"}
     /\ q = [r EXCEPT !.grp = "IDLE", !.GTimeoutCtr = 0,
                      !.ask = @ \ {"PtkGroupInit"}]
  \/ /\ "PtkGroupInit" \notin r.ask
     /\ \/ r.grp = "IDLE" /\ Begins(r)
        \/ /\ r.grp = "REKEYNEGOTIATING" /\ ~Acknowledged(r)
           /\ r.GTimeoutCtr <= limit.tries /\ r.TimeoutEvt
     /\ q = RekeyNegotiating(r, g)
  \/ /\ r.grp = "REKEYNEGOTIATING" /\ "PtkGroupInit" \notin r.ask
     /\ Acknowledged(r)
     /\ q = [r EXCEPT !.grp = "REKEYESTABLISHED", !.rx = {},
                      !.GTimeoutCtr = 0, !.GUpdateStationKeys = FALSE]
  \/ /\ r.grp = "REKEYNEGOTIATING" /\ "PtkGroupInit" \notin r.ask
     /\ ~Acknowledged(r) /\ r.GTimeoutCtr > limit.tries
     /\ q = [r EXCEPT !.grp = "KEYERROR", !.GUpdateStationKeys = FALSE,
                      !.ask = @ \cup {"Disconnect"}]
  \/ q = r /\ ~GroupMoves(r)

LEMMA PtkSteps ==
  ASSUME NEW r, NEW g, NEW q, q = PtkSm(r, g)
  PROVE  PtkStep(r, g, q)
BY SMTT(30) DEF PtkStep, PtkSm, PtkMoves, ToDisconnect, ToAuthentication2,
       ToPtkStart, ToCalc, ToInitNegotiating

LEMMA GroupSteps ==
  ASSUME NEW r, NEW g, NEW q, q = GroupSm(r, g)
  PROVE  GroupStep(r, g, q)
BY DEF GroupStep, GroupSm, GroupMoves, Begins

(* What is asked, one by one.                                               *)
LEMMA AskFacts ==
  ASSUME NEW r, AskFits(r)
  PROVE  /\ "Disconnect" \in r.ask =>
              r.ask = {"Disconnect"} /\ r.ask \ {"Disconnect"} = {}
         /\ "AuthenticationRequest" \in r.ask =>
              /\ r.ask = {"AuthenticationRequest"}
              /\ r.ask \ {"AuthenticationRequest"} = {}
         /\ "ReAuthenticationRequest" \in r.ask =>
              /\ r.ask \in {{"ReAuthenticationRequest"},
                            {"ReAuthenticationRequest", "PtkGroupInit"}}
              /\ r.ask \ {"ReAuthenticationRequest"} \in {{}, {"PtkGroupInit"}}
         /\ "PTKRequest" \in r.ask =>
              r.ask = {"PTKRequest"} /\ r.ask \ {"PTKRequest"} = {}
         /\ r.ask \subseteq {"PtkGroupInit"} => r.ask \in {{}, {"PtkGroupInit"}}
         /\ r.ask \subseteq {"Disconnect"} => r.ask \in {{}, {"Disconnect"}}
         /\ r.ask \ {"PtkGroupInit"} \in
              {{}, {"AuthenticationRequest"}, {"ReAuthenticationRequest"},
               {"PTKRequest"}, {"Disconnect"}}
         /\ r.ask \in SUBSET Asks
         /\ \/ r.ask = {}
            \/ "Disconnect" \in r.ask \/ "AuthenticationRequest" \in r.ask
            \/ "ReAuthenticationRequest" \in r.ask \/ "PTKRequest" \in r.ask
            \/ r.ask = {"PtkGroupInit"}
         /\ "Disconnect" \notin r.ask => r.ask \ {"Disconnect"} = r.ask
         /\ "ReAuthenticationRequest" \notin r.ask =>
              r.ask \ {"ReAuthenticationRequest"} = r.ask
         /\ "PTKRequest" \notin r.ask => r.ask \ {"PTKRequest"} = r.ask
         /\ "PtkGroupInit" \notin r.ask => r.ask \ {"PtkGroupInit"} = r.ask
<1>1. CASE r.ask = {}
  BY <1>1
<1>2. CASE r.ask = {"AuthenticationRequest"}
  BY <1>2 DEF Asks
<1>3. CASE r.ask = {"ReAuthenticationRequest"}
  BY <1>3 DEF Asks
<1>4. CASE r.ask = {"ReAuthenticationRequest", "PtkGroupInit"}
  BY <1>4 DEF Asks
<1>5. CASE r.ask = {"PTKRequest"}
  BY <1>5 DEF Asks
<1>6. CASE r.ask = {"Disconnect"}
  BY <1>6 DEF Asks
<1>7. CASE r.ask = {"PtkGroupInit"}
  BY <1>7 DEF Asks
<1> QED BY <1>1, <1>2, <1>3, <1>4, <1>5, <1>6, <1>7 DEF AskFits
-----------------------------------------------------------------------------
(* What a step leaves as it is: who the station is; the frames; the group   *)
(* machine; and the rest of the pairwise one.                               *)
SameStation(q, r) ==
  /\ q \in ApType
  /\ q.known = r.known /\ q.started = r.started /\ q.seen = r.seen
  /\ q.given = r.given /\ q.refused = r.refused
SameFrames(q, r) ==
  q.counter = r.counter /\ q.replay = r.replay /\ q.out = r.out
SameGroup(q, r) ==
  /\ q.grp = r.grp /\ q.GTimeoutCtr = r.GTimeoutCtr
  /\ q.GUpdateStationKeys = r.GUpdateStationKeys
  /\ q.PInitAKeys = r.PInitAKeys
SamePtk(q, r) ==
  /\ q.ptk = r.ptk /\ q.TimeoutCtr = r.TimeoutCtr /\ q.ANonce = r.ANonce
  /\ q.PTK = r.PTK /\ q.installed = r.installed /\ q.req = r.req

LEMMA DeauthType == Deauth \in FrameType
BY DEF Deauth, Frame, FrameType, KeyType

LEMMA DisconnectFields ==
  ASSUME NEW r \in ApType,
         NEW q, q = Disconnect(r)
  PROVE  /\ SameStation(q, r) /\ SameGroup(q, r)
         /\ q.ptk = "DISCONNECT" /\ q.assoc = FALSE
         /\ q.ask = r.ask \ {"Disconnect"} /\ q.out = r.out \cup {Deauth}
         /\ q.counter = r.counter /\ q.replay = r.replay
         /\ q.TimeoutCtr = r.TimeoutCtr /\ q.ANonce = r.ANonce
         /\ q.PTK = r.PTK /\ q.installed = r.installed /\ q.req = r.req
         /\ q.TimeoutEvt = r.TimeoutEvt /\ q.rx = r.rx
<1>1. r.ask \ {"Disconnect"} \in SUBSET Asks
  BY DEF ApType
<1>2. r.out \cup {Deauth} \in SUBSET FrameType
  BY DeauthType DEF ApType
<1>3. q \in ApType
  BY ZenonT(60), <1>1, <1>2 DEF ApType, Disconnect, PtkStates
<1> QED BY SMTT(30), <1>3 DEF ApType, Disconnect,
            SameStation, SameGroup

LEMMA DisconnectedFields ==
  ASSUME NEW r \in ApType,
         NEW q, q = [r EXCEPT !.ptk = "DISCONNECTED"]
  PROVE  /\ SameStation(q, r) /\ SameFrames(q, r) /\ SameGroup(q, r)
         /\ q.ptk = "DISCONNECTED"
         /\ q.TimeoutCtr = r.TimeoutCtr /\ q.ANonce = r.ANonce
         /\ q.PTK = r.PTK /\ q.installed = r.installed /\ q.req = r.req
         /\ q.assoc = r.assoc /\ q.ask = r.ask /\ q.TimeoutEvt = r.TimeoutEvt
         /\ q.rx = r.rx
<1>1. q \in ApType
  BY SMTT(30) DEF ApType, PtkStates
<1> QED BY ZenonT(60), <1>1 DEF ApType, Fits,
            SameStation, SameFrames, SameGroup

LEMMA InitializeFields ==
  ASSUME NEW r \in ApType, rsn \in BOOLEAN,
         NEW q, q = Initialize(r)
  PROVE  /\ SameStation(q, r) /\ SameFrames(q, r)
         /\ q.ptk = "INITIALIZE" /\ q.PTK = NoKey /\ q.installed = NoKey
         /\ q.TimeoutCtr = 0 /\ q.GUpdateStationKeys = FALSE
         /\ q.PInitAKeys = (r.PInitAKeys /\ rsn)
         /\ q.grp = r.grp /\ q.GTimeoutCtr = r.GTimeoutCtr
         /\ q.ANonce = r.ANonce /\ q.req = r.req /\ q.assoc = r.assoc
         /\ q.ask = r.ask /\ q.TimeoutEvt = r.TimeoutEvt /\ q.rx = r.rx
<1>1. NoKey \in KeyType
  BY DEF KeyType
<1>2. q \in ApType
  BY ZenonT(60), <1>1 DEF ApType, Initialize, PtkStates
<1> QED BY SMTT(30), <1>2 DEF ApType, Initialize,
            SameStation, SameFrames

LEMMA AuthenticationFields ==
  ASSUME NEW r \in ApType,
         NEW q, q = [r EXCEPT !.ptk = "AUTHENTICATION", !.PTK = NoKey,
                           !.ask = @ \ {"AuthenticationRequest"}]
  PROVE  /\ SameStation(q, r) /\ SameFrames(q, r) /\ SameGroup(q, r)
         /\ q.ptk = "AUTHENTICATION" /\ q.PTK = NoKey
         /\ q.ask = r.ask \ {"AuthenticationRequest"}
         /\ q.TimeoutCtr = r.TimeoutCtr /\ q.ANonce = r.ANonce
         /\ q.installed = r.installed /\ q.req = r.req /\ q.assoc = r.assoc
         /\ q.TimeoutEvt = r.TimeoutEvt /\ q.rx = r.rx
<1>1. NoKey \in KeyType
  BY DEF KeyType
<1>2. r.ask \ {"AuthenticationRequest"} \in SUBSET Asks
  BY DEF ApType
<1>3. q \in ApType
  BY ZenonT(60), <1>1, <1>2 DEF ApType, PtkStates
<1> QED BY SMTT(30), <1>3 DEF ApType, Fits,
            SameStation, SameFrames, SameGroup

LEMMA Authentication2Fields ==
  ASSUME NEW r \in ApType,
         NEW q, q = Authentication2(r)
  PROVE  /\ SameStation(q, r) /\ SameFrames(q, r) /\ SameGroup(q, r)
         /\ q.ptk = "AUTHENTICATION2" /\ q.TimeoutCtr = 0
         /\ q.ANonce = r.seen /\ q.ask = r.ask \ {"ReAuthenticationRequest"}
         /\ q.PTK = r.PTK /\ q.installed = r.installed /\ q.req = r.req
         /\ q.assoc = r.assoc /\ q.TimeoutEvt = r.TimeoutEvt /\ q.rx = r.rx
<1>1. r.ask \ {"ReAuthenticationRequest"} \in SUBSET Asks
  BY DEF ApType
<1>2. q \in ApType
  BY ZenonT(60), <1>1 DEF ApType, Authentication2, PtkStates
<1> QED BY SMTT(30), <1>2 DEF ApType, Authentication2,
            SameStation, SameFrames, SameGroup

LEMMA InitpskFields ==
  ASSUME NEW r \in ApType,
         NEW q, q = [r EXCEPT !.ptk = "INITPSK", !.req = 0]
  PROVE  /\ SameStation(q, r) /\ SameFrames(q, r) /\ SameGroup(q, r)
         /\ q.ptk = "INITPSK" /\ q.req = 0
         /\ q.TimeoutCtr = r.TimeoutCtr /\ q.ANonce = r.ANonce
         /\ q.PTK = r.PTK /\ q.installed = r.installed /\ q.assoc = r.assoc
         /\ q.ask = r.ask /\ q.TimeoutEvt = r.TimeoutEvt /\ q.rx = r.rx
<1>1. q \in ApType
  BY ZenonT(60) DEF ApType, PtkStates
<1> QED BY SMTT(30), <1>1 DEF ApType, Fits,
            SameStation, SameFrames, SameGroup

LEMMA Calc2Fields ==
  ASSUME NEW r \in ApType,
         NEW q, q = [r EXCEPT !.ptk = "PTKCALCNEGOTIATING2", !.TimeoutCtr = 0]
  PROVE  /\ SameStation(q, r) /\ SameFrames(q, r) /\ SameGroup(q, r)
         /\ q.ptk = "PTKCALCNEGOTIATING2" /\ q.TimeoutCtr = 0
         /\ q.ANonce = r.ANonce /\ q.PTK = r.PTK /\ q.installed = r.installed
         /\ q.req = r.req /\ q.assoc = r.assoc /\ q.ask = r.ask
         /\ q.TimeoutEvt = r.TimeoutEvt /\ q.rx = r.rx
<1>1. q \in ApType
  BY ZenonT(60) DEF ApType, PtkStates
<1> QED BY SMTT(30), <1>1 DEF ApType, Fits,
            SameStation, SameFrames, SameGroup

LEMMA IdleFields ==
  ASSUME NEW r \in ApType,
         NEW q, q = [r EXCEPT !.grp = "IDLE", !.GTimeoutCtr = 0,
                           !.ask = @ \ {"PtkGroupInit"}]
  PROVE  /\ SameStation(q, r) /\ SameFrames(q, r) /\ SamePtk(q, r)
         /\ q.grp = "IDLE" /\ q.GTimeoutCtr = 0
         /\ q.ask = r.ask \ {"PtkGroupInit"}
         /\ q.GUpdateStationKeys = r.GUpdateStationKeys
         /\ q.PInitAKeys = r.PInitAKeys /\ q.assoc = r.assoc
         /\ q.TimeoutEvt = r.TimeoutEvt /\ q.rx = r.rx
<1>1. r.ask \ {"PtkGroupInit"} \in SUBSET Asks
  BY DEF ApType
<1>2. q \in ApType
  BY <1>1 DEF ApType, GrpStates
<1> QED BY SMTT(30), <1>2 DEF ApType, Fits,
            SameStation, SameFrames, SamePtk

LEMMA EstablishedFields ==
  ASSUME NEW r \in ApType,
         NEW q, q = [r EXCEPT !.grp = "REKEYESTABLISHED", !.rx = {},
                           !.GTimeoutCtr = 0, !.GUpdateStationKeys = FALSE]
  PROVE  /\ SameStation(q, r) /\ SameFrames(q, r) /\ SamePtk(q, r)
         /\ q.grp = "REKEYESTABLISHED" /\ q.GTimeoutCtr = 0
         /\ q.GUpdateStationKeys = FALSE /\ q.rx = {}
         /\ q.PInitAKeys = r.PInitAKeys /\ q.assoc = r.assoc /\ q.ask = r.ask
         /\ q.TimeoutEvt = r.TimeoutEvt
<1>1. q \in ApType
  BY DEF ApType, GrpStates
<1> QED BY SMTT(30), <1>1 DEF ApType, Fits,
            SameStation, SameFrames, SamePtk

LEMMA KeyErrorFields ==
  ASSUME NEW r \in ApType,
         NEW q, q = [r EXCEPT !.grp = "KEYERROR", !.GUpdateStationKeys = FALSE,
                           !.ask = @ \cup {"Disconnect"}]
  PROVE  /\ SameStation(q, r) /\ SameFrames(q, r) /\ SamePtk(q, r)
         /\ q.grp = "KEYERROR" /\ q.GUpdateStationKeys = FALSE
         /\ q.ask = r.ask \cup {"Disconnect"}
         /\ q.GTimeoutCtr = r.GTimeoutCtr /\ q.PInitAKeys = r.PInitAKeys
         /\ q.assoc = r.assoc /\ q.TimeoutEvt = r.TimeoutEvt /\ q.rx = r.rx
<1>1. r.ask \cup {"Disconnect"} \in SUBSET Asks
  BY DEF ApType, Asks
<1>2. q \in ApType
  BY <1>1 DEF ApType, GrpStates
<1> QED BY SMTT(30), <1>2 DEF ApType, Fits,
            SameStation, SameFrames, SamePtk

-----------------------------------------------------------------------------
(* The frames whose answer is awaited.                                      *)
Awaited(r) == {r.replay[i] : i \in DOMAIN r.replay}

LEMMA PrefixFacts ==
  ASSUME NEW S, NEW s \in Seq(S), NEW f \in S, NEW n \in 1 .. Len(s) + 1,
         NEW t, t = SubSeq(<<f>> \o s, 1, n)
  PROVE  /\ t \in Seq(S) /\ Len(t) = n
         /\ \A i \in DOMAIN t : t[i] = f \/ \E j \in DOMAIN s : t[i] = s[j]
<1>1. /\ <<f>> \o s \in Seq(S) /\ Len(<<f>> \o s) = Len(s) + 1
      /\ \A i \in 1 .. Len(s) + 1 :
           (<<f>> \o s)[i] = IF i = 1 THEN f ELSE s[i - 1]
  OBVIOUS
<1>2. /\ t \in Seq(S) /\ Len(t) = n
      /\ \A i \in 1 .. n : t[i] = (<<f>> \o s)[i]
  BY <1>1
<1>3. DOMAIN t = 1 .. n /\ DOMAIN s = 1 .. Len(s)
  BY <1>2
<1>4. ASSUME NEW i \in DOMAIN t
      PROVE  t[i] = f \/ \E j \in DOMAIN s : t[i] = s[j]
  <2>1. CASE i = 1
    BY <2>1, <1>1, <1>2, <1>3
  <2>2. CASE i # 1
    <3>1. i - 1 \in DOMAIN s /\ t[i] = s[i - 1]
      BY <2>2, <1>1, <1>2, <1>3
    <3> QED BY <3>1
  <2> QED BY <2>1, <2>2
<1> QED BY <1>2, <1>4

LEMMA TriesPositive ==
  ASSUME limit \in Limits
  PROVE  limit.tries \in Nat \ {0}
BY HandshakeAssumption

(* A frame sent, or only awaited.                                           *)
Sends(q, r, f) ==
  /\ f \in FrameType
  /\ q.counter = r.counter + 1 /\ Awaited(q) \subseteq Awaited(r) \cup {f}
  /\ Len(q.replay) <= limit.tries
  /\ q.out = IF f.kind # "1/4" /\ r.PTK = NoKey THEN r.out
             ELSE r.out \cup {f}

LEMMA SendsVia ==
  ASSUME NEW r, NEW t, NEW q, NEW f, SameFrames(t, r), t.PTK = r.PTK,
         Sends(q, t, f)
  PROVE  Sends(q, r, f)
<1>1. Awaited(t) = Awaited(r)
  BY DEF Awaited, SameFrames
<1> QED BY <1>1 DEF Sends, SameFrames

LEMMA SentFields ==
  ASSUME limit \in Limits, NEW r \in ApType, NEW kind \in Down,
         NEW nonce \in Nat, NEW g \in Nat, NEW q, q = Sent(r, kind, nonce, g),
         NEW f, f = Frame(kind, r.counter + 1, nonce, r.PTK, g)
  PROVE  /\ SameStation(q, r) /\ SameGroup(q, r) /\ SamePtk(q, r)
         /\ q.assoc = r.assoc /\ q.ask = r.ask
         /\ q.TimeoutEvt = r.TimeoutEvt /\ q.rx = r.rx
         /\ Sends(q, r, f)
<1>1. f \in FrameType
  BY DEF ApType, FrameType, Frame
<1> DEFINE n == IF Len(r.replay) < limit.tries THEN Len(r.replay) + 1
                ELSE limit.tries
           t == SubSeq(<<f>> \o r.replay, 1, n)
<1>2. r.replay \in Seq(FrameType) /\ r.counter \in Nat /\ r.timers \in Nat
      /\ r.out \in SUBSET FrameType
  BY DEF ApType
<1>3. n \in 1 .. Len(r.replay) + 1 /\ n <= limit.tries
  BY <1>2, TriesPositive
<1> HIDE DEF n
<1>4. /\ t \in Seq(FrameType) /\ Len(t) = n
      /\ \A i \in DOMAIN t :
           t[i] = f \/ \E j \in DOMAIN r.replay : t[i] = r.replay[j]
  BY SMTT(20), <1>1, <1>2, <1>3, PrefixFacts
<1> DEFINE o == IF kind # "1/4" /\ r.PTK = NoKey THEN r.out ELSE r.out \cup {f}
<1>5. o \in SUBSET FrameType
  BY <1>1, <1>2
<1> DEFINE c == r.counter + 1
           m == r.timers + 1
<1>6. q = [r EXCEPT !.counter = c, !.timers = m, !.replay = t, !.out = o]
  BY DEF Sent, n
<1>7. c \in Nat /\ m \in Nat
  BY <1>2
<1> HIDE DEF t, o, c, m
<1>8. q \in ApType
  <2>1. t \in Seq(FrameType)
    BY <1>4
  <2> QED BY ZenonT(60), <2>1, <1>5, <1>6, <1>7 DEF ApType
<1>9. q.counter = r.counter + 1 /\ q.replay = t /\ q.out = o
  BY <1>6 DEF ApType, c
<1>10. Awaited(q) \subseteq Awaited(r) \cup {f}
  BY <1>4, <1>9 DEF Awaited
<1>11. f.kind = kind
  BY DEF Frame
<1>12. Sends(q, r, f)
  BY <1>1, <1>3, <1>4, <1>9, <1>10, <1>11 DEF Sends, o
<1>13. /\ SameGroup(q, r) /\ SamePtk(q, r)
       /\ q.assoc = r.assoc /\ q.ask = r.ask
       /\ q.TimeoutEvt = r.TimeoutEvt /\ q.rx = r.rx
  BY <1>6 DEF ApType, SameGroup, SamePtk
<1>14. SameStation(q, r)
  BY <1>6, <1>8 DEF ApType, SameStation
<1> QED BY <1>12, <1>13, <1>14

LEMMA PtkStartFields ==
  ASSUME limit \in Limits, NEW r \in ApType, NEW q, q = PtkStart(r),
         NEW f, f = Frame("1/4", r.counter + 1, r.ANonce, r.PTK, 0)
  PROVE  /\ SameStation(q, r) /\ SameGroup(q, r)
         /\ q.ptk = "PTKSTART" /\ q.ask = r.ask \ {"PTKRequest"}
         /\ ~q.TimeoutEvt /\ q.TimeoutCtr = r.TimeoutCtr + 1
         /\ q.ANonce = r.ANonce /\ q.PTK = r.PTK /\ q.installed = r.installed
         /\ q.req = r.req /\ q.assoc = r.assoc /\ q.rx = r.rx
         /\ \/ q.TimeoutCtr > limit.tries /\ SameFrames(q, r)
            \/ q.TimeoutCtr <= limit.tries /\ Sends(q, r, f)
<1> DEFINE a == r.ask \ {"PTKRequest"}
           c == r.TimeoutCtr + 1
           t == [r EXCEPT !.ptk = "PTKSTART", !.ask = a, !.TimeoutEvt = FALSE,
                          !.TimeoutCtr = c]
<1>1. a \in SUBSET Asks /\ c \in Nat /\ r.ANonce \in Nat /\ 0 \in Nat
      /\ "1/4" \in Down
  BY DEF ApType, Down
<1>2. q = IF c > limit.tries THEN t ELSE Sent(t, "1/4", r.ANonce, 0)
  BY DEF PtkStart, Exhausted, ApType
<1>3. c = r.TimeoutCtr + 1 /\ a = r.ask \ {"PTKRequest"}
  OBVIOUS
<1> HIDE DEF a, c
<1>4. t \in ApType
  BY <1>1 DEF ApType, PtkStates
<1>5. /\ SameStation(t, r) /\ SameGroup(t, r) /\ SameFrames(t, r)
      /\ t.ptk = "PTKSTART" /\ t.ask = a /\ ~t.TimeoutEvt /\ t.TimeoutCtr = c
      /\ t.ANonce = r.ANonce /\ t.PTK = r.PTK /\ t.installed = r.installed
      /\ t.req = r.req /\ t.assoc = r.assoc /\ t.rx = r.rx
  BY <1>4 DEF ApType, SameStation, SameGroup, SameFrames
<1> HIDE DEF t
<1>6. f = Frame("1/4", t.counter + 1, r.ANonce, t.PTK, 0)
  BY <1>5 DEF SameFrames
<1>7. CASE c > limit.tries
  BY <1>7, <1>2, <1>3, <1>5
<1>8. CASE ~(c > limit.tries)
  <2>1. /\ SameStation(q, t) /\ SameGroup(q, t) /\ SamePtk(q, t)
        /\ q.assoc = t.assoc /\ q.ask = t.ask
        /\ q.TimeoutEvt = t.TimeoutEvt /\ q.rx = t.rx /\ Sends(q, t, f)
    BY <1>8, <1>2, <1>1, <1>4, <1>6, SentFields
  <2>2. c <= limit.tries
    BY <1>8, <1>1, TriesPositive
  <2>3. Sends(q, r, f)
    BY <2>1, <1>5, SendsVia
  <2> QED BY <2>1, <2>2, <2>3, <1>3, <1>5
          DEF SameStation, SameGroup, SamePtk
<1> QED BY <1>7, <1>8

LEMMA PtkInitNegotiatingFields ==
  ASSUME limit \in Limits, NEW r \in ApType, NEW g \in Nat,
         NEW q, q = PtkInitNegotiating(r, g),
         NEW f, f = Frame("3/4", r.counter + 1, r.ANonce, r.PTK,
                          IF rsn THEN g ELSE 0)
  PROVE  /\ SameStation(q, r) /\ SameGroup(q, r)
         /\ q.ptk = "PTKINITNEGOTIATING" /\ q.ask = r.ask
         /\ ~q.TimeoutEvt /\ q.TimeoutCtr = r.TimeoutCtr + 1
         /\ q.ANonce = r.ANonce /\ q.PTK = r.PTK /\ q.installed = r.installed
         /\ q.req = r.req /\ q.assoc = r.assoc /\ q.rx = r.rx
         /\ \/ q.TimeoutCtr > limit.tries /\ SameFrames(q, r)
            \/ q.TimeoutCtr <= limit.tries /\ Sends(q, r, f)
<1> DEFINE c == r.TimeoutCtr + 1
           k == IF rsn THEN g ELSE 0
           t == [r EXCEPT !.ptk = "PTKINITNEGOTIATING", !.TimeoutEvt = FALSE,
                          !.TimeoutCtr = c]
<1>1. c \in Nat /\ r.ANonce \in Nat /\ k \in Nat /\ "3/4" \in Down
  BY DEF ApType, Down
<1>2. q = IF c > limit.tries THEN t ELSE Sent(t, "3/4", r.ANonce, k)
  BY DEF PtkInitNegotiating, Exhausted, ApType
<1>3. c = r.TimeoutCtr + 1 /\ f = Frame("3/4", r.counter + 1, r.ANonce, r.PTK, k)
  OBVIOUS
<1> HIDE DEF c, k
<1>4. t \in ApType
  BY <1>1 DEF ApType, PtkStates
<1>5. /\ SameStation(t, r) /\ SameGroup(t, r) /\ SameFrames(t, r)
      /\ t.ptk = "PTKINITNEGOTIATING" /\ t.ask = r.ask /\ ~t.TimeoutEvt
      /\ t.TimeoutCtr = c /\ t.ANonce = r.ANonce /\ t.PTK = r.PTK
      /\ t.installed = r.installed
      /\ t.req = r.req /\ t.assoc = r.assoc /\ t.rx = r.rx
  BY <1>4 DEF ApType, SameStation, SameGroup, SameFrames
<1> HIDE DEF t
<1>6. f = Frame("3/4", t.counter + 1, r.ANonce, t.PTK, k)
  BY <1>3, <1>5 DEF SameFrames
<1>7. CASE c > limit.tries
  BY <1>7, <1>2, <1>3, <1>5
<1>8. CASE ~(c > limit.tries)
  <2>1. /\ SameStation(q, t) /\ SameGroup(q, t) /\ SamePtk(q, t)
        /\ q.assoc = t.assoc /\ q.ask = t.ask
        /\ q.TimeoutEvt = t.TimeoutEvt /\ q.rx = t.rx /\ Sends(q, t, f)
    BY <1>8, <1>2, <1>1, <1>4, <1>6, SentFields
  <2>2. c <= limit.tries
    BY <1>8, <1>1, TriesPositive
  <2>3. Sends(q, r, f)
    BY <2>1, <1>5, SendsVia
  <2> QED BY <2>1, <2>2, <2>3, <1>3, <1>5
          DEF SameStation, SameGroup, SamePtk
<1> QED BY <1>7, <1>8

LEMMA RekeyFields ==
  ASSUME limit \in Limits, rsn \in BOOLEAN, NEW r \in ApType, NEW g \in Nat,
         NEW q, q = RekeyNegotiating(r, g),
         NEW f, f = Frame("1/2", r.counter + 1, 0, r.PTK, g)
  PROVE  /\ SameStation(q, r) /\ SamePtk(q, r)
         /\ q.grp = "REKEYNEGOTIATING" /\ q.GTimeoutCtr = r.GTimeoutCtr + 1
         /\ q.GUpdateStationKeys = r.GUpdateStationKeys
         /\ q.ask = r.ask /\ q.assoc = r.assoc /\ q.rx = r.rx
         /\ \/ /\ q.GTimeoutCtr > limit.tries /\ SameFrames(q, r)
               /\ q.TimeoutEvt = r.TimeoutEvt /\ q.PInitAKeys = r.PInitAKeys
            \/ /\ q.GTimeoutCtr <= limit.tries /\ Sends(q, r, f)
               /\ ~q.TimeoutEvt /\ q.PInitAKeys = (r.PInitAKeys /\ rsn)
<1> DEFINE c == r.GTimeoutCtr + 1
           p == r.PInitAKeys /\ rsn
           t == [r EXCEPT !.grp = "REKEYNEGOTIATING", !.GTimeoutCtr = c]
           u == [t EXCEPT !.PInitAKeys = p, !.TimeoutEvt = FALSE]
<1>1. c \in Nat /\ p \in BOOLEAN /\ 0 \in Nat /\ "1/2" \in Down
  BY DEF ApType, Down
<1>2. c = r.GTimeoutCtr + 1 /\ p = (r.PInitAKeys /\ rsn)
  OBVIOUS
<1>3. q = IF c > limit.tries THEN t ELSE Sent(u, "1/2", 0, g)
  BY DEF RekeyNegotiating, ApType
<1> HIDE DEF c, p
<1>4. t \in ApType
  BY <1>1 DEF ApType, GrpStates
<1>5. /\ SameStation(t, r) /\ SamePtk(t, r) /\ SameFrames(t, r)
      /\ t.grp = "REKEYNEGOTIATING" /\ t.GTimeoutCtr = c
      /\ t.GUpdateStationKeys = r.GUpdateStationKeys
      /\ t.ask = r.ask /\ t.assoc = r.assoc /\ t.rx = r.rx
      /\ t.TimeoutEvt = r.TimeoutEvt /\ t.PInitAKeys = r.PInitAKeys
  BY <1>4 DEF ApType, SameStation, SamePtk, SameFrames
<1> HIDE DEF t
<1>6. u \in ApType
  BY <1>1, <1>4 DEF ApType
<1>7. /\ SameStation(u, t) /\ SamePtk(u, t) /\ SameFrames(u, t)
      /\ u.grp = t.grp /\ u.GTimeoutCtr = t.GTimeoutCtr
      /\ u.GUpdateStationKeys = t.GUpdateStationKeys
      /\ u.ask = t.ask /\ u.assoc = t.assoc /\ u.rx = t.rx
      /\ ~u.TimeoutEvt /\ u.PInitAKeys = p
  BY <1>4, <1>6 DEF ApType, SameStation, SamePtk, SameFrames
<1> HIDE DEF u
<1>8. CASE c > limit.tries
  BY <1>8, <1>2, <1>3, <1>5
<1>9. CASE ~(c > limit.tries)
  <2>1. f = Frame("1/2", u.counter + 1, 0, u.PTK, g)
    BY <1>5, <1>7 DEF SameFrames, SamePtk
  <2>2. /\ SameStation(q, u) /\ SameGroup(q, u) /\ SamePtk(q, u)
        /\ q.assoc = u.assoc /\ q.ask = u.ask
        /\ q.TimeoutEvt = u.TimeoutEvt /\ q.rx = u.rx /\ Sends(q, u, f)
    BY <2>1, <1>9, <1>1, <1>3, <1>6, SentFields
  <2>3. c <= limit.tries
    BY <1>9, <1>1, TriesPositive
  <2>4. SameFrames(u, r) /\ u.PTK = r.PTK
    BY <1>5, <1>7 DEF SameFrames, SamePtk
  <2>5. Sends(q, r, f)
    BY <2>2, <2>4, SendsVia
  <2> QED BY <2>2, <2>3, <2>5, <1>2, <1>5, <1>7
          DEF SameStation, SameGroup, SamePtk
<1> QED BY <1>8, <1>9

(* The key of a 2/4 is taken if the ANonce is the last that was sent.       *)
LEMMA CalcFields ==
  ASSUME NEW r \in ApType, NEW m, r.rx = {m}, NEW q, q = PtkCalcNegotiating(r)
  PROVE  /\ SameStation(q, r) /\ SameGroup(q, r) /\ SameFrames(q, r)
         /\ q.ptk = "PTKCALCNEGOTIATING" /\ q.rx = {}
         /\ IF m.key = <<r.ANonce, m.nonce>> THEN q.PTK = m.key
            ELSE q.PTK = r.PTK
         /\ q.ask = r.ask /\ q.assoc = r.assoc /\ q.TimeoutEvt = r.TimeoutEvt
         /\ q.TimeoutCtr = r.TimeoutCtr /\ q.ANonce = r.ANonce
         /\ q.installed = r.installed /\ q.req = r.req
<1>1. (CHOOSE f \in r.rx : TRUE) = m
  OBVIOUS
<1>2. m.key \in KeyType
  BY DEF ApType, FrameType
<1> DEFINE t == [r EXCEPT !.ptk = "PTKCALCNEGOTIATING", !.rx = {}]
           u == [t EXCEPT !.PTK = m.key, !.timers = 0]
<1>3. q = IF m.key = <<r.ANonce, m.nonce>> THEN u ELSE t
  BY <1>1 DEF PtkCalcNegotiating
<1>4. t \in ApType
  BY DEF ApType, PtkStates
<1>5. /\ SameStation(t, r) /\ SameGroup(t, r) /\ SameFrames(t, r)
      /\ t.ptk = "PTKCALCNEGOTIATING" /\ t.rx = {} /\ t.PTK = r.PTK
      /\ t.ask = r.ask /\ t.assoc = r.assoc /\ t.TimeoutEvt = r.TimeoutEvt
      /\ t.TimeoutCtr = r.TimeoutCtr /\ t.ANonce = r.ANonce
      /\ t.installed = r.installed /\ t.req = r.req
  BY <1>4 DEF ApType, SameStation, SameGroup, SameFrames
<1> HIDE DEF t
<1>6. u \in ApType
  BY <1>2, <1>4 DEF ApType
<1>7. /\ SameStation(u, t) /\ SameGroup(u, t) /\ SameFrames(u, t)
      /\ u.ptk = t.ptk /\ u.rx = t.rx /\ u.PTK = m.key
      /\ u.ask = t.ask /\ u.assoc = t.assoc /\ u.TimeoutEvt = t.TimeoutEvt
      /\ u.TimeoutCtr = t.TimeoutCtr /\ u.ANonce = t.ANonce
      /\ u.installed = t.installed /\ u.req = t.req
  BY <1>4, <1>6 DEF ApType, SameStation, SameGroup, SameFrames
<1> HIDE DEF u
<1> QED BY <1>3, <1>5, <1>7 DEF SameStation, SameGroup, SameFrames

LEMMA DoneFields ==
  ASSUME rsn \in BOOLEAN, NEW r \in ApType, NEW q, q = PtkInitDone(r)
  PROVE  /\ SameStation(q, r) /\ q.ptk = "PTKINITDONE" /\ q.rx = {}
         /\ IF r.refused
            THEN /\ ~q.assoc /\ q.out = r.out \cup {Deauth}
                 /\ q.installed = r.installed /\ q.PInitAKeys = r.PInitAKeys
            ELSE /\ q.assoc = r.assoc /\ q.out = r.out
                 /\ q.installed = r.PTK
                 /\ q.PInitAKeys = (r.PInitAKeys \/ ~rsn)
         /\ q.ask = r.ask /\ q.TimeoutEvt = r.TimeoutEvt
         /\ q.TimeoutCtr = r.TimeoutCtr /\ q.ANonce = r.ANonce
         /\ q.PTK = r.PTK /\ q.req = r.req
         /\ q.counter = r.counter /\ q.replay = r.replay
         /\ q.grp = r.grp /\ q.GTimeoutCtr = r.GTimeoutCtr
         /\ q.GUpdateStationKeys = r.GUpdateStationKeys
<1> DEFINE o == r.out \cup {Deauth}
           p == r.PInitAKeys \/ ~rsn
           t == [r EXCEPT !.ptk = "PTKINITDONE", !.rx = {}]
           u == [t EXCEPT !.assoc = FALSE, !.next = "REMOVE", !.out = o]
           v == [t EXCEPT !.installed = r.PTK, !.PInitAKeys = p]
<1>1. o = r.out \cup {Deauth} /\ p = (r.PInitAKeys \/ ~rsn)
  OBVIOUS
<1>2. o \in SUBSET FrameType /\ p \in BOOLEAN /\ r.PTK \in KeyType
  BY DeauthType DEF ApType
<1>3. q = IF r.refused THEN u ELSE v
  BY DEF PtkInitDone, ApType
<1> HIDE DEF o, p
<1>4. t \in ApType
  BY DEF ApType, PtkStates
<1>5. /\ SameStation(t, r) /\ SameGroup(t, r) /\ SameFrames(t, r)
      /\ t.ptk = "PTKINITDONE" /\ t.rx = {} /\ t.PTK = r.PTK
      /\ t.ask = r.ask /\ t.assoc = r.assoc /\ t.TimeoutEvt = r.TimeoutEvt
      /\ t.TimeoutCtr = r.TimeoutCtr /\ t.ANonce = r.ANonce
      /\ t.installed = r.installed /\ t.req = r.req
  BY <1>4 DEF ApType, SameStation, SameGroup, SameFrames
<1> HIDE DEF t
<1>6. u \in ApType /\ v \in ApType
  BY ZenonT(60), <1>2, <1>4 DEF ApType
<1>7. /\ SameStation(u, t) /\ SameGroup(u, t)
      /\ u.counter = t.counter /\ u.replay = t.replay /\ u.out = o
      /\ u.ptk = t.ptk /\ u.rx = t.rx /\ u.PTK = t.PTK
      /\ u.ask = t.ask /\ ~u.assoc /\ u.TimeoutEvt = t.TimeoutEvt
      /\ u.TimeoutCtr = t.TimeoutCtr /\ u.ANonce = t.ANonce
      /\ u.installed = t.installed /\ u.req = t.req
  BY <1>4, <1>6 DEF ApType, SameStation, SameGroup
<1>8. /\ SameStation(v, t) /\ SameFrames(v, t)
      /\ v.grp = t.grp /\ v.GTimeoutCtr = t.GTimeoutCtr
      /\ v.GUpdateStationKeys = t.GUpdateStationKeys /\ v.PInitAKeys = p
      /\ v.ptk = t.ptk /\ v.rx = t.rx /\ v.PTK = t.PTK
      /\ v.ask = t.ask /\ v.assoc = t.assoc /\ v.TimeoutEvt = t.TimeoutEvt
      /\ v.TimeoutCtr = t.TimeoutCtr /\ v.ANonce = t.ANonce
      /\ v.installed = r.PTK /\ v.req = t.req
  BY <1>4, <1>6 DEF ApType, SameStation, SameFrames
<1> HIDE DEF u, v
<1> QED BY <1>1, <1>3, <1>5, <1>7, <1>8 DEF SameStation, SameGroup, SameFrames
-----------------------------------------------------------------------------
(* Each step of the pairwise machine leaves the machines where they fit,    *)
(* and with less to do.                                                     *)
LEMMA WorkNat ==
  ASSUME NEW r
  PROVE  PtkWork(r) \in 0 .. 4 /\ GroupWork(r) \in {0, 1, 2, 3, 6, 7}
BY DEF PtkWork, GroupWork

LEMMA FitsParts ==
  ASSUME NEW r, Fits(r)
  PROVE  /\ r \in ApType /\ AskFits(r) /\ PtkFits(r) /\ RxFits(r)
         /\ EvtFits(r) /\ TriesFit(r)
         /\ r.ptk \in PtkStates /\ r.grp \in GrpStates
         /\ r.TimeoutCtr \in Nat /\ r.GTimeoutCtr \in Nat
         /\ r.TimeoutEvt \in BOOLEAN /\ r.PTK \in KeyType
         /\ r.ask \in SUBSET Asks
BY DEF Fits, ApType

(* A step of the pairwise machine that does not wake the group machine.     *)
LEMMA GroupLeft ==
  ASSUME NEW r, r.grp \in GrpStates, NEW q, SameGroup(q, r),
         Acknowledged(q) <=> Acknowledged(r),
         "PtkGroupInit" \in q.ask <=> "PtkGroupInit" \in r.ask,
         q.grp = "REKEYNEGOTIATING" /\ q.TimeoutEvt /\ ~Waits(q)
           => r.TimeoutEvt /\ ~Waits(r)
  PROVE  GroupWork(q) <= GroupWork(r)
<1>1. Begins(q) <=> Begins(r)
  BY DEF Begins, SameGroup
<1> QED BY <1>1 DEF GroupWork, SameGroup, GrpStates

LEMMA DisconnectFits ==
  ASSUME NEW r, Fits(r), ToDisconnect(r), NEW q, q = Disconnect(r)
  PROVE  Between(q) /\ Work(q) < Work(r)
<1>1. /\ SameStation(q, r) /\ SameGroup(q, r)
      /\ q.ptk = "DISCONNECT" /\ q.ask = r.ask \ {"Disconnect"}
      /\ q.counter = r.counter /\ q.replay = r.replay
      /\ q.TimeoutCtr = r.TimeoutCtr /\ q.ANonce = r.ANonce /\ q.PTK = r.PTK
      /\ q.TimeoutEvt = r.TimeoutEvt /\ q.rx = r.rx
  BY ZenonT(60), FitsParts, DisconnectFields
<1>2. /\ q.ask \in {{}, {"PtkGroupInit"}} /\ r.started /\ r.rx = {}
      /\ "Disconnect" \in r.ask => r.ask = {"Disconnect"}
      /\ r.TimeoutEvt /\ r.grp = "REKEYNEGOTIATING" => ~Waits(r) /\ r.ask = {}
      /\ PtkWork(r) = 3
  <2>1. CASE "Disconnect" \in r.ask
    BY <2>1, <1>1, FitsParts, AskFacts DEF AskFits, EvtFits, PtkWork
  <2>2. CASE "Disconnect" \notin r.ask
    BY <2>2, <1>1, FitsParts, AskFacts
       DEF AskFits, EvtFits, PtkWork, Calm, Exhausted, Waits, TriesFit,
           ToDisconnect
  <2> QED BY <2>1, <2>2
<1>3. AskFits(q)
  BY <1>1, <1>2, FitsParts DEF AskFits, Early, Pending, SameStation
<1>4. PtkFits(q)
  BY <1>1, <1>2, FitsParts, AskFacts DEF PtkFits, Midway
<1>5. RxFits(q) /\ EvtFits(q)
  BY <1>1, <1>2, FitsParts DEF RxFits, EvtFits, Waits, SameGroup, Early
<1>6. TriesFit(q)
  BY <1>1, <1>2, FitsParts DEF TriesFit, SameGroup
<1>7. PtkWork(q) = 2
  BY <1>1, <1>2 DEF PtkWork
<1>8. GroupWork(q) <= GroupWork(r)
  BY <1>1, <1>2, FitsParts, GroupLeft DEF Acknowledged, SameGroup
<1> QED BY <1>1, <1>2, <1>3, <1>4, <1>5, <1>6, <1>7, <1>8, WorkNat
        DEF Between, Fits, Waits, Work, SameStation

LEMMA DisconnectedFits ==
  ASSUME NEW r, Fits(r), Calm(r, {"DISCONNECT"}),
         NEW q, q = [r EXCEPT !.ptk = "DISCONNECTED"]
  PROVE  Between(q) /\ Work(q) < Work(r)
<1>1. /\ SameStation(q, r) /\ SameFrames(q, r) /\ SameGroup(q, r)
      /\ q.ptk = "DISCONNECTED" /\ q.ask = r.ask /\ q.rx = r.rx
      /\ q.TimeoutCtr = r.TimeoutCtr /\ q.ANonce = r.ANonce /\ q.PTK = r.PTK
      /\ q.TimeoutEvt = r.TimeoutEvt
  BY FitsParts, DisconnectedFields
<1>2. /\ r.ask \in {{}, {"PtkGroupInit"}} /\ r.ptk = "DISCONNECT"
      /\ r.rx = {} /\ r.started
  BY FitsParts, AskFacts DEF Calm, AskFits, RxFits
<1>3. AskFits(q)
  BY <1>1, <1>2, FitsParts DEF AskFits, Early, Pending, SameStation
<1>4. PtkFits(q)
  BY <1>1, <1>2, FitsParts DEF PtkFits, Midway
<1>5. RxFits(q) /\ EvtFits(q)
  BY <1>1, <1>2, FitsParts DEF RxFits, EvtFits, Waits, SameGroup, Early
<1>6. TriesFit(q)
  BY <1>1, <1>2, FitsParts DEF TriesFit, SameGroup, SameFrames
<1>7. PtkWork(q) = 1 /\ PtkWork(r) = 2
  BY <1>1, <1>2 DEF PtkWork
<1>8. GroupWork(q) <= GroupWork(r)
  BY <1>1, <1>2, FitsParts, GroupLeft DEF Acknowledged, SameGroup, Waits
<1> QED BY <1>1, <1>2, <1>3, <1>4, <1>5, <1>6, <1>7, <1>8, WorkNat
        DEF Between, Fits, Waits, Work, SameStation

LEMMA InitializeFits ==
  ASSUME limit \in Limits, rsn \in BOOLEAN, NEW r, Fits(r),
         Calm(r, {"DISCONNECTED"}), NEW q, q = Initialize(r)
  PROVE  Between(q) /\ Work(q) < Work(r)
<1>1. /\ SameStation(q, r) /\ SameFrames(q, r)
      /\ q.ptk = "INITIALIZE" /\ q.PTK = NoKey /\ q.TimeoutCtr = 0
      /\ ~q.GUpdateStationKeys /\ q.PInitAKeys = (r.PInitAKeys /\ rsn)
      /\ q.grp = r.grp /\ q.GTimeoutCtr = r.GTimeoutCtr /\ q.ask = r.ask
      /\ q.ANonce = r.ANonce /\ q.TimeoutEvt = r.TimeoutEvt /\ q.rx = r.rx
  BY FitsParts, InitializeFields
<1>2. /\ r.ask \in {{}, {"PtkGroupInit"}} /\ r.ptk = "DISCONNECTED"
      /\ r.rx = {} /\ r.started
  BY FitsParts, AskFacts DEF Calm, AskFits, RxFits
<1>3. AskFits(q)
  BY <1>1, <1>2, FitsParts DEF AskFits, Early, Pending, SameStation
<1>4. PtkFits(q)
  BY <1>1, <1>2, FitsParts DEF PtkFits, Midway
<1>5. RxFits(q) /\ EvtFits(q)
  BY <1>1, <1>2, FitsParts DEF RxFits, EvtFits, Waits, Early
<1>6. TriesFit(q)
  BY <1>1, <1>2, FitsParts, TriesPositive DEF TriesFit, SameFrames
<1>7. PtkWork(q) = 0 /\ PtkWork(r) = 1
  BY <1>1, <1>2 DEF PtkWork, Waits
<1>8. GroupWork(q) <= GroupWork(r)
  <2>1. ~Begins(q)
    BY <1>1 DEF Begins
  <2>2. ~Waits(q) /\ ~Waits(r)
    BY <1>1, <1>2 DEF Waits
  <2> QED BY <1>1, <1>2, <2>1, <2>2, FitsParts
          DEF GroupWork, Acknowledged, GrpStates
<1> QED BY <1>1, <1>2, <1>3, <1>4, <1>5, <1>6, <1>7, <1>8, WorkNat
        DEF Between, Fits, Waits, Work, SameStation

LEMMA AuthenticationFits ==
  ASSUME limit \in Limits, NEW r, Fits(r), "AuthenticationRequest" \in r.ask,
         NEW q, q = [r EXCEPT !.ptk = "AUTHENTICATION", !.PTK = NoKey,
                              !.ask = @ \ {"AuthenticationRequest"}]
  PROVE  Between(q) /\ Work(q) < Work(r)
<1>1. /\ SameStation(q, r) /\ SameFrames(q, r) /\ SameGroup(q, r)
      /\ q.ptk = "AUTHENTICATION" /\ q.PTK = NoKey
      /\ q.ask = r.ask \ {"AuthenticationRequest"}
      /\ q.TimeoutCtr = r.TimeoutCtr /\ q.ANonce = r.ANonce
      /\ q.TimeoutEvt = r.TimeoutEvt /\ q.rx = r.rx
  BY ZenonT(60), FitsParts, AuthenticationFields
<1>2. /\ r.ask = {"AuthenticationRequest"} /\ q.ask = {} /\ r.rx = {}
      /\ r.started /\ r.seen > 0 /\ r.TimeoutCtr <= limit.tries
      /\ ~(r.TimeoutEvt /\ r.grp = "REKEYNEGOTIATING")
  <2>1. r.ask = {"AuthenticationRequest"} /\ q.ask = {}
    BY <1>1, FitsParts, AskFacts
  <2>2. r.ptk \notin {"DISCONNECT", "DISCONNECTED"} /\ r.ask # {}
    BY <2>1, FitsParts DEF AskFits
  <2>3. TriesFit(r) /\ r.TimeoutCtr \in Nat
    BY FitsParts
  <2>4. limit.tries \in Nat
    BY TriesPositive
  <2>5. r.TimeoutCtr <= limit.tries
    BY <2>2, <2>3, <2>4 DEF TriesFit
  <2> QED BY <2>1, <2>5, FitsParts DEF AskFits, EvtFits, Pending
<1>3. AskFits(q)
  BY <1>1, <1>2, FitsParts DEF AskFits, Early, Pending, SameStation
<1>4. PtkFits(q)
  BY <1>1, <1>2, FitsParts DEF PtkFits, Midway
<1>5. RxFits(q) /\ EvtFits(q)
  BY <1>1, <1>2, FitsParts DEF RxFits, EvtFits, Waits, SameGroup, Early
<1>6. TriesFit(q)
  BY <1>1, <1>2, FitsParts, TriesPositive DEF TriesFit, SameGroup, SameFrames
<1>7. PtkWork(q) = 3 /\ PtkWork(r) = 4
  BY <1>1, <1>2 DEF PtkWork
<1>8. GroupWork(q) <= GroupWork(r)
  BY <1>1, <1>2, FitsParts, GroupLeft DEF Acknowledged, SameGroup
<1> QED BY <1>1, <1>2, <1>3, <1>4, <1>5, <1>6, <1>7, <1>8, WorkNat
        DEF Between, Fits, Waits, Work, SameStation

LEMMA Authentication2Fits ==
  ASSUME limit \in Limits, NEW r, Fits(r), ToAuthentication2(r),
         NEW q, q = Authentication2(r)
  PROVE  Between(q) /\ Work(q) < Work(r)
<1>1. /\ SameStation(q, r) /\ SameFrames(q, r) /\ SameGroup(q, r)
      /\ q.ptk = "AUTHENTICATION2" /\ q.TimeoutCtr = 0 /\ q.ANonce = r.seen
      /\ q.ask = r.ask \ {"ReAuthenticationRequest"} /\ q.PTK = r.PTK
      /\ q.TimeoutEvt = r.TimeoutEvt /\ q.rx = r.rx
  BY FitsParts, Authentication2Fields
<1>2. /\ q.ask \in {{}, {"PtkGroupInit"}} /\ r.rx = {} /\ r.started
      /\ r.seen > 0 /\ r.PTK = NoKey /\ PtkWork(r) = 3
      /\ ~(r.TimeoutEvt /\ r.grp = "REKEYNEGOTIATING")
  <2>1. CASE "ReAuthenticationRequest" \in r.ask
    BY <2>1, <1>1, FitsParts, AskFacts
       DEF AskFits, EvtFits, PtkFits, Pending, PtkWork
  <2>2. CASE "ReAuthenticationRequest" \notin r.ask
    <3>1. r.ptk = "AUTHENTICATION" /\ r.ask \in {{}, {"PtkGroupInit"}}
      BY <2>2, FitsParts, AskFacts DEF Calm, ToAuthentication2
    <3> QED BY <2>2, <3>1, <1>1, FitsParts
            DEF AskFits, EvtFits, PtkFits, Pending, PtkWork, Early, Midway
  <2> QED BY <2>1, <2>2
<1>3. AskFits(q)
  BY <1>1, <1>2, FitsParts DEF AskFits, Early, Pending, SameStation
<1>4. PtkFits(q)
  BY <1>1, <1>2 DEF PtkFits, Midway
<1>5. RxFits(q) /\ EvtFits(q)
  BY <1>1, <1>2, FitsParts DEF RxFits, EvtFits, Waits, SameGroup, Early
<1>6. TriesFit(q)
  BY <1>1, <1>2, FitsParts, TriesPositive DEF TriesFit, SameGroup, SameFrames
<1>7. PtkWork(q) = 2
  BY <1>1, <1>2 DEF PtkWork
<1>8. GroupWork(q) <= GroupWork(r)
  BY <1>1, <1>2, FitsParts, GroupLeft DEF Acknowledged, SameGroup
<1> QED BY <1>1, <1>2, <1>3, <1>4, <1>5, <1>6, <1>7, <1>8, WorkNat
        DEF Between, Fits, Waits, Work, SameStation

LEMMA InitpskFits ==
  ASSUME limit \in Limits, NEW r, Fits(r), Calm(r, {"AUTHENTICATION2"}),
         NEW q, q = [r EXCEPT !.ptk = "INITPSK", !.req = 0]
  PROVE  Between(q) /\ Work(q) < Work(r)
<1>1. /\ SameStation(q, r) /\ SameFrames(q, r) /\ SameGroup(q, r)
      /\ q.ptk = "INITPSK" /\ q.TimeoutCtr = r.TimeoutCtr
      /\ q.ANonce = r.ANonce /\ q.PTK = r.PTK /\ q.ask = r.ask
      /\ q.TimeoutEvt = r.TimeoutEvt /\ q.rx = r.rx
  BY FitsParts, InitpskFields
<1>2. /\ r.ask \in {{}, {"PtkGroupInit"}} /\ r.ptk = "AUTHENTICATION2"
      /\ r.rx = {} /\ r.PTK = NoKey /\ r.started /\ r.TimeoutCtr = 0
      /\ ~(r.TimeoutEvt /\ r.grp = "REKEYNEGOTIATING")
  BY FitsParts, AskFacts
     DEF Calm, AskFits, PtkFits, EvtFits, TriesFit, Early, Midway
<1>3. AskFits(q)
  BY <1>1, <1>2, FitsParts DEF AskFits, Early, Pending, SameStation
<1>4. PtkFits(q)
  BY <1>1, <1>2 DEF PtkFits, Midway
<1>5. RxFits(q) /\ EvtFits(q)
  BY <1>1, <1>2, FitsParts DEF RxFits, EvtFits, Waits, SameGroup, Early
<1>6. TriesFit(q)
  BY <1>1, <1>2, FitsParts, TriesPositive DEF TriesFit, SameGroup, SameFrames
<1>7. PtkWork(q) = 1 /\ PtkWork(r) = 2
  BY <1>1, <1>2 DEF PtkWork
<1>8. GroupWork(q) <= GroupWork(r)
  BY <1>1, <1>2, FitsParts, GroupLeft DEF Acknowledged, SameGroup
<1> QED BY <1>1, <1>2, <1>3, <1>4, <1>5, <1>6, <1>7, <1>8, WorkNat
        DEF Between, Fits, Waits, Work, SameStation

(* It is entered with no key and nothing received, by a request, or for one *)
(* more try.                                                                *)
LEMMA PtkStartFits ==
  ASSUME limit \in Limits, NEW r, Fits(r), ToPtkStart(r),
         NEW q, q = PtkStart(r)
  PROVE  /\ Between(q) /\ Work(q) < Work(r)
         /\ r.PTK = NoKey /\ r.rx = {} /\ r.ANonce > 0 /\ ~Pending(r)
         /\ ~Pending(q)
<1>1. /\ SameStation(q, r) /\ SameGroup(q, r)
      /\ q.ptk = "PTKSTART" /\ q.ask = r.ask \ {"PTKRequest"}
      /\ ~q.TimeoutEvt /\ q.TimeoutCtr = r.TimeoutCtr + 1
      /\ q.ANonce = r.ANonce /\ q.PTK = r.PTK /\ q.rx = r.rx
      /\ Len(q.replay) <= limit.tries
  <2>1. Len(r.replay) <= limit.tries
    BY FitsParts DEF TriesFit
  <2> DEFINE f == Frame("1/4", r.counter + 1, r.ANonce, r.PTK, 0)
  <2>2. SameFrames(q, r) \/ Sends(q, r, f)
    BY FitsParts, PtkStartFields
  <2> HIDE DEF f
  <2>3. Len(q.replay) <= limit.tries
    BY <2>1, <2>2 DEF Sends, SameFrames
  <2> QED BY <2>3, FitsParts, PtkStartFields
<1>2. /\ r.PTK = NoKey /\ r.rx = {} /\ r.ANonce > 0 /\ ~Pending(r)
      /\ q.ask \in {{}, {"PtkGroupInit"}} /\ r.started
      /\ "PtkGroupInit" \in q.ask <=> "PtkGroupInit" \in r.ask
      /\ r.grp = "REKEYNEGOTIATING" /\ r.GTimeoutCtr > limit.tries => FALSE
      /\ \/ r.TimeoutCtr = 0 /\ PtkWork(r) = 1
         \/ r.TimeoutCtr <= limit.tries /\ PtkWork(r) = 4 /\ q.ask = {}
  <2>1. CASE "PTKRequest" \in r.ask
    <3>1. r.ask = {"PTKRequest"} /\ q.ask = {}
      BY <2>1, <1>1, FitsParts, AskFacts
    <3>2. r.rx = {} /\ r.ANonce > 0 /\ r.started
          /\ r.ptk \notin {"DISCONNECT", "DISCONNECTED", "AUTHENTICATION"}
          /\ r.ask # {} /\ "PTKRequest" \notin {"Disconnect"}
      BY <3>1, FitsParts DEF AskFits, Early
    <3>3. r.PTK = NoKey /\ r.TimeoutCtr <= limit.tries
          /\ ~(r.grp = "REKEYNEGOTIATING" /\ r.GTimeoutCtr > limit.tries)
      <4>1. /\ PtkFits(r) /\ TriesFit(r)
            /\ r.TimeoutCtr \in Nat /\ limit.tries \in Nat
        BY FitsParts, TriesPositive
      <4>2. r.PTK = NoKey
        BY <3>1, <4>1 DEF PtkFits
      <4>3. r.TimeoutCtr <= limit.tries
        BY <3>2, <4>1 DEF TriesFit
      <4>4. ~(r.grp = "REKEYNEGOTIATING" /\ r.GTimeoutCtr > limit.tries)
        BY <3>2, <4>1 DEF TriesFit
      <4> QED BY <4>2, <4>3, <4>4
    <3> QED BY <3>1, <3>2, <3>3 DEF PtkWork, Pending
  <2>2. CASE "PTKRequest" \notin r.ask
    <3>1. r.ask \in {{}, {"PtkGroupInit"}} /\ q.ask = r.ask
      BY <2>2, <1>1, FitsParts, AskFacts DEF Calm, ToPtkStart
    <3>2. CASE r.ptk = "INITPSK"
      BY <3>1, <3>2, FitsParts
         DEF AskFits, PtkFits, TriesFit, EvtFits, Early, Midway, PtkWork, Pending
    <3>3. CASE r.ptk # "INITPSK"
      <4>1. /\ r.ptk \in {"PTKSTART", "PTKCALCNEGOTIATING"} /\ r.TimeoutEvt
            /\ r.ptk = "PTKCALCNEGOTIATING" => r.PTK = NoKey
        BY <2>2, <3>3 DEF Calm, ToPtkStart
      <4>2. Waits(r) /\ r.PTK = NoKey
        BY <4>1, FitsParts DEF Waits, PtkFits, Midway
      <4>3. /\ r.ask = {} /\ r.rx = {} /\ r.TimeoutCtr <= limit.tries
            /\ r.GTimeoutCtr <= limit.tries
        BY <4>1, <4>2, FitsParts DEF EvtFits
      <4>4. PtkWork(r) = 4 /\ ~Pending(r)
        BY <4>1, <4>2, <4>3 DEF PtkWork, Pending
      <4> QED BY <4>1, <4>2, <4>3, <4>4, <3>1, FitsParts, TriesPositive
              DEF AskFits
    <3> QED BY <3>2, <3>3
  <2> QED BY <2>1, <2>2
<1>3. AskFits(q) /\ ~Pending(q)
  BY <1>1, <1>2 DEF AskFits, Early, Pending, SameStation
<1>4. PtkFits(q)
  BY <1>1, <1>2 DEF PtkFits, Midway
<1>5. RxFits(q) /\ EvtFits(q)
  BY <1>1, <1>2 DEF RxFits, EvtFits
<1>6. TriesFit(q)
  BY <1>1, <1>2, FitsParts, TriesPositive DEF TriesFit, SameGroup
<1>7. PtkWork(q) < PtkWork(r)
  BY <1>1, <1>2, FitsParts, TriesPositive DEF PtkWork, Waits, Answered, Exhausted
<1>8. GroupWork(q) <= GroupWork(r)
  BY <1>1, <1>2, FitsParts, GroupLeft DEF Acknowledged, SameGroup
<1> QED BY <1>1, <1>2, <1>3, <1>4, <1>5, <1>6, <1>7, <1>8, WorkNat
        DEF Between, Fits, Work, SameStation

(* The answer that the pairwise machine finds.                              *)
LEMMA AnswerFacts ==
  ASSUME NEW r, Fits(r), Answered(r),
         NEW P, P \subseteq {"PTKSTART", "PTKCALCNEGOTIATING",
                             "PTKINITNEGOTIATING"},
         Calm(r, P)
  PROVE  \E m \in r.rx :
           /\ r.rx = {m} /\ Silent(r) /\ ~Acknowledged(r) /\ r.ask = {}
           /\ Waits(r) /\ ~r.TimeoutEvt
           /\ IF r.ptk = "PTKINITNEGOTIATING"
              THEN m.kind = "4/4" /\ m.key = r.PTK /\ r.PTK # NoKey
              ELSE m.kind = "2/4" /\ r.PTK = NoKey /\ r.replay = <<>>
<1>1. r.rx # {} /\ r.ptk \in {"PTKSTART", "PTKCALCNEGOTIATING",
                              "PTKINITNEGOTIATING"}
  BY DEF Answered, Calm
<1>2. PICK m \in r.rx :
        /\ r.rx = {m}
        /\ Waits(r) => ~r.TimeoutEvt
        /\ \/ /\ m.kind = "2/4" /\ r.PTK = NoKey /\ r.replay = <<>>
              /\ r.ptk \in {"PTKSTART", "PTKCALCNEGOTIATING"} /\ Silent(r)
           \/ /\ m.kind = "4/4" /\ r.PTK # NoKey /\ m.key = r.PTK
              /\ r.ptk = "PTKINITNEGOTIATING"
  BY <1>1 DEF Fits, RxFits
<1>3. Silent(r)
  BY <1>1, <1>2 DEF Fits, PtkFits, Midway
<1>4. Waits(r)
  BY <1>1, <1>2 DEF Waits
<1> QED BY <1>1, <1>2, <1>3, <1>4 DEF Silent, Acknowledged

LEMMA CalcFits ==
  ASSUME limit \in Limits, NEW r, Fits(r), ToCalc(r),
         NEW q, q = PtkCalcNegotiating(r)
  PROVE  Between(q) /\ Work(q) < Work(r)
<1>1. Calm(r, {"PTKSTART", "PTKCALCNEGOTIATING"}) /\ Answered(r)
  BY DEF Calm, ToCalc
<1>2. PICK m \in r.rx :
        /\ r.rx = {m} /\ Silent(r) /\ ~Acknowledged(r) /\ r.ask = {}
        /\ Waits(r) /\ ~r.TimeoutEvt
        /\ m.kind = "2/4" /\ r.PTK = NoKey /\ r.replay = <<>>
  BY <1>1, AnswerFacts DEF Calm
<1>3. /\ SameStation(q, r) /\ SameGroup(q, r) /\ SameFrames(q, r)
      /\ q.ptk = "PTKCALCNEGOTIATING" /\ q.rx = {}
      /\ q.PTK = NoKey \/ q.PTK = <<r.ANonce, m.nonce>>
      /\ q.ask = {} /\ ~q.TimeoutEvt
      /\ q.TimeoutCtr = r.TimeoutCtr /\ q.ANonce = r.ANonce
  <2>1. r \in ApType
    BY DEF Fits
  <2>2. /\ SameStation(q, r) /\ SameGroup(q, r) /\ SameFrames(q, r)
        /\ q.ptk = "PTKCALCNEGOTIATING" /\ q.rx = {}
        /\ IF m.key = <<r.ANonce, m.nonce>> THEN q.PTK = m.key
           ELSE q.PTK = r.PTK
        /\ q.ask = r.ask /\ q.TimeoutEvt = r.TimeoutEvt
        /\ q.TimeoutCtr = r.TimeoutCtr /\ q.ANonce = r.ANonce
    BY <1>2, <2>1, CalcFields
  <2>3. q.PTK = NoKey \/ q.PTK = <<r.ANonce, m.nonce>>
    BY <1>2, <2>2
  <2> QED BY <1>2, <2>2, <2>3
<1>4. /\ r.started /\ r.TimeoutCtr <= limit.tries /\ r.ANonce > 0
      /\ r.ptk \in {"PTKSTART", "PTKCALCNEGOTIATING"} /\ r.rx # {}
  <2>1. r.ptk \in {"PTKSTART", "PTKCALCNEGOTIATING"} /\ r.rx # {}
    BY <1>1, <1>2 DEF Calm
  <2>2. r.started /\ r.ANonce > 0
    BY <2>1 DEF Fits, AskFits
  <2>3. TriesFit(r) /\ r.TimeoutCtr \in Nat /\ limit.tries \in Nat
    BY FitsParts, TriesPositive
  <2>4. r.TimeoutCtr <= limit.tries
    BY <2>1, <2>3 DEF TriesFit
  <2> QED BY <2>1, <2>2, <2>4
<1>5. AskFits(q)
  BY <1>3, <1>4 DEF AskFits, Early, Pending, SameStation
<1>6. PtkFits(q)
  <2>1. Silent(q)
    BY <1>2, <1>3 DEF Silent, SameGroup, Begins
  <2>2. q.PTK # NoKey => Midway(q) /\ q.PTK[1] = q.ANonce
    BY <1>3 DEF Midway
  <2> QED BY <1>3, <2>1, <2>2 DEF PtkFits
<1>7. RxFits(q) /\ EvtFits(q)
  BY <1>3 DEF RxFits, EvtFits
<1>8. TriesFit(q)
  <2>1. TriesFit(r) /\ r.TimeoutCtr \in Nat /\ limit.tries \in Nat
    BY FitsParts, TriesPositive
  <2>2. r.GTimeoutCtr > limit.tries => r.grp = "KEYERROR"
    BY <2>1, <1>2 DEF TriesFit
  <2> QED BY <2>1, <2>2, <1>3, <1>4 DEF TriesFit, SameGroup, SameFrames
<1>9. PtkWork(q) <= 2 /\ PtkWork(r) = 3
  <2>1. PtkWork(r) = 3
    BY <1>1, <1>2, <1>4 DEF PtkWork
  <2>2. ~Answered(q) /\ ~Exhausted(q)
    BY <1>3, <1>4, FitsParts, TriesPositive DEF Answered, Exhausted
  <2> QED BY <2>1, <2>2, <1>3 DEF PtkWork
<1>10. GroupWork(q) <= GroupWork(r)
  BY <1>2, <1>3, FitsParts, GroupLeft DEF Acknowledged, SameGroup
<1> QED BY <1>3, <1>5, <1>6, <1>7, <1>8, <1>9, <1>10, WorkNat
        DEF Between, Fits, Work, SameStation

LEMMA Calc2Fits ==
  ASSUME limit \in Limits, NEW r, Fits(r), Calm(r, {"PTKCALCNEGOTIATING"}),
         r.PTK # NoKey,
         NEW q, q = [r EXCEPT !.ptk = "PTKCALCNEGOTIATING2", !.TimeoutCtr = 0]
  PROVE  Between(q) /\ Work(q) < Work(r) /\ Midway(r)
<1>1. /\ SameStation(q, r) /\ SameFrames(q, r) /\ SameGroup(q, r)
      /\ q.ptk = "PTKCALCNEGOTIATING2" /\ q.TimeoutCtr = 0 /\ q.ask = r.ask
      /\ q.ANonce = r.ANonce /\ q.PTK = r.PTK
      /\ q.TimeoutEvt = r.TimeoutEvt /\ q.rx = r.rx
  BY FitsParts, Calc2Fields
<1>2. /\ r.ptk = "PTKCALCNEGOTIATING" /\ Midway(r) /\ Silent(r) /\ ~Waits(r)
      /\ r.rx = {} /\ r.started /\ r.ANonce > 0 /\ r.PTK[1] = r.ANonce
      /\ r.ask = {}
  BY DEF Calm, Midway, Waits, Silent, Fits, AskFits, PtkFits
<1>3. AskFits(q)
  BY <1>1, <1>2 DEF AskFits, Early, Pending, SameStation
<1>4. ~Waits(q) /\ Midway(q) /\ Silent(q)
  BY <1>1, <1>2 DEF Waits, Midway, Silent, SameGroup, Begins
<1>5. PtkFits(q)
  BY <1>1, <1>2, <1>4 DEF PtkFits
<1>6. RxFits(q) /\ EvtFits(q)
  BY <1>1, <1>2, <1>4 DEF RxFits, EvtFits, Early
<1>7. TriesFit(q)
  <2>1. TriesFit(r) /\ limit.tries \in Nat
    BY FitsParts, TriesPositive
  <2> QED BY <2>1, <1>1, <1>2 DEF TriesFit, SameGroup, SameFrames
<1>8. PtkWork(q) = 1 /\ PtkWork(r) = 2
  BY <1>1, <1>2 DEF PtkWork
<1>9. GroupWork(q) <= GroupWork(r)
  BY <1>1, <1>2, <1>4, FitsParts, GroupLeft DEF Acknowledged, SameGroup
<1> QED BY <1>1, <1>2, <1>3, <1>4, <1>5, <1>6, <1>7, <1>8, <1>9, WorkNat
        DEF Between, Fits, Work, SameStation

LEMMA InitNegotiatingFits ==
  ASSUME limit \in Limits, NEW r, Fits(r), NEW g \in Nat, ToInitNegotiating(r),
         NEW q, q = PtkInitNegotiating(r, g)
  PROVE  /\ Between(q) /\ Work(q) < Work(r)
         /\ r.PTK # NoKey => Midway(r)
         /\ r.rx = {} /\ ~Pending(r) /\ ~Pending(q) /\ r.ask = {}
         /\ r.ANonce > 0
<1>1. /\ SameStation(q, r) /\ SameGroup(q, r)
      /\ q.ptk = "PTKINITNEGOTIATING" /\ q.ask = r.ask
      /\ ~q.TimeoutEvt /\ q.TimeoutCtr = r.TimeoutCtr + 1
      /\ q.ANonce = r.ANonce /\ q.PTK = r.PTK /\ q.rx = r.rx
      /\ Len(q.replay) <= limit.tries
  <2>1. Len(r.replay) <= limit.tries
    BY FitsParts DEF TriesFit
  <2> DEFINE f == Frame("3/4", r.counter + 1, r.ANonce, r.PTK,
                        IF rsn THEN g ELSE 0)
  <2>2. SameFrames(q, r) \/ Sends(q, r, f)
    BY FitsParts, PtkInitNegotiatingFields
  <2> HIDE DEF f
  <2>3. Len(q.replay) <= limit.tries
    BY <2>1, <2>2 DEF Sends, SameFrames
  <2> QED BY <2>3, FitsParts, PtkInitNegotiatingFields
<1>2. /\ r.rx = {} /\ r.ANonce > 0 /\ ~Pending(r) /\ r.ask = {} /\ r.started
      /\ r.ptk \in {"PTKCALCNEGOTIATING2", "PTKINITNEGOTIATING"}
      /\ ~(r.grp = "REKEYNEGOTIATING" /\ r.GTimeoutCtr > limit.tries)
      /\ r.PTK # NoKey => r.PTK[1] = r.ANonce /\ Midway(r) /\ Silent(r)
      /\ \/ r.TimeoutCtr = 0 /\ PtkWork(r) = 1
         \/ r.TimeoutCtr <= limit.tries /\ PtkWork(r) = 4
  <2>1. /\ AskFits(r) /\ PtkFits(r) /\ TriesFit(r) /\ EvtFits(r)
        /\ r.TimeoutCtr \in Nat /\ r.GTimeoutCtr \in Nat /\ limit.tries \in Nat
    BY FitsParts, TriesPositive
  <2>2. CASE r.ptk = "PTKCALCNEGOTIATING2"
    <3>1. r.PTK # NoKey /\ Midway(r)
      BY <2>1, <2>2 DEF PtkFits, Midway
    <3>2. Silent(r) /\ r.rx = {} /\ r.PTK[1] = r.ANonce
      BY <2>1, <2>2, <3>1 DEF PtkFits
    <3>3. r.TimeoutCtr = 0 /\ r.ask = {}
      BY <2>1, <2>2, <3>2 DEF TriesFit, Silent
    <3>4. PtkWork(r) = 1 /\ ~Pending(r)
      BY <2>2, <3>3 DEF PtkWork, Pending
    <3>5. ~(r.grp = "REKEYNEGOTIATING" /\ r.GTimeoutCtr > limit.tries)
      BY <2>1, <3>2 DEF Silent
    <3> QED BY <2>1, <2>2, <3>1, <3>2, <3>3, <3>4, <3>5 DEF AskFits
  <2>3. CASE r.ptk # "PTKCALCNEGOTIATING2"
    <3>1. r.ptk = "PTKINITNEGOTIATING" /\ r.TimeoutEvt /\ Waits(r)
      BY <2>3 DEF Calm, Waits, ToInitNegotiating
    <3>2. /\ r.ask = {} /\ r.rx = {} /\ r.TimeoutCtr <= limit.tries
          /\ r.GTimeoutCtr <= limit.tries
      BY <2>1, <3>1 DEF EvtFits
    <3>3. PtkWork(r) = 4 /\ ~Pending(r)
      BY <3>1, <3>2 DEF PtkWork, Pending
    <3>4. r.PTK # NoKey => r.PTK[1] = r.ANonce /\ Midway(r) /\ Silent(r)
      BY <2>1, <3>1 DEF PtkFits, Midway
    <3> QED BY <2>1, <3>1, <3>2, <3>3, <3>4 DEF AskFits
  <2> QED BY <2>2, <2>3
<1>3. AskFits(q) /\ ~Pending(q)
  BY <1>1, <1>2 DEF AskFits, Early, Pending, SameStation
<1>4. PtkFits(q)
  <2>1. r.PTK # NoKey => Silent(q)
    BY <1>1, <1>2 DEF Silent, SameGroup, Begins
  <2> QED BY <2>1, <1>1, <1>2 DEF PtkFits, Midway
<1>5. RxFits(q) /\ EvtFits(q)
  BY <1>1, <1>2 DEF RxFits, EvtFits
<1>6. TriesFit(q)
  <2>1. /\ TriesFit(r) /\ r.TimeoutCtr \in Nat /\ r.GTimeoutCtr \in Nat
        /\ limit.tries \in Nat \ {0} /\ r.grp \in GrpStates
    BY FitsParts, TriesPositive
  <2> QED BY <2>1, <1>1, <1>2 DEF TriesFit, SameGroup, GrpStates
<1>7. PtkWork(q) < PtkWork(r)
  BY <1>1, <1>2, FitsParts, TriesPositive DEF PtkWork, Waits, Answered, Exhausted
<1>8. GroupWork(q) <= GroupWork(r)
  BY <1>1, <1>2, FitsParts, GroupLeft DEF Acknowledged, SameGroup
<1> QED BY <1>1, <1>2, <1>3, <1>4, <1>5, <1>6, <1>7, <1>8, WorkNat
        DEF Between, Fits, Work, SameStation

LEMMA DoneFits ==
  ASSUME limit \in Limits, rsn \in BOOLEAN, NEW r, Fits(r),
         Calm(r, {"PTKINITNEGOTIATING"}), Answered(r),
         NEW q, q = PtkInitDone(r)
  PROVE  Between(q) /\ Work(q) < Work(r)
<1>1. PICK m \in r.rx :
        /\ r.rx = {m} /\ Silent(r) /\ ~Acknowledged(r) /\ r.ask = {}
        /\ Waits(r) /\ ~r.TimeoutEvt /\ r.ptk = "PTKINITNEGOTIATING"
        /\ m.kind = "4/4" /\ m.key = r.PTK /\ r.PTK # NoKey
  BY AnswerFacts DEF Calm
<1>2. /\ SameStation(q, r) /\ q.ptk = "PTKINITDONE" /\ q.rx = {}
      /\ q.PInitAKeys = r.PInitAKeys \/ q.PInitAKeys = (r.PInitAKeys \/ ~rsn)
      /\ q.ask = {} /\ ~q.TimeoutEvt
      /\ q.TimeoutCtr = r.TimeoutCtr /\ q.ANonce = r.ANonce
      /\ q.PTK = r.PTK /\ q.replay = r.replay
      /\ q.grp = r.grp /\ q.GTimeoutCtr = r.GTimeoutCtr
      /\ q.GUpdateStationKeys = r.GUpdateStationKeys
  BY <1>1, FitsParts, DoneFields
<1>3. /\ r.started /\ r.TimeoutCtr <= limit.tries /\ r.ANonce > 0
      /\ r.PTK[1] = r.ANonce
  <2>1. TriesFit(r) /\ r.TimeoutCtr \in Nat /\ limit.tries \in Nat
    BY FitsParts, TriesPositive
  <2>2. r.rx # {}
    BY <1>1
  <2>3. r.TimeoutCtr <= limit.tries
    BY <1>1, <2>1, <2>2 DEF TriesFit
  <2> QED BY <2>3, <1>1 DEF Fits, AskFits, PtkFits
<1>4. AskFits(q)
  BY <1>2, <1>3 DEF AskFits, Early, Pending, SameStation
<1>5. PtkFits(q)
  BY <1>2, <1>3 DEF PtkFits, Midway
<1>6. RxFits(q) /\ EvtFits(q)
  BY <1>2 DEF RxFits, EvtFits
<1>7. TriesFit(q)
  <2>1. TriesFit(r) /\ r.TimeoutCtr \in Nat /\ limit.tries \in Nat
    BY FitsParts, TriesPositive
  <2>2. r.GTimeoutCtr > limit.tries => r.grp = "KEYERROR"
    BY <2>1, <1>1 DEF TriesFit
  <2> QED BY <2>1, <2>2, <1>2, <1>3 DEF TriesFit
<1>8. PtkWork(q) = 0
  BY <1>2 DEF PtkWork, Waits
<1>9. PtkWork(r) = 3
  BY <1>1 DEF PtkWork
<1>10. GroupWork(q) <= 1
  <2>1. ~Acknowledged(q)
    BY <1>2 DEF Acknowledged
  <2>2. r.GTimeoutCtr \in Nat /\ limit.tries \in Nat
    BY FitsParts, TriesPositive
  <2> QED BY <2>1, <2>2, <1>1, <1>2 DEF GroupWork, Silent
<1> QED BY <1>2, <1>4, <1>5, <1>6, <1>7, <1>8, <1>9, <1>10, WorkNat
        DEF Between, Fits, Work, SameStation

LEMMA PtkStays ==
  ASSUME limit \in Limits, NEW r, Fits(r), ~PtkMoves(r)
  PROVE  Between(r) /\ PtkWork(r) = 0
<1>1. /\ TriesFit(r) /\ EvtFits(r) /\ r.TimeoutCtr \in Nat
      /\ limit.tries \in Nat /\ r.ptk \in PtkStates
  BY FitsParts, TriesPositive
<1>2. /\ "Disconnect" \notin r.ask /\ "AuthenticationRequest" \notin r.ask
      /\ "ReAuthenticationRequest" \notin r.ask
  BY DEF PtkMoves, ToDisconnect, ToAuthentication2
<1>3. "PTKRequest" \notin r.ask
  <2>1. "PTKRequest" \in r.ask => r.ask = {"PTKRequest"}
    BY FitsParts, AskFacts
  <2> QED BY <2>1, <1>2 DEF PtkMoves, ToPtkStart
<1>4. r.ask \subseteq {"PtkGroupInit"}
  BY <1>2, <1>3, FitsParts, AskFacts
<1>5. r.ptk \notin {"AUTHENTICATION", "AUTHENTICATION2", "INITPSK",
                    "DISCONNECT", "DISCONNECTED", "PTKCALCNEGOTIATING2"}
  BY <1>4 DEF PtkMoves, Calm, ToAuthentication2, ToPtkStart, ToInitNegotiating
<1>6. r.ptk = "PTKCALCNEGOTIATING" => r.PTK = NoKey
  BY <1>4 DEF PtkMoves, Calm
<1>7. ASSUME Waits(r)
      PROVE  ~r.TimeoutEvt /\ ~Answered(r) /\ ~Exhausted(r)
  <2>1. ~Answered(r) /\ ~(~Exhausted(r) /\ r.TimeoutEvt)
    BY <1>4, <1>7
       DEF PtkMoves, Calm, Waits, ToPtkStart, ToCalc, ToInitNegotiating
  <2>2. ~Exhausted(r)
    <3>1. CASE r.ptk \in {"PTKSTART", "PTKINITNEGOTIATING"}
      BY <3>1, <2>1, <1>4 DEF PtkMoves, Calm, ToDisconnect
    <3>2. CASE r.ptk = "PTKCALCNEGOTIATING"
      BY <3>2, <1>1 DEF TriesFit, Exhausted
    <3> QED BY <3>1, <3>2, <1>7 DEF Waits
  <2> QED BY <2>1, <2>2
<1>8. PtkWork(r) = 0
  BY <1>2, <1>3, <1>5, <1>6, <1>7 DEF PtkWork, Waits
<1> QED BY <1>7, <1>8 DEF Between

LEMMA PtkRests ==
  ASSUME limit \in Limits, NEW r, Fits(r), PtkWork(r) = 0
  PROVE  /\ ~PtkMoves(r) /\ ~Pending(r) /\ ~Early(r)
         /\ r.ask \in {{}, {"PtkGroupInit"}}
         /\ r.ptk \in {"INITIALIZE", "PTKSTART", "PTKCALCNEGOTIATING",
                       "PTKINITNEGOTIATING", "PTKINITDONE"}
         /\ r.ptk = "PTKCALCNEGOTIATING" => r.PTK = NoKey
         /\ Waits(r) => ~r.TimeoutEvt /\ ~Answered(r) /\ ~Exhausted(r)
<1>1. /\ "Disconnect" \notin r.ask /\ "AuthenticationRequest" \notin r.ask
      /\ "ReAuthenticationRequest" \notin r.ask
      /\ "PTKRequest" \notin r.ask
  BY DEF PtkWork
<1>2. r.ask \in {{}, {"PtkGroupInit"}}
  BY <1>1, FitsParts, AskFacts
<1>3. /\ r.ptk \in {"INITIALIZE", "PTKSTART", "PTKCALCNEGOTIATING",
                    "PTKINITNEGOTIATING", "PTKINITDONE"}
      /\ r.ptk = "PTKCALCNEGOTIATING" => r.PTK = NoKey
      /\ Waits(r) => ~r.TimeoutEvt /\ ~Answered(r) /\ ~Exhausted(r)
  BY <1>1, FitsParts DEF PtkWork, Waits, PtkStates
<1>4. ~Pending(r) /\ ~Early(r)
  BY <1>1, <1>3 DEF Pending, Early
<1>5. ~ToDisconnect(r)
  BY <1>1, <1>3 DEF ToDisconnect, Calm, Waits
<1>6. ~ToAuthentication2(r)
  BY <1>1, <1>3 DEF ToAuthentication2, Calm
<1>7. ~ToPtkStart(r)
  <2>1. r.ask \cap {"PTKRequest", "Disconnect"} # {"PTKRequest"}
    BY <1>1
  <2> QED BY <2>1, <1>3 DEF ToPtkStart, Calm, Waits
<1>8. ~ToCalc(r) /\ ~ToInitNegotiating(r)
      /\ ~(Calm(r, {"PTKINITNEGOTIATING"}) /\ Answered(r))
  BY <1>3 DEF ToCalc, ToInitNegotiating, Calm, Waits
<1>9. ~PtkMoves(r)
  BY <1>1, <1>3, <1>5, <1>6, <1>7, <1>8 DEF PtkMoves, Calm
<1> QED BY <1>2, <1>3, <1>4, <1>9

(* All the steps of the pairwise machine.                                   *)
LEMMA PtkSmFits ==
  ASSUME limit \in Limits, rsn \in BOOLEAN, NEW r, Fits(r), NEW g \in Nat,
         NEW q, q = PtkSm(r, g)
  PROVE  /\ Between(q)
         /\ Work(q) < Work(r) \/ (q = r /\ PtkWork(r) = 0)
<1>1. CASE ToDisconnect(r) /\ q = Disconnect(r)
  BY <1>1, DisconnectFits
<1>2. CASE Calm(r, {"DISCONNECT"}) /\ q = [r EXCEPT !.ptk = "DISCONNECTED"]
  BY <1>2, DisconnectedFits
<1>3. CASE Calm(r, {"DISCONNECTED"}) /\ q = Initialize(r)
  BY <1>3, InitializeFits
<1>4. CASE /\ "AuthenticationRequest" \in r.ask
           /\ q = [r EXCEPT !.ptk = "AUTHENTICATION", !.PTK = NoKey,
                            !.ask = @ \ {"AuthenticationRequest"}]
  BY <1>4, AuthenticationFits
<1>5. CASE ToAuthentication2(r) /\ q = Authentication2(r)
  BY <1>5, Authentication2Fits
<1>6. CASE /\ Calm(r, {"AUTHENTICATION2"})
           /\ q = [r EXCEPT !.ptk = "INITPSK", !.req = 0]
  BY <1>6, InitpskFits
<1>7. CASE ToPtkStart(r) /\ q = PtkStart(r)
  BY <1>7, PtkStartFits
<1>8. CASE ToCalc(r) /\ q = PtkCalcNegotiating(r)
  BY <1>8, CalcFits
<1>9. CASE /\ Calm(r, {"PTKCALCNEGOTIATING"}) /\ r.PTK # NoKey
           /\ q = [r EXCEPT !.ptk = "PTKCALCNEGOTIATING2", !.TimeoutCtr = 0]
  BY <1>9, Calc2Fits
<1>10. CASE ToInitNegotiating(r) /\ q = PtkInitNegotiating(r, g)
  BY <1>10, InitNegotiatingFits
<1>11. CASE /\ Calm(r, {"PTKINITNEGOTIATING"}) /\ Answered(r)
            /\ q = PtkInitDone(r)
  BY <1>11, DoneFits
<1>12. CASE q = r /\ ~PtkMoves(r)
  BY <1>12, PtkStays
<1>13. PtkStep(r, g, q)
  BY PtkSteps
<1> QED BY <1>1, <1>2, <1>3, <1>4, <1>5, <1>6, <1>7, <1>8, <1>9, <1>10,
           <1>11, <1>12, <1>13 DEF PtkStep
-----------------------------------------------------------------------------
(* Each step of the group machine, too.                                     *)
LEMMA IdleFits ==
  ASSUME limit \in Limits, NEW r, Between(r),
         \/ "PtkGroupInit" \in r.ask
         \/ r.grp \in {"REKEYESTABLISHED", "KEYERROR"},
         NEW q, q = [r EXCEPT !.grp = "IDLE", !.GTimeoutCtr = 0,
                              !.ask = @ \ {"PtkGroupInit"}]
  PROVE  Fits(q) /\ Work(q) < Work(r) /\ ~Midway(r)
<1>1. /\ SameStation(q, r) /\ SameFrames(q, r) /\ SamePtk(q, r)
      /\ q.grp = "IDLE" /\ q.GTimeoutCtr = 0
      /\ q.ask = r.ask \ {"PtkGroupInit"} /\ q.TimeoutEvt = r.TimeoutEvt
      /\ q.rx = r.rx
  BY IdleFields DEF Between, Fits
<1>2. Fits(r) /\ ~(r.TimeoutEvt /\ Waits(r))
  BY DEF Between
<1>3. ~Midway(r) /\ r.rx = {}
  <2>1. ~Silent(r)
    BY DEF Silent
  <2>2. PtkFits(r) /\ RxFits(r) /\ AskFits(r)
    BY <1>2, FitsParts
  <2>3. ~Midway(r)
    BY <2>1, <2>2 DEF PtkFits
  <2>4. r.rx = {}
    BY <2>1, <2>2, <2>3 DEF RxFits, Midway, AskFits
  <2> QED BY <2>3, <2>4
<1>4. /\ (Waits(q) <=> Waits(r)) /\ (Midway(q) <=> Midway(r))
      /\ (Early(q) <=> Early(r))
  BY <1>1 DEF SamePtk, Waits, Midway, Early
<1>5. /\ q.ask \in {{}, {"AuthenticationRequest"}, {"ReAuthenticationRequest"},
                    {"PTKRequest"}, {"Disconnect"}}
      /\ "PtkGroupInit" \notin q.ask
      /\ \A a \in Asks \ {"PtkGroupInit"} : a \in q.ask <=> a \in r.ask
      /\ r.ask = {} => q.ask = {}
      /\ r.ask \subseteq {"PtkGroupInit"} => q.ask = {}
      /\ r.ask \subseteq {"Disconnect"} => q.ask \subseteq {"Disconnect"}
      /\ r.ask \subseteq {"PtkGroupInit", "Disconnect"} =>
           q.ask \subseteq {"PtkGroupInit", "Disconnect"}
  <2>1. q.ask \in {{}, {"AuthenticationRequest"}, {"ReAuthenticationRequest"},
                   {"PTKRequest"}, {"Disconnect"}}
    BY <1>1, <1>2, FitsParts, AskFacts
  <2> QED BY <2>1, <1>1
<1>6. Pending(q) => Pending(r)
  BY <1>1, <1>5 DEF Pending, SamePtk, Asks
<1>7. AskFits(q)
  <2>1. AskFits(r)
    BY <1>2, FitsParts
  <2>2. "PTKRequest" \in q.ask <=> "PTKRequest" \in r.ask
    BY <1>5 DEF Asks
  <2>3. ~r.started => r.ask = {}
    BY <2>1 DEF AskFits
  <2> QED BY <2>1, <2>2, <2>3, <1>1, <1>3, <1>4, <1>5, <1>6
          DEF AskFits, SameStation, SamePtk
<1>8. PtkFits(q)
  BY <1>1, <1>2, <1>3, <1>4, <1>5, FitsParts DEF PtkFits, SamePtk
<1>9. RxFits(q) /\ EvtFits(q)
  BY <1>1, <1>2, <1>3, <1>4 DEF RxFits, EvtFits
<1>10. TriesFit(q)
  <2>1. TriesFit(r) /\ limit.tries \in Nat
    BY <1>2, FitsParts, TriesPositive
  <2> QED BY <2>1, <1>1, <1>5 DEF TriesFit, SamePtk, SameFrames
<1>11. PtkWork(q) = PtkWork(r)
  <2>1. (Answered(q) <=> Answered(r)) /\ (Exhausted(q) <=> Exhausted(r))
    BY <1>1 DEF Answered, Exhausted, SamePtk
  <2>2. /\ "Disconnect" \in q.ask <=> "Disconnect" \in r.ask
        /\ "AuthenticationRequest" \in q.ask <=> "AuthenticationRequest" \in r.ask
        /\ "ReAuthenticationRequest" \in q.ask <=>
             "ReAuthenticationRequest" \in r.ask
        /\ "PTKRequest" \in q.ask <=> "PTKRequest" \in r.ask
    BY <1>5 DEF Asks
  <2> QED BY <2>1, <2>2, <1>1, <1>4 DEF PtkWork, SamePtk
<1>12. GroupWork(q) <= 1 /\ GroupWork(r) = 2
  BY <1>1, <1>5 DEF GroupWork
<1> QED BY <1>1, <1>3, <1>7, <1>8, <1>9, <1>10, <1>11, <1>12, WorkNat
        DEF Fits, Work, SameStation

(* No group key is sent until the station has answered 3/4.                 *)
LEMMA RekeyFits ==
  ASSUME limit \in Limits, rsn \in BOOLEAN, NEW r, Between(r), NEW g \in Nat,
         "PtkGroupInit" \notin r.ask,
         \/ r.grp = "IDLE" /\ Begins(r)
         \/ /\ r.grp = "REKEYNEGOTIATING" /\ ~Acknowledged(r)
            /\ r.GTimeoutCtr <= limit.tries /\ r.TimeoutEvt,
         NEW q, q = RekeyNegotiating(r, g)
  PROVE  Fits(q) /\ Work(q) < Work(r) /\ ~Midway(r) /\ r.rx = {}
<1>1. /\ SameStation(q, r) /\ SamePtk(q, r)
      /\ q.grp = "REKEYNEGOTIATING" /\ q.GTimeoutCtr = r.GTimeoutCtr + 1
      /\ q.ask = r.ask /\ q.rx = r.rx
      /\ \/ /\ q.GTimeoutCtr > limit.tries /\ q.TimeoutEvt = r.TimeoutEvt
         \/ q.GTimeoutCtr <= limit.tries /\ ~q.TimeoutEvt
      /\ Len(q.replay) <= limit.tries
  <2>1. Len(r.replay) <= limit.tries /\ r \in ApType
    BY FitsParts DEF TriesFit, Between
  <2> DEFINE f == Frame("1/2", r.counter + 1, 0, r.PTK, g)
  <2>2. /\ SameStation(q, r) /\ SamePtk(q, r)
        /\ q.grp = "REKEYNEGOTIATING" /\ q.GTimeoutCtr = r.GTimeoutCtr + 1
        /\ q.ask = r.ask /\ q.rx = r.rx
        /\ \/ /\ q.GTimeoutCtr > limit.tries /\ SameFrames(q, r)
              /\ q.TimeoutEvt = r.TimeoutEvt
           \/ /\ q.GTimeoutCtr <= limit.tries /\ Sends(q, r, f)
              /\ ~q.TimeoutEvt
    BY <2>1, RekeyFields
  <2> HIDE DEF f
  <2>3. Len(q.replay) <= limit.tries
    BY <2>1, <2>2 DEF Sends, SameFrames
  <2> QED BY <2>2, <2>3
<1>2. Fits(r) /\ ~(r.TimeoutEvt /\ Waits(r))
  BY DEF Between
<1>3. ~Midway(r) /\ r.rx = {}
  <2>1. ~Silent(r)
    BY <1>2 DEF Silent
  <2>2. PtkFits(r) /\ RxFits(r)
    BY <1>2, FitsParts
  <2>3. ~Midway(r)
    BY <2>1, <2>2 DEF PtkFits
  <2>4. r.rx = {}
    BY <2>1, <2>2, <2>3 DEF RxFits, Midway, Acknowledged
  <2> QED BY <2>3, <2>4
<1>4. /\ (Waits(q) <=> Waits(r)) /\ (Midway(q) <=> Midway(r))
      /\ (Early(q) <=> Early(r)) /\ (Pending(q) <=> Pending(r))
  BY <1>1 DEF SamePtk, Waits, Midway, Early, Pending
<1>5. /\ q.TimeoutEvt => r.TimeoutEvt
      /\ \/ r.grp = "IDLE" /\ ~q.TimeoutEvt /\ q.GTimeoutCtr <= limit.tries
         \/ /\ r.grp = "REKEYNEGOTIATING" /\ r.TimeoutEvt /\ r.ask = {}
            /\ ~Early(r) /\ q.GTimeoutCtr <= limit.tries + 1
            /\ q.GTimeoutCtr > limit.tries => q.TimeoutEvt
  <2>1. /\ TriesFit(r) /\ EvtFits(r) /\ limit.tries \in Nat \ {0}
        /\ r.GTimeoutCtr \in Nat
    BY <1>2, FitsParts, TriesPositive
  <2>2. CASE r.grp = "IDLE"
    <3>1. q.GTimeoutCtr <= limit.tries
      BY <2>1, <2>2, <1>1 DEF TriesFit
    <3> QED BY <2>1, <2>2, <3>1, <1>1
  <2>3. CASE r.grp # "IDLE"
    BY <2>1, <2>3, <1>1 DEF EvtFits
  <2> QED BY <2>2, <2>3
<1>6. AskFits(q)
  <2>1. AskFits(r)
    BY <1>2, FitsParts
  <2>2. r.started
    <3>1. ~r.started => r.grp = "IDLE" /\ ~Begins(r)
      BY <2>1 DEF AskFits, Begins
    <3> QED BY <3>1
  <2> QED BY <2>1, <2>2, <1>1, <1>3, <1>4 DEF AskFits, SameStation, SamePtk
<1>7. PtkFits(q)
  BY <1>1, <1>2, <1>3, <1>4, FitsParts DEF PtkFits, SamePtk
<1>8. RxFits(q) /\ EvtFits(q)
  BY <1>1, <1>2, <1>3, <1>4, <1>5 DEF RxFits, EvtFits
<1>9. TriesFit(q)
  <2>1. TriesFit(r) /\ limit.tries \in Nat
    BY <1>2, FitsParts, TriesPositive
  <2> QED BY <2>1, <1>1, <1>5 DEF TriesFit, SamePtk
<1>10. PtkWork(q) = PtkWork(r)
  <2>1. (Answered(q) <=> Answered(r)) /\ (Exhausted(q) <=> Exhausted(r))
    BY <1>1 DEF Answered, Exhausted, SamePtk
  <2> QED BY <2>1, <1>1, <1>2, <1>4, <1>5 DEF PtkWork, SamePtk
<1>11. GroupWork(q) < GroupWork(r)
  <2>1. ~Acknowledged(q)
    BY <1>1, <1>3 DEF Acknowledged
  <2>2. /\ q.GTimeoutCtr \in Nat /\ r.GTimeoutCtr \in Nat
        /\ limit.tries \in Nat
    BY <1>1, <1>2, FitsParts, TriesPositive
  <2> QED BY <2>1, <2>2, <1>1, <1>2, <1>4, <1>5 DEF GroupWork
<1> QED BY <1>1, <1>3, <1>6, <1>7, <1>8, <1>9, <1>10, <1>11, WorkNat
        DEF Fits, Work, SameStation

LEMMA EstablishedFits ==
  ASSUME limit \in Limits, NEW r, Between(r), r.grp = "REKEYNEGOTIATING",
         Acknowledged(r),
         NEW q, q = [r EXCEPT !.grp = "REKEYESTABLISHED", !.rx = {},
                              !.GTimeoutCtr = 0, !.GUpdateStationKeys = FALSE]
  PROVE  Fits(q) /\ Work(q) < Work(r) /\ ~Midway(r)
<1>1. /\ SameStation(q, r) /\ SameFrames(q, r) /\ SamePtk(q, r)
      /\ q.grp = "REKEYESTABLISHED" /\ q.GTimeoutCtr = 0 /\ q.rx = {}
      /\ q.ask = r.ask /\ q.TimeoutEvt = r.TimeoutEvt
  BY EstablishedFields DEF Between, Fits
<1>2. Fits(r) /\ ~(r.TimeoutEvt /\ Waits(r))
  BY DEF Between
<1>3. /\ r.ptk = "PTKINITDONE" /\ r.ask = {} /\ r.rx # {} /\ r.started
      /\ r.ANonce > 0 /\ r.PTK # NoKey /\ r.PTK[1] = r.ANonce
  <2>1. PICK m \in r.rx : m.kind = "2/2"
    BY DEF Acknowledged
  <2>2. r.rx # {} /\ r.ptk = "PTKINITDONE" /\ r.PTK # NoKey
    BY <2>1, <1>2 DEF Fits, RxFits
  <2>3. AskFits(r) /\ PtkFits(r)
    BY <1>2, FitsParts
  <2> QED BY <2>2, <2>3 DEF AskFits, PtkFits
<1>4. ~Midway(r) /\ ~Waits(q) /\ ~Midway(q) /\ ~Waits(r)
  BY <1>1, <1>3 DEF Midway, Waits, SamePtk
<1>5. AskFits(q)
  BY <1>1, <1>3 DEF AskFits, Early, Pending, SameStation, SamePtk
<1>6. PtkFits(q)
  BY <1>1, <1>3, <1>4 DEF PtkFits, SamePtk
<1>7. RxFits(q) /\ EvtFits(q)
  BY <1>1, <1>4 DEF RxFits, EvtFits
<1>8. TriesFit(q)
  <2>1. TriesFit(r) /\ limit.tries \in Nat
    BY <1>2, FitsParts, TriesPositive
  <2> QED BY <2>1, <1>1, <1>3 DEF TriesFit, SamePtk, SameFrames
<1>9. PtkWork(q) = 0 /\ PtkWork(r) = 0
  BY <1>1, <1>3, <1>4 DEF PtkWork, SamePtk
<1>10. GroupWork(q) = 2 /\ GroupWork(r) = 3
  BY <1>1, <1>3 DEF GroupWork
<1> QED BY <1>1, <1>4, <1>5, <1>6, <1>7, <1>8, <1>9, <1>10
        DEF Fits, Work, SameStation

LEMMA KeyErrorFits ==
  ASSUME limit \in Limits, NEW r, Between(r), r.grp = "REKEYNEGOTIATING",
         "PtkGroupInit" \notin r.ask, ~Acknowledged(r),
         r.GTimeoutCtr > limit.tries,
         NEW q, q = [r EXCEPT !.grp = "KEYERROR", !.GUpdateStationKeys = FALSE,
                              !.ask = @ \cup {"Disconnect"}]
  PROVE  Fits(q) /\ Work(q) < Work(r) /\ ~Midway(r) /\ ~Pending(r)
<1>1. /\ SameStation(q, r) /\ SameFrames(q, r) /\ SamePtk(q, r)
      /\ q.grp = "KEYERROR" /\ q.ask = r.ask \cup {"Disconnect"}
      /\ q.GTimeoutCtr = r.GTimeoutCtr
      /\ q.TimeoutEvt = r.TimeoutEvt /\ q.rx = r.rx
  BY KeyErrorFields DEF Between, Fits
<1>2. Fits(r) /\ ~(r.TimeoutEvt /\ Waits(r))
  BY DEF Between
<1>3. /\ TriesFit(r) /\ EvtFits(r) /\ AskFits(r) /\ PtkFits(r)
      /\ limit.tries \in Nat /\ r.GTimeoutCtr \in Nat
  BY <1>2, FitsParts, TriesPositive
<1>4. /\ r.TimeoutEvt /\ r.ask = {} /\ r.rx = {} /\ ~Early(r)
      /\ ~Waits(r) /\ r.started
  BY <1>2, <1>3 DEF TriesFit, EvtFits, AskFits
<1>5. ~Midway(r)
  BY <1>3 DEF PtkFits, Silent
<1>6. /\ ~Waits(q) /\ ~Midway(q) /\ ~Early(q) /\ ~Pending(q) /\ ~Pending(r)
      /\ q.ask = {"Disconnect"}
  BY <1>1, <1>4, <1>5 DEF Waits, Midway, Early, Pending, SamePtk
<1>7. AskFits(q)
  BY <1>1, <1>3, <1>4, <1>6 DEF AskFits, SameStation, SamePtk
<1>8. PtkFits(q)
  BY <1>1, <1>3, <1>5, <1>6 DEF PtkFits, SamePtk
<1>9. RxFits(q) /\ EvtFits(q)
  BY <1>1, <1>4, <1>6 DEF RxFits, EvtFits
<1>10. TriesFit(q)
  BY <1>1, <1>3, <1>4 DEF TriesFit, SamePtk, SameFrames
<1>11. PtkWork(q) = 3 /\ GroupWork(q) = 2 /\ GroupWork(r) = 6
  BY <1>1, <1>4, <1>6 DEF PtkWork, GroupWork
<1> QED BY <1>1, <1>5, <1>6, <1>7, <1>8, <1>9, <1>10, <1>11, WorkNat
        DEF Fits, Work, SameStation

LEMMA GroupStays ==
  ASSUME limit \in Limits, NEW r, Between(r), ~GroupMoves(r)
  PROVE  GroupWork(r) = 0
<1>1. /\ r.GTimeoutCtr \in Nat /\ limit.tries \in Nat /\ r.grp \in GrpStates
  BY FitsParts, TriesPositive DEF Between
<1> QED BY <1>1 DEF GroupWork, GroupMoves, GrpStates

LEMMA GroupSmFits ==
  ASSUME limit \in Limits, rsn \in BOOLEAN, NEW r, Between(r), NEW g \in Nat,
         NEW q, q = GroupSm(r, g)
  PROVE  /\ Fits(q)
         /\ Work(q) < Work(r) \/ (q = r /\ GroupWork(r) = 0)
<1>1. CASE /\ \/ "PtkGroupInit" \in r.ask
              \/ r.grp \in {"REKEYESTABLISHED", "KEYERROR"}
           /\ q = [r EXCEPT !.grp = "IDLE", !.GTimeoutCtr = 0,
                            !.ask = @ \ {"PtkGroupInit"}]
  BY <1>1, IdleFits
<1>2. CASE /\ "PtkGroupInit" \notin r.ask
           /\ \/ r.grp = "IDLE" /\ Begins(r)
              \/ /\ r.grp = "REKEYNEGOTIATING" /\ ~Acknowledged(r)
                 /\ r.GTimeoutCtr <= limit.tries /\ r.TimeoutEvt
           /\ q = RekeyNegotiating(r, g)
  BY <1>2, RekeyFits
<1>3. CASE /\ r.grp = "REKEYNEGOTIATING" /\ "PtkGroupInit" \notin r.ask
           /\ Acknowledged(r)
           /\ q = [r EXCEPT !.grp = "REKEYESTABLISHED", !.rx = {},
                            !.GTimeoutCtr = 0, !.GUpdateStationKeys = FALSE]
  BY <1>3, EstablishedFits
<1>4. CASE /\ r.grp = "REKEYNEGOTIATING" /\ "PtkGroupInit" \notin r.ask
           /\ ~Acknowledged(r) /\ r.GTimeoutCtr > limit.tries
           /\ q = [r EXCEPT !.grp = "KEYERROR", !.GUpdateStationKeys = FALSE,
                            !.ask = @ \cup {"Disconnect"}]
  BY <1>4, KeyErrorFits
<1>5. CASE q = r /\ ~GroupMoves(r)
  BY <1>5, GroupStays DEF Between
<1>6. GroupStep(r, g, q)
  BY GroupSteps
<1> QED BY <1>1, <1>2, <1>3, <1>4, <1>5, <1>6 DEF GroupStep

(* wpa_sm_step goes on for nine rounds at most.                             *)
LEMMA StartWork ==
  ASSUME limit \in Limits, NEW r, Fits(r)
  PROVE  Work(r) <= 9
<1>1. /\ TriesFit(r) /\ EvtFits(r) /\ AskFits(r) /\ RxFits(r)
      /\ limit.tries \in Nat /\ r.GTimeoutCtr \in Nat
  BY FitsParts, TriesPositive
<1>2. CASE GroupWork(r) \in {6, 7}
  <2>1. /\ r.grp = "REKEYNEGOTIATING"
        /\ r.GTimeoutCtr > limit.tries \/ (r.TimeoutEvt /\ ~Waits(r))
        /\ GroupWork(r) <= 7
    BY <1>2, FitsParts DEF GroupWork, GrpStates
  <2>2. r.TimeoutEvt /\ r.ask = {} /\ r.rx = {} /\ ~Early(r)
    BY <1>1, <2>1 DEF TriesFit, EvtFits
  <2>3. ~Waits(r)
    BY <1>1, <2>1, <2>2 DEF EvtFits
  <2>4. PtkWork(r) <= 2
    BY <2>2, <2>3 DEF PtkWork, Early
  <2> QED BY <2>1, <2>4, WorkNat DEF Work
<1>3. CASE GroupWork(r) \in {0, 1, 2, 3}
  BY <1>3, WorkNat DEF Work
<1> QED BY <1>2, <1>3, WorkNat

(* Where wpa_sm_step ends.                                                  *)
LEMMA RestFacts ==
  ASSUME limit \in Limits, NEW r, Fits(r), Work(r) = 0
  PROVE  /\ r.ask = {} /\ r.rx = {} /\ ~Pending(r) /\ ~Early(r)
         /\ Silent(r) /\ (Midway(r) => r.ptk = "PTKINITNEGOTIATING")
         /\ r.grp \in {"IDLE", "REKEYNEGOTIATING"}
         /\ r.ptk \in {"INITIALIZE", "PTKSTART", "PTKCALCNEGOTIATING",
                       "PTKINITNEGOTIATING", "PTKINITDONE"}
         /\ r.ptk = "PTKCALCNEGOTIATING" => r.PTK = NoKey
         /\ r.TimeoutCtr <= limit.tries /\ r.GTimeoutCtr <= limit.tries
         /\ ~(r.TimeoutEvt /\ (Waits(r) \/ r.grp = "REKEYNEGOTIATING"))
<1>1. PtkWork(r) = 0 /\ GroupWork(r) = 0
  BY WorkNat DEF Work
<1>2. /\ ~Pending(r) /\ ~Early(r) /\ r.ask \in {{}, {"PtkGroupInit"}}
      /\ r.ptk \in {"INITIALIZE", "PTKSTART", "PTKCALCNEGOTIATING",
                    "PTKINITNEGOTIATING", "PTKINITDONE"}
      /\ r.ptk = "PTKCALCNEGOTIATING" => r.PTK = NoKey
      /\ Waits(r) => ~r.TimeoutEvt /\ ~Answered(r) /\ ~Exhausted(r)
  BY <1>1, PtkRests
<1>3. /\ r.ask = {} /\ r.grp \in {"IDLE", "REKEYNEGOTIATING"}
      /\ r.grp = "IDLE" => ~Begins(r)
      /\ r.grp = "REKEYNEGOTIATING" =>
           /\ ~Acknowledged(r) /\ ~(r.GTimeoutCtr > limit.tries)
           /\ ~(r.TimeoutEvt /\ ~Waits(r))
  BY <1>1, <1>2, FitsParts DEF GroupWork, GrpStates
<1>4. /\ TriesFit(r) /\ RxFits(r) /\ limit.tries \in Nat
      /\ r.GTimeoutCtr \in Nat /\ r.TimeoutCtr \in Nat
  BY FitsParts, TriesPositive
<1>5. r.rx = {}
  BY <1>2, <1>3, <1>4 DEF RxFits, Waits, Answered, Acknowledged
<1>6. r.GTimeoutCtr <= limit.tries
  BY <1>3, <1>4 DEF TriesFit
<1>7. r.TimeoutCtr <= limit.tries
  BY <1>2, <1>4 DEF TriesFit, Exhausted, Waits
<1>8. Silent(r)
  BY <1>3, <1>6 DEF Silent
<1> QED BY <1>2, <1>3, <1>5, <1>6, <1>7, <1>8 DEF Midway

LEMMA RestsStill ==
  ASSUME limit \in Limits, rsn \in BOOLEAN, NEW r, Fits(r), Work(r) = 0,
         NEW g \in Nat
  PROVE  Rounds({r}, g) = {r}
<1> DEFINE t == PtkSm(r, g)
<1>1. Between(t) /\ (Work(t) < Work(r) \/ t = r)
  BY PtkSmFits
<1>2. t = r
  BY <1>1, WorkNat DEF Work
<1> HIDE DEF t
<1> DEFINE q == GroupSm(r, g)
<1>3. Fits(q) /\ (Work(q) < Work(r) \/ q = r)
  BY <1>1, <1>2, GroupSmFits
<1>4. q = r
  BY <1>3, WorkNat DEF Work
<1> QED BY <1>2, <1>4 DEF Rounds, t
-----------------------------------------------------------------------------
(* The frames sent, S, of which any may still arrive.                       *)
Keyed(S)    == {m \in S : m.kind \in {"3/4", "1/2"}}
Downward(S) == {m \in S : m.kind \in Down}

(* The association of a frame of the access point, by its ANonce.           *)
From(m) == IF m.kind = "1/4" THEN m.nonce ELSE m.key[1]

FramesTyped(S, g) ==
  S \subseteq FrameType /\ \A m \in S : m.kind # "deauth" /\ m.gtk <= g

(* Every frame has its reason.                                              *)
Caused(S) ==
  /\ \A m \in Downward(S) : From(m) > 0
  /\ \A m \in Keyed(S) : m.kind = "3/4" => m.nonce = m.key[1]
  /\ \A m \in S : m.kind = "2/4" =>
       /\ m.key # NoKey /\ m.key[2] = m.nonce
       /\ \E n \in S : n.kind = "1/4" /\ n.c = m.c /\ n.nonce = m.key[1]
  /\ \A m \in S : m.kind \in {"4/4", "2/2"} =>
       \E n \in Keyed(S) : n.c = m.c /\ n.key = m.key
                                /\ (m.kind = "2/2" => n.kind = "1/2")
  /\ \A m \in S : m.kind = "1/2" =>
       m.gtk > 0 /\ \E n \in S : n.kind = "4/4" /\ n.key = m.key
  /\ \A m \in S : m.kind = "error" => \E n \in Keyed(S) : n.key = m.key

(* Counters number the frames of an association.                            *)
Distinct(S) ==
  \A m, n \in Downward(S) : From(m) = From(n) /\ m.c = n.c => m = n

(* Later keys are of later nonces of both ends, and come with later group   *)
(* keys.                                                                    *)
Before(m, n) == /\ m.key[1] <= n.key[1] /\ m.key[2] <= n.key[2]
                /\ m.key = n.key => m.c <= n.c
Ordered(S) ==
  \A m, n \in Keyed(S) :
    /\ m.key[2] < n.key[2] => m.key[1] <= n.key[1]
    /\ Before(m, n) /\ n.gtk # 0 => m.gtk <= n.gtk

FramesFit(S, g) ==
  FramesTyped(S, g) /\ Caused(S) /\ Distinct(S) /\ Ordered(S)

(* The frames of the access point are of its associations, and the last of  *)
(* them of the last that it has begun, with counters not above its own.     *)
NumbersFit(r, S, g) ==
  /\ r.ANonce <= r.seen
  /\ \A m \in Downward(S) :
       /\ From(m) <= r.seen
       /\ Pending(r) => From(m) < r.seen
       /\ r.ANonce > 0 => From(m) <= r.ANonce
       /\ r.ptk \in {"AUTHENTICATION2", "INITPSK"} => From(m) < r.ANonce
       /\ ~Pending(r) /\ From(m) = r.ANonce => m.c <= r.counter
  /\ \A n \in Awaited(r) : n.c <= r.counter /\ n.gtk <= g
  /\ ~Pending(r) => \A n \in Awaited(r), m \in Downward(S) :
       From(m) = r.ANonce /\ m.c = n.c => m = n

(* A key made of the nonces of m would be as new as any, and newer than any *)
(* that the station has confirmed.                                          *)
Newest(m, S) == /\ \A n \in Keyed(S) : n.key[2] <= m.key[2]
                /\ \A n \in S : n.kind = "1/2" => n.key[2] < m.key[2]

(* The answer to a frame that is awaited, or that is being processed.       *)
AnswersFit(r, S) ==
  /\ ~Pending(r) => \A m \in S, n \in Awaited(r) :
       m.kind = "2/4" /\ m.c = n.c /\ m.key[1] = r.ANonce => Newest(m, S)
  /\ \A m \in r.rx :
       m \in S /\ (m.kind = "2/4" /\ m.key[1] = r.ANonce => Newest(m, S))

(* The key of the access point is the newest; the station has confirmed it  *)
(* before the group machine begins.                                         *)
Quiescent(r) == Silent(r) /\ r.ptk # "PTKINITDONE"
KeyFits(r, S) ==
  r.PTK # NoKey =>
    /\ \A m \in Keyed(S) : m.key[2] <= r.PTK[2]
    /\ \A n \in Awaited(r) : n.kind # "1/4"
    /\ Midway(r) => \A m \in S : m.kind = "1/2" => m.key # r.PTK
    /\ \/ Midway(r) \/ Quiescent(r)
       \/ \E m \in S : m.kind = "4/4" /\ m.key = r.PTK
-----------------------------------------------------------------------------
(* The two ends: r, and the station's record s, which has said k last, when *)
(* n associations have been made, of which the last is alive if l.          *)
Serves(r, l, n) == r.known /\ r.assoc /\ l /\ r.seen = n

LinkFits(r, s, l, k, n) ==
  /\ r.seen <= n
  /\ Serves(r, l, n) /\ ~Pending(r) => r.ANonce = r.seen
  /\ Serves(r, l, n) /\ r.ptk = "PTKINITDONE"
       /\ r.ask \subseteq {"PtkGroupInit", "Disconnect"} =>
       r.installed = k /\ r.PTK = k /\ k # NoKey
  /\ r.known /\ r.seen = n /\ l /\ r.given # 0 => On(s) /\ s.gtk >= r.given

(* The station's nonces are newer than any that is used.                    *)
NoncesFit(r, s, S, k) ==
  /\ \A m \in Keyed(S) : m.key[2] <= s.snonce
  /\ \A m \in S : m.kind = "2/4" => m.key[2] <= s.snonce
  /\ r.PTK[2] <= s.snonce /\ k[2] <= s.snonce
  /\ ~s.renew => k[2] < s.snonce
  /\ s.tptk # NoKey => s.tptk = <<s.anonce, s.snonce>> /\ k[2] < s.snonce

(* It has no other key than the last that it has confirmed.                 *)
ConfirmedFits(s, S, k) ==
  /\ s.ptk # NoKey => s.ptk = k
  /\ s.key # NoKey => s.key = s.ptk
  /\ \A m \in S : m.kind = "4/4" => m.key = k \/ m.key[2] < k[2]
  /\ k # NoKey => \E m \in S : m.kind = "4/4" /\ m.key = k

(* It is on while the association is alive in which it has answered, and    *)
(* has the group keys whose receipt it has said.                            *)
OffFits(s, S, l, k, n) ==
  /\ ~On(s) => /\ s.ptk = NoKey /\ s.tptk = NoKey /\ s.key = NoKey
               /\ s.gtk = 0 /\ s.rx = 0
  /\ s.due => ~On(s)
  /\ s.pending \subseteq Downward(S)
  /\ l /\ k[1] = n => On(s) /\ s.key = k
  /\ \A m \in S : l /\ m.kind \in {"2/4", "4/4", "2/2"} /\ m.key[1] = n =>
       /\ On(s)
       /\ m.kind # "2/4" => \A x \in Keyed(S) :
            x.c = m.c /\ x.key = m.key => x.gtk <= s.gtk

(* Frames that it may still accept have no group key before its own.        *)
Ahead(s, m) == \/ m.key = s.ptk /\ m.c > s.rx
               \/ /\ m.key # s.ptk /\ m.key[1] >= s.ptk[1]
                  /\ m.key[2] >= s.ptk[2]
GtkFits(s, S, g) ==
  /\ s.gtk <= g
  /\ s.gtk # 0 =>
       /\ s.ptk # NoKey
       /\ \A m \in Keyed(S) : Ahead(s, m) /\ m.gtk # 0 => m.gtk >= s.gtk

Holds(r, s, S, l, k, n, g) ==
  /\ FramesFit(S, g) /\ NumbersFit(r, S, g) /\ AnswersFit(r, S)
  /\ KeyFits(r, S) /\ LinkFits(r, s, l, k, n) /\ NoncesFit(r, s, S, k)
  /\ ConfirmedFits(s, S, k) /\ OffFits(s, S, l, k, n) /\ GtkFits(s, S, g)

(* Reports of Michael MIC failures that the access point may still accept;  *)
(* each one makes a group key, at most.                                     *)
Unheard(r, S) ==
  {m \in S : m.kind = "error" /\ m.key[1] = r.ANonce /\ m.c > r.req}
CountFits(U, g, count) ==
  /\ IsFiniteSet(U)
  /\ Cardinality(U) <= count /\ g + Cardinality(U) <= limit.gtks + count

World == /\ limit \in Limits /\ rsn \in BOOLEAN /\ link \in BOOLEAN
         /\ assoc \in 0 .. limit.assocs /\ gtk \in Nat \ {0}
         /\ confirmed \in KeyType /\ sta \in StaType /\ sta.out = {}
         /\ mic \in [count : 0 .. limit.mics, recent : BOOLEAN, on : BOOLEAN,
                     seen : BOOLEAN, held : BOOLEAN]

AtRest(r) == Fits(r) /\ Work(r) = 0 /\ r.out = {} /\ ~r.refused

HInv ==
  /\ World /\ AtRest(ap) /\ Holds(ap, sta, air, link, confirmed, assoc, gtk)
  /\ CountFits(Unheard(ap, air), gtk, mic.count) /\ NoneServed
-----------------------------------------------------------------------------
(* Keys and frames are made of numbers.                                     *)
LEMMA KeyFacts ==
  ASSUME NEW k \in KeyType
  PROVE  /\ k[1] \in Nat /\ k[2] \in Nat /\ k = <<k[1], k[2]>>
         /\ k # NoKey => k \in Keys /\ k[1] > 0 /\ k[2] > 0
         /\ k = NoKey => k[1] = 0 /\ k[2] = 0
BY DEF KeyType, Keys, NoKey

LEMMA SameKey ==
  ASSUME NEW j \in KeyType, NEW k \in KeyType, j[1] = k[1], j[2] = k[2]
  PROVE  j = k
BY KeyFacts

LEMMA FrameFacts ==
  ASSUME NEW S, S \subseteq FrameType, NEW m \in S
  PROVE  /\ m.c \in Nat /\ m.nonce \in Nat /\ m.gtk \in Nat
         /\ m.key \in KeyType /\ m.key[1] \in Nat /\ m.key[2] \in Nat
         /\ From(m) \in Nat
<1>1. /\ m.c \in Nat /\ m.nonce \in Nat /\ m.gtk \in Nat
      /\ m.key \in KeyType
  BY DEF FrameType
<1> QED BY <1>1, KeyFacts DEF From

LEMMA AwaitedFacts ==
  ASSUME NEW r \in ApType, NEW x \in Awaited(r)
  PROVE  x \in FrameType /\ x.c \in Nat /\ x.gtk \in Nat
<1>1. r.replay \in Seq(FrameType)
  BY DEF ApType
<1>2. x \in FrameType
  BY <1>1 DEF Awaited
<1> QED BY <1>2 DEF FrameType

LEMMA HoldsParts ==
  ASSUME NEW r, NEW s, NEW S, NEW l, NEW k, NEW n, NEW g,
         Holds(r, s, S, l, k, n, g)
  PROVE  /\ FramesFit(S, g) /\ NumbersFit(r, S, g) /\ AnswersFit(r, S)
         /\ KeyFits(r, S) /\ LinkFits(r, s, l, k, n) /\ NoncesFit(r, s, S, k)
         /\ ConfirmedFits(s, S, k) /\ OffFits(s, S, l, k, n)
         /\ GtkFits(s, S, g)
         /\ FramesTyped(S, g) /\ S \subseteq FrameType
         /\ Caused(S) /\ Distinct(S) /\ Ordered(S)
BY DEF Holds, FramesFit, FramesTyped

LEMMA KindFacts ==
  ASSUME NEW S
  PROVE  /\ \A m \in Keyed(S) : m \in S /\ m \in Downward(S) /\ From(m) = m.key[1]
         /\ \A m \in Downward(S) : m \in S
         /\ \A m \in S : m.kind \in {"1/4", "3/4", "1/2"} => m \in Downward(S)
         /\ \A m \in S : m.kind \in {"3/4", "1/2"} => m \in Keyed(S)
BY DEF Keyed, Downward, Down, From

(* An answer has a frame that it answers.                                   *)
LEMMA Answers ==
  ASSUME NEW S, Caused(S), NEW m \in S, m.kind \in {"4/4", "2/2"}
  PROVE  \E x \in Keyed(S) : x.c = m.c /\ x.key = m.key
                                /\ (m.kind = "2/2" => x.kind = "1/2")
BY DEF Caused

(* The types of the numbers that Holds compares.                            *)
Typed(r, s, S, k, n, g) ==
  /\ r \in ApType /\ s \in StaType /\ S \subseteq FrameType /\ k \in KeyType
  /\ n \in Nat /\ g \in Nat \ {0}
-----------------------------------------------------------------------------
(* A step of the access point that sends nothing, but for the end of the    *)
(* association, and makes no new key.                                       *)
Quiet(q, r) ==
  /\ q.known = r.known /\ q.seen = r.seen /\ q.given = r.given
  /\ q.assoc => r.assoc
  /\ q.ANonce = r.ANonce /\ (Pending(q) <=> Pending(r))
  /\ q.counter = r.counter /\ Awaited(q) = Awaited(r) /\ q.rx \subseteq r.rx
  /\ q.ptk \in {"AUTHENTICATION2", "INITPSK"}
       => r.ptk \in {"AUTHENTICATION2", "INITPSK"}
  /\ q.ptk = "PTKINITDONE" /\ q.ask \subseteq {"PtkGroupInit", "Disconnect"} =>
       /\ r.ptk = "PTKINITDONE" /\ r.ask \subseteq {"PtkGroupInit", "Disconnect"}
       /\ q.PTK = r.PTK /\ q.installed = r.installed
  /\ q.PTK # NoKey =>
       /\ q.PTK = r.PTK /\ (Midway(q) => Midway(r))
       /\ Midway(r) \/ Quiescent(r) => Midway(q) \/ Quiescent(q)

LEMMA QuietHolds ==
  ASSUME NEW r, NEW s, NEW S, NEW l \in BOOLEAN, NEW k, NEW n,
         NEW g \in Nat, Typed(r, s, S, k, n, g),
         Holds(r, s, S, l, k, n, g), NEW q, Quiet(q, r),
         NEW l2 \in BOOLEAN, l2 => l, NEW h \in Nat, h >= g
  PROVE  Holds(q, s, S, l2, k, n, h)
<1>1. \A m \in S : m.gtk \in Nat
  BY HoldsParts, FrameFacts
<1>2. FramesFit(S, h)
  BY <1>1, HoldsParts DEF FramesFit, FramesTyped
<1>3. NumbersFit(q, S, h)
  <2>1. /\ NumbersFit(r, S, g)
        /\ \A x \in Awaited(r) : x.gtk \in Nat
    BY HoldsParts, AwaitedFacts DEF Typed
  <2> QED BY <2>1 DEF NumbersFit, Quiet
<1>4. AnswersFit(q, S)
  BY HoldsParts DEF AnswersFit, Quiet
<1>5. KeyFits(q, S)
  BY HoldsParts DEF KeyFits, Quiet
<1>6. LinkFits(q, s, l2, k, n)
  BY HoldsParts DEF LinkFits, Quiet, Serves
<1>7. NoncesFit(q, s, S, k)
  <2>1. s.snonce \in Nat /\ NoKey[2] = 0
    BY DEF Typed, StaType, NoKey
  <2> QED BY <2>1, HoldsParts DEF NoncesFit, Quiet
<1>8. OffFits(s, S, l2, k, n)
  BY HoldsParts DEF OffFits
<1>9. GtkFits(s, S, h)
  <2>1. s.gtk \in Nat
    BY DEF Typed, StaType
  <2> QED BY <2>1, HoldsParts DEF GtkFits
<1> QED BY <1>2, <1>3, <1>4, <1>5, <1>6, <1>7, <1>8, <1>9, HoldsParts
        DEF Holds

(* A new ANonce: no frame has it yet.                                       *)
LEMMA Authentication2Holds ==
  ASSUME NEW r, NEW s, NEW S, NEW l \in BOOLEAN, NEW k, NEW n,
         NEW g \in Nat, Typed(r, s, S, k, n, g),
         Holds(r, s, S, l, k, n, g), Fits(r), Pending(r), r.PTK = NoKey,
         r.rx = {},
         NEW q, SameStation(q, r), SameFrames(q, r),
         q.ptk = "AUTHENTICATION2", q.ANonce = r.seen, q.PTK = NoKey,
         q.rx = {}, q.assoc = r.assoc, ~Pending(q)
  PROVE  Holds(q, s, S, l, k, n, g)
<1>1. \A m \in Downward(S) : From(m) < r.seen /\ From(m) \in Nat
  BY HoldsParts, KindFacts, FrameFacts DEF NumbersFit
<1>2. r.seen \in Nat /\ Awaited(q) = Awaited(r)
  BY DEF Typed, ApType, SameFrames, Awaited
<1>3. NumbersFit(q, S, g)
  <2>1. \A m \in Downward(S) : From(m) <= r.seen /\ From(m) # r.seen
    BY <1>1, <1>2
  <2>2. \A x \in Awaited(r) : x.c <= r.counter /\ x.gtk <= g
    BY HoldsParts DEF NumbersFit
  <2> QED BY <1>1, <1>2, <2>1, <2>2
          DEF NumbersFit, SameStation, SameFrames
<1>4. AnswersFit(q, S)
  <2>1. ASSUME NEW m \in S, m.kind = "2/4", m.key[1] = r.seen
        PROVE  FALSE
    <3>1. PICK x \in S : x.kind = "1/4" /\ x.nonce = m.key[1]
      BY <2>1, HoldsParts DEF Caused
    <3>2. x \in Downward(S) /\ From(x) = r.seen
      BY <2>1, <3>1, KindFacts DEF From
    <3> QED BY <1>1, <1>2, <3>2
  <2> QED BY <2>1 DEF AnswersFit
<1>5. KeyFits(q, S)
  BY DEF KeyFits
<1>6. LinkFits(q, s, l, k, n)
  BY HoldsParts DEF LinkFits, SameStation, Serves
<1>7. NoncesFit(q, s, S, k)
  BY HoldsParts DEF NoncesFit
<1> QED BY <1>3, <1>4, <1>5, <1>6, <1>7, HoldsParts DEF Holds

(* The key of a good 2/4 is newer than any that has been confirmed.         *)
LEMMA CalcHolds ==
  ASSUME NEW r, NEW s, NEW S, NEW l \in BOOLEAN, NEW k, NEW n,
         NEW g \in Nat, Typed(r, s, S, k, n, g),
         Holds(r, s, S, l, k, n, g), r.replay = <<>>, ~Pending(r),
         NEW m, r.rx = {m}, m.kind = "2/4", m.key[1] = r.ANonce,
         NEW q, SameStation(q, r), SameFrames(q, r),
         q.ptk = "PTKCALCNEGOTIATING", q.ANonce = r.ANonce, q.PTK = m.key,
         q.rx = {}, q.assoc = r.assoc, ~Pending(q)
  PROVE  Holds(q, s, S, l, k, n, g)
<1>1. m \in S /\ Newest(m, S)
  BY HoldsParts DEF AnswersFit
<1>2. Awaited(q) = {} /\ Awaited(r) = {}
  <2>1. q.replay = <<>> /\ r.replay = <<>>
    BY DEF SameFrames
  <2> QED BY <2>1 DEF Awaited
<1>3. NumbersFit(q, S, g)
  BY <1>2, HoldsParts DEF NumbersFit, SameStation, SameFrames
<1>4. AnswersFit(q, S)
  BY <1>2 DEF AnswersFit
<1>5. KeyFits(q, S)
  <2>1. /\ \A x \in S : x.key \in KeyType /\ x.key[2] \in Nat
        /\ m.key # NoKey
    BY <1>1, HoldsParts, FrameFacts DEF Caused
  <2>2. \A x \in Keyed(S) : x.key[2] <= m.key[2]
    BY <1>1 DEF Newest
  <2>3. \A x \in S : x.kind = "1/2" => x.key # m.key
    BY <1>1, <2>1 DEF Newest
  <2>4. Midway(q)
    BY <2>1 DEF Midway
  <2> QED BY <1>2, <2>2, <2>3, <2>4 DEF KeyFits
<1>6. LinkFits(q, s, l, k, n)
  BY HoldsParts DEF LinkFits, SameStation, Serves
<1>7. NoncesFit(q, s, S, k)
  BY <1>1, HoldsParts DEF NoncesFit
<1> QED BY <1>3, <1>4, <1>5, <1>6, <1>7, HoldsParts DEF Holds

(* The key of a 4/4 that the access point accepts is the last confirmed.    *)
LEMMA AnswerConfirms ==
  ASSUME NEW r, NEW s, NEW S, NEW l \in BOOLEAN, NEW k, NEW n,
         NEW g \in Nat, Typed(r, s, S, k, n, g),
         Holds(r, s, S, l, k, n, g), r.PTK # NoKey,
         NEW m \in S, m.kind = "4/4", m.key = r.PTK
  PROVE  k = r.PTK
<1>1. m.key = k \/ m.key[2] < k[2]
  BY HoldsParts DEF ConfirmedFits
<1>2. ASSUME m.key[2] < k[2]
      PROVE  FALSE
  <2>1. m.key[2] \in Nat /\ k \in KeyType /\ k[2] \in Nat
    BY HoldsParts, FrameFacts, KeyFacts DEF Typed
  <2>2. k # NoKey
    BY <1>2, <2>1 DEF NoKey
  <2>3. PICK x \in S : x.kind = "4/4" /\ x.key = k
    BY <2>2, HoldsParts DEF ConfirmedFits
  <2>4. PICK y \in Keyed(S) : y.key = k
    BY <2>3, HoldsParts, Answers
  <2>5. k[2] <= r.PTK[2]
    BY <2>4, HoldsParts DEF KeyFits
  <2> QED BY <1>2, <2>1, <2>5
<1> QED BY <1>1, <1>2

LEMMA DoneHolds ==
  ASSUME NEW r, NEW s, NEW S, NEW l \in BOOLEAN, NEW k, NEW n,
         NEW g \in Nat, Typed(r, s, S, k, n, g),
         Holds(r, s, S, l, k, n, g), r.PTK # NoKey, ~Pending(r),
         NEW m, r.rx = {m}, m.kind = "4/4", m.key = r.PTK,
         NEW q, SameStation(q, r), q.counter = r.counter,
         q.replay = r.replay,
         q.ptk = "PTKINITDONE", q.ANonce = r.ANonce, q.PTK = r.PTK,
         q.rx = {}, ~Pending(q), NEW l2 \in BOOLEAN, l2 => l,
         q.assoc /\ l2 => r.assoc /\ q.installed = r.PTK
  PROVE  Holds(q, s, S, l2, k, n, g) /\ k = r.PTK
<1>1. m \in S
  BY HoldsParts DEF AnswersFit
<1>2. k = r.PTK
  BY <1>1, AnswerConfirms
<1>3. Awaited(q) = Awaited(r)
  BY DEF Awaited
<1>4. NumbersFit(q, S, g)
  BY <1>3, HoldsParts DEF NumbersFit, SameStation
<1>5. AnswersFit(q, S)
  BY <1>3, HoldsParts DEF AnswersFit
<1>6. KeyFits(q, S)
  BY <1>1, <1>3, HoldsParts DEF KeyFits, Midway
<1>7. LinkFits(q, s, l2, k, n)
  BY <1>2, HoldsParts DEF LinkFits, SameStation, Serves
<1>8. NoncesFit(q, s, S, k)
  BY HoldsParts DEF NoncesFit
<1>9. OffFits(s, S, l2, k, n)
  BY HoldsParts DEF OffFits
<1> QED BY <1>2, <1>4, <1>5, <1>6, <1>7, <1>8, <1>9, HoldsParts DEF Holds
-----------------------------------------------------------------------------
(* A step of the access point that sends a frame f; or does not, for want   *)
(* of a key.                                                                *)
Sending(q, r, f, g) ==
  /\ SameStation(q, r) /\ q.assoc = r.assoc /\ q.ANonce = r.ANonce
  /\ q.PTK = r.PTK /\ q.installed = r.installed /\ (Pending(q) <=> Pending(r))
  /\ r.rx = {} /\ q.rx = {}
  /\ q.counter = r.counter + 1 /\ Awaited(q) \subseteq Awaited(r) \cup {f}
  /\ f \in FrameType /\ f.c = r.counter + 1 /\ f.key = r.PTK
  /\ r.PTK # NoKey => ~Pending(r) /\ r.PTK[1] = r.ANonce
  /\ \/ /\ f.kind = "1/4" /\ r.PTK = NoKey /\ ~Pending(r) /\ r.ANonce > 0
        /\ f.nonce = r.ANonce /\ f.gtk = 0 /\ q.ptk = "PTKSTART"
     \/ /\ f.kind = "3/4" /\ (r.PTK # NoKey => Midway(r))
        /\ f.nonce = r.ANonce /\ f.gtk \in {0, g}
        /\ q.ptk = "PTKINITNEGOTIATING"
     \/ /\ f.kind = "1/2" /\ ~Midway(r) /\ ~Silent(r)
        /\ f.gtk = g /\ q.ptk = r.ptk /\ q.ask = r.ask
        /\ q.ptk \in {"AUTHENTICATION2", "INITPSK"} => r.PTK = NoKey

SentWith(S, r, f) ==
  IF f.kind # "1/4" /\ r.PTK = NoKey THEN S ELSE S \cup {f}

(* Its counter is above those of the frames of the same association.        *)
LEMMA FrameIsNew ==
  ASSUME NEW r, NEW s, NEW S, NEW l, NEW k, NEW n, NEW g \in Nat,
         Typed(r, s, S, k, n, g), Holds(r, s, S, l, k, n, g),
         NEW q, NEW f, Sending(q, r, f, g)
  PROVE  /\ r.counter \in Nat /\ f.c \in Nat /\ r.ANonce \in Nat
         /\ r.PTK \in KeyType /\ r.PTK[2] \in Nat
         /\ SentWith(S, r, f) # S => /\ ~Pending(r) /\ r.ANonce > 0
                                     /\ From(f) = r.ANonce /\ f.kind \in Down
                                     /\ SentWith(S, r, f) = S \cup {f}
                                     /\ f.kind # "1/4" => r.PTK # NoKey
         /\ ~Pending(r) => \A m \in Downward(S) :
              From(m) = r.ANonce => m.c <= r.counter /\ m.c # f.c
         /\ \A x \in Awaited(r) : x.c # f.c /\ x.c <= r.counter
         /\ \A m \in S : m.kind = "2/4" /\ m.c = f.c /\ m.key[1] = r.ANonce
              => Pending(r)
         /\ \A m \in S :
              m.kind \in {"4/4", "2/2"} /\ m.c = f.c /\ m.key[1] = r.ANonce
              => Pending(r)
<1>1. /\ r.counter \in Nat /\ f.c \in Nat /\ r.ANonce \in Nat
      /\ r.PTK \in KeyType /\ r.PTK[2] \in Nat /\ f.c = r.counter + 1
  <2>1. r.counter \in Nat /\ r.ANonce \in Nat /\ r.PTK \in KeyType
    BY DEF Typed, ApType
  <2> QED BY <2>1, KeyFacts DEF Sending
<1>2. ASSUME SentWith(S, r, f) # S
      PROVE  /\ ~Pending(r) /\ r.ANonce > 0 /\ From(f) = r.ANonce
             /\ f.kind \in Down /\ SentWith(S, r, f) = S \cup {f}
             /\ f.kind # "1/4" => r.PTK # NoKey
  <2>1. /\ SentWith(S, r, f) = S \cup {f}
        /\ f.kind # "1/4" => r.PTK # NoKey
    BY <1>2 DEF SentWith
  <2>2. /\ f.kind \in {"1/4", "3/4", "1/2"} /\ f.key = r.PTK
        /\ r.PTK # NoKey => ~Pending(r) /\ r.PTK[1] = r.ANonce
        /\ f.kind = "1/4" =>
             ~Pending(r) /\ r.ANonce > 0 /\ f.nonce = r.ANonce
    BY DEF Sending
  <2>3. r.PTK # NoKey => r.PTK[1] > 0
    BY <1>1, KeyFacts
  <2>4. CASE f.kind = "1/4"
    BY <2>1, <2>2, <2>4 DEF From, Down
  <2>5. CASE f.kind # "1/4"
    BY <2>1, <2>2, <2>3, <2>5 DEF From, Down
  <2> QED BY <2>4, <2>5
<1>3. \A m \in Downward(S) : m.c \in Nat
  BY HoldsParts, KindFacts, FrameFacts
<1>4. ASSUME ~Pending(r), NEW m \in Downward(S), From(m) = r.ANonce
      PROVE  m.c <= r.counter /\ m.c # f.c
  <2>1. m.c <= r.counter
    BY <1>4, HoldsParts DEF NumbersFit
  <2> QED BY <2>1, <1>1, <1>3
<1>5. ASSUME NEW x \in Awaited(r)
      PROVE  x.c # f.c /\ x.c <= r.counter
  <2>1. x.c <= r.counter
    BY <1>5, HoldsParts DEF NumbersFit
  <2>2. x.c \in Nat
    BY <1>5, AwaitedFacts DEF Typed
  <2> QED BY <2>1, <2>2, <1>1
<1>6. ASSUME NEW m \in S, m.kind = "2/4", m.c = f.c, m.key[1] = r.ANonce,
             ~Pending(r)
      PROVE  FALSE
  <2>1. PICK x \in S : x.kind = "1/4" /\ x.c = m.c /\ x.nonce = m.key[1]
    BY <1>6, HoldsParts DEF Caused
  <2>2. x \in Downward(S) /\ From(x) = r.ANonce
    BY <1>6, <2>1, KindFacts DEF From
  <2> QED BY <1>4, <1>6, <2>1, <2>2
<1>7. ASSUME NEW m \in S, m.kind \in {"4/4", "2/2"}, m.c = f.c,
             m.key[1] = r.ANonce, ~Pending(r)
      PROVE  FALSE
  <2>1. PICK x \in Keyed(S) : x.c = m.c /\ x.key = m.key
    BY <1>7, HoldsParts, Answers
  <2>2. x \in Downward(S) /\ From(x) = r.ANonce
    BY <1>7, <2>1, KindFacts
  <2> QED BY <1>4, <1>7, <2>1, <2>2
<1> QED BY <1>1, <1>2, <1>4, <1>5, <1>6, <1>7

LEMMA SendFrames ==
  ASSUME NEW r, NEW s, NEW S, NEW l, NEW k, NEW n, NEW g \in Nat,
         Typed(r, s, S, k, n, g), Holds(r, s, S, l, k, n, g),
         NEW q, NEW f, Sending(q, r, f, g)
  PROVE  FramesFit(SentWith(S, r, f), g)
<1> DEFINE S2 == SentWith(S, r, f)
<1>1. CASE S2 = S
  BY <1>1, HoldsParts
<1>2. CASE S2 # S
  <2>1. /\ r.counter \in Nat /\ f.c \in Nat /\ r.ANonce \in Nat
        /\ r.PTK \in KeyType /\ r.PTK[2] \in Nat
        /\ ~Pending(r) /\ r.ANonce > 0
        /\ From(f) = r.ANonce /\ f.kind \in Down /\ S2 = S \cup {f}
        /\ f.kind # "1/4" => r.PTK # NoKey
        /\ \A m \in Downward(S) :
             From(m) = r.ANonce => m.c <= r.counter /\ m.c # f.c
    BY <1>2, FrameIsNew
  <2> HIDE DEF S2
  <2>2. /\ f \in FrameType /\ f.key = r.PTK /\ f.gtk <= g
        /\ f.c = r.counter + 1
        /\ f.kind = "3/4" => f.nonce = r.ANonce /\ r.PTK[1] = r.ANonce
        /\ f.kind # "1/4" => r.PTK[1] = r.ANonce /\ f.gtk \in {0, g}
        /\ f.kind = "1/2" => f.gtk > 0
    <3>1. g > 0 /\ f \in FrameType
      BY DEF Typed, Sending
    <3> QED BY <3>1, <2>1 DEF Sending
  <2>3. FramesTyped(S2, g)
    BY <2>1, <2>2, HoldsParts DEF FramesTyped, Down
  <2>4. /\ Downward(S2) = Downward(S) \cup {f}
        /\ Keyed(S2) = Keyed(S) \cup (IF f.kind = "1/4" THEN {} ELSE {f})
        /\ f.kind \in {"1/4", "3/4", "1/2"}
    BY <2>1 DEF Downward, Keyed, Down
  <2>5. Caused(S2)
    <3>1. f.kind = "1/2" => \E x \in S : x.kind = "4/4" /\ x.key = f.key
      <4>1. f.kind = "1/2" => r.PTK # NoKey /\ ~Midway(r) /\ ~Quiescent(r)
        BY <2>1 DEF Sending, Quiescent
      <4> QED BY <4>1, <2>2, HoldsParts DEF KeyFits
    <3>2. Caused(S)
      BY HoldsParts
    <3>3. \A m \in Downward(S2) : From(m) > 0
      BY <3>2, <2>1, <2>4 DEF Caused
    <3>4. \A m \in Keyed(S2) : m.kind = "3/4" => m.nonce = m.key[1]
      BY <3>2, <2>2, <2>4 DEF Caused
    <3>5. \A m \in S2 : m.kind \notin {"1/4", "3/4", "1/2"} => m \in S
      BY <2>1, <2>4
    <3>6. S \subseteq S2 /\ Keyed(S) \subseteq Keyed(S2)
      BY <2>1, <2>4
    <3>7. \A m \in S2 : m.kind = "2/4" =>
            /\ m.key # NoKey /\ m.key[2] = m.nonce
            /\ \E x \in S2 : x.kind = "1/4" /\ x.c = m.c /\ x.nonce = m.key[1]
      BY <3>2, <3>5, <3>6 DEF Caused
    <3>8. \A m \in S2 : m.kind \in {"4/4", "2/2"} =>
            \E x \in Keyed(S2) : x.c = m.c /\ x.key = m.key
                                /\ (m.kind = "2/2" => x.kind = "1/2")
      BY <3>2, <3>5, <3>6 DEF Caused
    <3>9. \A m \in S2 : m.kind = "1/2" =>
            m.gtk > 0 /\ \E x \in S2 : x.kind = "4/4" /\ x.key = m.key
      BY <3>1, <3>2, <3>6, <2>1, <2>2 DEF Caused
    <3>10. \A m \in S2 : m.kind = "error" => \E x \in Keyed(S2) : x.key = m.key
      BY <3>2, <3>5, <3>6 DEF Caused
    <3> QED BY <3>3, <3>4, <3>7, <3>8, <3>9, <3>10 DEF Caused
  <2>6. Distinct(S2)
    <3>1. Distinct(S)
      BY HoldsParts
    <3> QED BY <3>1, <2>1, <2>4 DEF Distinct
  <2>7. Ordered(S2)
    <3>1. CASE f.kind = "1/4"
      <4>1. Keyed(S2) = Keyed(S)
        BY <3>1, <2>4
      <4> QED BY <4>1, HoldsParts DEF Ordered
    <3>2. CASE f.kind # "1/4"
      <4>1. Keyed(S2) = Keyed(S) \cup {f}
        BY <3>2, <2>4
      <4>2. ASSUME NEW m \in Keyed(S)
            PROVE  /\ m.key \in KeyType /\ m.key[1] \in Nat /\ m.key[2] \in Nat
                   /\ m.key[1] <= r.ANonce /\ m.key[2] <= r.PTK[2]
                   /\ m.key[1] = r.ANonce => m.c <= r.counter /\ m.c # f.c
                   /\ m.gtk <= g /\ m.gtk \in Nat /\ m.c \in Nat
        <5>1. /\ m \in S /\ m \in Downward(S) /\ From(m) = m.key[1]
          BY KindFacts
        <5>2. m.key[1] <= r.ANonce
          BY <5>1, <2>1, HoldsParts DEF NumbersFit
        <5>3. m.key[2] <= r.PTK[2]
          BY <3>2, <2>1, HoldsParts DEF KeyFits
        <5>4. m.gtk <= g
          BY <5>1, HoldsParts DEF FramesTyped
        <5> QED BY <5>1, <5>2, <5>3, <5>4, <2>1, HoldsParts, FrameFacts
      <4>3. /\ f.key = r.PTK /\ f.key[1] = r.ANonce /\ f.key[2] = r.PTK[2]
            /\ f.gtk \in {0, g} /\ f.c = r.counter + 1
        BY <2>2, <3>2
      <4>4. ASSUME NEW m \in Keyed(S)
            PROVE  /\ m.key[2] < f.key[2] => m.key[1] <= f.key[1]
                   /\ Before(m, f) /\ f.gtk # 0 => m.gtk <= f.gtk
        BY <4>2, <4>3
      <4>5. ASSUME NEW m \in Keyed(S)
            PROVE  ~(f.key[2] < m.key[2]) /\ ~Before(f, m)
        <5>1. ~(f.key[2] < m.key[2])
          BY <4>2, <4>3, <2>1
        <5>2. ASSUME Before(f, m)
              PROVE  FALSE
          <6>1. f.key[1] <= m.key[1] /\ f.key[2] <= m.key[2]
            BY <5>2 DEF Before
          <6>2. f.key[1] = m.key[1] /\ f.key[2] = m.key[2]
            BY <6>1, <4>2, <4>3, <2>1
          <6>3. f.key = m.key
            BY <6>2, <4>2, <4>3, <2>1, SameKey
          <6>4. f.c <= m.c
            BY <6>3, <5>2 DEF Before
          <6> QED BY <6>2, <6>4, <4>2, <4>3, <2>1
        <5> QED BY <5>1, <5>2
      <4>6. /\ ~(f.key[2] < f.key[2]) /\ f.gtk <= f.gtk
        BY <4>3, <2>1 DEF Typed
      <4>7. Ordered(S)
        BY HoldsParts
      <4> QED BY <4>1, <4>4, <4>5, <4>6, <4>7 DEF Ordered
    <3> QED BY <3>1, <3>2
  <2> QED BY <2>3, <2>5, <2>6, <2>7 DEF FramesFit, S2
<1> QED BY <1>1, <1>2

LEMMA SendNumbers ==
  ASSUME NEW r, NEW s, NEW S, NEW l, NEW k, NEW n, NEW g \in Nat,
         Typed(r, s, S, k, n, g), Holds(r, s, S, l, k, n, g),
         NEW q, NEW f, Sending(q, r, f, g)
  PROVE  NumbersFit(q, SentWith(S, r, f), g)
<1> DEFINE S2 == SentWith(S, r, f)
<1>1. /\ r.counter \in Nat /\ f.c \in Nat /\ r.ANonce \in Nat
      /\ S2 # S => /\ ~Pending(r) /\ r.ANonce > 0 /\ From(f) = r.ANonce
                   /\ f.kind \in Down /\ S2 = S \cup {f}
      /\ ~Pending(r) => \A m \in Downward(S) :
           From(m) = r.ANonce => m.c <= r.counter /\ m.c # f.c
      /\ \A x \in Awaited(r) : x.c # f.c /\ x.c <= r.counter
  BY FrameIsNew
<1> HIDE DEF S2
<1>2. Downward(S2) = Downward(S) \/ (S2 # S /\ Downward(S2) = Downward(S) \cup {f})
  BY <1>1 DEF Downward
<1>3. /\ q.seen = r.seen /\ q.ANonce = r.ANonce /\ q.counter = r.counter + 1
      /\ Pending(q) <=> Pending(r)
      /\ Awaited(q) \subseteq Awaited(r) \cup {f}
      /\ f.c = r.counter + 1 /\ f.gtk <= g
  <2>1. g \in Nat /\ f.gtk \in {0, g}
    BY DEF Sending
  <2> QED BY <2>1 DEF Sending, SameStation
<1>4. ASSUME NEW m \in Downward(S)
      PROVE  /\ From(m) <= r.seen /\ From(m) \in Nat /\ m.c \in Nat
             /\ Pending(r) => From(m) < r.seen
             /\ r.ANonce > 0 => From(m) <= r.ANonce
             /\ r.ptk \in {"AUTHENTICATION2", "INITPSK"} => From(m) < r.ANonce
  BY HoldsParts, KindFacts, FrameFacts DEF NumbersFit
<1>5. r.ANonce <= r.seen
  BY HoldsParts DEF NumbersFit
<1>6. q.ptk \in {"AUTHENTICATION2", "INITPSK"} =>
        r.ptk \in {"AUTHENTICATION2", "INITPSK"} /\ S2 = S
  BY DEF Sending, SentWith, S2
<1>7. ASSUME NEW m \in Downward(S2)
      PROVE  /\ From(m) <= r.seen
             /\ Pending(r) => From(m) < r.seen
             /\ r.ANonce > 0 => From(m) <= r.ANonce
             /\ q.ptk \in {"AUTHENTICATION2", "INITPSK"} => From(m) < r.ANonce
             /\ ~Pending(r) /\ From(m) = r.ANonce => m.c <= r.counter + 1
  <2>1. CASE m \in Downward(S)
    <3>1. ~Pending(r) /\ From(m) = r.ANonce => m.c <= r.counter
      BY <2>1, <1>1
    <3> QED BY <2>1, <3>1, <1>1, <1>4, <1>6
  <2>2. CASE m \notin Downward(S)
    <3>1. m = f /\ S2 # S
      BY <2>2, <1>2
    <3> QED BY <3>1, <1>1, <1>3, <1>5, <1>6
  <2> QED BY <2>1, <2>2
<1>8. ASSUME NEW x \in Awaited(q)
      PROVE  x.c <= r.counter + 1 /\ x.gtk <= g
  <2>1. CASE x \in Awaited(r)
    <3>1. x.c <= r.counter /\ x.gtk <= g
      BY <2>1, HoldsParts DEF NumbersFit
    <3>2. x.c \in Nat
      BY <2>1, AwaitedFacts DEF Typed
    <3> QED BY <3>1, <3>2, <1>1
  <2>2. CASE x \notin Awaited(r)
    BY <2>2, <1>1, <1>3
  <2> QED BY <2>1, <2>2
<1>9. ASSUME ~Pending(r), NEW x \in Awaited(q), NEW m \in Downward(S2),
             From(m) = r.ANonce, m.c = x.c
      PROVE  m = x
  <2>1. CASE x \in Awaited(r) /\ m \in Downward(S)
    BY <2>1, <1>9, HoldsParts DEF NumbersFit
  <2>2. CASE x \in Awaited(r) /\ m \notin Downward(S)
    BY <2>2, <1>9, <1>1, <1>2
  <2>3. CASE x \notin Awaited(r)
    <3>1. x = f
      BY <2>3, <1>3
    <3>2. m \notin Downward(S)
      BY <3>1, <1>1, <1>9
    <3> QED BY <3>1, <3>2, <1>2
  <2> QED BY <2>1, <2>2, <2>3
<1> QED BY <1>3, <1>5, <1>7, <1>8, <1>9 DEF NumbersFit, S2

LEMMA SendAnswers ==
  ASSUME NEW r, NEW s, NEW S, NEW l, NEW k, NEW n, NEW g \in Nat,
         Typed(r, s, S, k, n, g), Holds(r, s, S, l, k, n, g),
         NEW q, NEW f, Sending(q, r, f, g)
  PROVE  AnswersFit(q, SentWith(S, r, f))
<1> DEFINE S2 == SentWith(S, r, f)
<1>1. /\ \A m \in S :
           m.kind = "2/4" /\ m.c = f.c /\ m.key[1] = r.ANonce => Pending(r)
      /\ S2 # S => /\ f.kind \in Down /\ S2 = S \cup {f}
                   /\ f.kind # "1/4" => r.PTK # NoKey
  BY FrameIsNew
<1>2. /\ q.ANonce = r.ANonce /\ (Pending(q) <=> Pending(r)) /\ q.rx = {}
      /\ Awaited(q) \subseteq Awaited(r) \cup {f}
      /\ f.kind \in {"1/4", "3/4", "1/2"}
  BY DEF Sending
<1> HIDE DEF S2
<1>3. ASSUME ~Pending(r), NEW m \in S2, NEW x \in Awaited(q), m.kind = "2/4",
             m.c = x.c, m.key[1] = r.ANonce
      PROVE  Newest(m, S2)
  <2>1. m \in S
    BY <1>1, <1>2, <1>3
  <2>2. x \in Awaited(r)
    BY <2>1, <1>1, <1>2, <1>3
  <2>3. Newest(m, S)
    BY <2>1, <2>2, <1>3, HoldsParts DEF AnswersFit
  <2>4. CASE S2 = S
    BY <2>3, <2>4
  <2>5. CASE S2 # S /\ f.kind = "1/4"
    <3>1. Keyed(S2) = Keyed(S)
      BY <2>5, <1>1 DEF Keyed
    <3> QED BY <3>1, <2>3, <2>5, <1>1 DEF Newest
  <2>6. CASE S2 # S /\ f.kind # "1/4"
    <3>1. r.PTK # NoKey
      BY <2>6, <1>1
    <3>2. PICK y \in S : y.kind = "1/4" /\ y.c = m.c /\ y.nonce = m.key[1]
      BY <2>1, <1>3, HoldsParts DEF Caused
    <3>3. y \in Downward(S) /\ From(y) = r.ANonce /\ y.c = x.c
      BY <1>3, <3>2, KindFacts DEF From
    <3>4. y = x
      BY <3>3, <2>2, <1>3, HoldsParts DEF NumbersFit
    <3>5. x.kind # "1/4"
      BY <3>1, <2>2, HoldsParts DEF KeyFits
    <3> QED BY <3>2, <3>4, <3>5
  <2> QED BY <2>4, <2>5, <2>6
<1> QED BY <1>2, <1>3 DEF AnswersFit, S2

LEMMA SendHolds ==
  ASSUME NEW r, NEW s, NEW S, NEW l \in BOOLEAN, NEW k, NEW n,
         NEW g \in Nat, Typed(r, s, S, k, n, g), Holds(r, s, S, l, k, n, g),
         NEW q, NEW f, Sending(q, r, f, g)
  PROVE  Holds(q, s, SentWith(S, r, f), l, k, n, g)
<1> DEFINE S2 == SentWith(S, r, f)
<1>1. /\ r.PTK \in KeyType /\ r.PTK[2] \in Nat
      /\ S2 # S => /\ ~Pending(r) /\ r.ANonce > 0 /\ From(f) = r.ANonce
                   /\ f.kind \in Down /\ S2 = S \cup {f}
                   /\ f.kind # "1/4" => r.PTK # NoKey
      /\ \A m \in S :
           m.kind \in {"4/4", "2/2"} /\ m.c = f.c /\ m.key[1] = r.ANonce
              => Pending(r)
  BY FrameIsNew
<1> HIDE DEF S2
<1>2. /\ q.PTK = r.PTK /\ q.installed = r.installed /\ q.assoc = r.assoc
      /\ q.ANonce = r.ANonce /\ (Pending(q) <=> Pending(r)) /\ f.key = r.PTK
      /\ Awaited(q) \subseteq Awaited(r) \cup {f}
      /\ f.kind \in {"1/4", "3/4", "1/2"} /\ f.gtk \in {0, g}
      /\ r.PTK # NoKey => r.PTK[1] = r.ANonce /\ f.kind # "1/4"
      /\ q.ptk = "PTKINITDONE" => r.ptk = "PTKINITDONE" /\ q.ask = r.ask
  BY DEF Sending
<1>3. /\ S \subseteq S2
      /\ \A m \in S2 : m.kind \notin {"1/4", "3/4", "1/2"} => m \in S
      /\ \A m \in Keyed(S2) : m \in Keyed(S) \/ (m = f /\ r.PTK # NoKey)
      /\ \A m \in S2 : m \in S \/ m = f
      /\ Downward(S) \subseteq Downward(S2)
  BY <1>1, <1>2 DEF Keyed, Downward
<1>4. FramesFit(S2, g) /\ NumbersFit(q, S2, g) /\ AnswersFit(q, S2)
  BY SendFrames, SendNumbers, SendAnswers DEF S2
<1>5. KeyFits(q, S2)
  <2>1. CASE r.PTK = NoKey
    BY <2>1, <1>2 DEF KeyFits
  <2>2. CASE r.PTK # NoKey
    <3>1. /\ \A m \in Keyed(S) : m.key[2] <= r.PTK[2]
          /\ \A x \in Awaited(r) : x.kind # "1/4"
          /\ Midway(r) => \A m \in S : m.kind = "1/2" => m.key # r.PTK
          /\ \/ Midway(r) \/ Quiescent(r)
             \/ \E m \in S : m.kind = "4/4" /\ m.key = r.PTK
      BY <2>2, HoldsParts DEF KeyFits
    <3>2. \A m \in Keyed(S2) : m.key[2] <= r.PTK[2]
      BY <3>1, <1>1, <1>2, <1>3
    <3>3. \A x \in Awaited(q) : x.kind # "1/4"
      BY <2>2, <3>1, <1>2
    <3>4. CASE f.kind = "3/4"
      <4>1. Midway(r) /\ Midway(q)
        BY <2>2, <3>4, <1>2 DEF Sending, Midway
      <4>2. \A m \in S2 : m.kind = "1/2" => m.key # r.PTK
        BY <4>1, <3>1, <3>4, <1>3
      <4> QED BY <3>2, <3>3, <4>1, <4>2, <1>2 DEF KeyFits
    <3>5. CASE f.kind = "1/2"
      <4>1. ~Midway(r) /\ ~Quiescent(r) /\ ~Midway(q)
        BY <3>5, <1>2 DEF Sending, Midway, Quiescent
      <4>2. \E m \in S2 : m.kind = "4/4" /\ m.key = r.PTK
        BY <3>1, <4>1, <1>3
      <4> QED BY <3>2, <3>3, <4>1, <4>2, <1>2 DEF KeyFits
    <3> QED BY <3>4, <3>5, <2>2, <1>2
  <2> QED BY <2>1, <2>2
<1>6. LinkFits(q, s, l, k, n)
  BY <1>2, HoldsParts DEF LinkFits, Serves, Sending, SameStation
<1>7. NoncesFit(q, s, S2, k)
  <2>1. r.PTK[2] <= s.snonce
    BY HoldsParts DEF NoncesFit
  <2>2. \A m \in Keyed(S2) : m.key[2] <= s.snonce
    BY <2>1, <1>2, <1>3, HoldsParts DEF NoncesFit
  <2> QED BY <2>1, <2>2, <1>2, <1>3, HoldsParts DEF NoncesFit
<1>8. ConfirmedFits(s, S2, k)
  BY <1>3, HoldsParts DEF ConfirmedFits
<1>9. OffFits(s, S2, l, k, n)
  <2>1. OffFits(s, S, l, k, n)
    BY HoldsParts
  <2>2. s.pending \subseteq Downward(S2)
    BY <2>1, <1>3 DEF OffFits
  <2>3. ASSUME NEW m \in S2, l, m.kind \in {"2/4", "4/4", "2/2"}, m.key[1] = n
        PROVE  /\ On(s)
               /\ m.kind # "2/4" => \A x \in Keyed(S2) :
                    x.c = m.c /\ x.key = m.key => x.gtk <= s.gtk
    <3>1. m \in S
      BY <2>3, <1>3
    <3>2. ASSUME m.kind # "2/4", NEW x \in Keyed(S2), x.c = m.c, x.key = m.key
          PROVE  x \in Keyed(S)
      <4>1. CASE x = f /\ r.PTK # NoKey
        <5>1. m.key[1] = r.ANonce /\ ~Pending(r)
          BY <3>2, <4>1, <1>2 DEF Sending
        <5> QED BY <5>1, <3>1, <3>2, <4>1, <2>3, <1>1
      <4> QED BY <4>1, <1>3
    <3> QED BY <3>1, <3>2, <2>1, <2>3 DEF OffFits
  <2> QED BY <2>1, <2>2, <2>3 DEF OffFits
<1>10. GtkFits(s, S2, g)
  BY <1>2, <1>3, HoldsParts DEF GtkFits
<1> QED BY <1>4, <1>5, <1>6, <1>7, <1>8, <1>9, <1>10 DEF Holds, S2
-----------------------------------------------------------------------------
(* The frames sent, and the association, when the machines have become r;   *)
(* and what may have become of r since.                                     *)
Aired(r) == air \cup (r.out \ {Deauth})
Alive(r) == link /\ Deauth \notin r.out
HoldsAt(r, g) == Holds(r, sta, Aired(r), Alive(r), confirmed, assoc, g)

Since(q, r) ==
  /\ q.known = r.known /\ q.seen = r.seen /\ (q.assoc => r.assoc)
  /\ r.out \subseteq q.out
  /\ \/ q.installed \in {r.installed, NoKey}
     \/ q.installed = confirmed /\ confirmed # NoKey
  /\ Unheard(q, Aired(q)) \subseteq Unheard(r, Aired(r))

LEMMA WorldTyped ==
  ASSUME World, NEW r \in ApType, NEW g \in Nat \ {0}, HoldsAt(r, g)
  PROVE  /\ Typed(r, sta, Aired(r), confirmed, assoc, g)
         /\ Alive(r) \in BOOLEAN /\ g \in Nat
         /\ limit \in Limits /\ rsn \in BOOLEAN
<1>1. Aired(r) \subseteq FrameType
  BY HoldsParts DEF HoldsAt
<1> QED BY <1>1 DEF World, Typed, Alive

LEMMA SinceTransitive ==
  ASSUME NEW r, NEW q, NEW t, Since(q, r), Since(t, q)
  PROVE  Since(t, r)
BY DEF Since

(* A quiet step of a machine.                                               *)
QuietStep(q, r) ==
  /\ Quiet(q, r) /\ q.out \in {r.out, r.out \cup {Deauth}}
  /\ q.installed \in {r.installed, NoKey}

LEMMA QuietStepHolds ==
  ASSUME World, NEW r \in ApType, NEW g \in Nat \ {0}, HoldsAt(r, g),
         NEW q, QuietStep(q, r)
  PROVE  /\ HoldsAt(q, g) /\ Aired(q) = Aired(r)
         /\ q.req = r.req => Since(q, r)
<1>1. Aired(q) = Aired(r) /\ (Alive(q) => Alive(r))
  BY DEF QuietStep, Aired, Alive
<1>2. Alive(q) \in BOOLEAN /\ g >= g
  BY DEF World, Alive
<1>3. Holds(q, sta, Aired(r), Alive(q), confirmed, assoc, g)
  BY <1>1, <1>2, WorldTyped, QuietHolds DEF QuietStep, HoldsAt
<1>4. q.req = r.req => Since(q, r)
  BY <1>1 DEF QuietStep, Quiet, Since, Unheard
<1> QED BY <1>1, <1>3, <1>4 DEF HoldsAt

LEMMA SendStepHolds ==
  ASSUME World, NEW r \in ApType, NEW g \in Nat \ {0}, HoldsAt(r, g),
         NEW q, NEW f, Sending(q, r, f, g), Sends(q, r, f), q.req = r.req
  PROVE  HoldsAt(q, g) /\ Since(q, r)
<1>1. f # Deauth /\ f.kind # "error"
  BY DEF Sending, Deauth, Frame
<1>2. /\ q.out = IF f.kind # "1/4" /\ r.PTK = NoKey THEN r.out
                 ELSE r.out \cup {f}
  BY DEF Sends
<1>3. Aired(q) = SentWith(Aired(r), r, f) /\ Alive(q) = Alive(r)
  BY <1>1, <1>2 DEF Aired, Alive, SentWith
<1>4. Holds(q, sta, SentWith(Aired(r), r, f), Alive(r), confirmed, assoc, g)
  BY WorldTyped, SendHolds DEF HoldsAt
<1>5. HoldsAt(q, g)
  BY <1>3, <1>4 DEF HoldsAt
<1>6. Unheard(q, Aired(q)) \subseteq Unheard(r, Aired(r))
  BY <1>1, <1>3 DEF Unheard, SentWith, Sending
<1> QED BY <1>2, <1>5, <1>6 DEF Since, Sending, SameStation

(* What is not a report of a frame with the last ANonce is none to count.   *)
LEMMA NoneUnheard ==
  ASSUME NEW S, Caused(S), NEW q,
         \A m \in Downward(S) : From(m) # q.ANonce
  PROVE  Unheard(q, S) = {}
<1>1. ASSUME NEW m \in S, m.kind = "error", m.key[1] = q.ANonce
      PROVE  FALSE
  <2>1. PICK x \in Keyed(S) : x.key = m.key
    BY <1>1 DEF Caused
  <2> QED BY <1>1, <2>1, KindFacts
<1> QED BY <1>1 DEF Unheard
-----------------------------------------------------------------------------
LEMMA DisconnectQuiet ==
  ASSUME limit \in Limits, NEW r, Fits(r), ToDisconnect(r),
         NEW q, q = Disconnect(r)
  PROVE  QuietStep(q, r) /\ q.req = r.req
<1>1. /\ SameStation(q, r) /\ SameGroup(q, r)
      /\ q.ptk = "DISCONNECT" /\ q.assoc = FALSE
      /\ q.ask = r.ask \ {"Disconnect"} /\ q.out = r.out \cup {Deauth}
      /\ q.counter = r.counter /\ q.replay = r.replay
      /\ q.TimeoutCtr = r.TimeoutCtr /\ q.ANonce = r.ANonce
      /\ q.PTK = r.PTK /\ q.installed = r.installed /\ q.req = r.req
      /\ q.TimeoutEvt = r.TimeoutEvt /\ q.rx = r.rx
  BY ZenonT(60), FitsParts, DisconnectFields
<1>2. AskFits(r) /\ TriesFit(r) /\ PtkFits(r)
  BY FitsParts
<1>3. ~Pending(r) /\ ~Pending(q)
  <2>1. CASE "Disconnect" \in r.ask
    <3>1. r.ask = {"Disconnect"} /\ q.ask = {}
      BY <2>1, <1>1, <1>2, AskFacts
    <3> QED BY <3>1, <1>1, <1>2 DEF Pending, AskFits, Early
  <2>2. CASE "Disconnect" \notin r.ask
    BY <2>2, <1>1 DEF Pending, Calm, ToDisconnect
  <2> QED BY <2>1, <2>2
<1>4. ASSUME Silent(r)
      PROVE  Quiescent(q)
  <2>1. r.ask = {}
    BY <1>4 DEF Silent
  <2>2. ~r.TimeoutEvt
    BY <2>1, <1>2 DEF ToDisconnect, Calm, Exhausted, TriesFit
  <2> QED BY <2>1, <2>2, <1>1, <1>4
          DEF Quiescent, Silent, SameGroup, Begins
<1>5. Quiet(q, r)
  <2>1. Awaited(q) = Awaited(r) /\ ~Midway(q)
    BY <1>1 DEF Awaited, Midway
  <2>2. Midway(r) \/ Quiescent(r) => Quiescent(q)
    BY <1>2, <1>4 DEF PtkFits, Quiescent
  <2> QED BY <2>1, <2>2, <1>1, <1>3 DEF Quiet, SameStation
<1> QED BY <1>1, <1>5 DEF QuietStep

LEMMA DisconnectedQuiet ==
  ASSUME NEW r, Fits(r), Calm(r, {"DISCONNECT"}),
         NEW q, q = [r EXCEPT !.ptk = "DISCONNECTED"]
  PROVE  QuietStep(q, r) /\ q.req = r.req
<1>1. /\ SameStation(q, r) /\ SameFrames(q, r) /\ SameGroup(q, r)
      /\ q.ptk = "DISCONNECTED" /\ q.ask = r.ask /\ q.rx = r.rx
      /\ q.ANonce = r.ANonce /\ q.PTK = r.PTK /\ q.req = r.req
      /\ q.installed = r.installed /\ q.assoc = r.assoc
      /\ q.TimeoutEvt = r.TimeoutEvt /\ r.ptk = "DISCONNECT"
  BY FitsParts, DisconnectedFields DEF Calm
<1>2. ~Waits(q) /\ ~Waits(r) /\ ~Midway(q) /\ ~Midway(r)
      /\ Awaited(q) = Awaited(r) /\ (Pending(q) <=> Pending(r))
  BY <1>1 DEF Waits, Midway, Awaited, SameFrames, Pending
<1>3. Quiescent(r) => Quiescent(q)
  BY <1>1, <1>2 DEF Quiescent, Silent, SameGroup, Begins
<1> QED BY <1>1, <1>2, <1>3
        DEF QuietStep, Quiet, SameStation, SameFrames

LEMMA InitializeQuiet ==
  ASSUME rsn \in BOOLEAN, NEW r, Fits(r), Calm(r, {"DISCONNECTED"}),
         NEW q, q = Initialize(r)
  PROVE  QuietStep(q, r) /\ q.req = r.req
<1>1. /\ SameStation(q, r) /\ SameFrames(q, r)
      /\ q.ptk = "INITIALIZE" /\ q.PTK = NoKey /\ q.installed = NoKey
      /\ q.ANonce = r.ANonce /\ q.req = r.req /\ q.assoc = r.assoc
      /\ q.ask = r.ask /\ q.rx = r.rx /\ r.ptk = "DISCONNECTED"
  BY ZenonT(60), FitsParts, InitializeFields DEF Calm
<1>2. Awaited(q) = Awaited(r) /\ (Pending(q) <=> Pending(r))
  BY <1>1 DEF Awaited, SameFrames, Pending
<1> QED BY <1>1, <1>2 DEF QuietStep, Quiet, SameStation, SameFrames

LEMMA AuthenticationQuiet ==
  ASSUME NEW r, Fits(r), "AuthenticationRequest" \in r.ask,
         NEW q, q = [r EXCEPT !.ptk = "AUTHENTICATION", !.PTK = NoKey,
                              !.ask = @ \ {"AuthenticationRequest"}]
  PROVE  QuietStep(q, r) /\ q.req = r.req
<1>1. /\ SameStation(q, r) /\ SameFrames(q, r)
      /\ q.ptk = "AUTHENTICATION" /\ q.PTK = NoKey
      /\ q.ANonce = r.ANonce /\ q.installed = r.installed /\ q.req = r.req
      /\ q.assoc = r.assoc /\ q.rx = r.rx
  BY ZenonT(60), FitsParts, AuthenticationFields
<1>2. Awaited(q) = Awaited(r) /\ Pending(q) /\ Pending(r)
  BY <1>1 DEF Awaited, SameFrames, Pending
<1> QED BY <1>1, <1>2 DEF QuietStep, Quiet, SameStation, SameFrames

LEMMA InitpskQuiet ==
  ASSUME NEW r, Fits(r), Calm(r, {"AUTHENTICATION2"}),
         NEW q, q = [r EXCEPT !.ptk = "INITPSK", !.req = 0]
  PROVE  QuietStep(q, r) /\ q.ANonce = r.ANonce
<1>1. /\ SameStation(q, r) /\ SameFrames(q, r)
      /\ q.ptk = "INITPSK" /\ q.ask = r.ask /\ r.ptk = "AUTHENTICATION2"
      /\ q.ANonce = r.ANonce /\ q.PTK = r.PTK /\ q.installed = r.installed
      /\ q.assoc = r.assoc /\ q.rx = r.rx
  BY ZenonT(60), FitsParts, InitpskFields DEF Calm
<1>2. r.PTK = NoKey
  BY <1>1, FitsParts DEF PtkFits, Midway
<1>3. Awaited(q) = Awaited(r) /\ (Pending(q) <=> Pending(r))
  BY <1>1 DEF Awaited, SameFrames, Pending
<1> QED BY <1>1, <1>2, <1>3 DEF QuietStep, Quiet, SameStation, SameFrames

LEMMA Calc2Quiet ==
  ASSUME NEW r, Fits(r), Calm(r, {"PTKCALCNEGOTIATING"}), r.PTK # NoKey,
         NEW q, q = [r EXCEPT !.ptk = "PTKCALCNEGOTIATING2", !.TimeoutCtr = 0]
  PROVE  QuietStep(q, r) /\ q.req = r.req
<1>1. /\ SameStation(q, r) /\ SameFrames(q, r)
      /\ q.ptk = "PTKCALCNEGOTIATING2" /\ q.ask = r.ask
      /\ q.ANonce = r.ANonce /\ q.PTK = r.PTK /\ q.installed = r.installed
      /\ q.req = r.req /\ q.assoc = r.assoc /\ q.rx = r.rx
      /\ r.ptk = "PTKCALCNEGOTIATING"
  BY ZenonT(60), FitsParts, Calc2Fields DEF Calm
<1>2. Awaited(q) = Awaited(r) /\ (Pending(q) <=> Pending(r))
      /\ Midway(q) /\ Midway(r)
  BY <1>1 DEF Awaited, SameFrames, Pending, Midway
<1> QED BY <1>1, <1>2 DEF QuietStep, Quiet, SameStation, SameFrames

LEMMA PtkStartSends ==
  ASSUME limit \in Limits, NEW r, Fits(r), ToPtkStart(r),
         NEW q, q = PtkStart(r), NEW g \in Nat,
         NEW f, f = Frame("1/4", r.counter + 1, r.ANonce, r.PTK, 0)
  PROVE  /\ q.req = r.req
         /\ QuietStep(q, r) \/ (Sending(q, r, f, g) /\ Sends(q, r, f))
<1>1. /\ SameStation(q, r)
      /\ q.ptk = "PTKSTART" /\ q.ANonce = r.ANonce /\ q.PTK = r.PTK
      /\ q.installed = r.installed
      /\ q.req = r.req /\ q.assoc = r.assoc /\ q.rx = r.rx
      /\ SameFrames(q, r) \/ Sends(q, r, f)
  BY FitsParts, PtkStartFields
<1>2. r.PTK = NoKey /\ r.rx = {} /\ r.ANonce > 0 /\ ~Pending(r) /\ ~Pending(q)
  BY PtkStartFits
<1>3. /\ f.kind = "1/4" /\ f.c = r.counter + 1 /\ f.nonce = r.ANonce
      /\ f.key = r.PTK /\ f.gtk = 0
  BY DEF Frame
<1>4. CASE SameFrames(q, r)
  <2>1. Awaited(q) = Awaited(r)
    BY <1>4 DEF Awaited, SameFrames
  <2> QED BY <2>1, <1>1, <1>2, <1>4
          DEF QuietStep, Quiet, SameStation, SameFrames
<1>5. CASE Sends(q, r, f)
  BY <1>1, <1>2, <1>3, <1>5 DEF Sending, Sends
<1> QED BY <1>1, <1>4, <1>5

LEMMA InitNegotiatingSends ==
  ASSUME limit \in Limits, NEW r, Fits(r), NEW g \in Nat,
         ToInitNegotiating(r), NEW q, q = PtkInitNegotiating(r, g),
         NEW f, f = Frame("3/4", r.counter + 1, r.ANonce, r.PTK,
                          IF rsn THEN g ELSE 0)
  PROVE  /\ q.req = r.req
         /\ QuietStep(q, r) \/ (Sending(q, r, f, g) /\ Sends(q, r, f))
<1>1. /\ SameStation(q, r)
      /\ q.ptk = "PTKINITNEGOTIATING" /\ q.ANonce = r.ANonce /\ q.PTK = r.PTK
      /\ q.installed = r.installed
      /\ q.req = r.req /\ q.assoc = r.assoc /\ q.rx = r.rx
      /\ SameFrames(q, r) \/ Sends(q, r, f)
  BY FitsParts, PtkInitNegotiatingFields
<1>2. /\ r.PTK # NoKey => Midway(r) /\ r.PTK[1] = r.ANonce
      /\ r.rx = {} /\ ~Pending(r) /\ ~Pending(q)
  BY InitNegotiatingFits, FitsParts DEF PtkFits
<1>3. /\ f.kind = "3/4" /\ f.c = r.counter + 1 /\ f.nonce = r.ANonce
      /\ f.key = r.PTK /\ f.gtk \in {0, g}
  BY DEF Frame
<1>4. r.PTK # NoKey => Midway(q)
  BY <1>1 DEF Midway
<1>5. CASE SameFrames(q, r)
  <2>1. Awaited(q) = Awaited(r)
    BY <1>5 DEF Awaited, SameFrames
  <2> QED BY <2>1, <1>1, <1>2, <1>4, <1>5
          DEF QuietStep, Quiet, SameStation, SameFrames
<1>6. CASE Sends(q, r, f)
  BY <1>1, <1>2, <1>3, <1>6 DEF Sending, Sends
<1> QED BY <1>1, <1>5, <1>6

LEMMA CalcStepHolds ==
  ASSUME World, NEW r, Fits(r), NEW g \in Nat \ {0}, HoldsAt(r, g),
         ToCalc(r), NEW q, q = PtkCalcNegotiating(r)
  PROVE  HoldsAt(q, g) /\ Since(q, r)
<1>1. Calm(r, {"PTKSTART", "PTKCALCNEGOTIATING"}) /\ Answered(r)
      /\ r \in ApType
  BY FitsParts DEF Calm, ToCalc
<1>2. PICK m \in r.rx :
        /\ r.rx = {m} /\ Silent(r) /\ r.ask = {}
        /\ m.kind = "2/4" /\ r.PTK = NoKey /\ r.replay = <<>>
  BY <1>1, AnswerFacts DEF Calm
<1>3. /\ SameStation(q, r) /\ SameFrames(q, r)
      /\ q.ptk = "PTKCALCNEGOTIATING" /\ q.rx = {}
      /\ IF m.key = <<r.ANonce, m.nonce>> THEN q.PTK = m.key
         ELSE q.PTK = r.PTK
      /\ q.ask = r.ask /\ q.assoc = r.assoc /\ q.ANonce = r.ANonce
      /\ q.installed = r.installed /\ q.req = r.req
  BY <1>1, <1>2, CalcFields
<1>4. ~Pending(r) /\ ~Pending(q)
  BY <1>1, <1>2, <1>3 DEF Pending, Calm
<1>5. Aired(q) = Aired(r) /\ Alive(q) = Alive(r)
  BY <1>3 DEF Aired, Alive, SameFrames
<1>6. Since(q, r)
  BY <1>3, <1>5 DEF Since, SameStation, SameFrames, Unheard
<1>7. CASE m.key = <<r.ANonce, m.nonce>>
  <2>1. m.key[1] = r.ANonce /\ q.PTK = m.key
    BY <1>3, <1>7
  <2>2. Holds(q, sta, Aired(r), Alive(r), confirmed, assoc, g)
    BY <1>1, <1>2, <1>3, <1>4, <2>1, WorldTyped, CalcHolds DEF HoldsAt
  <2> QED BY <2>2, <1>5, <1>6 DEF HoldsAt
<1>8. CASE m.key # <<r.ANonce, m.nonce>>
  <2>1. Awaited(q) = Awaited(r) /\ q.PTK = NoKey
    BY <1>2, <1>3, <1>8 DEF Awaited, SameFrames
  <2>2. QuietStep(q, r)
    BY <2>1, <1>3, <1>4 DEF QuietStep, Quiet, SameStation, SameFrames
  <2> QED BY <2>2, <1>1, <1>3, QuietStepHolds
<1> QED BY <1>7, <1>8

LEMMA DoneStepHolds ==
  ASSUME World, NEW r, Fits(r), NEW g \in Nat \ {0}, HoldsAt(r, g),
         Calm(r, {"PTKINITNEGOTIATING"}), Answered(r),
         NEW q, q = PtkInitDone(r)
  PROVE  HoldsAt(q, g) /\ Since(q, r)
<1>1. PICK m \in r.rx :
        /\ r.rx = {m} /\ r.ask = {} /\ r.ptk = "PTKINITNEGOTIATING"
        /\ m.kind = "4/4" /\ m.key = r.PTK /\ r.PTK # NoKey
  BY AnswerFacts DEF Calm
<1>2. r \in ApType /\ rsn \in BOOLEAN
  BY FitsParts DEF World
<1>3. /\ SameStation(q, r) /\ q.ptk = "PTKINITDONE" /\ q.rx = {}
      /\ IF r.refused
         THEN /\ ~q.assoc /\ q.out = r.out \cup {Deauth}
              /\ q.installed = r.installed
         ELSE /\ q.assoc = r.assoc /\ q.out = r.out
              /\ q.installed = r.PTK
      /\ q.ask = r.ask /\ q.ANonce = r.ANonce
      /\ q.PTK = r.PTK /\ q.req = r.req
      /\ q.counter = r.counter /\ q.replay = r.replay
  BY <1>2, DoneFields
<1>4. ~Pending(r) /\ ~Pending(q)
  BY <1>1, <1>3 DEF Pending
<1>5. Aired(q) = Aired(r) /\ (Alive(q) => Alive(r)) /\ Alive(q) \in BOOLEAN
  BY <1>3 DEF Aired, Alive, World
<1>6. q.assoc /\ Alive(q) => r.assoc /\ q.installed = r.PTK
  BY <1>3
<1>7. /\ Holds(q, sta, Aired(r), Alive(q), confirmed, assoc, g)
      /\ confirmed = r.PTK
  BY <1>1, <1>2, <1>3, <1>4, <1>5, <1>6, WorldTyped, DoneHolds DEF HoldsAt
<1>8. Since(q, r)
  BY <1>1, <1>3, <1>5, <1>7 DEF Since, SameStation, Unheard
<1> QED BY <1>5, <1>7, <1>8 DEF HoldsAt

LEMMA Authentication2StepHolds ==
  ASSUME World, NEW r, Fits(r), NEW g \in Nat \ {0}, HoldsAt(r, g),
         ToAuthentication2(r), NEW q, q = Authentication2(r)
  PROVE  HoldsAt(q, g) /\ Since(q, r)
<1>1. /\ SameStation(q, r) /\ SameFrames(q, r)
      /\ q.ptk = "AUTHENTICATION2" /\ q.ANonce = r.seen
      /\ q.ask = r.ask \ {"ReAuthenticationRequest"} /\ q.PTK = r.PTK
      /\ q.installed = r.installed /\ q.assoc = r.assoc /\ q.rx = r.rx
  BY FitsParts, Authentication2Fields
<1>2. /\ AskFits(r) /\ PtkFits(r) /\ r \in ApType
  BY FitsParts
<1>3. Pending(r) /\ r.PTK = NoKey /\ r.rx = {} /\ ~Pending(q)
  <2>1. CASE "ReAuthenticationRequest" \in r.ask
    <3>1. q.ask \in {{}, {"PtkGroupInit"}} /\ r.ask # {}
      BY <2>1, <1>1, <1>2, AskFacts
    <3>2. Pending(r) /\ ~Pending(q)
      BY <2>1, <3>1, <1>1 DEF Pending
    <3> QED BY <2>1, <3>1, <3>2, <1>2 DEF AskFits, PtkFits
  <2>2. CASE "ReAuthenticationRequest" \notin r.ask
    <3>1. r.ptk = "AUTHENTICATION" /\ r.ask \in {{}, {"PtkGroupInit"}}
      BY <2>2, <1>2, AskFacts DEF Calm, ToAuthentication2
    <3>2. Pending(r) /\ ~Pending(q)
      BY <3>1, <1>1 DEF Pending
    <3> QED BY <3>1, <3>2, <1>2 DEF AskFits, PtkFits, Early, Midway
  <2> QED BY <2>1, <2>2
<1>4. Aired(q) = Aired(r) /\ Alive(q) = Alive(r)
  BY <1>1 DEF Aired, Alive, SameFrames
<1>5. Holds(q, sta, Aired(r), Alive(r), confirmed, assoc, g)
  BY <1>1, <1>2, <1>3, WorldTyped, Authentication2Holds DEF HoldsAt
<1>6. \A m \in Downward(Aired(r)) : From(m) # q.ANonce
  <2>1. /\ \A m \in Downward(Aired(r)) : From(m) < r.seen /\ From(m) \in Nat
        /\ r.seen \in Nat
    BY <1>2, <1>3, WorldTyped, HoldsParts, KindFacts, FrameFacts
       DEF HoldsAt, NumbersFit, Typed, ApType
  <2> QED BY <2>1, <1>1
<1>7. Unheard(q, Aired(r)) = {}
  BY <1>6, HoldsParts, NoneUnheard DEF HoldsAt
<1> QED BY <1>1, <1>4, <1>5, <1>7
        DEF HoldsAt, Since, SameStation, SameFrames

LEMMA InitpskStepHolds ==
  ASSUME World, NEW r, Fits(r), NEW g \in Nat \ {0}, HoldsAt(r, g),
         Calm(r, {"AUTHENTICATION2"}),
         NEW q, q = [r EXCEPT !.ptk = "INITPSK", !.req = 0]
  PROVE  HoldsAt(q, g) /\ Since(q, r)
<1>1. QuietStep(q, r) /\ q.ANonce = r.ANonce /\ r \in ApType
      /\ r.ptk = "AUTHENTICATION2"
  BY FitsParts, InitpskQuiet DEF Calm
<1>2. HoldsAt(q, g) /\ Aired(q) = Aired(r)
  BY <1>1, QuietStepHolds
<1>3. \A m \in Downward(Aired(r)) : From(m) # q.ANonce
  <2>1. \A m \in Downward(Aired(r)) :
          From(m) < r.ANonce /\ From(m) \in Nat /\ r.ANonce \in Nat
    BY <1>1, WorldTyped, HoldsParts, KindFacts, FrameFacts
       DEF HoldsAt, NumbersFit, Typed, ApType
  <2> QED BY <2>1, <1>1
<1>4. Unheard(q, Aired(r)) = {}
  BY <1>3, HoldsParts, NoneUnheard DEF HoldsAt
<1> QED BY <1>1, <1>2, <1>4 DEF Since, QuietStep, Quiet

(* The steps of the group machine.                                          *)
LEMMA IdleQuiet ==
  ASSUME limit \in Limits, NEW r, Between(r),
         \/ "PtkGroupInit" \in r.ask
         \/ r.grp \in {"REKEYESTABLISHED", "KEYERROR"},
         NEW q, q = [r EXCEPT !.grp = "IDLE", !.GTimeoutCtr = 0,
                              !.ask = @ \ {"PtkGroupInit"}]
  PROVE  QuietStep(q, r) /\ q.req = r.req
<1>1. /\ SameStation(q, r) /\ SameFrames(q, r) /\ SamePtk(q, r)
      /\ q.ask = r.ask \ {"PtkGroupInit"} /\ q.assoc = r.assoc
      /\ q.rx = r.rx
  BY IdleFields DEF Between, Fits
<1>2. ~Midway(r) /\ ~Quiescent(r)
  BY IdleFits DEF Quiescent, Silent
<1>3. /\ Awaited(q) = Awaited(r) /\ (Pending(q) <=> Pending(r)) /\ ~Midway(q)
      /\ q.ask \subseteq {"PtkGroupInit", "Disconnect"} =>
           r.ask \subseteq {"PtkGroupInit", "Disconnect"}
  <2>1. /\ "AuthenticationRequest" \in q.ask <=> "AuthenticationRequest" \in r.ask
        /\ "ReAuthenticationRequest" \in q.ask <=>
             "ReAuthenticationRequest" \in r.ask
    BY <1>1
  <2> QED BY <2>1, <1>1, <1>2
          DEF Awaited, SameFrames, SamePtk, Pending, Midway
<1> QED BY <1>1, <1>2, <1>3
        DEF QuietStep, Quiet, SameStation, SameFrames, SamePtk

LEMMA EstablishedQuiet ==
  ASSUME limit \in Limits, NEW r, Between(r), r.grp = "REKEYNEGOTIATING",
         Acknowledged(r),
         NEW q, q = [r EXCEPT !.grp = "REKEYESTABLISHED", !.rx = {},
                              !.GTimeoutCtr = 0, !.GUpdateStationKeys = FALSE]
  PROVE  QuietStep(q, r) /\ q.req = r.req
<1>1. /\ SameStation(q, r) /\ SameFrames(q, r) /\ SamePtk(q, r)
      /\ q.ask = r.ask /\ q.assoc = r.assoc /\ q.rx = {}
  BY EstablishedFields DEF Between, Fits
<1>2. r.ptk = "PTKINITDONE"
  <2>1. PICK m \in r.rx : m.kind = "2/2"
    BY DEF Acknowledged
  <2> QED BY <2>1 DEF Between, Fits, RxFits
<1>3. /\ Awaited(q) = Awaited(r) /\ (Pending(q) <=> Pending(r))
      /\ ~Midway(r) /\ ~Midway(q) /\ ~Quiescent(r)
  BY <1>1, <1>2
     DEF Awaited, SameFrames, SamePtk, Pending, Midway, Quiescent
<1> QED BY <1>1, <1>2, <1>3
        DEF QuietStep, Quiet, SameStation, SameFrames, SamePtk

LEMMA KeyErrorQuiet ==
  ASSUME limit \in Limits, NEW r, Between(r), r.grp = "REKEYNEGOTIATING",
         "PtkGroupInit" \notin r.ask, ~Acknowledged(r),
         r.GTimeoutCtr > limit.tries,
         NEW q, q = [r EXCEPT !.grp = "KEYERROR", !.GUpdateStationKeys = FALSE,
                              !.ask = @ \cup {"Disconnect"}]
  PROVE  QuietStep(q, r) /\ q.req = r.req
<1>1. /\ SameStation(q, r) /\ SameFrames(q, r) /\ SamePtk(q, r)
      /\ q.ask = r.ask \cup {"Disconnect"} /\ q.assoc = r.assoc
      /\ q.rx = r.rx
  BY KeyErrorFields DEF Between, Fits
<1>2. ~Midway(r) /\ ~Pending(r)
  BY KeyErrorFits
<1>3. ~Quiescent(r)
  <2>1. r.GTimeoutCtr \in Nat /\ limit.tries \in Nat
    BY FitsParts, TriesPositive DEF Between
  <2> QED BY <2>1 DEF Quiescent, Silent
<1>4. /\ Awaited(q) = Awaited(r) /\ ~Pending(q) /\ ~Midway(q)
      /\ q.ask \subseteq {"PtkGroupInit", "Disconnect"} =>
           r.ask \subseteq {"PtkGroupInit", "Disconnect"}
  <2>1. ~Pending(q)
    BY <1>1, <1>2 DEF Pending, SamePtk
  <2> QED BY <2>1, <1>1, <1>2 DEF Awaited, SameFrames, SamePtk, Midway
<1> QED BY <1>1, <1>2, <1>3, <1>4
        DEF QuietStep, Quiet, SameStation, SameFrames, SamePtk

LEMMA RekeySends ==
  ASSUME limit \in Limits, rsn \in BOOLEAN, NEW r, Between(r), NEW g \in Nat,
         "PtkGroupInit" \notin r.ask,
         \/ r.grp = "IDLE" /\ Begins(r)
         \/ /\ r.grp = "REKEYNEGOTIATING" /\ ~Acknowledged(r)
            /\ r.GTimeoutCtr <= limit.tries /\ r.TimeoutEvt,
         NEW q, q = RekeyNegotiating(r, g),
         NEW f, f = Frame("1/2", r.counter + 1, 0, r.PTK, g)
  PROVE  /\ q.req = r.req
         /\ QuietStep(q, r) \/ (Sending(q, r, f, g) /\ Sends(q, r, f))
<1>1. /\ SameStation(q, r) /\ SamePtk(q, r) /\ q.ask = r.ask
      /\ q.assoc = r.assoc /\ q.rx = r.rx
      /\ SameFrames(q, r) \/ Sends(q, r, f)
  BY RekeyFields DEF Between, Fits
<1>2. ~Midway(r) /\ r.rx = {}
  BY RekeyFits
<1>3. ~Silent(r)
  BY DEF Silent, Between
<1>4. /\ r.PTK # NoKey => ~Pending(r) /\ r.PTK[1] = r.ANonce
      /\ r.ptk \in {"AUTHENTICATION2", "INITPSK"} => r.PTK = NoKey
  <2>1. PtkFits(r)
    BY FitsParts DEF Between
  <2> QED BY <2>1, <1>2 DEF PtkFits, Pending
<1>5. /\ f.kind = "1/2" /\ f.c = r.counter + 1 /\ f.key = r.PTK /\ f.gtk = g
  BY DEF Frame
<1>6. (Pending(q) <=> Pending(r)) /\ ~Midway(q)
  BY <1>1, <1>2 DEF Pending, Midway, SamePtk
<1>7. CASE SameFrames(q, r)
  <2>1. Awaited(q) = Awaited(r)
    BY <1>7 DEF Awaited, SameFrames
  <2> QED BY <2>1, <1>1, <1>2, <1>3, <1>6, <1>7
          DEF QuietStep, Quiet, Quiescent, SameStation, SameFrames, SamePtk
<1>8. CASE Sends(q, r, f)
  BY <1>1, <1>2, <1>3, <1>4, <1>5, <1>6, <1>8
     DEF Sending, Sends, SamePtk
<1> QED BY <1>1, <1>7, <1>8 DEF SamePtk
-----------------------------------------------------------------------------
LEMMA SinceSame == ASSUME NEW r PROVE Since(r, r)
BY DEF Since

LEMMA PtkSmHolds ==
  ASSUME World, NEW r, Fits(r), NEW g \in Nat \ {0}, HoldsAt(r, g),
         NEW q, q = PtkSm(r, g)
  PROVE  HoldsAt(q, g) /\ Since(q, r)
<1>1. r \in ApType /\ limit \in Limits /\ rsn \in BOOLEAN /\ g \in Nat
  BY FitsParts DEF World
<1>2. ASSUME QuietStep(q, r), q.req = r.req
      PROVE  HoldsAt(q, g) /\ Since(q, r)
  BY <1>1, <1>2, QuietStepHolds
<1>3. CASE ToDisconnect(r) /\ q = Disconnect(r)
  BY <1>1, <1>2, <1>3, DisconnectQuiet
<1>4. CASE Calm(r, {"DISCONNECT"}) /\ q = [r EXCEPT !.ptk = "DISCONNECTED"]
  BY <1>2, <1>4, DisconnectedQuiet
<1>5. CASE Calm(r, {"DISCONNECTED"}) /\ q = Initialize(r)
  BY <1>1, <1>2, <1>5, InitializeQuiet
<1>6. CASE /\ "AuthenticationRequest" \in r.ask
           /\ q = [r EXCEPT !.ptk = "AUTHENTICATION", !.PTK = NoKey,
                            !.ask = @ \ {"AuthenticationRequest"}]
  BY <1>2, <1>6, AuthenticationQuiet
<1>7. CASE ToAuthentication2(r) /\ q = Authentication2(r)
  BY <1>7, Authentication2StepHolds
<1>8. CASE /\ Calm(r, {"AUTHENTICATION2"})
           /\ q = [r EXCEPT !.ptk = "INITPSK", !.req = 0]
  BY <1>8, InitpskStepHolds
<1>9. CASE ToPtkStart(r) /\ q = PtkStart(r)
  <2> DEFINE f == Frame("1/4", r.counter + 1, r.ANonce, r.PTK, 0)
  <2>1. /\ q.req = r.req
        /\ QuietStep(q, r) \/ (Sending(q, r, f, g) /\ Sends(q, r, f))
    BY <1>1, <1>9, PtkStartSends
  <2> HIDE DEF f
  <2> QED BY <1>1, <1>2, <2>1, SendStepHolds
<1>10. CASE ToCalc(r) /\ q = PtkCalcNegotiating(r)
  BY <1>10, CalcStepHolds
<1>11. CASE /\ Calm(r, {"PTKCALCNEGOTIATING"}) /\ r.PTK # NoKey
           /\ q = [r EXCEPT !.ptk = "PTKCALCNEGOTIATING2", !.TimeoutCtr = 0]
  BY <1>2, <1>11, Calc2Quiet
<1>12. CASE ToInitNegotiating(r) /\ q = PtkInitNegotiating(r, g)
  <2> DEFINE f == Frame("3/4", r.counter + 1, r.ANonce, r.PTK,
                        IF rsn THEN g ELSE 0)
  <2>1. /\ q.req = r.req
        /\ QuietStep(q, r) \/ (Sending(q, r, f, g) /\ Sends(q, r, f))
    BY <1>1, <1>12, InitNegotiatingSends
  <2> HIDE DEF f
  <2> QED BY <1>1, <1>2, <2>1, SendStepHolds
<1>13. CASE /\ Calm(r, {"PTKINITNEGOTIATING"}) /\ Answered(r)
            /\ q = PtkInitDone(r)
  BY <1>13, DoneStepHolds
<1>14. CASE q = r /\ ~PtkMoves(r)
  BY <1>14, SinceSame
<1>15. PtkStep(r, g, q)
  BY PtkSteps
<1> QED BY <1>3, <1>4, <1>5, <1>6, <1>7, <1>8, <1>9, <1>10, <1>11, <1>12,
           <1>13, <1>14, <1>15 DEF PtkStep

LEMMA GroupSmHolds ==
  ASSUME World, NEW r, Between(r), NEW g \in Nat \ {0}, HoldsAt(r, g),
         NEW q, q = GroupSm(r, g)
  PROVE  HoldsAt(q, g) /\ Since(q, r)
<1>1. r \in ApType /\ limit \in Limits /\ rsn \in BOOLEAN /\ g \in Nat
  BY FitsParts DEF World, Between
<1>2. ASSUME QuietStep(q, r), q.req = r.req
      PROVE  HoldsAt(q, g) /\ Since(q, r)
  BY <1>1, <1>2, QuietStepHolds
<1>3. CASE /\ \/ "PtkGroupInit" \in r.ask
              \/ r.grp \in {"REKEYESTABLISHED", "KEYERROR"}
           /\ q = [r EXCEPT !.grp = "IDLE", !.GTimeoutCtr = 0,
                            !.ask = @ \ {"PtkGroupInit"}]
  BY <1>1, <1>2, <1>3, IdleQuiet
<1>4. CASE /\ "PtkGroupInit" \notin r.ask
           /\ \/ r.grp = "IDLE" /\ Begins(r)
              \/ /\ r.grp = "REKEYNEGOTIATING" /\ ~Acknowledged(r)
                 /\ r.GTimeoutCtr <= limit.tries /\ r.TimeoutEvt
           /\ q = RekeyNegotiating(r, g)
  <2> DEFINE f == Frame("1/2", r.counter + 1, 0, r.PTK, g)
  <2>1. /\ q.req = r.req
        /\ QuietStep(q, r) \/ (Sending(q, r, f, g) /\ Sends(q, r, f))
    BY <1>1, <1>4, RekeySends
  <2> HIDE DEF f
  <2> QED BY <1>1, <1>2, <2>1, SendStepHolds
<1>5. CASE /\ r.grp = "REKEYNEGOTIATING" /\ "PtkGroupInit" \notin r.ask
           /\ Acknowledged(r)
           /\ q = [r EXCEPT !.grp = "REKEYESTABLISHED", !.rx = {},
                            !.GTimeoutCtr = 0, !.GUpdateStationKeys = FALSE]
  BY <1>1, <1>2, <1>5, EstablishedQuiet
<1>6. CASE /\ r.grp = "REKEYNEGOTIATING" /\ "PtkGroupInit" \notin r.ask
           /\ ~Acknowledged(r) /\ r.GTimeoutCtr > limit.tries
           /\ q = [r EXCEPT !.grp = "KEYERROR", !.GUpdateStationKeys = FALSE,
                            !.ask = @ \cup {"Disconnect"}]
  BY <1>1, <1>2, <1>6, KeyErrorQuiet
<1>7. CASE q = r /\ ~GroupMoves(r)
  BY <1>7, SinceSame
<1>8. GroupStep(r, g, q)
  BY GroupSteps
<1> QED BY <1>3, <1>4, <1>5, <1>6, <1>7, <1>8 DEF GroupStep

(* A round of both machines; and wpa_sm_step, from a record r that a        *)
(* handler has prepared.                                                    *)
LEMMA RoundHolds ==
  ASSUME World, NEW r, Fits(r), NEW g \in Nat \ {0}, HoldsAt(r, g),
         NEW q, q = GroupSm(PtkSm(r, g), g)
  PROVE  /\ Fits(q) /\ HoldsAt(q, g) /\ Since(q, r)
         /\ Work(q) < Work(r) \/ Work(q) = 0
<1> DEFINE t == PtkSm(r, g)
<1>1. limit \in Limits /\ rsn \in BOOLEAN /\ g \in Nat
  BY DEF World
<1>2. /\ Between(t) /\ (Work(t) < Work(r) \/ (t = r /\ PtkWork(r) = 0))
  BY <1>1, PtkSmFits
<1>3. HoldsAt(t, g) /\ Since(t, r)
  BY PtkSmHolds
<1>4. q = GroupSm(t, g)
  OBVIOUS
<1> HIDE DEF t
<1>5. /\ Fits(q) /\ (Work(q) < Work(t) \/ (q = t /\ GroupWork(t) = 0))
  BY <1>1, <1>2, <1>4, GroupSmFits
<1>6. HoldsAt(q, g) /\ Since(q, t)
  BY <1>2, <1>3, <1>4, GroupSmHolds
<1>7. Work(q) \in Nat /\ Work(t) \in Nat /\ Work(r) \in Nat
  BY WorkNat DEF Work
<1>8. Work(q) < Work(r) \/ Work(q) = 0
  BY <1>2, <1>5, <1>7 DEF Work
<1> QED BY <1>3, <1>5, <1>6, <1>8, SinceTransitive

Within(R, n, r, g) ==
  \E q : R = {q} /\ Fits(q) /\ Work(q) <= n /\ HoldsAt(q, g) /\ Since(q, r)

LEMMA RoundsHold ==
  ASSUME World, NEW r, NEW g \in Nat \ {0}, NEW n \in Nat, NEW m \in Nat,
         n <= m + 1, NEW R, Within(R, n, r, g)
  PROVE  Within(Rounds(R, g), m, r, g)
<1>1. PICK q : /\ R = {q} /\ Fits(q) /\ Work(q) <= n /\ HoldsAt(q, g)
               /\ Since(q, r)
  BY DEF Within
<1> DEFINE t == GroupSm(PtkSm(q, g), g)
<1>2. /\ Fits(t) /\ HoldsAt(t, g) /\ Since(t, q)
      /\ Work(t) < Work(q) \/ Work(t) = 0
  BY <1>1, RoundHolds
<1>3. Rounds(R, g) = {t}
  BY <1>1 DEF Rounds
<1> HIDE DEF t
<1>4. Work(t) \in Nat /\ Work(q) \in Nat
  BY WorkNat DEF Work
<1>5. Work(t) <= m
  BY <1>1, <1>2, <1>4
<1> QED BY <1>1, <1>2, <1>3, <1>5, SinceTransitive DEF Within

(* The rounds of wpa_sm_step, one after the other: the function that SmStep *)
(* applies exists, and unfolds.                                             *)
LEMMA SmStepRounds ==
  ASSUME NEW r, NEW g
  PROVE  \E f : /\ f[0] = {r} /\ SmStep(r, g) = f[9]
                /\ \A n \in 1 .. 9 : f[n] = Rounds(f[n - 1], g)
<1> DEFINE R0 == {r}
           R1 == Rounds(R0, g)
           R2 == Rounds(R1, g)
           R3 == Rounds(R2, g)
           R4 == Rounds(R3, g)
           R5 == Rounds(R4, g)
           R6 == Rounds(R5, g)
           R7 == Rounds(R6, g)
           R8 == Rounds(R7, g)
           R9 == Rounds(R8, g)
           w == [n \in 0 .. 9 |->
                   CASE n = 0 -> R0 [] n = 1 -> R1 [] n = 2 -> R2
                     [] n = 3 -> R3 [] n = 4 -> R4 [] n = 5 -> R5
                     [] n = 6 -> R6 [] n = 7 -> R7 [] n = 8 -> R8
                     [] n = 9 -> R9]
           Unfolds(f) == f = [n \in 0 .. 9 |->
                                IF n = 0 THEN {r} ELSE Rounds(f[n - 1], g)]
           after == CHOOSE f : Unfolds(f)
<1>1. Unfolds(w)
  <2>1. /\ w[0] = {r}             /\ w[1] = Rounds(w[0], g)
        /\ w[2] = Rounds(w[1], g) /\ w[3] = Rounds(w[2], g)
        /\ w[4] = Rounds(w[3], g) /\ w[5] = Rounds(w[4], g)
        /\ w[6] = Rounds(w[5], g) /\ w[7] = Rounds(w[6], g)
        /\ w[8] = Rounds(w[7], g) /\ w[9] = Rounds(w[8], g)
    <3> HIDE DEF R0, R1, R2, R3, R4, R5, R6, R7, R8, R9
    <3>1. /\ w[0] = R0 /\ w[1] = R1 /\ w[2] = R2 /\ w[3] = R3 /\ w[4] = R4
          /\ w[5] = R5 /\ w[6] = R6 /\ w[7] = R7 /\ w[8] = R8 /\ w[9] = R9
      OBVIOUS
    <3> HIDE DEF w
    <3> QED BY <3>1 DEF R0, R1, R2, R3, R4, R5, R6, R7, R8, R9
  <2>2. w = [n \in 0 .. 9 |-> w[n]]
    <3> HIDE DEF R0, R1, R2, R3, R4, R5, R6, R7, R8, R9
    <3> QED OBVIOUS
  <2> HIDE DEF w
  <2>3. ASSUME NEW n \in 0 .. 9
        PROVE  w[n] = IF n = 0 THEN {r} ELSE Rounds(w[n - 1], g)
    <3>1. n \in {0, 1, 2, 3, 4, 5, 6, 7, 8, 9}
      OBVIOUS
    <3> QED BY <2>1, <3>1
  <2>4. [n \in 0 .. 9 |-> w[n]]
          = [n \in 0 .. 9 |-> IF n = 0 THEN {r} ELSE Rounds(w[n - 1], g)]
    BY <2>3
  <2> QED BY <2>2, <2>4
<1> HIDE DEF w
<1>2. Unfolds(after)
  <2> HIDE DEF Unfolds
  <2> QED BY <1>1
<1>3. SmStep(r, g) = after[9]
  BY DEF SmStep, MaxRounds
<1> HIDE DEF after
<1>4. /\ after[0] = {r}
      /\ \A n \in 1 .. 9 : after[n] = Rounds(after[n - 1], g)
  BY <1>2
<1> QED BY <1>3, <1>4

LEMMA SmStepHolds ==
  ASSUME World, NEW r, Fits(r), NEW g \in Nat \ {0}, HoldsAt(r, g),
         NEW t \in SmStep(r, g)
  PROVE  Fits(t) /\ Work(t) = 0 /\ HoldsAt(t, g) /\ Since(t, r)
<1>1. PICK f : /\ f[0] = {r} /\ SmStep(r, g) = f[9]
               /\ \A n \in 1 .. 9 : f[n] = Rounds(f[n - 1], g)
  BY SmStepRounds
<1>2. Within(f[0], 9, r, g)
  BY <1>1, StartWork, SinceSame DEF Within, World
<1>3. ASSUME NEW n \in 1 .. 9, Within(f[n - 1], 10 - n, r, g)
      PROVE  Within(f[n], 9 - n, r, g)
  <2>1. f[n] = Rounds(f[n - 1], g)
    BY <1>1
  <2>2. 10 - n \in Nat /\ 9 - n \in Nat /\ 10 - n <= (9 - n) + 1
    OBVIOUS
  <2>3. Within(Rounds(f[n - 1], g), 9 - n, r, g)
    BY <1>3, <2>2, RoundsHold
  <2> QED BY <2>1, <2>3
<1> DEFINE Left(n) == Within(f[n], 9 - n, r, g)
<1>4. Left(0)
  BY <1>2
<1>5. \A n \in 1 .. 9 : Left(n - 1) => Left(n)
  <2> SUFFICES ASSUME NEW n \in 1 .. 9, Left(n - 1) PROVE Left(n)
    OBVIOUS
  <2>1. 9 - (n - 1) = 10 - n
    OBVIOUS
  <2> QED BY <1>3, <2>1
<1> HIDE DEF Left
<1>6. Left(1) /\ Left(2) /\ Left(3) /\ Left(4) /\ Left(5)
  BY <1>4, <1>5
<1>7. Left(9)
  BY <1>5, <1>6
<1>8. Within(SmStep(r, g), 0, r, g)
  BY <1>1, <1>7 DEF Left
<1>9. Work(t) \in Nat
  BY WorkNat DEF Work
<1> QED BY <1>8, <1>9 DEF Within
-----------------------------------------------------------------------------
(* What the handlers keep of the record: the frames have gone.              *)
LEMMA ClearedSame ==
  ASSUME NEW t, Fits(t), NEW q, q = [t EXCEPT !.out = {}, !.refused = FALSE]
  PROVE  /\ Fits(q) /\ Work(q) = Work(t) /\ Quiet(q, t)
         /\ q.out = {} /\ ~q.refused
         /\ q.known = t.known /\ q.seen = t.seen /\ q.assoc = t.assoc
         /\ q.installed = t.installed /\ q.req = t.req /\ q.ANonce = t.ANonce
<1>1. t \in ApType
  BY FitsParts
<1>2. q \in ApType
  BY <1>1 DEF ApType
<1>3. /\ q.out = {} /\ ~q.refused
      /\ q.known = t.known /\ q.started = t.started /\ q.seen = t.seen
      /\ q.given = t.given /\ q.assoc = t.assoc /\ q.ask = t.ask
      /\ q.counter = t.counter /\ q.replay = t.replay /\ q.rx = t.rx
      /\ SameGroup(q, t) /\ SamePtk(q, t) /\ q.TimeoutEvt = t.TimeoutEvt
  BY <1>1 DEF ApType, SameGroup, SamePtk
<1>4. /\ Waits(q) <=> Waits(t)
      /\ Midway(q) <=> Midway(t)
      /\ Early(q) <=> Early(t)
      /\ Pending(q) <=> Pending(t)
      /\ Begins(q) <=> Begins(t)
      /\ Awaited(q) = Awaited(t)
  BY <1>3 DEF Waits, Midway, Early, Pending, Begins, Awaited, SameGroup, SamePtk
<1>5. Silent(q) <=> Silent(t)
  BY <1>3, <1>4 DEF Silent, SameGroup
<1>6. Fits(q)
  <2>1. AskFits(q)
    BY <1>3, <1>4, FitsParts DEF AskFits, SameGroup, SamePtk
  <2>2. PtkFits(q)
    BY <1>3, <1>4, <1>5, FitsParts DEF PtkFits, SamePtk
  <2>3. RxFits(q)
    BY <1>3, <1>4, <1>5, FitsParts DEF RxFits, SamePtk, SameGroup
  <2>4. EvtFits(q)
    BY <1>3, <1>4, FitsParts DEF EvtFits, SamePtk, SameGroup
  <2>5. TriesFit(q)
    BY <1>3, FitsParts DEF TriesFit, SamePtk, SameGroup
  <2> QED BY <1>2, <2>1, <2>2, <2>3, <2>4, <2>5 DEF Fits
<1>7. Work(q) = Work(t)
  <2>1. /\ Answered(q) <=> Answered(t)
        /\ Acknowledged(q) <=> Acknowledged(t)
        /\ Exhausted(q) <=> Exhausted(t)
    BY <1>3 DEF Answered, Acknowledged, Exhausted, SamePtk
  <2>2. PtkWork(q) = PtkWork(t)
    BY <2>1, <1>3, <1>4 DEF PtkWork, SamePtk
  <2>3. GroupWork(q) = GroupWork(t)
    BY <2>1, <1>3, <1>4 DEF GroupWork, SameGroup
  <2> QED BY <2>2, <2>3 DEF Work
<1>8. Quiet(q, t)
  BY <1>3, <1>4, <1>5 DEF Quiet, Quiescent, SamePtk
<1> QED BY <1>3, <1>6, <1>7, <1>8 DEF SamePtk

(* A handler that ends with wpa_sm_step keeps the invariant if the record   *)
(* it has prepared fits and holds.                                          *)
LEMMA HandledHolds ==
  ASSUME World, NEW r, Fits(r), NEW g \in Nat \ {0}, HoldsAt(r, g),
         Handled(r, g)
  PROVE  /\ AtRest(ap') /\ link' \in BOOLEAN /\ (link' => Alive(r))
         /\ Holds(ap', sta, air', link', confirmed, assoc, g)
         /\ ap'.known = r.known /\ ap'.seen = r.seen /\ (ap'.assoc => r.assoc)
         /\ \/ ap'.installed \in {r.installed, NoKey}
            \/ ap'.installed = confirmed /\ confirmed # NoKey
         /\ Unheard(ap', air') \subseteq Unheard(r, Aired(r))
<1>1. PICK t \in SmStep(r, g) :
        /\ ap' = [t EXCEPT !.out = {}, !.refused = FALSE]
        /\ air' = Aired(t) /\ link' = Alive(t)
  BY DEF Handled, Aired, Alive
<1>2. Fits(t) /\ Work(t) = 0 /\ HoldsAt(t, g) /\ Since(t, r)
  BY SmStepHolds
<1>3. /\ Fits(ap') /\ Work(ap') = Work(t) /\ Quiet(ap', t)
      /\ ap'.out = {} /\ ~ap'.refused
      /\ ap'.known = t.known /\ ap'.seen = t.seen /\ ap'.assoc = t.assoc
      /\ ap'.installed = t.installed /\ ap'.req = t.req /\ ap'.ANonce = t.ANonce
  BY <1>1, <1>2, ClearedSame
<1>4. /\ t \in ApType /\ Alive(t) \in BOOLEAN /\ g \in Nat /\ g >= g
      /\ Typed(t, sta, Aired(t), confirmed, assoc, g)
  BY <1>2, FitsParts, WorldTyped
<1>5. Holds(ap', sta, Aired(t), Alive(t), confirmed, assoc, g)
  BY <1>2, <1>3, <1>4, QuietHolds DEF HoldsAt
<1>6. Unheard(ap', air') = Unheard(t, Aired(t))
  BY <1>1, <1>3 DEF Unheard
<1>7. Alive(t) => Alive(r)
  BY <1>2 DEF Since, Alive
<1> QED BY <1>1, <1>2, <1>3, <1>4, <1>5, <1>6, <1>7 DEF AtRest, Since

(* The limit and the protocol do not change: the formulas of the next state *)
(* are those of this one, of what the variables become.                     *)
LEMMA NextHolds ==
  ASSUME limit' = limit, rsn' = rsn,
         Holds(ap', sta', air', link', confirmed', assoc', gtk')
  PROVE  Holds(ap, sta, air, link, confirmed, assoc, gtk)'
<1>1. KeyFits(ap, air)'
  BY HoldsParts DEF KeyFits, Quiescent, Silent, Begins, Waits, Midway, Awaited
<1>2. /\ FramesFit(air, gtk)' /\ NumbersFit(ap, air, gtk)'
      /\ AnswersFit(ap, air)' /\ LinkFits(ap, sta, link, confirmed, assoc)'
      /\ NoncesFit(ap, sta, air, confirmed)'
      /\ ConfirmedFits(sta, air, confirmed)'
      /\ OffFits(sta, air, link, confirmed, assoc)' /\ GtkFits(sta, air, gtk)'
  BY HoldsParts
<1> QED BY <1>1, <1>2 DEF Holds

LEMMA NextAtRest ==
  ASSUME limit' = limit, rsn' = rsn, AtRest(ap')
  PROVE  AtRest(ap)'
<1>1. /\ ap' \in ApType /\ AskFits(ap') /\ PtkFits(ap') /\ RxFits(ap')
      /\ EvtFits(ap') /\ TriesFit(ap') /\ Work(ap') = 0
      /\ ap'.out = {} /\ ~ap'.refused
  BY DEF AtRest, Fits
<1>2. Silent(ap)' = Silent(ap')
  BY DEF Silent, Begins, Waits
<1>3. (ap \in ApType)' /\ AskFits(ap)'
  BY <1>1 DEF AskFits
<1>4. PtkFits(ap)' /\ RxFits(ap)'
  BY <1>1, <1>2 DEF PtkFits, RxFits, Midway, Waits
<1>5. EvtFits(ap)' /\ TriesFit(ap)'
  BY <1>1 DEF EvtFits, TriesFit
<1>6. (Work(ap) = 0)'
  BY <1>1 DEF Work, PtkWork, GroupWork, Begins, Exhausted
<1> QED BY <1>1, <1>3, <1>4, <1>5, <1>6 DEF AtRest, Fits
-----------------------------------------------------------------------------
(* A step of the access point leaves the station and its messages as they   *)
(* are.                                                                     *)
ApOnly == UNCHANGED <<limit, rsn, assoc, sta, confirmed>>

MicType == [count : 0 .. limit.mics, recent : BOOLEAN, on : BOOLEAN,
            seen : BOOLEAN, held : BOOLEAN]

(* The access point uses a key that the station has said last, or stops.    *)
KeepsKey(j) == j \in {ap.installed, NoKey} \/ (j = confirmed /\ confirmed # NoKey)

LEMMA InvParts ==
  ASSUME HInv
  PROVE  /\ World /\ AtRest(ap) /\ Fits(ap) /\ Work(ap) = 0 /\ ap.out = {}
         /\ Holds(ap, sta, air, link, confirmed, assoc, gtk)
         /\ CountFits(Unheard(ap, air), gtk, mic.count) /\ NoneServed
         /\ limit \in Limits /\ rsn \in BOOLEAN /\ link \in BOOLEAN
         /\ assoc \in Nat /\ gtk \in Nat \ {0} /\ gtk \in Nat
         /\ confirmed \in KeyType /\ sta \in StaType /\ sta.out = {}
         /\ ap \in ApType /\ air \subseteq FrameType
         /\ Typed(ap, sta, air, confirmed, assoc, gtk) /\ mic \in MicType
<1>1. ap \in ApType
  BY FitsParts DEF HInv, AtRest
<1>2. air \subseteq FrameType
  BY HoldsParts DEF HInv
<1>3. assoc \in Nat
  <2>1. limit.assocs \in Nat
    BY HandshakeAssumption DEF HInv, World
  <2> QED BY <2>1 DEF HInv, World
<1> QED BY <1>1, <1>2, <1>3 DEF HInv, World, AtRest, Typed, MicType

LEMMA CountTypes ==
  ASSUME HInv
  PROVE  /\ limit.gtks \in Nat /\ limit.mics \in Nat /\ mic.count \in Nat
         /\ mic.count <= limit.mics
         /\ Cardinality(Unheard(ap, air)) \in Nat
<1>1. limit.gtks \in Nat /\ limit.mics \in Nat
  BY InvParts, HandshakeAssumption
<1>2. mic.count \in 0 .. limit.mics
  BY InvParts DEF MicType
<1>3. Cardinality(Unheard(ap, air)) \in Nat
  BY InvParts, FS_CardinalityType DEF CountFits
<1> QED BY <1>1, <1>2, <1>3

LEMMA NextInv ==
  ASSUME limit' = limit, rsn' = rsn, World', AtRest(ap'),
         Holds(ap', sta', air', link', confirmed', assoc', gtk'),
         CountFits(Unheard(ap', air'), gtk', mic'.count), NoneServed'
  PROVE  HInv'
<1>1. CountFits(Unheard(ap, air), gtk, mic.count)'
  BY DEF CountFits, Unheard
<1> QED BY <1>1, NextAtRest, NextHolds DEF HInv

LEMMA CountSmaller ==
  ASSUME limit \in Limits, NEW U, NEW g \in Nat, NEW c \in Nat,
         CountFits(U, g, c), NEW V, V \subseteq U
  PROVE  CountFits(V, g, c)
<1>1. /\ IsFiniteSet(U) /\ g + Cardinality(U) <= limit.gtks + c
      /\ Cardinality(U) <= c
  BY DEF CountFits
<1>2. IsFiniteSet(V) /\ Cardinality(V) <= Cardinality(U)
  BY <1>1, FS_Subset
<1>3. /\ Cardinality(U) \in Nat /\ Cardinality(V) \in Nat
      /\ limit.gtks \in Nat
  BY <1>1, <1>2, FS_CardinalityType, HandshakeAssumption
<1>4. g + Cardinality(V) <= limit.gtks + c /\ Cardinality(V) <= c
  BY <1>1, <1>2, <1>3
<1> QED BY <1>2, <1>4 DEF CountFits

(* What a handler has to do for the invariant: r is the record it prepares. *)
LEMMA ApStepHolds ==
  ASSUME HInv, ApOnly, gtk' \in Nat \ {0}, mic' \in MicType,
         NEW r, Fits(r), HoldsAt(r, gtk'), Handled(r, gtk'),
         CountFits(Unheard(r, Aired(r)), gtk', mic'.count),
         mic'.on /\ Alive(r) /\ r.seen = assoc => ~(r.known /\ r.assoc),
         r.installed \in {ap.installed, NoKey}
  PROVE  HInv' /\ KeepsKey(ap'.installed)
<1>1. /\ AtRest(ap') /\ link' \in BOOLEAN /\ (link' => Alive(r))
      /\ Holds(ap', sta, air', link', confirmed, assoc, gtk')
      /\ ap'.known = r.known /\ ap'.seen = r.seen /\ (ap'.assoc => r.assoc)
      /\ \/ ap'.installed \in {r.installed, NoKey}
         \/ ap'.installed = confirmed /\ confirmed # NoKey
      /\ Unheard(ap', air') \subseteq Unheard(r, Aired(r))
  BY InvParts, HandledHolds
<1>2. /\ limit' = limit /\ rsn' = rsn /\ assoc' = assoc /\ sta' = sta
      /\ confirmed' = confirmed
  BY DEF ApOnly
<1>3. World'
  BY <1>1, <1>2, InvParts DEF World, MicType
<1>4. NoneServed'
  BY <1>1, <1>2 DEF NoneServed
<1>5. CountFits(Unheard(ap', air'), gtk', mic'.count)
  <2>1. mic'.count \in Nat /\ gtk' \in Nat
    <3>1. limit.mics \in Nat
      BY InvParts, HandshakeAssumption
    <3> QED BY <3>1 DEF MicType
  <2> QED BY <2>1, <1>1, InvParts, CountSmaller
<1>6. HInv'
  BY <1>1, <1>2, <1>3, <1>4, <1>5, NextInv
<1> QED BY <1>1, <1>6 DEF KeepsKey

(* The parts of the invariant that a change of r alone can disturb.         *)
LEMMA ApHolds ==
  ASSUME NEW r, NEW s, NEW S, NEW l \in BOOLEAN, NEW k, NEW n, NEW g \in Nat,
         Typed(r, s, S, k, n, g), Holds(r, s, S, l, k, n, g), NEW q,
         NumbersFit(q, S, g), AnswersFit(q, S), KeyFits(q, S),
         NEW l2 \in BOOLEAN, l2 => l, LinkFits(q, s, l2, k, n),
         q.PTK \in {r.PTK, NoKey}
  PROVE  Holds(q, s, S, l2, k, n, g)
<1>1. NoncesFit(q, s, S, k)
  <2>1. s.snonce \in Nat /\ NoKey[2] = 0
    BY DEF Typed, StaType, NoKey
  <2> QED BY <2>1, HoldsParts DEF NoncesFit
<1>2. OffFits(s, S, l2, k, n)
  BY HoldsParts DEF OffFits
<1> QED BY <1>1, <1>2, HoldsParts DEF Holds

(* A record prepared from that of the access point without frames.          *)
LEMMA PreparedQuiet ==
  ASSUME HInv, NEW r, Quiet(r, ap), r.out \subseteq {Deauth},
         NEW g \in Nat, g >= gtk
  PROVE  HoldsAt(r, g) /\ Aired(r) = air
<1>1. Aired(r) = air /\ Alive(r) \in BOOLEAN /\ (Alive(r) => link)
  BY InvParts DEF Aired, Alive
<1>2. Holds(r, sta, air, Alive(r), confirmed, assoc, g)
  BY <1>1, InvParts, QuietHolds
<1> QED BY <1>1, <1>2 DEF HoldsAt

(* The record of the access point is at rest when a handler begins; what    *)
(* the handler may change in it.                                            *)
LEMMA RestFits ==
  ASSUME limit \in Limits, NEW a, Fits(a), Work(a) = 0, NEW r \in ApType,
         r.ptk = a.ptk, r.grp = a.grp, r.TimeoutCtr = a.TimeoutCtr,
         r.GTimeoutCtr = a.GTimeoutCtr, r.ANonce = a.ANonce,
         r.replay \in {a.replay, <<>>}, r.PInitAKeys = a.PInitAKeys,
         r.GUpdateStationKeys =>
           a.GUpdateStationKeys \/ r.ptk = "PTKINITDONE",
         r.PTK # NoKey => r.PTK = a.PTK /\ r.ask = {},
         r.ask \in {{}, {"AuthenticationRequest"}, {"ReAuthenticationRequest"},
                    {"ReAuthenticationRequest", "PtkGroupInit"},
                    {"PTKRequest"}},
         r.ask # {} => r.rx = {}, Pending(r) => r.seen > 0,
         "PTKRequest" \in r.ask => r.ANonce > 0,
         r.started \/ (~a.started /\ r.ask = {} /\ ~r.GUpdateStationKeys),
         r.TimeoutEvt => a.TimeoutEvt \/ (r.ask = {} /\ r.rx = {}), RxFits(r)
  PROVE  /\ Fits(r) /\ (Waits(r) <=> Waits(a)) /\ ~Early(r)
         /\ Midway(r) => Silent(r)
<1>1. /\ AskFits(a) /\ PtkFits(a) /\ TriesFit(a)
      /\ limit.tries \in Nat \ {0} /\ a.TimeoutCtr \in Nat
      /\ a.GTimeoutCtr \in Nat
  BY FitsParts, TriesPositive
<1>2. /\ a.ask = {} /\ ~Pending(a) /\ ~Early(a) /\ Silent(a)
      /\ Midway(a) => a.ptk = "PTKINITNEGOTIATING"
      /\ a.ptk \in {"INITIALIZE", "PTKSTART", "PTKCALCNEGOTIATING",
                    "PTKINITNEGOTIATING", "PTKINITDONE"}
      /\ a.ptk = "PTKCALCNEGOTIATING" => a.PTK = NoKey
      /\ a.TimeoutCtr <= limit.tries /\ a.GTimeoutCtr <= limit.tries
      /\ ~(a.TimeoutEvt /\ (Waits(a) \/ a.grp = "REKEYNEGOTIATING"))
  BY RestFacts
<1>3. /\ Waits(r) <=> Waits(a)
      /\ ~Early(r) /\ (Midway(r) => Midway(a))
      /\ Midway(r) => r.ptk = "PTKINITNEGOTIATING" /\ Waits(r)
  <2>1. r.PTK # NoKey => r.PTK = a.PTK
    OBVIOUS
  <2> QED BY <2>1, <1>2 DEF Waits, Early, Midway
<1>4. AskFits(r)
  <2>1. ~r.started => a.ptk = "INITIALIZE" /\ a.grp = "IDLE" /\ a.PTK = NoKey
                      /\ ~a.PInitAKeys
    BY <1>1 DEF AskFits
  <2>2. r.ptk # "INITIALIZE" => r.ANonce > 0
    BY <1>1, <1>2 DEF AskFits
  <2>3. r.ptk \notin {"DISCONNECT", "DISCONNECTED", "AUTHENTICATION"}
    BY <1>2
  <2>4. ~r.started => r.ask = {} /\ r.PTK = NoKey /\ ~r.GUpdateStationKeys
    BY <2>1
  <2>5. r.ask \in {{}, {"AuthenticationRequest"}, {"ReAuthenticationRequest"},
                   {"ReAuthenticationRequest", "PtkGroupInit"},
                   {"PTKRequest"}, {"Disconnect"}, {"PtkGroupInit"}}
    OBVIOUS
  <2> QED BY <1>3, <2>1, <2>2, <2>3, <2>4, <2>5 DEF AskFits
<1>5. Midway(r) => Silent(r)
  <2>1. ASSUME Midway(r)
        PROVE  Silent(r)
    <3>1. r.PTK # NoKey /\ r.ask = {} /\ r.ptk = "PTKINITNEGOTIATING"
      BY <2>1, <1>3 DEF Midway
    <3>2. Begins(r) => Begins(a)
      BY <3>1 DEF Begins
    <3> QED BY <3>1, <3>2, <2>1, <1>2, <1>3 DEF Silent
  <2> QED BY <2>1
<1>6. PtkFits(r)
  <2>1. r.PTK # NoKey =>
          /\ Midway(r) \/ r.ptk = "PTKINITDONE"
          /\ r.ask \subseteq {"Disconnect"} /\ r.PTK[1] = r.ANonce
    <3>1. a.PTK # NoKey => /\ Midway(a) \/ a.ptk = "PTKINITDONE"
                           /\ a.PTK[1] = a.ANonce
      BY <1>1, <1>2 DEF PtkFits
    <3>2. r.PTK # NoKey /\ Midway(a) => Midway(r)
      BY DEF Midway
    <3> QED BY <3>1, <3>2
  <2> QED BY <2>1, <1>2, <1>3, <1>5 DEF PtkFits
<1>7. EvtFits(r)
  BY <1>2, <1>3 DEF EvtFits
<1>8. TriesFit(r)
  <2>1. Len(<<>>) = 0 /\ Len(r.replay) <= limit.tries
    BY <1>1 DEF TriesFit
  <2> QED BY <2>1, <1>1, <1>2 DEF TriesFit
<1> QED BY <1>3, <1>4, <1>5, <1>6, <1>7, <1>8 DEF Fits

(* Most handlers keep the key or drop it, and the frames that are awaited.  *)
LEMMA RestQuiet ==
  ASSUME HInv, NEW r \in ApType, r.ptk = ap.ptk, Midway(r) => Silent(r),
         r.known = ap.known, r.seen = ap.seen, r.given = ap.given,
         r.assoc => ap.assoc, r.ANonce = ap.ANonce, r.counter = ap.counter,
         r.replay = ap.replay, r.rx = {},
         ~Pending(r), r.PTK # NoKey => r.PTK = ap.PTK,
         r.ask = {} => r.PTK = ap.PTK /\ r.installed = ap.installed,
         r.ask \in {{}, {"PTKRequest"}}
  PROVE  Quiet(r, ap)
<1>1. /\ ~Pending(ap) /\ ~Early(ap) /\ ap.ask = {} /\ PtkFits(ap)
      /\ Midway(ap) \/ ap.PTK = NoKey \/ ap.ptk = "PTKINITDONE"
  <2>1. ~Pending(ap) /\ ~Early(ap) /\ ap.ask = {} /\ PtkFits(ap)
        /\ ap.ptk \notin {"DISCONNECT", "DISCONNECTED"}
    BY InvParts, RestFacts, FitsParts
  <2> QED BY <2>1 DEF PtkFits
<1>2. r.PTK # NoKey => /\ Midway(r) <=> Midway(ap)
                       /\ Quiescent(ap) => Midway(ap)
  BY <1>1 DEF Midway, Quiescent
<1>3. Awaited(r) = Awaited(ap)
  BY DEF Awaited
<1>4. ASSUME r.ask \subseteq {"PtkGroupInit", "Disconnect"}
      PROVE  r.ask = {}
  <2>1. "PTKRequest" \notin r.ask
    BY <1>4
  <2> QED BY <2>1
<1>5. r.ask \subseteq {"PtkGroupInit", "Disconnect"} =>
        /\ ap.ask \subseteq {"PtkGroupInit", "Disconnect"}
        /\ r.PTK = ap.PTK /\ r.installed = ap.installed
  BY <1>1, <1>4
<1>6. r.rx \subseteq ap.rx /\ (Pending(r) <=> Pending(ap))
  BY <1>1
<1> QED BY <1>2, <1>3, <1>5, <1>6 DEF Quiet
-----------------------------------------------------------------------------
(* wpa_send_eapol_timeout                                                   *)
LEMMA ApTimeoutHolds ==
  ASSUME HInv, ApTimeout
  PROVE  HInv' /\ ApOnly /\ KeepsKey(ap'.installed)
<1> DEFINE r == [ap EXCEPT !.timers = @ - 1, !.TimeoutEvt = TRUE]
<1>1. /\ ApOnly /\ gtk' = gtk /\ mic' = mic /\ Handled(r, gtk')
      /\ ap.timers > 0
  BY DEF ApTimeout, ApOnly
<1>2. /\ ap \in ApType /\ ap.rx = {} /\ ap.ask = {} /\ ~Pending(ap)
      /\ AskFits(ap)
  BY InvParts, RestFacts, FitsParts
<1>3. ap.timers - 1 \in Nat
  BY <1>1, <1>2 DEF ApType
<1>4. r \in ApType
  BY <1>2, <1>3 DEF ApType
<1>5. /\ r.ptk = ap.ptk /\ r.grp = ap.grp /\ r.TimeoutCtr = ap.TimeoutCtr
      /\ r.GTimeoutCtr = ap.GTimeoutCtr /\ r.ANonce = ap.ANonce
      /\ r.replay = ap.replay /\ r.PInitAKeys = ap.PInitAKeys
      /\ r.GUpdateStationKeys = ap.GUpdateStationKeys /\ r.PTK = ap.PTK
      /\ r.ask = {} /\ r.rx = {} /\ r.seen = ap.seen
      /\ r.started = ap.started /\ r.known = ap.known /\ r.given = ap.given
      /\ r.assoc = ap.assoc /\ r.counter = ap.counter /\ r.req = ap.req
      /\ r.installed = ap.installed /\ r.out = {}
  BY <1>2, <1>4, InvParts DEF ApType
<1> HIDE DEF r
<1>6. ~Pending(r) /\ RxFits(r) /\ (r.started \/ ~r.GUpdateStationKeys)
  BY <1>2, <1>5 DEF Pending, RxFits, AskFits
<1>7. Fits(r) /\ (Midway(r) => Silent(r))
  BY <1>4, <1>5, <1>6, InvParts, RestFits
<1>8. Quiet(r, ap)
  BY <1>4, <1>5, <1>6, <1>7, RestQuiet
<1>9. HoldsAt(r, gtk') /\ Aired(r) = air
  BY <1>1, <1>5, <1>8, InvParts, PreparedQuiet
<1>10. CountFits(Unheard(r, Aired(r)), gtk', mic'.count)
  BY <1>1, <1>5, <1>9, InvParts DEF Unheard
<1>11. mic'.on /\ Alive(r) /\ r.seen = assoc => ~(r.known /\ r.assoc)
  BY <1>1, <1>5, InvParts DEF NoneServed, Alive
<1> QED BY <1>1, <1>5, <1>7, <1>9, <1>10, <1>11, InvParts, ApStepHolds

(* wpa_rekey_gtk                                                            *)
LEMMA RekeyGtkHolds ==
  ASSUME HInv, RekeyGtk
  PROVE  HInv' /\ ApOnly /\ KeepsKey(ap'.installed)
<1> DEFINE d == ap.known /\ ap.ptk = "PTKINITDONE"
           r == [ap EXCEPT !.GUpdateStationKeys = d]
<1>1. /\ ApOnly /\ gtk' = gtk + 1 /\ mic' = mic /\ Handled(r, gtk')
      /\ gtk < limit.gtks /\ d \in BOOLEAN
      /\ d => ap.ptk = "PTKINITDONE"
  BY DEF RekeyGtk, ApOnly
<1>2. /\ ap \in ApType /\ ap.rx = {} /\ ap.ask = {} /\ ~Pending(ap)
      /\ AskFits(ap)
  BY InvParts, RestFacts, FitsParts
<1> HIDE DEF d
<1>3. r \in ApType
  BY <1>1, <1>2 DEF ApType
<1>4. /\ r.ptk = ap.ptk /\ r.grp = ap.grp /\ r.TimeoutCtr = ap.TimeoutCtr
      /\ r.GTimeoutCtr = ap.GTimeoutCtr /\ r.ANonce = ap.ANonce
      /\ r.replay = ap.replay /\ r.PInitAKeys = ap.PInitAKeys
      /\ r.GUpdateStationKeys = d /\ r.PTK = ap.PTK
      /\ r.ask = {} /\ r.rx = {} /\ r.seen = ap.seen
      /\ r.started = ap.started /\ r.known = ap.known /\ r.given = ap.given
      /\ r.assoc = ap.assoc /\ r.counter = ap.counter /\ r.req = ap.req
      /\ r.TimeoutEvt = ap.TimeoutEvt
      /\ r.installed = ap.installed /\ r.out = {}
  BY <1>2, <1>3, InvParts DEF ApType
<1> HIDE DEF r
<1>5. ~Pending(r) /\ RxFits(r) /\ (r.started \/ ~r.GUpdateStationKeys)
  BY <1>1, <1>2, <1>4 DEF Pending, RxFits, AskFits
<1>6. Fits(r) /\ (Midway(r) => Silent(r))
  BY <1>1, <1>3, <1>4, <1>5, InvParts, RestFits
<1>7. Quiet(r, ap)
  BY <1>3, <1>4, <1>5, <1>6, RestQuiet
<1>8. HoldsAt(r, gtk') /\ Aired(r) = air
  <2>1. gtk' \in Nat /\ gtk' >= gtk
    BY <1>1, InvParts
  <2> QED BY <2>1, <1>4, <1>7, PreparedQuiet
<1>9. CountFits(Unheard(r, Aired(r)), gtk', mic'.count)
  <2>1. Unheard(r, Aired(r)) = Unheard(ap, air)
    BY <1>4, <1>8 DEF Unheard
  <2>2. /\ gtk \in Nat /\ limit.gtks \in Nat /\ mic.count \in Nat
        /\ Cardinality(Unheard(ap, air)) \in Nat
    BY InvParts, CountTypes
  <2> QED BY <2>1, <2>2, <1>1, InvParts DEF CountFits
<1>10. mic'.on /\ Alive(r) /\ r.seen = assoc => ~(r.known /\ r.assoc)
  BY <1>1, <1>4, InvParts DEF NoneServed, Alive
<1>11. gtk' \in Nat \ {0}
  BY <1>1, InvParts
<1> QED BY <1>1, <1>4, <1>6, <1>8, <1>9, <1>10, <1>11, InvParts, ApStepHolds

(* The report of a Michael MIC failure: of another station.                 *)
LEMMA MicFailureCounts ==
  ASSUME HInv, NEW c \in Nat, MichaelMicFailure(c), c <= limit.mics
  PROVE  /\ mic' \in MicType /\ mic'.count = c
         /\ gtk' \in Nat \ {0} /\ gtk' >= gtk /\ gtk' <= gtk + 1
         /\ mic'.on <=> mic.on \/ mic.recent
<1>1. /\ mic' = [mic EXCEPT !.count = c, !.recent = TRUE,
                            !.on = @ \/ mic.recent]
      /\ gtk' = gtk + (IF mic.recent THEN 1 ELSE 0)
  BY DEF MichaelMicFailure
<1>2. mic \in MicType /\ gtk \in Nat \ {0} /\ c \in 0 .. limit.mics
  BY InvParts, CountTypes
<1> DEFINE o == mic.on \/ mic.recent
<1>3. o \in BOOLEAN
  BY <1>2 DEF MicType
<1>4. mic' = [mic EXCEPT !.count = c, !.recent = TRUE, !.on = o]
  BY <1>1
<1>5. o <=> mic.on \/ mic.recent
  OBVIOUS
<1> HIDE DEF o
<1>6. mic' \in MicType /\ mic'.count = c /\ mic'.on = o
  BY <1>2, <1>3, <1>4 DEF MicType
<1> QED BY <1>1, <1>2, <1>5, <1>6

LEMMA StruckFields ==
  ASSUME HInv, NEW r, r = Struck(ap)
  PROVE  /\ r \in ApType /\ RxFits(r)
         /\ r.ptk = ap.ptk /\ r.grp = ap.grp /\ r.TimeoutCtr = ap.TimeoutCtr
         /\ r.GTimeoutCtr = ap.GTimeoutCtr /\ r.ANonce = ap.ANonce
         /\ r.replay = ap.replay /\ r.PInitAKeys = ap.PInitAKeys
         /\ r.GUpdateStationKeys = ap.GUpdateStationKeys /\ r.PTK = ap.PTK
         /\ r.ask = {} /\ r.rx = {} /\ r.seen = ap.seen
         /\ r.started = ap.started /\ r.known = ap.known /\ r.given = ap.given
         /\ r.counter = ap.counter /\ r.req = ap.req
         /\ r.TimeoutEvt = ap.TimeoutEvt /\ r.installed = ap.installed
         /\ r.out \subseteq {Deauth} /\ (r.assoc => ap.assoc)
         /\ mic.recent /\ r.known => ~r.assoc /\ Deauth \in r.out
         /\ ~Pending(r) /\ (r.started \/ ~r.GUpdateStationKeys)
<1>1. /\ ap \in ApType /\ ap.rx = {} /\ ap.ask = {} /\ ap.out = {}
      /\ ~Pending(ap) /\ AskFits(ap) /\ Deauth \in FrameType
  BY InvParts, RestFacts, FitsParts, DeauthType
<1>2. CASE mic.recent /\ ap.known
  <2>1. r = [ap EXCEPT !.assoc = FALSE, !.out = {Deauth}]
    BY <1>2 DEF Struck
  <2>2. {Deauth} \in SUBSET FrameType
    BY <1>1
  <2>3. r \in ApType
    BY ZenonT(60), <1>1, <2>1, <2>2 DEF ApType
  <2>4. /\ r.ptk = ap.ptk /\ r.grp = ap.grp /\ r.TimeoutCtr = ap.TimeoutCtr
        /\ r.GTimeoutCtr = ap.GTimeoutCtr /\ r.ANonce = ap.ANonce
        /\ r.replay = ap.replay /\ r.PInitAKeys = ap.PInitAKeys
        /\ r.GUpdateStationKeys = ap.GUpdateStationKeys /\ r.PTK = ap.PTK
        /\ r.ask = {} /\ r.rx = {} /\ r.seen = ap.seen
        /\ r.started = ap.started /\ r.known = ap.known /\ r.given = ap.given
        /\ r.counter = ap.counter /\ r.req = ap.req
        /\ r.TimeoutEvt = ap.TimeoutEvt /\ r.installed = ap.installed
        /\ r.out = {Deauth} /\ ~r.assoc
    BY <1>1, <2>1 DEF ApType
  <2>5. ~Pending(r) /\ RxFits(r)
    BY <2>4, <1>1 DEF Pending, RxFits
  <2> QED BY <1>1, <2>3, <2>4, <2>5 DEF AskFits
<1>3. CASE ~(mic.recent /\ ap.known)
  <2>1. r = ap
    BY <1>3 DEF Struck
  <2> QED BY <1>1, <1>3, <2>1 DEF AskFits, RxFits
<1> QED BY <1>2, <1>3

LEMMA OtherMicFailureHolds ==
  ASSUME HInv, OtherMicFailure
  PROVE  HInv' /\ ApOnly /\ KeepsKey(ap'.installed)
<1> DEFINE r == Struck(ap)
<1>1. /\ ApOnly /\ MichaelMicFailure(mic.count + 1) /\ Handled(r, gtk')
      /\ mic.count < limit.mics
  BY DEF OtherMicFailure, ApOnly
<1>2. /\ mic' \in MicType /\ mic'.count = mic.count + 1
      /\ gtk' \in Nat \ {0} /\ gtk' >= gtk /\ gtk' <= gtk + 1
      /\ mic'.on <=> mic.on \/ mic.recent
  <2>1. mic.count + 1 \in Nat /\ mic.count + 1 <= limit.mics
    BY <1>1, CountTypes
  <2> QED BY <1>1, <2>1, MicFailureCounts
<1>3. /\ r \in ApType /\ RxFits(r)
      /\ r.ptk = ap.ptk /\ r.grp = ap.grp /\ r.TimeoutCtr = ap.TimeoutCtr
      /\ r.GTimeoutCtr = ap.GTimeoutCtr /\ r.ANonce = ap.ANonce
      /\ r.replay = ap.replay /\ r.PInitAKeys = ap.PInitAKeys
      /\ r.GUpdateStationKeys = ap.GUpdateStationKeys /\ r.PTK = ap.PTK
      /\ r.ask = {} /\ r.rx = {} /\ r.seen = ap.seen
      /\ r.started = ap.started /\ r.known = ap.known /\ r.given = ap.given
      /\ r.counter = ap.counter /\ r.req = ap.req
      /\ r.TimeoutEvt = ap.TimeoutEvt /\ r.installed = ap.installed
      /\ r.out \subseteq {Deauth} /\ (r.assoc => ap.assoc)
      /\ mic.recent /\ r.known => ~r.assoc /\ Deauth \in r.out
      /\ ~Pending(r) /\ (r.started \/ ~r.GUpdateStationKeys)
  BY StruckFields
<1> HIDE DEF r
<1>4. Fits(r) /\ (Midway(r) => Silent(r))
  BY <1>3, InvParts, RestFits
<1>5. Quiet(r, ap)
  BY <1>3, <1>4, RestQuiet
<1>6. HoldsAt(r, gtk') /\ Aired(r) = air
  <2>1. gtk' \in Nat
    BY <1>2
  <2> QED BY <2>1, <1>2, <1>3, <1>5, PreparedQuiet
<1>7. CountFits(Unheard(r, Aired(r)), gtk', mic'.count)
  <2>1. Unheard(r, Aired(r)) = Unheard(ap, air)
    BY <1>3, <1>6 DEF Unheard
  <2>2. /\ gtk \in Nat /\ limit.gtks \in Nat /\ mic.count \in Nat
        /\ Cardinality(Unheard(ap, air)) \in Nat
    BY InvParts, CountTypes
  <2> QED BY <2>1, <2>2, <1>2, InvParts DEF CountFits
<1>8. mic'.on /\ Alive(r) /\ r.seen = assoc => ~(r.known /\ r.assoc)
  BY <1>2, <1>3, InvParts DEF NoneServed, Alive
<1> QED BY <1>1, <1>2, <1>3, <1>4, <1>6, <1>7, <1>8, InvParts, ApStepHolds
-----------------------------------------------------------------------------
(* A request of the station, or its report of a failure: what both do.      *)
LEMMA RequestedFields ==
  ASSUME limit \in Limits, NEW a \in ApType, NEW m \in FrameType,
         a.ask = {}, a.rx = {}, ~Pending(a), NEW r, r = Requested(a, m)
  PROVE  /\ r \in ApType /\ RxFits(r)
         /\ r.ptk = a.ptk /\ r.grp = a.grp /\ r.TimeoutCtr = a.TimeoutCtr
         /\ r.GTimeoutCtr = a.GTimeoutCtr /\ r.ANonce = a.ANonce
         /\ r.replay = a.replay /\ r.PInitAKeys = a.PInitAKeys
         /\ r.GUpdateStationKeys = a.GUpdateStationKeys /\ r.PTK = NoKey
         /\ r.ask = {"PTKRequest"} /\ r.rx = {} /\ r.seen = a.seen
         /\ r.started = a.started /\ r.known = a.known /\ r.given = a.given
         /\ r.counter = a.counter /\ r.req = m.c
         /\ r.TimeoutEvt = a.TimeoutEvt /\ r.installed = a.installed
         /\ r.out = a.out /\ r.assoc = a.assoc /\ ~Pending(r)
<1> DEFINE k == a.ask \cup {"PTKRequest"}
<1>1. k = {"PTKRequest"} /\ k \in SUBSET Asks /\ m.c \in Nat /\ 0 \in Nat
      /\ NoKey \in KeyType
  BY DEF Asks, FrameType, KeyType
<1>2. r = [a EXCEPT !.req = m.c, !.timers = 0, !.PTK = NoKey, !.ask = k]
  BY DEF Requested
<1> HIDE DEF k
<1>3. r \in ApType
  BY ZenonT(60), <1>1, <1>2 DEF ApType
<1>4. /\ r.ptk = a.ptk /\ r.grp = a.grp /\ r.TimeoutCtr = a.TimeoutCtr
      /\ r.GTimeoutCtr = a.GTimeoutCtr /\ r.ANonce = a.ANonce
      /\ r.replay = a.replay /\ r.PInitAKeys = a.PInitAKeys
      /\ r.GUpdateStationKeys = a.GUpdateStationKeys /\ r.PTK = NoKey
      /\ r.ask = {"PTKRequest"} /\ r.rx = {} /\ r.seen = a.seen
      /\ r.started = a.started /\ r.known = a.known /\ r.given = a.given
      /\ r.counter = a.counter /\ r.req = m.c
      /\ r.TimeoutEvt = a.TimeoutEvt /\ r.installed = a.installed
      /\ r.out = a.out /\ r.assoc = a.assoc
  BY <1>1, <1>2 DEF ApType
<1>5. ~Pending(r) /\ RxFits(r)
  BY <1>4 DEF Pending, RxFits
<1> QED BY <1>3, <1>4, <1>5

(* The record asked for new keys by a frame m with the key of the access    *)
(* point.                                                                   *)
LEMMA RequestedHolds ==
  ASSUME HInv, NEW a \in ApType, NEW m \in air, m.c > ap.req, ap.PTK # NoKey,
         a.ptk = ap.ptk, a.grp = ap.grp, a.TimeoutCtr = ap.TimeoutCtr,
         a.GTimeoutCtr = ap.GTimeoutCtr, a.ANonce = ap.ANonce,
         a.replay = ap.replay, a.PInitAKeys = ap.PInitAKeys,
         a.GUpdateStationKeys = ap.GUpdateStationKeys,
         a.ask = {}, a.rx = {}, a.seen = ap.seen,
         a.started = ap.started, a.known = ap.known, a.given = ap.given,
         a.counter = ap.counter, a.TimeoutEvt = ap.TimeoutEvt,
         a.installed = ap.installed,
         a.out \subseteq {Deauth}, a.assoc => ap.assoc, ~Pending(a),
         NEW g \in Nat, g >= gtk, NEW r, r = Requested(a, m)
  PROVE  /\ Fits(r) /\ HoldsAt(r, g) /\ Aired(r) = air
         /\ Unheard(r, Aired(r)) \subseteq Unheard(ap, air) \ {m}
         /\ r.installed = ap.installed /\ r.seen = ap.seen
         /\ r.known = ap.known /\ (r.assoc => ap.assoc) /\ r.out = a.out
         /\ r.assoc = a.assoc
<1>1. m \in FrameType /\ m.c \in Nat /\ ap.req \in Nat
  BY InvParts DEF FrameType, ApType
<1>2. /\ r \in ApType /\ RxFits(r)
      /\ r.ptk = a.ptk /\ r.grp = a.grp /\ r.TimeoutCtr = a.TimeoutCtr
      /\ r.GTimeoutCtr = a.GTimeoutCtr /\ r.ANonce = a.ANonce
      /\ r.replay = a.replay /\ r.PInitAKeys = a.PInitAKeys
      /\ r.GUpdateStationKeys = a.GUpdateStationKeys /\ r.PTK = NoKey
      /\ r.ask = {"PTKRequest"} /\ r.rx = {} /\ r.seen = a.seen
      /\ r.started = a.started /\ r.known = a.known /\ r.given = a.given
      /\ r.counter = a.counter /\ r.req = m.c
      /\ r.TimeoutEvt = a.TimeoutEvt /\ r.installed = a.installed
      /\ r.out = a.out /\ r.assoc = a.assoc /\ ~Pending(r)
  BY <1>1, InvParts, RequestedFields
<1>3. ap.started /\ ap.ANonce > 0
  <2>1. AskFits(ap) /\ PtkFits(ap)
    BY InvParts, FitsParts
  <2>2. ap.PTK[1] > 0 /\ ap.PTK[1] = ap.ANonce
    BY <2>1, InvParts, FitsParts, KeyFacts DEF PtkFits
  <2> QED BY <2>1, <2>2 DEF AskFits
<1>4. /\ r.ptk = ap.ptk /\ r.grp = ap.grp /\ r.TimeoutCtr = ap.TimeoutCtr
      /\ r.GTimeoutCtr = ap.GTimeoutCtr /\ r.ANonce = ap.ANonce
      /\ r.replay = ap.replay /\ r.PInitAKeys = ap.PInitAKeys
      /\ r.GUpdateStationKeys = ap.GUpdateStationKeys
      /\ r.started /\ r.TimeoutEvt = ap.TimeoutEvt /\ r.ANonce > 0
      /\ Fits(ap) /\ Work(ap) = 0 /\ limit \in Limits
  BY <1>2, <1>3, InvParts
<1>5. Fits(r) /\ (Midway(r) => Silent(r))
  BY <1>2, <1>4, RestFits
<1>6. Quiet(r, ap)
  BY <1>2, <1>5, RestQuiet
<1>7. HoldsAt(r, g) /\ Aired(r) = air
  BY <1>2, <1>6, PreparedQuiet
<1>8. \A x \in air : x.c > m.c => x.c > ap.req /\ x # m
  <2>1. \A x \in air : x.c \in Nat
    BY InvParts, FrameFacts
  <2> QED BY <2>1, <1>1
<1>9. Unheard(r, Aired(r)) \subseteq Unheard(ap, air) \ {m}
  BY <1>2, <1>7, <1>8 DEF Unheard
<1> QED BY <1>2, <1>5, <1>7, <1>9

LEMMA ReceiveRequestHolds ==
  ASSUME HInv, NEW m \in air, ReceiveRequest(m)
  PROVE  HInv' /\ ApOnly /\ KeepsKey(ap'.installed)
<1> DEFINE r == Requested(ap, m)
<1>1. /\ ApOnly /\ gtk' = gtk /\ mic' = mic /\ Handled(r, gtk')
      /\ m.c > ap.req /\ ap.PTK # NoKey
  BY DEF ReceiveRequest, ApOnly
<1>2. /\ ap \in ApType /\ ap.rx = {} /\ ap.ask = {} /\ ap.out = {}
      /\ ~Pending(ap) /\ gtk \in Nat /\ gtk >= gtk
  BY InvParts, RestFacts
<1>3. /\ Fits(r) /\ HoldsAt(r, gtk) /\ Aired(r) = air
      /\ Unheard(r, Aired(r)) \subseteq Unheard(ap, air) \ {m}
      /\ r.installed = ap.installed /\ r.seen = ap.seen
      /\ r.known = ap.known /\ (r.assoc => ap.assoc) /\ r.out = {}
  BY <1>1, <1>2, RequestedHolds
<1> HIDE DEF r
<1>4. CountFits(Unheard(r, Aired(r)), gtk', mic'.count)
  BY <1>1, <1>3, InvParts, CountTypes, CountSmaller
<1>5. mic'.on /\ Alive(r) /\ r.seen = assoc => ~(r.known /\ r.assoc)
  BY <1>1, <1>3, InvParts DEF NoneServed, Alive
<1> QED BY <1>1, <1>3, <1>4, <1>5, InvParts, ApStepHolds

LEMMA ReceiveErrorHolds ==
  ASSUME HInv, NEW m \in air, ReceiveError(m)
  PROVE  HInv' /\ ApOnly /\ KeepsKey(ap'.installed)
<1> DEFINE a == Struck(ap)
           r == Requested(a, m)
<1>1. /\ ApOnly /\ MichaelMicFailure(mic.count) /\ Handled(r, gtk')
      /\ m.c > ap.req /\ ap.PTK # NoKey /\ m.kind = "error"
      /\ m.key = ap.PTK
  BY DEF ReceiveError, ApOnly
<1>2. /\ mic' \in MicType /\ mic'.count = mic.count
      /\ gtk' \in Nat \ {0} /\ gtk' >= gtk /\ gtk' <= gtk + 1 /\ gtk' \in Nat
      /\ mic'.on <=> mic.on \/ mic.recent
  BY <1>1, CountTypes, MicFailureCounts
<1>3. /\ a \in ApType /\ RxFits(a)
      /\ a.ptk = ap.ptk /\ a.grp = ap.grp /\ a.TimeoutCtr = ap.TimeoutCtr
      /\ a.GTimeoutCtr = ap.GTimeoutCtr /\ a.ANonce = ap.ANonce
      /\ a.replay = ap.replay /\ a.PInitAKeys = ap.PInitAKeys
      /\ a.GUpdateStationKeys = ap.GUpdateStationKeys /\ a.PTK = ap.PTK
      /\ a.ask = {} /\ a.rx = {} /\ a.seen = ap.seen
      /\ a.started = ap.started /\ a.known = ap.known /\ a.given = ap.given
      /\ a.counter = ap.counter /\ a.req = ap.req
      /\ a.TimeoutEvt = ap.TimeoutEvt /\ a.installed = ap.installed
      /\ a.out \subseteq {Deauth} /\ (a.assoc => ap.assoc)
      /\ mic.recent /\ a.known => ~a.assoc /\ Deauth \in a.out
      /\ ~Pending(a) /\ (a.started \/ ~a.GUpdateStationKeys)
  BY StruckFields
<1>4. r = Requested(a, m)
  OBVIOUS
<1> HIDE DEF a, r
<1>5. /\ Fits(r) /\ HoldsAt(r, gtk') /\ Aired(r) = air
      /\ Unheard(r, Aired(r)) \subseteq Unheard(ap, air) \ {m}
      /\ r.installed = ap.installed /\ r.seen = ap.seen
      /\ r.known = ap.known /\ (r.assoc => ap.assoc) /\ r.out = a.out
      /\ r.assoc = a.assoc
  BY <1>1, <1>2, <1>3, <1>4, RequestedHolds
<1>6. CountFits(Unheard(r, Aired(r)), gtk', mic'.count)
  <2> DEFINE U == Unheard(ap, air)
             V == Unheard(r, Aired(r))
  <2>1. m \in U
    <3>1. PtkFits(ap)
      BY InvParts, FitsParts
    <3>2. m.key[1] = ap.ANonce
      BY <3>1, <1>1 DEF PtkFits
    <3> QED BY <3>2, <1>1 DEF Unheard
  <2>2. /\ IsFiniteSet(U) /\ gtk + Cardinality(U) <= limit.gtks + mic.count
        /\ Cardinality(U) <= mic.count
    BY InvParts DEF CountFits
  <2>3. V \subseteq U \ {m}
    BY <1>5
  <2> HIDE DEF U, V
  <2>4. IsFiniteSet(U \ {m}) /\ Cardinality(U \ {m}) = Cardinality(U) - 1
    BY <2>1, <2>2, FS_RemoveElement
  <2>5. IsFiniteSet(V) /\ Cardinality(V) <= Cardinality(U) - 1
        /\ Cardinality(V) \in Nat
    BY <2>3, <2>4, FS_Subset, FS_CardinalityType
  <2>6. /\ gtk \in Nat /\ limit.gtks \in Nat /\ mic.count \in Nat
        /\ Cardinality(U) \in Nat
    BY <2>2, InvParts, CountTypes, FS_CardinalityType
  <2>7. gtk' + Cardinality(V) <= limit.gtks + mic'.count
        /\ Cardinality(V) <= mic'.count
    BY <2>2, <2>5, <2>6, <1>2
  <2> QED BY <2>5, <2>7 DEF CountFits, V
<1>7. mic'.on /\ Alive(r) /\ r.seen = assoc => ~(r.known /\ r.assoc)
  BY <1>2, <1>3, <1>5, InvParts DEF NoneServed, Alive
<1> QED BY <1>1, <1>2, <1>5, <1>6, <1>7, InvParts, ApStepHolds
-----------------------------------------------------------------------------
(* wpa_auth_sta_init                                                        *)
LEMMA NewSmType == NewSm \in ApType
<1>1. /\ <<>> \in Seq(FrameType) /\ NoKey \in KeyType
      /\ {"AuthenticationRequest"} \in SUBSET Asks
  BY DEF KeyType, Asks
<1> QED BY <1>1 DEF NewSm, ApType, PtkStates, GrpStates

(* ap_free_sta                                                              *)
LEMMA GoneFits ==
  ASSUME limit \in Limits, rsn \in BOOLEAN, NEW a \in ApType, NEW r, r = Gone(a)
  PROVE  /\ AtRest(r) /\ ~r.known /\ ~r.assoc /\ r.seen = a.seen
         /\ r.ANonce = 0 /\ r.counter = 0 /\ r.replay = <<>> /\ r.rx = {}
         /\ r.PTK = NoKey /\ r.installed = NoKey /\ ~Pending(r)
         /\ r.ptk = "INITIALIZE" /\ Awaited(r) = {} /\ r \in ApType
<1>1. a.seen \in Nat /\ <<>> \in Seq(FrameType) /\ NoKey \in KeyType
      /\ Len(<<>>) = 0 /\ limit.tries \in Nat \ {0}
  BY TriesPositive DEF ApType, KeyType
<1>2. /\ r.known = FALSE /\ r.started /\ r.assoc = FALSE
      /\ r.next = "NULLFUNC" /\ r.ask = {} /\ r.ptk = "INITIALIZE"
      /\ r.grp = "IDLE" /\ r.TimeoutCtr = 0 /\ r.GTimeoutCtr = 0
      /\ r.timers = 0 /\ ~r.TimeoutEvt /\ r.rx = {} /\ r.ANonce = 0
      /\ r.PTK = NoKey /\ r.installed = NoKey /\ r.counter = 0
      /\ r.replay = <<>> /\ r.req = 0 /\ ~r.GUpdateStationKeys
      /\ ~r.PInitAKeys /\ ~r.refused /\ r.out = {} /\ r.seen = a.seen
      /\ r.given = 0
  BY DEF Gone, NewSm
<1>3. r \in ApType
  <2>1. {} \in SUBSET Asks
    OBVIOUS
  <2> QED BY ZenonT(60), <1>1, <2>1, NewSmType DEF Gone, ApType
<1>4. ~Pending(r) /\ ~Waits(r) /\ ~Midway(r) /\ ~Early(r) /\ ~Begins(r)
  BY <1>2 DEF Pending, Waits, Midway, Early, Begins
<1>5. AskFits(r)
  BY <1>2, <1>4 DEF AskFits
<1>6. PtkFits(r) /\ RxFits(r) /\ EvtFits(r)
  BY <1>2, <1>4 DEF PtkFits, RxFits, EvtFits
<1>7. TriesFit(r)
  BY <1>1, <1>2 DEF TriesFit
<1>8. Work(r) = 0
  BY <1>2, <1>4 DEF Work, PtkWork, GroupWork
<1>9. Awaited(r) = {}
  BY <1>2 DEF Awaited
<1> QED BY <1>2, <1>3, <1>4, <1>5, <1>6, <1>7, <1>8, <1>9 DEF AtRest, Fits

LEMMA GoneHolds ==
  ASSUME HInv, ApOnly, UNCHANGED <<gtk, mic, air>>, ap' = Gone(ap),
         link' \in BOOLEAN, link' => link
  PROVE  HInv' /\ KeepsKey(ap'.installed)
<1>1. /\ AtRest(ap') /\ ~ap'.known /\ ~ap'.assoc /\ ap'.seen = ap.seen
      /\ ap'.ANonce = 0 /\ ap'.counter = 0 /\ ap'.replay = <<>>
      /\ ap'.rx = {} /\ ap'.PTK = NoKey /\ ap'.installed = NoKey
      /\ ~Pending(ap') /\ ap'.ptk = "INITIALIZE" /\ Awaited(ap') = {}
  BY InvParts, GoneFits
<1>2. \A m \in Downward(air) : From(m) > 0 /\ From(m) \in Nat
  BY InvParts, HoldsParts, KindFacts, FrameFacts DEF Caused
<1>3. NumbersFit(ap', air, gtk)
  <2>1. \A m \in Downward(air) : From(m) <= ap.seen
    BY InvParts, HoldsParts DEF NumbersFit
  <2>2. ap.seen \in Nat
    BY InvParts DEF ApType
  <2> QED BY <2>1, <2>2, <1>1, <1>2 DEF NumbersFit
<1>4. AnswersFit(ap', air) /\ KeyFits(ap', air)
  BY <1>1 DEF AnswersFit, KeyFits
<1>5. LinkFits(ap', sta, link', confirmed, assoc)
  BY <1>1, InvParts, HoldsParts DEF LinkFits, Serves
<1>6. Holds(ap', sta, air, link', confirmed, assoc, gtk)
  BY <1>1, <1>3, <1>4, <1>5, InvParts, ApHolds
<1>7. Unheard(ap', air) = {}
  <2>1. \A m \in Downward(air) : From(m) # ap'.ANonce
    BY <1>1, <1>2
  <2> QED BY <2>1, InvParts, HoldsParts, NoneUnheard
<1>8. CountFits(Unheard(ap', air), gtk, mic.count)
  BY <1>7, InvParts, CountTypes, CountSmaller
<1>9. World' /\ NoneServed'
  BY <1>1, InvParts DEF World, ApOnly, NoneServed, MicType
<1> QED BY <1>1, <1>6, <1>8, <1>9, NextInv DEF ApOnly, KeepsKey

LEMMA ApDisassociatedHolds ==
  ASSUME HInv, ApDisassociated
  PROVE  HInv' /\ ApOnly /\ KeepsKey(ap'.installed)
<1>1. /\ ApOnly /\ UNCHANGED <<gtk, mic, air>> /\ ap' = Gone(ap)
      /\ link' = link
  BY DEF ApDisassociated, ApOnly
<1> QED BY <1>1, InvParts, GoneHolds

LEMMA ApRemovesHolds ==
  ASSUME HInv, ApRemoves
  PROVE  HInv' /\ ApOnly /\ KeepsKey(ap'.installed)
<1>1. /\ ApOnly /\ UNCHANGED <<gtk, mic, air>> /\ ap' = Gone(ap)
      /\ link' = (link /\ ap.next = "REMOVE")
  BY DEF ApRemoves, ApOnly
<1>2. link' \in BOOLEAN /\ (link' => link)
  BY <1>1
<1> QED BY <1>1, <1>2, GoneHolds

(* ap_handle_timer                                                          *)
LEMMA ApInactiveHolds ==
  ASSUME HInv, ApInactive
  PROVE  HInv' /\ ApOnly /\ KeepsKey(ap'.installed)
<1>1. /\ ApOnly /\ UNCHANGED <<gtk, mic, air>> /\ link' = FALSE
      /\ ap' = [ap EXCEPT !.assoc = FALSE, !.next = "DEAUTH"]
  BY DEF ApInactive, ApOnly
<1>2. /\ ap \in ApType /\ ap.rx = {} /\ ap.ask = {} /\ ~Pending(ap)
      /\ ap.out = {} /\ AskFits(ap) /\ ~ap.refused
  BY InvParts, RestFacts, FitsParts DEF AtRest
<1> DEFINE r == ap'
<1>3. r \in ApType
  BY <1>1, <1>2 DEF ApType
<1>4. /\ r.ptk = ap.ptk /\ r.grp = ap.grp /\ r.TimeoutCtr = ap.TimeoutCtr
      /\ r.GTimeoutCtr = ap.GTimeoutCtr /\ r.ANonce = ap.ANonce
      /\ r.replay = ap.replay /\ r.PInitAKeys = ap.PInitAKeys
      /\ r.GUpdateStationKeys = ap.GUpdateStationKeys /\ r.PTK = ap.PTK
      /\ r.ask = {} /\ r.rx = {} /\ r.seen = ap.seen
      /\ r.started = ap.started /\ r.known = ap.known /\ r.given = ap.given
      /\ ~r.assoc /\ r.counter = ap.counter /\ r.req = ap.req
      /\ r.TimeoutEvt = ap.TimeoutEvt /\ ~r.refused
      /\ r.installed = ap.installed /\ r.out = {}
  BY <1>1, <1>2 DEF ApType
<1> HIDE DEF r
<1>5. ~Pending(r) /\ RxFits(r) /\ (r.started \/ ~r.GUpdateStationKeys)
  BY <1>2, <1>4 DEF Pending, RxFits, AskFits
<1>6. Fits(r) /\ (Midway(r) => Silent(r)) /\ (Waits(r) <=> Waits(ap))
  BY <1>3, <1>4, <1>5, InvParts, RestFits
<1>7. Quiet(r, ap)
  BY <1>3, <1>4, <1>5, <1>6, RestQuiet
<1>8. Holds(r, sta, air, FALSE, confirmed, assoc, gtk)
  <2>1. FALSE \in BOOLEAN /\ (FALSE => link) /\ gtk >= gtk
    BY InvParts
  <2> QED BY <2>1, <1>7, InvParts, QuietHolds
<1>9. Work(r) = 0
  <2>1. /\ Answered(r) <=> Answered(ap)
        /\ Acknowledged(r) <=> Acknowledged(ap)
        /\ Exhausted(r) <=> Exhausted(ap)
        /\ Begins(r) <=> Begins(ap)
    BY <1>2, <1>4 DEF Answered, Acknowledged, Exhausted, Begins
  <2>2. PtkWork(r) = PtkWork(ap)
    BY <2>1, <1>2, <1>4, <1>6 DEF PtkWork
  <2>3. GroupWork(r) = GroupWork(ap)
    BY <2>1, <1>2, <1>4, <1>6 DEF GroupWork
  <2> QED BY <2>2, <2>3, InvParts DEF Work
<1>10. AtRest(r)
  BY <1>4, <1>6, <1>9 DEF AtRest
<1>11. Unheard(r, air) = Unheard(ap, air)
  BY <1>4 DEF Unheard
<1>12. World' /\ NoneServed'
  BY <1>1, InvParts DEF World, ApOnly, NoneServed, MicType
<1>13. KeepsKey(r.installed)
  BY <1>4 DEF KeepsKey
<1> QED BY <1>1, <1>8, <1>10, <1>11, <1>12, <1>13, InvParts, NextInv
        DEF ApOnly, r

(* What concerns Michael MIC failures only, or the radio link.              *)
LEMMA MicHolds ==
  ASSUME HInv, UNCHANGED <<limit, rsn, assoc, gtk, ap, sta, air, confirmed>>,
         mic' \in MicType, mic'.count = mic.count, mic'.on => mic.on,
         link' \in BOOLEAN, link' => link
  PROVE  HInv'
<1>1. Holds(ap, sta, air, link', confirmed, assoc, gtk)
  <2>1. Quiet(ap, ap)
    BY DEF Quiet
  <2> QED BY <2>1, InvParts, QuietHolds
<1>2. World' /\ NoneServed'
  BY InvParts DEF World, NoneServed, MicType
<1> QED BY <1>1, <1>2, InvParts, NextInv

LEMMA MinutesHold ==
  ASSUME HInv, ApMinute \/ ApCalm \/ StaMinute \/ StaCalm
  PROVE  HInv'
<1>1. mic \in MicType
  BY InvParts
<1>2. CASE ApMinute
  <2>1. mic' \in MicType /\ mic'.count = mic.count /\ mic'.on = mic.on
    BY <1>1, <1>2 DEF ApMinute, MicType
  <2> QED BY <2>1, <1>2, InvParts, MicHolds DEF ApMinute
<1>3. CASE ApCalm
  <2>1. mic' \in MicType /\ mic'.count = mic.count /\ ~mic'.on
    BY <1>1, <1>3 DEF ApCalm, MicType
  <2> QED BY <2>1, <1>3, InvParts, MicHolds DEF ApCalm
<1>4. CASE StaMinute
  <2>1. mic' \in MicType /\ mic'.count = mic.count /\ mic'.on = mic.on
    BY <1>1, <1>4 DEF StaMinute, MicType
  <2> QED BY <2>1, <1>4, InvParts, MicHolds DEF StaMinute
<1>5. CASE StaCalm
  <2>1. mic' \in MicType /\ mic'.count = mic.count /\ mic'.on = mic.on
    BY <1>1, <1>5 DEF StaCalm, MicType
  <2> QED BY <2>1, <1>5, InvParts, MicHolds DEF StaCalm
<1> QED BY <1>2, <1>3, <1>4, <1>5

LEMMA LinkLostHolds ==
  ASSUME HInv, LinkLost
  PROVE  HInv'
BY InvParts, MicHolds DEF LinkLost
-----------------------------------------------------------------------------
(* An answer m is taken, that wpa_replay_counter_valid has let through.     *)
LEMMA TakenFields ==
  ASSUME HInv, NEW m \in air, Outstanding(m), NEW r,
         r = Taken(m) \/ \E b \in BOOLEAN : r = [Taken(m) EXCEPT !.refused = b]
  PROVE  /\ r \in ApType
         /\ r.ptk = ap.ptk /\ r.grp = ap.grp /\ r.TimeoutCtr = ap.TimeoutCtr
         /\ r.GTimeoutCtr = ap.GTimeoutCtr /\ r.ANonce = ap.ANonce
         /\ r.replay = <<>> /\ r.PInitAKeys = ap.PInitAKeys
         /\ r.GUpdateStationKeys = ap.GUpdateStationKeys /\ r.PTK = ap.PTK
         /\ r.ask = {} /\ r.rx = {m} /\ r.seen = ap.seen
         /\ r.started = ap.started /\ r.known = ap.known
         /\ r.counter = ap.counter /\ r.req = ap.req
         /\ r.TimeoutEvt = ap.TimeoutEvt /\ r.installed = ap.installed
         /\ r.out = {} /\ r.assoc = ap.assoc /\ Awaited(r) = {}
         /\ \E n \in Awaited(ap) :
              /\ n.c = m.c
              /\ r.given = IF ap.PTK = NoKey THEN ap.given ELSE n.gtk
<1> DEFINE i == CHOOSE j \in DOMAIN ap.replay : ap.replay[j].c = m.c
           v == IF ap.PTK = NoKey THEN ap.given ELSE ap.replay[i].gtk
           w == IF ap.PTK = NoKey THEN ap.timers ELSE 0
           t == [ap EXCEPT !.rx = {m}, !.replay = <<>>, !.timers = w,
                           !.given = v]
<1>1. i \in DOMAIN ap.replay /\ ap.replay[i].c = m.c
  BY DEF Outstanding
<1>2. ap.replay[i] \in Awaited(ap)
  BY <1>1 DEF Awaited
<1>3. /\ ap \in ApType /\ ap.ask = {} /\ ap.out = {} /\ m \in FrameType
      /\ {m} \in SUBSET FrameType /\ <<>> \in Seq(FrameType)
  BY InvParts, RestFacts
<1>4. ap.replay[i].gtk \in Nat
  BY <1>2, <1>3, AwaitedFacts
<1>5. v \in Nat /\ w \in Nat
  <2>1. ap.given \in Nat /\ ap.timers \in Nat /\ 0 \in Nat
    BY <1>3 DEF ApType
  <2> QED BY <2>1, <1>4
<1>6. Taken(m) = t
  BY DEF Taken
<1>7. \E n \in Awaited(ap) :
        n.c = m.c /\ v = IF ap.PTK = NoKey THEN ap.given ELSE n.gtk
  BY <1>1, <1>2
<1> HIDE DEF v, w, i
<1>8. t \in ApType
  BY <1>3, <1>5 DEF ApType
<1>9. r = t \/ \E b \in BOOLEAN : r = [t EXCEPT !.refused = b]
  BY <1>6
<1>10. /\ t.ptk = ap.ptk /\ t.grp = ap.grp /\ t.TimeoutCtr = ap.TimeoutCtr
       /\ t.GTimeoutCtr = ap.GTimeoutCtr /\ t.ANonce = ap.ANonce
       /\ t.replay = <<>> /\ t.PInitAKeys = ap.PInitAKeys
       /\ t.GUpdateStationKeys = ap.GUpdateStationKeys /\ t.PTK = ap.PTK
       /\ t.ask = {} /\ t.rx = {m} /\ t.seen = ap.seen
       /\ t.started = ap.started /\ t.known = ap.known
       /\ t.counter = ap.counter /\ t.req = ap.req
       /\ t.TimeoutEvt = ap.TimeoutEvt /\ t.installed = ap.installed
       /\ t.out = {} /\ t.assoc = ap.assoc /\ t.given = v
  BY <1>3 DEF ApType
<1> HIDE DEF t
<1>11. /\ r \in ApType
       /\ r.ptk = t.ptk /\ r.grp = t.grp /\ r.TimeoutCtr = t.TimeoutCtr
       /\ r.GTimeoutCtr = t.GTimeoutCtr /\ r.ANonce = t.ANonce
       /\ r.replay = t.replay /\ r.PInitAKeys = t.PInitAKeys
       /\ r.GUpdateStationKeys = t.GUpdateStationKeys /\ r.PTK = t.PTK
       /\ r.ask = t.ask /\ r.rx = t.rx /\ r.seen = t.seen
       /\ r.started = t.started /\ r.known = t.known
       /\ r.counter = t.counter /\ r.req = t.req
       /\ r.TimeoutEvt = t.TimeoutEvt /\ r.installed = t.installed
       /\ r.out = t.out /\ r.assoc = t.assoc /\ r.given = t.given
  <2>1. CASE r = t
    BY <2>1, <1>8
  <2>2. ASSUME NEW b \in BOOLEAN, r = [t EXCEPT !.refused = b]
        PROVE  /\ r \in ApType
               /\ r.ptk = t.ptk /\ r.grp = t.grp /\ r.TimeoutCtr = t.TimeoutCtr
               /\ r.GTimeoutCtr = t.GTimeoutCtr /\ r.ANonce = t.ANonce
               /\ r.replay = t.replay /\ r.PInitAKeys = t.PInitAKeys
               /\ r.GUpdateStationKeys = t.GUpdateStationKeys /\ r.PTK = t.PTK
               /\ r.ask = t.ask /\ r.rx = t.rx /\ r.seen = t.seen
               /\ r.started = t.started /\ r.known = t.known
               /\ r.counter = t.counter /\ r.req = t.req
               /\ r.TimeoutEvt = t.TimeoutEvt /\ r.installed = t.installed
               /\ r.out = t.out /\ r.assoc = t.assoc /\ r.given = t.given
    BY <2>2, <1>8 DEF ApType
  <2> QED BY <2>1, <2>2, <1>9
<1>12. Awaited(r) = {}
  BY <1>10, <1>11 DEF Awaited
<1> QED BY <1>7, <1>10, <1>11, <1>12

(* The group key of the frame answered: the station has it, or a later one. *)
LEMMA GivenFits ==
  ASSUME HInv, Heard, NEW m \in air, m.kind \in {"4/4", "2/2"},
         ap.PTK # NoKey, m.key = ap.PTK, link, ap.seen = assoc,
         NEW n \in Awaited(ap), n.c = m.c
  PROVE  On(sta) /\ sta.gtk >= n.gtk
<1>1. ap.ANonce = assoc /\ ap.PTK[1] = ap.ANonce /\ ~Pending(ap)
  <2>1. PtkFits(ap) /\ ~Pending(ap)
    BY InvParts, RestFacts, FitsParts
  <2>2. Serves(ap, link, assoc)
    BY DEF Heard, Serves
  <2> QED BY <2>1, <2>2, InvParts, HoldsParts DEF PtkFits, LinkFits
<1>2. PICK x \in Keyed(air) : x.c = m.c /\ x.key = m.key
  BY InvParts, HoldsParts, Answers
<1>3. x = n
  <2>1. x \in Downward(air) /\ From(x) = ap.ANonce /\ x.c = n.c
    BY <1>1, <1>2, KindFacts
  <2> QED BY <2>1, <1>1, InvParts, HoldsParts DEF NumbersFit
<1>4. On(sta) /\ x.gtk <= sta.gtk
  <2>1. OffFits(sta, air, link, confirmed, assoc)
    BY InvParts, HoldsParts
  <2>2. m.key[1] = assoc
    BY <1>1
  <2> QED BY <2>1, <2>2, <1>2 DEF OffFits
<1>5. n.gtk \in Nat /\ sta.gtk \in Nat
  BY InvParts, AwaitedFacts DEF StaType
<1> QED BY <1>3, <1>4, <1>5

LEMMA TakenHolds ==
  ASSUME HInv, Heard, NEW m \in air, m.kind \in {"2/4", "4/4", "2/2"},
         Outstanding(m),
         ap.PTK # NoKey => m.kind \in {"4/4", "2/2"} /\ m.key = ap.PTK, NEW r,
         r = Taken(m) \/ \E b \in BOOLEAN : r = [Taken(m) EXCEPT !.refused = b],
         RxFits(r)
  PROVE  /\ Fits(r) /\ HoldsAt(r, gtk) /\ Aired(r) = air
         /\ Unheard(r, Aired(r)) = Unheard(ap, air)
         /\ r.installed = ap.installed /\ r.seen = ap.seen
         /\ r.known = ap.known /\ r.assoc = ap.assoc /\ r.out = {}
<1>1. /\ r \in ApType
      /\ r.ptk = ap.ptk /\ r.grp = ap.grp /\ r.TimeoutCtr = ap.TimeoutCtr
      /\ r.GTimeoutCtr = ap.GTimeoutCtr /\ r.ANonce = ap.ANonce
      /\ r.replay = <<>> /\ r.PInitAKeys = ap.PInitAKeys
      /\ r.GUpdateStationKeys = ap.GUpdateStationKeys /\ r.PTK = ap.PTK
      /\ r.ask = {} /\ r.rx = {m} /\ r.seen = ap.seen
      /\ r.started = ap.started /\ r.known = ap.known
      /\ r.counter = ap.counter /\ r.req = ap.req
      /\ r.TimeoutEvt = ap.TimeoutEvt /\ r.installed = ap.installed
      /\ r.out = {} /\ r.assoc = ap.assoc /\ Awaited(r) = {}
      /\ \E n \in Awaited(ap) :
           /\ n.c = m.c
           /\ r.given = IF ap.PTK = NoKey THEN ap.given ELSE n.gtk
  BY TakenFields
<1>2. /\ ap.ask = {} /\ ~Pending(ap) /\ AskFits(ap)
  BY InvParts, RestFacts, FitsParts
<1>3. ~Pending(r) /\ (r.started \/ ~r.GUpdateStationKeys)
  BY <1>1, <1>2 DEF Pending, AskFits
<1>4. Fits(r) /\ (Waits(r) <=> Waits(ap))
  BY <1>1, <1>3, InvParts, RestFits
<1>5. /\ Midway(r) <=> Midway(ap)
      /\ Quiescent(r) <=> Quiescent(ap)
  <2>1. Silent(r) <=> Silent(ap)
    BY <1>1, <1>2, <1>4 DEF Silent, Begins
  <2> QED BY <2>1, <1>1 DEF Midway, Quiescent
<1>6. NumbersFit(r, air, gtk)
  BY <1>1, <1>2, <1>3, InvParts, HoldsParts DEF NumbersFit
<1>7. AnswersFit(r, air)
  <2>1. PICK n \in Awaited(ap) : n.c = m.c
    BY <1>1
  <2>2. m.kind = "2/4" /\ m.key[1] = ap.ANonce => Newest(m, air)
    BY <2>1, <1>2, InvParts, HoldsParts DEF AnswersFit
  <2> QED BY <2>2, <1>1 DEF AnswersFit
<1>8. KeyFits(r, air)
  <2>1. KeyFits(ap, air)
    BY InvParts, HoldsParts
  <2> QED BY <2>1, <1>1, <1>5 DEF KeyFits
<1>9. LinkFits(r, sta, link, confirmed, assoc)
  <2>1. LinkFits(ap, sta, link, confirmed, assoc)
    BY InvParts, HoldsParts
  <2>2. r.known /\ r.seen = assoc /\ link /\ r.given # 0 =>
          On(sta) /\ sta.gtk >= r.given
    <3>1. PICK n \in Awaited(ap) :
            /\ n.c = m.c
            /\ r.given = IF ap.PTK = NoKey THEN ap.given ELSE n.gtk
      BY <1>1
    <3>2. CASE ap.PTK = NoKey
      BY <2>1, <3>1, <3>2, <1>1 DEF LinkFits
    <3>3. CASE ap.PTK # NoKey
      BY <3>1, <3>3, <1>1, GivenFits
    <3> QED BY <3>2, <3>3
  <2> QED BY <2>1, <2>2, <1>1, <1>2, <1>3 DEF LinkFits, Serves
<1>10. Holds(r, sta, air, link, confirmed, assoc, gtk)
  BY <1>1, <1>6, <1>7, <1>8, <1>9, InvParts, ApHolds
<1>11. Aired(r) = air /\ Alive(r) = link
  BY <1>1, InvParts DEF Aired, Alive
<1>12. Unheard(r, air) = Unheard(ap, air)
  BY <1>1 DEF Unheard
<1> QED BY <1>1, <1>4, <1>10, <1>11, <1>12 DEF HoldsAt

LEMMA AnswerHolds ==
  ASSUME HInv, ApOnly, UNCHANGED <<gtk, mic>>,
         Heard, NEW m \in air, m.kind \in {"2/4", "4/4", "2/2"},
         Outstanding(m),
         ap.PTK # NoKey => m.kind \in {"4/4", "2/2"} /\ m.key = ap.PTK, NEW r,
         r = Taken(m) \/ \E b \in BOOLEAN : r = [Taken(m) EXCEPT !.refused = b],
         RxFits(r), Handled(r, gtk)
  PROVE  HInv' /\ KeepsKey(ap'.installed)
<1>1. /\ Fits(r) /\ HoldsAt(r, gtk) /\ Aired(r) = air
      /\ Unheard(r, Aired(r)) = Unheard(ap, air)
      /\ r.installed = ap.installed /\ r.seen = ap.seen
      /\ r.known = ap.known /\ r.assoc = ap.assoc /\ r.out = {}
  BY TakenHolds
<1>2. mic'.on /\ Alive(r) /\ r.seen = assoc => ~(r.known /\ r.assoc)
  BY <1>1, InvParts DEF NoneServed, Alive
<1> QED BY <1>1, <1>2, InvParts, ApStepHolds
-----------------------------------------------------------------------------
(* wpa_receive: an answer, which the next step of a machine consumes.       *)
LEMMA Receive2of4Holds ==
  ASSUME HInv, NEW m \in air, Receive2of4(m)
  PROVE  HInv' /\ ApOnly /\ KeepsKey(ap'.installed)
<1> DEFINE r == Taken(m)
<1>1. /\ ApOnly /\ UNCHANGED <<gtk, mic>> /\ Handled(r, gtk)
      /\ m.kind = "2/4" /\ Heard /\ Outstanding(m)
      /\ ap.ptk \in {"PTKSTART", "PTKCALCNEGOTIATING"} /\ ap.PTK = NoKey
  BY DEF Receive2of4, ApOnly
<1>2. r = Taken(m)
  OBVIOUS
<1> HIDE DEF r
<1>3. /\ r.ptk = ap.ptk /\ r.grp = ap.grp /\ r.GTimeoutCtr = ap.GTimeoutCtr
      /\ r.replay = <<>> /\ r.PInitAKeys = ap.PInitAKeys
      /\ r.GUpdateStationKeys = ap.GUpdateStationKeys /\ r.PTK = ap.PTK
      /\ r.ask = {} /\ r.rx = {m} /\ r.TimeoutEvt = ap.TimeoutEvt
  BY <1>1, <1>2, TakenFields
<1>4. /\ Silent(ap) /\ ap.ask = {}
      /\ ~(ap.TimeoutEvt /\ (Waits(ap) \/ ap.grp = "REKEYNEGOTIATING"))
  BY InvParts, RestFacts
<1>5. /\ Waits(r) <=> Waits(ap)
      /\ Begins(r) <=> Begins(ap)
  BY <1>3 DEF Waits, Begins
<1>6. Silent(r)
  BY <1>3, <1>4, <1>5 DEF Silent
<1>7. RxFits(r)
  BY <1>1, <1>3, <1>4, <1>5, <1>6 DEF RxFits
<1> QED BY <1>1, <1>2, <1>7, AnswerHolds

LEMMA Receive4of4Holds ==
  ASSUME HInv, NEW m \in air, Receive4of4(m)
  PROVE  HInv' /\ ApOnly /\ KeepsKey(ap'.installed)
<1>1. /\ ApOnly /\ UNCHANGED <<gtk, mic>>
      /\ m.kind = "4/4" /\ Heard /\ Outstanding(m)
      /\ ap.ptk = "PTKINITNEGOTIATING" /\ ap.PTK # NoKey /\ m.key = ap.PTK
  BY DEF Receive4of4, ApOnly
<1>2. PICK b \in {FALSE, SetKeyFails} :
        Handled([Taken(m) EXCEPT !.refused = b], gtk)
  BY DEF Receive4of4
<1>3. b \in BOOLEAN
  BY HandshakeAssumption
<1> DEFINE r == [Taken(m) EXCEPT !.refused = b]
<1>4. /\ r = Taken(m) \/ \E a \in BOOLEAN : r = [Taken(m) EXCEPT !.refused = a]
      /\ Handled(r, gtk)
  BY <1>2, <1>3
<1> HIDE DEF r
<1>5. /\ r.ptk = ap.ptk /\ r.PTK = ap.PTK /\ r.rx = {m}
      /\ r.TimeoutEvt = ap.TimeoutEvt
  BY <1>1, <1>4, TakenFields
<1>6. ~(ap.TimeoutEvt /\ Waits(ap))
  BY InvParts, RestFacts
<1>7. RxFits(r)
  BY <1>1, <1>5, <1>6 DEF RxFits, Waits
<1> QED BY <1>1, <1>4, <1>7, AnswerHolds

(* Only after the 4/4 is there a group handshake.                           *)
LEMMA Receive2of2Holds ==
  ASSUME HInv, NEW m \in air, Receive2of2(m)
  PROVE  HInv' /\ ApOnly /\ KeepsKey(ap'.installed)
<1> DEFINE r == Taken(m)
<1>1. /\ ApOnly /\ UNCHANGED <<gtk, mic>> /\ Handled(r, gtk)
      /\ m.kind = "2/2" /\ Heard /\ Outstanding(m)
      /\ ap.grp = "REKEYNEGOTIATING" /\ ap.PTK # NoKey /\ m.key = ap.PTK
  BY DEF Receive2of2, ApOnly
<1>2. r = Taken(m)
  OBVIOUS
<1> HIDE DEF r
<1>3. /\ r.ptk = ap.ptk /\ r.grp = ap.grp /\ r.GTimeoutCtr = ap.GTimeoutCtr
      /\ r.PTK = ap.PTK /\ r.rx = {m} /\ r.TimeoutEvt = ap.TimeoutEvt
  BY <1>1, <1>2, TakenFields
<1>4. /\ ~(ap.TimeoutEvt /\ Waits(ap)) /\ ap.GTimeoutCtr <= limit.tries
      /\ ap.ptk \in {"INITIALIZE", "PTKSTART", "PTKCALCNEGOTIATING",
                     "PTKINITNEGOTIATING", "PTKINITDONE"}
      /\ PtkFits(ap)
  BY InvParts, RestFacts, FitsParts
<1>5. ~Midway(ap)
  <2>1. PICK x \in Keyed(air) : x.key = m.key /\ x.kind = "1/2"
    BY <1>1, InvParts, HoldsParts, Answers
  <2>2. x \in air
    BY KindFacts
  <2>3. KeyFits(ap, air)
    BY InvParts, HoldsParts
  <2> QED BY <1>1, <2>1, <2>2, <2>3 DEF KeyFits
<1>6. ap.ptk = "PTKINITDONE"
  BY <1>1, <1>4, <1>5 DEF PtkFits
<1>7. RxFits(r)
  BY <1>1, <1>3, <1>4, <1>6 DEF RxFits, Waits
<1> QED BY <1>1, <1>2, <1>7, AnswerHolds
-----------------------------------------------------------------------------
(* hostapd_notif_assoc: a is the record that there is, or a new one.        *)
NewBase == [NewSm EXCEPT !.started = FALSE, !.ask = {}]

LEMMA NewBaseFits ==
  ASSUME limit \in Limits, rsn \in BOOLEAN, NEW r, r = NewBase
  PROVE  /\ Fits(r) /\ Work(r) = 0 /\ r.known /\ ~r.started
         /\ r.ANonce = 0 /\ r.counter = 0 /\ r.replay = <<>> /\ r.rx = {}
         /\ r.ask = {} /\ Awaited(r) = {} /\ r.out = {} /\ r \in ApType
<1>1. <<>> \in Seq(FrameType) /\ NoKey \in KeyType
      /\ Len(<<>>) = 0 /\ limit.tries \in Nat \ {0}
  BY TriesPositive DEF KeyType
<1>2. /\ r.known = TRUE /\ ~r.started /\ r.assoc = TRUE
      /\ r.next = "NULLFUNC" /\ r.ask = {} /\ r.ptk = "INITIALIZE"
      /\ r.grp = "IDLE" /\ r.TimeoutCtr = 0 /\ r.GTimeoutCtr = 0
      /\ r.timers = 0 /\ ~r.TimeoutEvt /\ r.rx = {} /\ r.ANonce = 0
      /\ r.PTK = NoKey /\ r.installed = NoKey /\ r.counter = 0
      /\ r.replay = <<>> /\ r.req = 0 /\ ~r.GUpdateStationKeys
      /\ ~r.PInitAKeys /\ ~r.refused /\ r.out = {} /\ r.seen = 0
      /\ r.given = 0
  BY DEF NewBase, NewSm
<1>3. r \in ApType
  <2>1. {} \in SUBSET Asks
    OBVIOUS
  <2> QED BY <1>1, <2>1, NewSmType DEF NewBase, ApType
<1>4. ~Pending(r) /\ ~Waits(r) /\ ~Midway(r) /\ ~Early(r) /\ ~Begins(r)
  BY <1>2 DEF Pending, Waits, Midway, Early, Begins
<1>5. AskFits(r)
  BY <1>2, <1>4 DEF AskFits
<1>6. PtkFits(r) /\ RxFits(r) /\ EvtFits(r)
  BY <1>2, <1>4 DEF PtkFits, RxFits, EvtFits
<1>7. TriesFit(r)
  BY <1>1, <1>2 DEF TriesFit
<1>8. Work(r) = 0
  BY <1>2, <1>4 DEF Work, PtkWork, GroupWork
<1>9. Awaited(r) = {}
  BY <1>2 DEF Awaited
<1> QED BY <1>2, <1>3, <1>5, <1>6, <1>7, <1>8, <1>9 DEF Fits

(* What it becomes, during countermeasures (the first disjunct) or not.     *)
SameBase(q, a) ==
  /\ q.ptk = a.ptk /\ q.grp = a.grp /\ q.TimeoutCtr = a.TimeoutCtr
  /\ q.GTimeoutCtr = a.GTimeoutCtr /\ q.ANonce = a.ANonce
  /\ q.PInitAKeys = a.PInitAKeys /\ q.known = a.known /\ q.req = a.req
  /\ q.TimeoutEvt = a.TimeoutEvt
NewAssociation(q) ==
  /\ q.PTK = NoKey /\ q.rx = {} /\ q.installed = NoKey /\ q.seen = assoc
  /\ q.given = 0

Renewed(a) == [a EXCEPT !.PTK = NoKey, !.installed = NoKey, !.assoc = TRUE,
                        !.seen = assoc, !.given = 0]

LEMMA NewAssocFields ==
  ASSUME NEW a \in ApType, a.ask = {}, a.rx = {}, a.out = {}, assoc \in Nat,
         NEW h \in BOOLEAN, NEW q, q = NewAssocSta(Renewed(a), h)
  PROVE  /\ q \in ApType /\ SameBase(q, a) /\ NewAssociation(q)
         /\ q.GUpdateStationKeys => a.GUpdateStationKeys
         /\ \/ /\ mic.on /\ q.out = {Deauth} /\ q.ask = {}
               /\ q.started = a.started
               /\ q.replay = a.replay /\ q.counter = a.counter
            \/ /\ ~mic.on /\ q.out = {} /\ q.started
               /\ q.ask \in {{"AuthenticationRequest"},
                             {"ReAuthenticationRequest"},
                             {"ReAuthenticationRequest", "PtkGroupInit"}}
               /\ q.replay = <<>> \/ (q.replay = a.replay
                                        /\ q.counter = a.counter)
<1> DEFINE b == Renewed(a)
<1>1. NoKey \in KeyType /\ 0 \in Nat /\ <<>> \in Seq(FrameType)
      /\ {Deauth} \in SUBSET FrameType
  BY DeauthType DEF KeyType
<1>2. b \in ApType
  BY <1>1 DEF ApType, Renewed
<1>3. /\ SameBase(b, a) /\ NewAssociation(b)
      /\ b.GUpdateStationKeys = a.GUpdateStationKeys
      /\ b.started = a.started /\ b.ask = {} /\ b.out = {}
      /\ b.replay = a.replay /\ b.counter = a.counter
  BY <1>1 DEF ApType, SameBase, NewAssociation, Renewed
<1>4. q = NewAssocSta(b, h)
  OBVIOUS
<1> HIDE DEF b
<1>5. ASSUME NEW t, SameBase(t, b), t.PTK = b.PTK, t.rx = b.rx,
             t.installed = b.installed, t.seen = b.seen, t.given = b.given
      PROVE  SameBase(t, a) /\ NewAssociation(t)
  BY <1>3, <1>5 DEF SameBase, NewAssociation
<1>6. CASE mic.on
  <2>1. q = [b EXCEPT !.out = {Deauth}]
    BY <1>4, <1>6 DEF NewAssocSta
  <2>2. q \in ApType
    BY ZenonT(60), <2>1, <1>1, <1>2 DEF ApType
  <2>3. /\ SameBase(q, b) /\ q.PTK = b.PTK /\ q.rx = b.rx
        /\ q.installed = b.installed /\ q.seen = b.seen /\ q.given = b.given
        /\ q.GUpdateStationKeys = b.GUpdateStationKeys
        /\ q.out = {Deauth} /\ q.ask = b.ask /\ q.started = b.started
        /\ q.replay = b.replay /\ q.counter = b.counter
    BY <2>1, <1>2 DEF ApType, SameBase
  <2> QED BY <2>2, <2>3, <1>3, <1>5, <1>6
<1>7. CASE ~mic.on
  <2>1. q = Authenticate(b, h)
    BY <1>4, <1>7 DEF NewAssocSta
  <2>2. CASE ~b.started
    <3> DEFINE k == b.ask \cup {"AuthenticationRequest"}
    <3>1. q = [b EXCEPT !.started = TRUE, !.ask = k]
      BY <2>1, <2>2 DEF Authenticate
    <3>2. k = {"AuthenticationRequest"} /\ k \in SUBSET Asks
      BY <1>3 DEF Asks
    <3> HIDE DEF k
    <3>3. q \in ApType
      BY ZenonT(60), <3>1, <3>2, <1>2 DEF ApType
    <3>4. /\ SameBase(q, b) /\ q.PTK = b.PTK /\ q.rx = b.rx
          /\ q.installed = b.installed /\ q.seen = b.seen
          /\ q.given = b.given /\ q.out = b.out /\ q.ask = k /\ q.started
          /\ q.GUpdateStationKeys = b.GUpdateStationKeys
          /\ q.replay = b.replay /\ q.counter = b.counter
      BY <3>1, <1>2 DEF ApType, SameBase
    <3> QED BY <3>2, <3>3, <3>4, <1>3, <1>5, <1>7
  <2>3. CASE b.started /\ h
    <3> DEFINE p == IF b.GUpdateStationKeys THEN {"PtkGroupInit"} ELSE {}
               k == b.ask \cup {"ReAuthenticationRequest"} \cup p
    <3>1. q = [b EXCEPT !.ask = k, !.GUpdateStationKeys = FALSE]
      BY <2>1, <2>3 DEF Authenticate, Reauth
    <3>2. /\ k \in {{"ReAuthenticationRequest"},
                    {"ReAuthenticationRequest", "PtkGroupInit"}}
          /\ k \in SUBSET Asks
      BY <1>3 DEF Asks
    <3> HIDE DEF k
    <3>3. q \in ApType
      BY ZenonT(60), <3>1, <3>2, <1>2 DEF ApType
    <3>4. /\ SameBase(q, b) /\ q.PTK = b.PTK /\ q.rx = b.rx
          /\ q.installed = b.installed /\ q.seen = b.seen
          /\ q.given = b.given /\ q.out = b.out /\ q.ask = k
          /\ q.started = b.started /\ ~q.GUpdateStationKeys
          /\ q.replay = b.replay /\ q.counter = b.counter
      BY <3>1, <1>2 DEF ApType, SameBase
    <3> QED BY <3>2, <3>3, <3>4, <2>3, <1>3, <1>5, <1>7
  <2>4. CASE b.started /\ ~h
    <3> DEFINE k == b.ask \cup {"ReAuthenticationRequest"}
    <3>1. q = [b EXCEPT !.counter = 0, !.replay = <<>>, !.ask = k]
      BY <2>1, <2>4 DEF Authenticate
    <3>2. k = {"ReAuthenticationRequest"} /\ k \in SUBSET Asks
      BY <1>3 DEF Asks
    <3> HIDE DEF k
    <3>3. q \in ApType
      BY ZenonT(60), <3>1, <3>2, <1>1, <1>2 DEF ApType
    <3>4. /\ SameBase(q, b) /\ q.PTK = b.PTK /\ q.rx = b.rx
          /\ q.installed = b.installed /\ q.seen = b.seen
          /\ q.given = b.given /\ q.out = b.out /\ q.ask = k
          /\ q.started = b.started /\ q.replay = <<>>
          /\ q.GUpdateStationKeys = b.GUpdateStationKeys
      BY <3>1, <1>2 DEF ApType, SameBase
    <3> QED BY <3>2, <3>3, <3>4, <2>4, <1>3, <1>5, <1>7
  <2> QED BY <2>2, <2>3, <2>4
<1> QED BY <1>6, <1>7
-----------------------------------------------------------------------------
(* The record for a new association fits, and no frame is of it yet.        *)
LEMMA AssociationHolds ==
  ASSUME HInv, ap.seen < assoc, NEW a, a = ap \/ a = NewBase, NEW q \in ApType,
         SameBase(q, a), NewAssociation(q),
         q.GUpdateStationKeys => a.GUpdateStationKeys,
         \/ /\ mic.on /\ q.out = {Deauth} /\ q.ask = {}
            /\ q.started = a.started
            /\ q.replay = a.replay /\ q.counter = a.counter
         \/ /\ ~mic.on /\ q.out = {} /\ q.started
            /\ q.ask \in {{"AuthenticationRequest"},
                          {"ReAuthenticationRequest"},
                          {"ReAuthenticationRequest", "PtkGroupInit"}}
            /\ q.replay = <<>> \/ (q.replay = a.replay
                                     /\ q.counter = a.counter)
  PROVE  /\ Fits(q) /\ HoldsAt(q, gtk)
         /\ Unheard(q, Aired(q)) \subseteq Unheard(ap, air)
         /\ mic.on => ~Alive(q)
<1>1. /\ Fits(a) /\ Work(a) = 0 /\ a \in ApType /\ a.ask = {}
      /\ ~Pending(a) /\ Silent(a) /\ AskFits(a)
      /\ a.ptk \notin {"AUTHENTICATION", "AUTHENTICATION2", "INITPSK"}
  <2>1. Fits(a) /\ Work(a) = 0
    BY InvParts, NewBaseFits
  <2> QED BY <2>1, InvParts, RestFacts, FitsParts DEF Early
<1>2. /\ a = ap \/ a.ANonce = 0
      /\ a = ap \/ Awaited(a) = {}
  BY InvParts, NewBaseFits
<1>3. /\ assoc \in Nat /\ ap.seen \in Nat /\ assoc > 0 /\ ~(assoc <= ap.seen)
      /\ 0 \in Nat
  <2>1. assoc \in Nat /\ ap.seen \in Nat
    BY InvParts DEF ApType
  <2> QED BY <2>1
<1>4. /\ q.ptk = a.ptk /\ q.grp = a.grp /\ q.TimeoutCtr = a.TimeoutCtr
      /\ q.GTimeoutCtr = a.GTimeoutCtr /\ q.ANonce = a.ANonce
      /\ q.PInitAKeys = a.PInitAKeys /\ q.known = a.known /\ q.req = a.req
      /\ q.TimeoutEvt = a.TimeoutEvt
      /\ q.PTK = NoKey /\ q.rx = {} /\ q.installed = NoKey
      /\ q.seen = assoc /\ q.given = 0
      /\ q.out \subseteq {Deauth} /\ q.replay \in {a.replay, <<>>}
      /\ q.ask = {} => /\ q.out = {Deauth} /\ q.replay = a.replay
                       /\ q.counter = a.counter
  BY DEF SameBase, NewAssociation
<1>5. q.ask # {} => Pending(q)
  BY DEF Pending
<1>6. q.ask = {} => ~Pending(q)
  BY <1>1, <1>4 DEF Pending
<1>7. Fits(q)
  <2>1. RxFits(q)
    BY <1>4 DEF RxFits
  <2>2. /\ "PTKRequest" \notin q.ask
        /\ q.ask \in {{}, {"AuthenticationRequest"},
                      {"ReAuthenticationRequest"},
                      {"ReAuthenticationRequest", "PtkGroupInit"},
                      {"PTKRequest"}}
    OBVIOUS
  <2>3. q.started \/ (~a.started /\ q.ask = {} /\ ~q.GUpdateStationKeys)
    BY <1>1 DEF AskFits
  <2> QED BY <2>1, <2>2, <2>3, <1>1, <1>3, <1>4, InvParts, RestFits
<1>8. Aired(q) = air /\ Alive(q) \in BOOLEAN /\ (Alive(q) => link)
      /\ (q.ask = {} => ~Alive(q))
  BY <1>4, InvParts DEF Aired, Alive
<1>9. \A m \in Downward(air) :
        /\ From(m) > 0 /\ From(m) \in Nat /\ From(m) <= ap.seen
        /\ a = ap /\ q.ANonce > 0 => From(m) <= q.ANonce
  BY <1>4, InvParts, HoldsParts, KindFacts, FrameFacts DEF Caused, NumbersFit
<1>10. /\ Awaited(q) \in {{}, Awaited(a)}
       /\ Awaited(q) # {} => a = ap /\ q.replay = a.replay
       /\ q.ask = {} => Awaited(q) = Awaited(a)
  <2>1. q.replay = <<>> => Awaited(q) = {}
    BY DEF Awaited
  <2>2. q.replay = a.replay => Awaited(q) = Awaited(a)
    BY DEF Awaited
  <2> QED BY <2>1, <2>2, <1>2, <1>4
<1>11. Awaited(q) # {} => q.counter = ap.counter
  <2>1. q.replay = <<>> => Awaited(q) = {}
    BY DEF Awaited
  <2> QED BY <2>1, <1>4, <1>10
<1>12. NumbersFit(q, air, gtk)
  <2>1. q.ANonce <= q.seen
    <3>1. ap.ANonce <= ap.seen /\ ap.ANonce \in Nat
      BY InvParts, HoldsParts DEF NumbersFit, ApType
    <3> QED BY <3>1, <1>2, <1>3, <1>4
  <2>2. ASSUME NEW m \in Downward(air)
        PROVE  /\ From(m) <= q.seen /\ From(m) < q.seen
               /\ q.ANonce > 0 => From(m) <= q.ANonce
               /\ q.ptk \notin {"AUTHENTICATION2", "INITPSK"}
               /\ ~Pending(q) /\ From(m) = q.ANonce => m.c <= q.counter
    <3>1. From(m) <= q.seen /\ From(m) < q.seen
      BY <1>3, <1>4, <1>9
    <3>2. q.ANonce > 0 => From(m) <= q.ANonce
      BY <1>2, <1>4, <1>9
    <3>3. ASSUME ~Pending(q), From(m) = q.ANonce
          PROVE  m.c <= q.counter
      <4>1. q.counter = ap.counter /\ a = ap
        BY <3>3, <1>2, <1>4, <1>5, <1>9
      <4>2. NumbersFit(ap, air, gtk) /\ ~Pending(ap)
        BY <4>1, <1>1, InvParts, HoldsParts
      <4> QED BY <4>1, <4>2, <3>3, <1>4 DEF NumbersFit
    <3> QED BY <3>1, <3>2, <3>3, <1>1, <1>4
  <2>3. \A x \in Awaited(q) : x.c <= q.counter /\ x.gtk <= gtk
    BY <1>10, <1>11, InvParts, HoldsParts DEF NumbersFit
  <2>4. ASSUME ~Pending(q), NEW x \in Awaited(q), NEW m \in Downward(air),
               From(m) = q.ANonce, m.c = x.c
        PROVE  m = x
    BY <2>4, <1>1, <1>4, <1>10, InvParts, HoldsParts DEF NumbersFit
  <2> QED BY <2>1, <2>2, <2>3, <2>4 DEF NumbersFit
<1>13. AnswersFit(q, air)
  <2>1. ASSUME ~Pending(q), NEW m \in air, NEW x \in Awaited(q),
               m.kind = "2/4", m.c = x.c, m.key[1] = q.ANonce
        PROVE  Newest(m, air)
    BY <2>1, <1>1, <1>4, <1>10, InvParts, HoldsParts DEF AnswersFit
  <2> QED BY <2>1, <1>4 DEF AnswersFit
<1>14. KeyFits(q, air)
  BY <1>4 DEF KeyFits
<1>15. LinkFits(q, sta, Alive(q), confirmed, assoc)
  <2>1. Serves(q, Alive(q), assoc) => q.ask # {} /\ Pending(q)
    BY <1>5, <1>8 DEF Serves
  <2>2. q.ask # {} => ~(q.ask \subseteq {"PtkGroupInit", "Disconnect"})
    OBVIOUS
  <2>3. q.seen <= assoc
    BY <1>3, <1>4
  <2> QED BY <2>1, <2>2, <2>3, <1>4 DEF LinkFits
<1>16. HoldsAt(q, gtk)
  BY <1>4, <1>8, <1>12, <1>13, <1>14, <1>15, InvParts, ApHolds DEF HoldsAt
<1>17. Unheard(q, Aired(q)) \subseteq Unheard(ap, air)
  <2>1. CASE a = ap
    BY <2>1, <1>4, <1>8 DEF Unheard
  <2>2. CASE a # ap
    <3>1. \A m \in Downward(air) : From(m) # q.ANonce
      BY <2>2, <1>2, <1>4, <1>9
    <3>2. Unheard(q, air) = {}
      BY <3>1, InvParts, HoldsParts, NoneUnheard
    <3> QED BY <3>2, <1>8
  <2> QED BY <2>1, <2>2
<1>18. mic.on => ~Alive(q)
  BY <1>8
<1> QED BY <1>7, <1>16, <1>17, <1>18

LEMMA ApAssociatedHolds ==
  ASSUME HInv, ApAssociated
  PROVE  HInv' /\ ApOnly /\ KeepsKey(ap'.installed)
<1> DEFINE a == IF ap.known THEN ap ELSE NewBase
           h == ap.known /\ ap.assoc
           q == NewAssocSta(Renewed(a), h)
<1>1. /\ ApOnly /\ gtk' = gtk /\ mic' = mic /\ ap.seen < assoc
  BY DEF ApAssociated, ApOnly
<1>2. Handled(q, gtk')
  BY <1>1 DEF ApAssociated, NewBase, Renewed
<1>3. a = ap \/ a = NewBase
  OBVIOUS
<1>4. /\ ap \in ApType /\ ap.ask = {} /\ ap.rx = {} /\ ap.out = {}
      /\ assoc \in Nat
  BY InvParts, RestFacts
<1>5. a \in ApType /\ a.ask = {} /\ a.rx = {} /\ a.out = {}
  BY <1>4, InvParts, NewBaseFits
<1>6. h \in BOOLEAN
  BY <1>4 DEF ApType
<1>7. q = NewAssocSta(Renewed(a), h)
  OBVIOUS
<1> HIDE DEF a, h, q
<1>8. /\ q \in ApType /\ SameBase(q, a) /\ NewAssociation(q)
      /\ q.GUpdateStationKeys => a.GUpdateStationKeys
      /\ \/ /\ mic.on /\ q.out = {Deauth} /\ q.ask = {}
            /\ q.started = a.started
            /\ q.replay = a.replay /\ q.counter = a.counter
         \/ /\ ~mic.on /\ q.out = {} /\ q.started
            /\ q.ask \in {{"AuthenticationRequest"},
                          {"ReAuthenticationRequest"},
                          {"ReAuthenticationRequest", "PtkGroupInit"}}
            /\ q.replay = <<>> \/ (q.replay = a.replay
                                     /\ q.counter = a.counter)
  BY <1>4, <1>5, <1>6, <1>7, NewAssocFields
<1>9. /\ Fits(q) /\ HoldsAt(q, gtk)
      /\ Unheard(q, Aired(q)) \subseteq Unheard(ap, air)
      /\ mic.on => ~Alive(q)
  BY <1>1, <1>3, <1>8, AssociationHolds
<1>10. CountFits(Unheard(q, Aired(q)), gtk', mic'.count)
  BY <1>1, <1>9, InvParts, CountTypes, CountSmaller
<1>11. mic'.on /\ Alive(q) /\ q.seen = assoc => ~(q.known /\ q.assoc)
  BY <1>1, <1>9
<1>12. q.installed \in {ap.installed, NoKey}
  BY <1>8 DEF NewAssociation
<1> QED BY <1>1, <1>2, <1>9, <1>10, <1>11, <1>12, InvParts, ApStepHolds
-----------------------------------------------------------------------------
(* The station without keys: it is off, or has just associated.             *)
Blank(t) == /\ t.ptk = NoKey /\ t.tptk = NoKey /\ t.key = NoKey
            /\ t.gtk = 0 /\ t.rx = 0

LEMMA BlankHolds ==
  ASSUME NEW r, NEW s, NEW S, NEW l \in BOOLEAN, NEW k, NEW n,
         NEW g \in Nat, Typed(r, s, S, k, n, g),
         Holds(r, s, S, l, k, n, g), NEW t \in StaType, Blank(t),
         t.snonce = s.snonce, s.renew => t.renew, t.due => ~On(t),
         t.pending \subseteq Downward(S),
         NEW l2 \in BOOLEAN, l2 => l /\ ~On(s)
  PROVE  Holds(r, t, S, l2, k, n, g)
<1>1. LinkFits(r, t, l2, k, n)
  <2>1. LinkFits(r, s, l, k, n)
    BY HoldsParts
  <2> QED BY <2>1 DEF LinkFits, Serves
<1>2. NoncesFit(r, t, S, k)
  BY HoldsParts DEF NoncesFit, Blank
<1>3. ConfirmedFits(t, S, k)
  BY HoldsParts DEF ConfirmedFits, Blank
<1>4. OffFits(t, S, l2, k, n)
  <2>1. OffFits(s, S, l, k, n)
    BY HoldsParts
  <2> QED BY <2>1 DEF OffFits, Blank
<1>5. GtkFits(t, S, g)
  BY DEF GtkFits, Blank
<1> QED BY <1>1, <1>2, <1>3, <1>4, <1>5, HoldsParts DEF Holds

(* A frame that is not for the station.                                     *)
LEMMA UpFacts ==
  ASSUME NEW S, NEW f, f.kind \notin Down
  PROVE  /\ Keyed(S \cup {f}) = Keyed(S)
         /\ Downward(S \cup {f}) = Downward(S)
BY DEF Keyed, Downward, Down

(* What concerns frames for the station only.                               *)
LEMMA UpHolds ==
  ASSUME NEW r, NEW s, NEW S, NEW l, NEW k, NEW n, NEW g \in Nat,
         Holds(r, s, S, l, k, n, g), NEW f, f.kind \notin Down,
         f \in FrameType, f.kind # "deauth", f.gtk = 0,
         f.kind = "2/4" =>
           /\ f.key # NoKey /\ f.key[2] = f.nonce
           /\ \E x \in S : x.kind = "1/4" /\ x.c = f.c /\ x.nonce = f.key[1],
         f.kind \in {"4/4", "2/2"} =>
           \E x \in Keyed(S) : x.c = f.c /\ x.key = f.key
                                 /\ (f.kind = "2/2" => x.kind = "1/2"),
         f.kind = "error" => \E x \in Keyed(S) : x.key = f.key,
         f.kind = "2/4" => Newest(f, S)
  PROVE  /\ FramesFit(S \cup {f}, g) /\ NumbersFit(r, S \cup {f}, g)
         /\ AnswersFit(r, S \cup {f}) /\ KeyFits(r, S \cup {f})
<1> DEFINE T == S \cup {f}
<1>1. Keyed(T) = Keyed(S) /\ Downward(T) = Downward(S)
  BY UpFacts
<1>2. f.kind \notin {"1/4", "3/4", "1/2"} /\ f \in T /\ S \subseteq T
      /\ \A m \in T : m \in S \/ m = f
  BY DEF Down
<1> HIDE DEF T
<1>3. FramesTyped(T, g)
  BY <1>2, HoldsParts DEF FramesTyped
<1>4. Caused(T)
  <2>1. Caused(S)
    BY HoldsParts
  <2>2. \A m \in Downward(T) : From(m) > 0
    BY <1>1, <2>1 DEF Caused
  <2>3. \A m \in Keyed(T) : m.kind = "3/4" => m.nonce = m.key[1]
    BY <1>1, <2>1 DEF Caused
  <2>4. \A m \in T : m.kind = "2/4" =>
          /\ m.key # NoKey /\ m.key[2] = m.nonce
          /\ \E x \in T : x.kind = "1/4" /\ x.c = m.c /\ x.nonce = m.key[1]
    BY <1>2, <2>1 DEF Caused
  <2>5. \A m \in T : m.kind \in {"4/4", "2/2"} =>
          \E x \in Keyed(T) : x.c = m.c /\ x.key = m.key
                                /\ (m.kind = "2/2" => x.kind = "1/2")
    BY <1>1, <1>2, <2>1 DEF Caused
  <2>6. \A m \in T : m.kind = "1/2" =>
          m.gtk > 0 /\ \E x \in T : x.kind = "4/4" /\ x.key = m.key
    BY <1>2, <2>1 DEF Caused
  <2>7. \A m \in T : m.kind = "error" => \E x \in Keyed(T) : x.key = m.key
    BY <1>1, <1>2, <2>1 DEF Caused
  <2> QED BY <2>2, <2>3, <2>4, <2>5, <2>6, <2>7 DEF Caused
<1>5. Distinct(T) /\ Ordered(T)
  BY <1>1, HoldsParts DEF Distinct, Ordered
<1>6. NumbersFit(r, T, g)
  BY <1>1, HoldsParts DEF NumbersFit
<1>7. \A m : Newest(m, S) => Newest(m, T)
  BY <1>1, <1>2 DEF Newest
<1>8. AnswersFit(r, T)
  BY <1>2, <1>7, HoldsParts DEF AnswersFit
<1>9. KeyFits(r, T)
  BY <1>1, <1>2, HoldsParts DEF KeyFits
<1> QED BY <1>3, <1>4, <1>5, <1>6, <1>8, <1>9 DEF FramesFit, T

(* wpa_sm_key_request                                                       *)
LEMMA RequestHolds ==
  ASSUME NEW r, NEW s, NEW S, NEW l, NEW k, NEW n, NEW g \in Nat,
         Typed(r, s, S, k, n, g), Holds(r, s, S, l, k, n, g), s.ptk # NoKey,
         NEW f \in FrameType, f.kind \in {"request", "error"}, f.gtk = 0,
         f.key = s.ptk
  PROVE  Holds(r, s, S \cup {f}, l, k, n, g)
<1> DEFINE T == S \cup {f}
<1>1. Keyed(T) = Keyed(S) /\ Downward(T) = Downward(S) /\ f.kind \notin Down
  BY UpFacts DEF Down
<1>2. \A m \in T : m \in S \/ m = f
  OBVIOUS
<1>3. \E x \in Keyed(S) : x.key = f.key
  <2>1. s.ptk = k /\ \E m \in S : m.kind = "4/4" /\ m.key = k
    BY HoldsParts DEF ConfirmedFits
  <2> QED BY <2>1, HoldsParts, Answers
<1>4. /\ FramesFit(T, g) /\ NumbersFit(r, T, g) /\ AnswersFit(r, T)
      /\ KeyFits(r, T)
  BY <1>1, <1>3, UpHolds
<1> HIDE DEF T
<1>5. NoncesFit(r, s, T, k)
  BY <1>1, <1>2, HoldsParts DEF NoncesFit
<1>6. ConfirmedFits(s, T, k)
  <2>1. S \subseteq T
    BY DEF T
  <2> QED BY <1>2, <2>1, HoldsParts DEF ConfirmedFits
<1>7. OffFits(s, T, l, k, n)
  BY <1>1, <1>2, HoldsParts DEF OffFits
<1>8. GtkFits(s, T, g)
  BY <1>1, HoldsParts DEF GtkFits
<1> QED BY <1>4, <1>5, <1>6, <1>7, <1>8, HoldsParts DEF Holds, T
-----------------------------------------------------------------------------
(* The key of a 1/2 has been confirmed, not after the last one.             *)
LEMMA GroupFrameKey ==
  ASSUME NEW r, NEW s, NEW S, NEW l, NEW k, NEW n, NEW g \in Nat,
         Typed(r, s, S, k, n, g), Holds(r, s, S, l, k, n, g),
         NEW m \in S, m.kind = "1/2"
  PROVE  m.key = k \/ m.key[2] < k[2]
<1>1. \E x \in S : x.kind = "4/4" /\ x.key = m.key
  BY HoldsParts DEF Caused
<1> QED BY <1>1, HoldsParts DEF ConfirmedFits

(* wpa_supplicant_process_1_of_4: t is the station with a new key to be     *)
(* confirmed, f its 2/4.                                                    *)
LEMMA CalledHolds ==
  ASSUME NEW r, NEW s, NEW S, NEW l, NEW k, NEW n, NEW g \in Nat,
         Typed(r, s, S, k, n, g), Holds(r, s, S, l, k, n, g), On(s),
         NEW m \in S, m.kind = "1/4",
         NEW t \in StaType, On(t), t.due = s.due, t.pending = s.pending,
         t.ptk = s.ptk, t.key = s.key, t.gtk = s.gtk, t.rx = s.rx, ~t.renew,
         t.snonce = IF s.renew THEN s.snonce + 1 ELSE s.snonce,
         t.anonce = m.nonce, t.tptk = <<m.nonce, t.snonce>>,
         NEW f \in FrameType, f.kind = "2/4", f.c = m.c, f.nonce = t.snonce,
         f.key = t.tptk, f.gtk = 0
  PROVE  Holds(r, t, S \cup {f}, l, k, n, g)
<1> DEFINE T == S \cup {f}
<1>1. Keyed(T) = Keyed(S) /\ Downward(T) = Downward(S) /\ f.kind \notin Down
  BY UpFacts DEF Down
<1>2. \A x \in T : x \in S \/ x = f
  OBVIOUS
<1>3. S \subseteq T
  OBVIOUS
<1>4. s.snonce \in Nat /\ t.snonce \in Nat /\ k[2] \in Nat
      /\ r.PTK[2] \in Nat
  <2>1. r.PTK \in KeyType /\ s.snonce \in Nat /\ k \in KeyType
    BY DEF Typed, StaType, ApType
  <2> QED BY <2>1, KeyFacts DEF StaType
<1>5. k[2] < t.snonce /\ s.snonce <= t.snonce
  <2>1. k[2] <= s.snonce /\ (~s.renew => k[2] < s.snonce)
    BY HoldsParts DEF NoncesFit
  <2>2. CASE s.renew
    BY <2>1, <2>2, <1>4
  <2>3. CASE ~s.renew
    BY <2>1, <2>3, <1>4
  <2> QED BY <2>2, <2>3
<1>6. f.key # NoKey /\ f.key[1] = m.nonce /\ f.key[2] = t.snonce
  <2>1. t.snonce # 0
    BY <1>4, <1>5
  <2> QED BY <2>1 DEF NoKey
<1>7. \A x \in S : x.key[2] \in Nat
  BY HoldsParts, FrameFacts
<1>8. Newest(f, S)
  <2>1. ASSUME NEW x \in Keyed(S)
        PROVE  x.key[2] <= t.snonce
    <3>1. x.key[2] <= s.snonce /\ x.key[2] \in Nat
      BY <1>7, KindFacts, HoldsParts DEF NoncesFit
    <3> QED BY <3>1, <1>4, <1>5
  <2>2. ASSUME NEW x \in S, x.kind = "1/2"
        PROVE  x.key[2] < t.snonce
    <3>1. x.key = k \/ x.key[2] < k[2]
      BY <2>2, GroupFrameKey
    <3> QED BY <3>1, <1>4, <1>5, <1>7
  <2> QED BY <2>1, <2>2, <1>6 DEF Newest
<1>9. /\ FramesFit(T, g) /\ NumbersFit(r, T, g) /\ AnswersFit(r, T)
      /\ KeyFits(r, T)
  BY <1>1, <1>6, <1>8, UpHolds
<1> HIDE DEF T
<1>10. LinkFits(r, t, l, k, n)
  BY HoldsParts DEF LinkFits
<1>11. NoncesFit(r, t, T, k)
  <2>1. NoncesFit(r, s, S, k)
    BY HoldsParts
  <2>2. \A x \in Keyed(T) : x.key[2] <= t.snonce
    <3>1. \A x \in Keyed(S) : x.key[2] <= s.snonce /\ x.key[2] \in Nat
      BY <2>1, <1>7, KindFacts DEF NoncesFit
    <3> QED BY <3>1, <1>1, <1>4, <1>5
  <2>3. ASSUME NEW x \in T, x.kind = "2/4"
        PROVE  x.key[2] <= t.snonce
    <3>1. CASE x \in S
      <4>1. x.key[2] <= s.snonce
        BY <2>1, <2>3, <3>1 DEF NoncesFit
      <4> QED BY <4>1, <3>1, <1>4, <1>5, <1>7
    <3>2. CASE x = f
      BY <3>2, <1>4, <1>6
    <3> QED BY <3>1, <3>2, <1>2
  <2>4. r.PTK[2] <= t.snonce /\ k[2] <= t.snonce
    <3>1. r.PTK[2] <= s.snonce
      BY <2>1 DEF NoncesFit
    <3> QED BY <3>1, <1>4, <1>5
  <2>5. t.tptk = <<t.anonce, t.snonce>>
    OBVIOUS
  <2> QED BY <2>2, <2>3, <2>4, <2>5, <1>5 DEF NoncesFit
<1>12. ConfirmedFits(t, T, k)
  BY <1>2, <1>3, HoldsParts DEF ConfirmedFits
<1>13. OffFits(t, T, l, k, n)
  <2>1. OffFits(s, S, l, k, n)
    BY HoldsParts
  <2> QED BY <2>1, <1>1, <1>2 DEF OffFits
<1>14. GtkFits(t, T, g)
  <2>1. \A x : Ahead(t, x) <=> Ahead(s, x)
    BY DEF Ahead
  <2> QED BY <2>1, <1>1, HoldsParts DEF GtkFits
<1> QED BY <1>9, <1>10, <1>11, <1>12, <1>13, <1>14 DEF Holds, T
-----------------------------------------------------------------------------
(* The keys of a frame m that the station accepts: newer than those it has, *)
(* or the same.                                                             *)
LEMMA AcceptedKey ==
  ASSUME NEW r, NEW s, NEW S, NEW l, NEW k, NEW n, NEW g \in Nat,
         Typed(r, s, S, k, n, g), Holds(r, s, S, l, k, n, g),
         NEW m \in Keyed(S), m.key \in {s.tptk, s.ptk} \ {NoKey}
  PROVE  /\ m.key = k \/ (m.key = s.tptk /\ m.key[2] > k[2])
         /\ k[2] <= m.key[2] /\ m.key[2] <= s.snonce
         /\ k # NoKey => k[1] <= m.key[1]
         /\ m.key = s.ptk => m.key = k
         /\ m.kind = "1/2" => m.key = k
         /\ k[1] \in Nat /\ k[2] \in Nat /\ s.snonce \in Nat
         /\ m.key[1] \in Nat /\ m.key[2] \in Nat
<1>1. m \in S /\ S \subseteq FrameType
  BY KindFacts DEF Typed
<1>2. /\ k[1] \in Nat /\ k[2] \in Nat /\ s.snonce \in Nat
      /\ m.key[1] \in Nat /\ m.key[2] \in Nat
  BY <1>1, KeyFacts, FrameFacts DEF Typed, StaType
<1>3. /\ s.ptk # NoKey => s.ptk = k
      /\ s.tptk # NoKey => s.tptk = <<s.anonce, s.snonce>> /\ k[2] < s.snonce
      /\ k[2] <= s.snonce
  BY HoldsParts DEF ConfirmedFits, NoncesFit
<1>4. m.key = s.ptk => m.key = k
  BY <1>3
<1>5. m.key = s.tptk => m.key[2] = s.snonce /\ m.key[2] > k[2]
  BY <1>2, <1>3
<1>6. /\ m.key = k \/ (m.key = s.tptk /\ m.key[2] > k[2])
      /\ k[2] <= m.key[2] /\ m.key[2] <= s.snonce
  BY <1>2, <1>3, <1>4, <1>5
<1>7. m.kind = "1/2" => m.key = k
  <2>1. m.kind = "1/2" => m.key = k \/ m.key[2] < k[2]
    BY <1>1, GroupFrameKey
  <2> QED BY <2>1, <1>2, <1>6
<1>8. k # NoKey => k[1] <= m.key[1]
  <2>1. CASE m.key = k
    BY <2>1, <1>2
  <2>2. CASE m.key # k /\ k # NoKey
    <3>1. PICK y \in S : y.kind = "4/4" /\ y.key = k
      BY <2>2, HoldsParts DEF ConfirmedFits
    <3>2. PICK x \in Keyed(S) : x.key = k
      BY <3>1, HoldsParts, Answers
    <3>3. x.key[2] < m.key[2]
      BY <2>2, <3>2, <1>2, <1>6
    <3> QED BY <3>2, <3>3, HoldsParts DEF Ordered
  <2> QED BY <2>1, <2>2
<1> QED BY <1>2, <1>4, <1>6, <1>7, <1>8

(* Its group key, if it has one, is not before the station's.               *)
LEMMA AcceptedGtk ==
  ASSUME NEW r, NEW s, NEW S, NEW l, NEW k, NEW n, NEW g \in Nat,
         Typed(r, s, S, k, n, g), Holds(r, s, S, l, k, n, g),
         NEW m \in Keyed(S), m.key \in {s.tptk, s.ptk} \ {NoKey},
         m.c > s.rx
  PROVE  /\ s.gtk # 0 => s.ptk = k /\ k # NoKey /\ Ahead(s, m)
         /\ m.gtk # 0 => m.gtk >= s.gtk
         /\ m.gtk \in Nat /\ s.gtk \in Nat /\ m.gtk <= g
<1>1. m \in S /\ S \subseteq FrameType
  BY KindFacts DEF Typed
<1>2. m.gtk \in Nat /\ s.gtk \in Nat /\ m.gtk <= g
  BY <1>1, HoldsParts, FrameFacts DEF Typed, StaType, FramesTyped
<1>3. s.gtk # 0 => s.ptk = k /\ k # NoKey
  BY HoldsParts DEF GtkFits, ConfirmedFits
<1>4. s.gtk # 0 => Ahead(s, m)
  <2>1. m.key = s.ptk => Ahead(s, m)
    BY DEF Ahead
  <2>2. /\ k[2] <= m.key[2] /\ (k # NoKey => k[1] <= m.key[1])
        /\ k[1] \in Nat /\ k[2] \in Nat
        /\ m.key[1] \in Nat /\ m.key[2] \in Nat
    BY AcceptedKey
  <2> QED BY <2>1, <2>2, <1>3 DEF Ahead
<1>5. m.gtk # 0 => m.gtk >= s.gtk
  BY <1>2, <1>4, HoldsParts DEF GtkFits
<1> QED BY <1>2, <1>3, <1>4, <1>5
-----------------------------------------------------------------------------
(* A frame m with a good MIC is accepted: t is the station with its keys, f *)
(* the answer.                                                              *)
LEMMA AcceptHolds ==
  ASSUME NEW r, NEW s, NEW S, NEW l, NEW k, NEW n, NEW g \in Nat,
         Typed(r, s, S, k, n, g), Holds(r, s, S, l, k, n, g), On(s),
         NEW m \in Keyed(S), m.key \in {s.tptk, s.ptk} \ {NoKey},
         m.c > s.rx,
         NEW t \in StaType, On(t), t.due = s.due, t.pending = s.pending,
         t.anonce = s.anonce, t.snonce = s.snonce, t.rx = m.c,
         t.ptk = m.key, t.tptk = IF m.key = s.tptk THEN NoKey ELSE s.tptk,
         t.gtk = IF m.gtk = 0 THEN s.gtk ELSE m.gtk,
         \/ m.kind = "3/4" /\ t.key = m.key /\ t.renew
         \/ m.kind = "1/2" /\ t.key = s.key /\ t.renew = s.renew,
         NEW f \in FrameType, f.kind = IF m.kind = "3/4" THEN "4/4" ELSE "2/2",
         f.c = m.c, f.key = m.key, f.gtk = 0
  PROVE  Holds(r, t, S \cup {f}, l, m.key, n, g) /\ t.gtk >= s.gtk
<1> DEFINE T == S \cup {f}
<1>1. /\ m.kind \in {"3/4", "1/2"} /\ f.kind \in {"4/4", "2/2"}
      /\ f.kind = "4/4" <=> m.kind = "3/4"
  OBVIOUS
<1>2. Keyed(T) = Keyed(S) /\ Downward(T) = Downward(S) /\ f.kind \notin Down
  BY <1>1, UpFacts DEF Down
<1>3. /\ \A x \in T : x \in S \/ x = f
      /\ S \subseteq T /\ f \in T
  OBVIOUS
<1>4. /\ m.key = k \/ (m.key = s.tptk /\ m.key[2] > k[2])
      /\ k[2] <= m.key[2] /\ m.key[2] <= s.snonce
      /\ k # NoKey => k[1] <= m.key[1]
      /\ m.key = s.ptk => m.key = k
      /\ m.kind = "1/2" => m.key = k
      /\ k[1] \in Nat /\ k[2] \in Nat /\ s.snonce \in Nat
      /\ m.key[1] \in Nat /\ m.key[2] \in Nat
  BY AcceptedKey
<1>5. /\ s.gtk # 0 => s.ptk = k /\ k # NoKey /\ Ahead(s, m)
      /\ m.gtk # 0 => m.gtk >= s.gtk
      /\ m.gtk \in Nat /\ s.gtk \in Nat /\ m.gtk <= g
  BY AcceptedGtk
<1>6. t.gtk >= s.gtk /\ t.gtk >= m.gtk /\ t.gtk \in Nat
  BY <1>5
<1>7. /\ FramesFit(T, g) /\ NumbersFit(r, T, g) /\ AnswersFit(r, T)
      /\ KeyFits(r, T)
  BY <1>1, <1>2, UpHolds
<1> HIDE DEF T
<1>8. LinkFits(r, t, l, m.key, n)
  <2>1. LinkFits(r, s, l, k, n)
    BY HoldsParts
  <2>2. ASSUME Serves(r, l, n), r.ptk = "PTKINITDONE",
               r.ask \subseteq {"PtkGroupInit", "Disconnect"}
        PROVE  r.installed = m.key /\ r.PTK = m.key /\ m.key # NoKey
    <3>1. r.installed = k /\ r.PTK = k /\ k # NoKey
      BY <2>1, <2>2 DEF LinkFits
    <3>2. m.key[2] <= k[2]
      BY <3>1, HoldsParts DEF KeyFits
    <3>3. m.key = k
      BY <3>2, <1>4
    <3> QED BY <3>1, <3>3
  <2>3. ASSUME r.known, r.seen = n, l, r.given # 0
        PROVE  On(t) /\ t.gtk >= r.given
    <3>1. s.gtk >= r.given /\ r.given \in Nat
      BY <2>1, <2>3 DEF LinkFits, Typed, ApType
    <3> QED BY <3>1, <1>5, <1>6
  <2> QED BY <2>1, <2>2, <2>3 DEF LinkFits
<1>9. NoncesFit(r, t, T, m.key)
  <2>1. NoncesFit(r, s, S, k)
    BY HoldsParts
  <2>2. \A x \in T : x.kind = "2/4" => x \in S
    BY <1>1, <1>3
  <2>3. ~t.renew => m.key[2] < t.snonce
    <3>1. ~t.renew => m.key = k /\ ~s.renew
      BY <1>4
    <3> QED BY <3>1, <2>1 DEF NoncesFit
  <2>4. t.tptk # NoKey => t.tptk = <<t.anonce, t.snonce>>
                            /\ m.key[2] < t.snonce
    <3>1. t.tptk # NoKey => t.tptk = s.tptk /\ m.key = k
      BY <1>4
    <3> QED BY <3>1, <2>1 DEF NoncesFit
  <2>5. /\ \A x \in Keyed(T) : x.key[2] <= t.snonce
        /\ \A x \in T : x.kind = "2/4" => x.key[2] <= t.snonce
        /\ r.PTK[2] <= t.snonce
    BY <2>1, <2>2, <1>2 DEF NoncesFit
  <2> QED BY <2>3, <2>4, <2>5, <1>4 DEF NoncesFit
<1>10. ConfirmedFits(t, T, m.key)
  <2>1. ConfirmedFits(s, S, k)
    BY HoldsParts
  <2>2. t.key # NoKey => t.key = t.ptk
    <3>1. m.kind = "1/2" /\ s.key # NoKey => s.key = m.key
      BY <2>1, <1>4 DEF ConfirmedFits
    <3> QED BY <3>1
  <2>3. ASSUME NEW x \in T, x.kind = "4/4"
        PROVE  x.key = m.key \/ x.key[2] < m.key[2]
    <3>1. CASE x = f
      BY <3>1
    <3>2. CASE x \in S
      <4>1. x.key = k \/ x.key[2] < k[2]
        BY <2>1, <2>3, <3>2 DEF ConfirmedFits
      <4>2. x.key[2] \in Nat
        BY <3>2, HoldsParts, FrameFacts
      <4> QED BY <4>1, <4>2, <1>4
    <3> QED BY <3>1, <3>2, <1>3
  <2>4. \E x \in T : x.kind = "4/4" /\ x.key = m.key
    <3>1. CASE m.kind = "3/4"
      BY <3>1, <1>3
    <3>2. CASE m.kind # "3/4"
      <4>1. m.key = k /\ k # NoKey
        BY <3>2, <1>1, <1>4
      <4> QED BY <4>1, <2>1, <1>3 DEF ConfirmedFits
    <3> QED BY <3>1, <3>2
  <2> QED BY <2>2, <2>3, <2>4 DEF ConfirmedFits
<1>11. OffFits(t, T, l, m.key, n)
  <2>1. OffFits(s, S, l, k, n)
    BY HoldsParts
  <2>2. l /\ m.key[1] = n => t.key = m.key
    <3>1. CASE m.kind = "3/4"
      BY <3>1
    <3>2. CASE m.kind # "3/4"
      <4>1. m.key = k /\ t.key = s.key
        BY <3>2, <1>1, <1>4
      <4> QED BY <4>1, <2>1 DEF OffFits
    <3> QED BY <3>1, <3>2
  <2>3. \A x \in Keyed(S) : x.gtk \in Nat
    BY KindFacts, HoldsParts, FrameFacts
  <2>4. ASSUME NEW y \in T, l, y.kind \in {"4/4", "2/2"}, y.key[1] = n,
               NEW x \in Keyed(S), x.c = y.c, x.key = y.key
        PROVE  x.gtk <= t.gtk
    <3>1. CASE y \in S
      <4>1. x.gtk <= s.gtk
        BY <2>1, <2>4, <3>1 DEF OffFits
      <4> QED BY <4>1, <2>3, <1>5, <1>6
    <3>2. CASE y = f
      <4>1. x \in Downward(S) /\ m \in Downward(S) /\ From(x) = From(m)
            /\ x.c = m.c
        BY <2>4, <3>2, KindFacts
      <4>2. x = m
        BY <4>1, HoldsParts DEF Distinct
      <4> QED BY <4>2, <1>6
    <3> QED BY <3>1, <3>2, <1>3
  <2> QED BY <2>1, <2>2, <2>4, <1>2 DEF OffFits
<1>12. GtkFits(t, T, g)
  <2>1. t.gtk <= g
    BY <1>5, HoldsParts DEF GtkFits
  <2>2. ASSUME NEW x \in Keyed(S), Ahead(t, x), x.gtk # 0, t.gtk # 0
        PROVE  x.gtk >= t.gtk
    <3>1. x \in S /\ x.key[1] \in Nat /\ x.key[2] \in Nat /\ x.c \in Nat
          /\ x.gtk \in Nat /\ m.c \in Nat /\ s.rx \in Nat
      BY KindFacts, HoldsParts, FrameFacts DEF Typed, StaType
    <3>2. \/ x.key = m.key /\ x.c > m.c
          \/ /\ x.key # m.key /\ x.key[1] >= m.key[1]
             /\ x.key[2] >= m.key[2]
      BY <2>2 DEF Ahead
    <3>3. CASE m.gtk # 0
      <4>1. Before(m, x)
        BY <3>1, <3>2, <1>4 DEF Before
      <4>2. m.gtk <= x.gtk
        BY <4>1, <2>2, HoldsParts DEF Ordered
      <4> QED BY <4>2, <3>1, <3>3, <1>5
    <3>4. CASE m.gtk = 0
      <4>1. s.gtk # 0 /\ s.ptk = k /\ k # NoKey /\ t.gtk = s.gtk
        BY <3>4, <2>2, <1>5
      <4>2. Ahead(s, x)
        <5>1. CASE m.key = k
          <6>1. x.key = m.key => x.c > s.rx
            BY <3>1, <3>2
          <6> QED BY <5>1, <6>1, <3>2, <4>1 DEF Ahead
        <5>2. CASE m.key # k
          <6>1. m.key[2] > k[2] /\ k[1] <= m.key[1]
            BY <5>2, <4>1, <1>4
          <6>2. x.key[1] >= k[1] /\ x.key[2] > k[2]
            BY <6>1, <3>1, <3>2, <1>4
          <6>3. x.key # k /\ x.key[2] >= k[2]
            BY <6>2, <3>1, <1>4
          <6> QED BY <6>2, <6>3, <4>1 DEF Ahead
        <5> QED BY <5>1, <5>2
      <4> QED BY <4>1, <4>2, <2>2, HoldsParts DEF GtkFits
    <3> QED BY <3>3, <3>4
  <2> QED BY <2>1, <2>2, <1>2 DEF GtkFits
<1> QED BY <1>6, <1>7, <1>8, <1>9, <1>10, <1>11, <1>12 DEF Holds, T
-----------------------------------------------------------------------------
(* The key that the station has said last, and what may become of it with a *)
(* step of the station to t, after which n associations have been made.     *)
Confirmed(t, k) ==
  LET said == {m \in t.out : m.kind = "4/4"}
  IN IF said = {} THEN k ELSE (CHOOSE m \in said : TRUE).key

Keeps(s, t, k, j) ==
  \/ j = k /\ t.key \in {s.key, NoKey}
  \/ j \in Keys /\ t.key \in {j, NoKey}

Outcome(r, s, t, S, l, k, n, g) ==
  /\ t \in StaType /\ \A f \in t.out : f.kind # "error"
  /\ Holds(r, t, S \cup (t.out \ {Deauth}), l /\ Deauth \notin t.out,
           Confirmed(t, k), n, g)
  /\ Confirmed(t, k) \in KeyType /\ Keeps(s, t, k, Confirmed(t, k))
  /\ On(t) => t.gtk >= s.gtk

(* wpa_supplicant_clear_connection, and wpa_supplicant_deauthenticate       *)
LEMMA OffFields ==
  ASSUME NEW s \in StaType, NEW t, t = Off(s) \/ t = Leaves(s)
  PROVE  /\ t \in StaType /\ Blank(t) /\ ~On(t) /\ ~t.timer
         /\ t.snonce = s.snonce /\ t.renew = s.renew /\ t.due = s.due
         /\ t.pending = s.pending /\ t.requests = s.requests
         /\ t = Off(s) => t.out = s.out
         /\ t = Leaves(s) => t.out = s.out \cup {Deauth}
<1> DEFINE u == Off(s)
<1>1. NoKey \in KeyType /\ 0 \in Nat /\ Deauth \in FrameType
      /\ "DISCONNECTED" \in StaStates
  BY DeauthType DEF KeyType, StaStates
<1>2. u \in StaType
  BY <1>1 DEF Off, StaType
<1>3. /\ Blank(u) /\ ~On(u) /\ ~u.timer
      /\ u.snonce = s.snonce /\ u.renew = s.renew /\ u.due = s.due
      /\ u.pending = s.pending /\ u.requests = s.requests /\ u.out = s.out
  BY DEF Off, StaType, Blank, On
<1>4. t = Leaves(s) => t = [u EXCEPT !.out = @ \cup {Deauth}]
  BY DEF Leaves
<1>5. t = Off(s) => t = u
  OBVIOUS
<1> HIDE DEF u
<1>6. CASE t = Off(s)
  <2>1. ASSUME t = Leaves(s)
        PROVE  t.out = s.out \cup {Deauth}
    <3>1. u = [u EXCEPT !.out = @ \cup {Deauth}]
      BY <2>1, <1>4, <1>5, <1>6
    <3>2. u.out = u.out \cup {Deauth}
      BY <3>1, <1>2 DEF StaType
    <3> QED BY <3>2, <1>3, <1>5, <1>6
  <2> QED BY <2>1, <1>2, <1>3, <1>5, <1>6
<1>7. CASE t # Off(s)
  <2> DEFINE o == u.out \cup {Deauth}
  <2>1. t = [u EXCEPT !.out = o]
    BY <1>4, <1>7
  <2>2. o \in SUBSET FrameType /\ o = s.out \cup {Deauth}
    BY <1>1, <1>2, <1>3 DEF StaType
  <2> HIDE DEF o
  <2>3. t \in StaType
    BY <2>1, <2>2, <1>2 DEF StaType
  <2>4. /\ t.state = u.state /\ t.timer = u.timer /\ t.ptk = u.ptk
        /\ t.tptk = u.tptk /\ t.key = u.key /\ t.gtk = u.gtk /\ t.rx = u.rx
        /\ t.snonce = u.snonce /\ t.renew = u.renew /\ t.due = u.due
        /\ t.pending = u.pending /\ t.requests = u.requests /\ t.out = o
    BY <2>1, <1>2 DEF StaType
  <2>5. Blank(t) /\ ~On(t)
    BY <2>4, <1>3 DEF Blank, On
  <2> QED BY <2>2, <2>3, <2>4, <2>5, <1>3, <1>7
<1> QED BY <1>6, <1>7

(* The station ends the association, after t.out has been sent.             *)
LEMMA LeavesHolds ==
  ASSUME NEW r, NEW s, NEW S, NEW l \in BOOLEAN, NEW k, NEW n,
         NEW g \in Nat, Typed(r, s, S, k, n, g),
         Holds(r, s, S, l, k, n, g), NEW u \in StaType,
         u.snonce = s.snonce, u.renew = s.renew, u.pending = s.pending,
         NEW t, t = Leaves(u)
  PROVE  Holds(r, t, S, FALSE, k, n, g)
<1>1. /\ t \in StaType /\ Blank(t) /\ ~On(t)
      /\ t.snonce = u.snonce /\ t.renew = u.renew /\ t.pending = u.pending
  BY OffFields
<1>2. s.pending \subseteq Downward(S)
  BY HoldsParts DEF OffFits
<1> QED BY <1>1, <1>2, BlankHolds
-----------------------------------------------------------------------------
LEMMA ConfirmedFacts ==
  ASSUME NEW t, NEW k
  PROVE  /\ (\A f \in t.out : f.kind # "4/4") => Confirmed(t, k) = k
         /\ \A f \in t.out : f.kind = "4/4" /\ t.out \subseteq {f, Deauth} =>
              Confirmed(t, k) = f.key
<1>1. ASSUME \A f \in t.out : f.kind # "4/4"
      PROVE  Confirmed(t, k) = k
  <2>1. {m \in t.out : m.kind = "4/4"} = {}
    BY <1>1
  <2> QED BY <2>1 DEF Confirmed
<1>2. ASSUME NEW f \in t.out, f.kind = "4/4", t.out \subseteq {f, Deauth}
      PROVE  Confirmed(t, k) = f.key
  <2>1. Deauth.kind # "4/4"
    BY DEF Deauth, Frame
  <2>2. {m \in t.out : m.kind = "4/4"} = {f}
    BY <1>2, <2>1
  <2> DEFINE h == CHOOSE m \in {f} : TRUE
  <2>3. h = f
    OBVIOUS
  <2>4. {f} # {}
    OBVIOUS
  <2> HIDE DEF h
  <2>5. Confirmed(t, k) = h.key
    BY <2>2, <2>4 DEF Confirmed, h
  <2> QED BY <2>3, <2>5
<1> QED BY <1>1, <1>2

(* wpa_supplicant_process_1_of_4                                            *)
LEMMA Process1of4Holds ==
  ASSUME NEW r, NEW s, NEW S, NEW l \in BOOLEAN, NEW k, NEW n,
         NEW g \in Nat, Typed(r, s, S, k, n, g),
         Holds(r, s, S, l, k, n, g), On(s),
         NEW m \in S, m.kind = "1/4", NEW t \in Process1of4(s, m)
  PROVE  Outcome(r, s, t, S, l, k, n, g)
<1> DEFINE v == s.snonce + (IF s.renew THEN 1 ELSE 0)
           p == [s EXCEPT !.state = "4WAY_HANDSHAKE", !.snonce = v,
                          !.renew = FALSE, !.tptk = <<m.nonce, v>>,
                          !.anonce = m.nonce]
           f == Frame("2/4", m.c, v, <<m.nonce, v>>, 0)
<1>1. s \in StaType /\ k \in KeyType
  BY DEF Typed
<1>2. v \in Nat /\ v > 0 /\ v = IF s.renew THEN s.snonce + 1 ELSE s.snonce
  <2>1. s.snonce \in Nat /\ k[2] \in Nat /\ (~s.renew => k[2] < s.snonce)
    BY <1>1, KeyFacts, HoldsParts DEF StaType, NoncesFit
  <2> QED BY <2>1
<1>3. m.nonce \in Nat /\ m.nonce > 0 /\ m.c \in Nat
  <2>1. m \in Downward(S) /\ From(m) = m.nonce
    BY KindFacts DEF From
  <2> QED BY <2>1, HoldsParts, FrameFacts DEF Caused
<1>4. t = [p EXCEPT !.out = {Frame("2/4", m.c, v, p.tptk, 0)}]
  BY DEF Process1of4, Reply
<1> HIDE DEF v
<1>5. <<m.nonce, v>> \in KeyType
  BY <1>2, <1>3 DEF KeyType, Keys
<1>6. "4WAY_HANDSHAKE" \in StaStates
  BY DEF StaStates
<1>7. p \in StaType /\ p.tptk = <<m.nonce, v>>
  BY <1>1, <1>2, <1>3, <1>5, <1>6 DEF StaType
<1>8. /\ f \in FrameType /\ f.kind = "2/4" /\ f.c = m.c /\ f.nonce = v
      /\ f.key = <<m.nonce, v>> /\ f.gtk = 0
  BY <1>2, <1>3, <1>5 DEF Frame, FrameType, Up
<1>9. t = [p EXCEPT !.out = {f}]
  BY <1>4, <1>7
<1>10. /\ p.state = "4WAY_HANDSHAKE" /\ p.due = s.due
       /\ p.pending = s.pending /\ p.ptk = s.ptk /\ p.key = s.key
       /\ p.gtk = s.gtk /\ p.rx = s.rx /\ ~p.renew /\ p.snonce = v
       /\ p.anonce = m.nonce
  BY <1>1 DEF StaType
<1> HIDE DEF p, f
<1>11. {f} \in SUBSET FrameType
  BY <1>8
<1>12. /\ t \in StaType /\ t.out = {f} /\ t.state = "4WAY_HANDSHAKE"
       /\ t.due = s.due
       /\ t.pending = s.pending /\ t.ptk = s.ptk /\ t.key = s.key
       /\ t.gtk = s.gtk /\ t.rx = s.rx /\ ~t.renew /\ t.snonce = v
       /\ t.anonce = m.nonce /\ t.tptk = <<m.nonce, v>>
  BY <1>7, <1>9, <1>10, <1>11 DEF StaType
<1>13. On(t)
  BY <1>12 DEF On
<1>14. Holds(r, t, S \cup {f}, l, k, n, g)
  BY <1>2, <1>8, <1>12, <1>13, CalledHolds
<1>15. S \cup (t.out \ {Deauth}) = S \cup {f} /\ Deauth \notin t.out
  BY <1>8, <1>12 DEF Deauth, Frame
<1>16. Confirmed(t, k) = k
  BY <1>8, <1>12, ConfirmedFacts
<1>17. t.gtk >= s.gtk
  BY <1>1, <1>12 DEF StaType
<1>18. /\ \A x \in t.out : x.kind # "error"
       /\ l /\ Deauth \notin t.out <=> l
  BY <1>8, <1>12, <1>15
<1>19. (l /\ Deauth \notin t.out) = l
  BY <1>15
<1> QED BY <1>1, <1>12, <1>14, <1>15, <1>16, <1>17, <1>18, <1>19
        DEF Outcome, Keeps
-----------------------------------------------------------------------------
(* wpa_supplicant_verify_eapol_key_mic: what a good MIC makes of s.         *)
Known(t, s, m) ==
  /\ t \in StaType /\ t.ptk = m.key /\ t.rx = m.c
  /\ t.tptk = IF m.key = s.tptk THEN NoKey ELSE s.tptk
  /\ t.due = s.due /\ t.pending = s.pending /\ t.anonce = s.anonce
  /\ t.snonce = s.snonce

Enters(s, m, x) == [Verify(s, m) EXCEPT !.state = x]

LEMMA VerifyFields ==
  ASSUME NEW s \in StaType, NEW m \in FrameType, Verified(s, m),
         NEW x \in StaStates, NEW t, t = Enters(s, m, x)
  PROVE  /\ Known(t, s, m) /\ t.state = x /\ t.key = s.key /\ t.gtk = s.gtk
         /\ t.renew = s.renew /\ t.out = s.out
<1>1. /\ m.c \in Nat /\ m.key \in KeyType /\ NoKey \in KeyType
      /\ m.key \in {s.tptk, s.ptk}
  BY DEF FrameType, Verified, KeyType
<1> DEFINE v == [s EXCEPT !.rx = m.c]
<1>2. /\ v \in StaType /\ v.tptk = s.tptk /\ v.ptk = s.ptk /\ v.rx = m.c
      /\ v.key = s.key /\ v.gtk = s.gtk /\ v.renew = s.renew
      /\ v.out = s.out /\ v.due = s.due /\ v.pending = s.pending
      /\ v.anonce = s.anonce /\ v.snonce = s.snonce
  BY <1>1 DEF StaType
<1>3. Verify(s, m) = IF m.key = s.tptk
                     THEN [v EXCEPT !.ptk = s.tptk, !.tptk = NoKey] ELSE v
  BY DEF Verify
<1> HIDE DEF v
<1>4. CASE m.key = s.tptk
  <2>1. t = [v EXCEPT !.ptk = m.key, !.tptk = NoKey, !.state = x]
    <3> DEFINE y == [v EXCEPT !.ptk = m.key, !.tptk = NoKey]
    <3>1. t = [y EXCEPT !.state = x]
      BY <1>3, <1>4 DEF Enters
    <3> QED BY <3>1, <1>2 DEF StaType
  <2>2. t \in StaType
    BY <2>1, <1>1, <1>2 DEF StaType
  <2> QED BY <2>1, <2>2, <1>2, <1>4 DEF StaType, Known
<1>5. CASE m.key # s.tptk
  <2>1. t = [v EXCEPT !.state = x]
    BY <1>3, <1>5 DEF Enters
  <2>2. t \in StaType
    BY <2>1, <1>2 DEF StaType
  <2> QED BY <2>1, <2>2, <1>1, <1>2, <1>5 DEF StaType, Known
<1> QED BY <1>4, <1>5

(* The station has accepted m and answered with f: p is what it becomes,    *)
(* unless the driver refuses a key.                                         *)
LEMMA AcceptOutcome ==
  ASSUME NEW r, NEW s, NEW S, NEW l \in BOOLEAN, NEW k, NEW n,
         NEW g \in Nat, Typed(r, s, S, k, n, g),
         Holds(r, s, S, l, k, n, g), On(s),
         NEW m \in Keyed(S), Verified(s, m), m.c > s.rx,
         NEW p, Known(p, s, m), On(p),
         p.gtk = IF m.gtk = 0 THEN s.gtk ELSE m.gtk,
         \/ m.kind = "3/4" /\ p.key = m.key /\ p.renew
         \/ m.kind = "1/2" /\ p.key = s.key /\ p.renew = s.renew,
         NEW f, f = Frame(IF m.kind = "3/4" THEN "4/4" ELSE "2/2", m.c, 0,
                          m.key, 0), p.out = {f}
  PROVE  /\ Outcome(r, s, p, S, l, k, n, g)
         /\ f \in FrameType /\ Holds(r, p, S \cup {f}, l, m.key, n, g)
         /\ Typed(r, p, S \cup {f}, m.key, n, g)
<1>1. /\ s \in StaType /\ k \in KeyType /\ m \in S /\ S \subseteq FrameType
      /\ r \in ApType /\ n \in Nat /\ g \in Nat \ {0}
      /\ m.key \in {s.tptk, s.ptk} \ {NoKey} /\ m.kind \in {"3/4", "1/2"}
  BY KindFacts DEF Typed, Verified
<1>2. m.c \in Nat /\ m.key \in KeyType
  BY <1>1, FrameFacts
<1>3. m.key \in Keys
  BY <1>1, <1>2 DEF KeyType
<1>4. /\ f \in FrameType /\ f.c = m.c /\ f.key = m.key /\ f.gtk = 0
      /\ f.kind = IF m.kind = "3/4" THEN "4/4" ELSE "2/2"
  BY <1>2 DEF Frame, FrameType, Up
<1>5. Holds(r, p, S \cup {f}, l, m.key, n, g) /\ p.gtk >= s.gtk
  BY <1>1, <1>4, AcceptHolds DEF Known
<1>6. Typed(r, p, S \cup {f}, m.key, n, g)
  BY <1>1, <1>2, <1>4 DEF Typed, Known
<1>7. /\ f.kind \notin {"error", "deauth"}
      /\ f.kind = "4/4" <=> m.kind = "3/4"
  BY <1>1, <1>4
<1>8. p.out \ {Deauth} = {f} /\ Deauth \notin p.out
  BY <1>7 DEF Deauth, Frame
<1>9. (l /\ Deauth \notin p.out) = l
  BY <1>8
<1>10. Confirmed(p, k) = m.key
  <2>1. CASE m.kind = "3/4"
    <3>1. f \in p.out /\ p.out \subseteq {f, Deauth} /\ f.kind = "4/4"
      BY <2>1, <1>7
    <3> QED BY <3>1, <1>4, ConfirmedFacts
  <2>2. CASE m.kind # "3/4"
    <3>1. m.key = k
      BY <2>2, <1>1, AcceptedKey
    <3> QED BY <3>1, <2>2, <1>7, ConfirmedFacts
  <2> QED BY <2>1, <2>2
<1>11. Keeps(s, p, k, m.key)
  <2>1. CASE m.kind = "3/4"
    BY <2>1, <1>3 DEF Keeps
  <2>2. CASE m.kind # "3/4"
    <3>1. m.key = k
      BY <2>2, <1>1, AcceptedKey
    <3> QED BY <3>1, <2>2 DEF Keeps
  <2> QED BY <2>1, <2>2
<1>12. \A x \in p.out : x.kind # "error"
  BY <1>7
<1> QED BY <1>2, <1>4, <1>5, <1>6, <1>8, <1>9, <1>10, <1>11, <1>12
        DEF Outcome, Known
-----------------------------------------------------------------------------
(* The station gives up after a frame that it has accepted, w: it sends no  *)
(* answer; or, after the answer f, as p would have.                         *)
LEMMA LeavesOutcome ==
  ASSUME NEW r, NEW s, NEW S, NEW l \in BOOLEAN, NEW k, NEW n,
         NEW g \in Nat, Typed(r, s, S, k, n, g),
         Holds(r, s, S, l, k, n, g),
         NEW w \in StaType, w.out = {}, w.snonce = s.snonce,
         w.renew = s.renew, w.pending = s.pending, NEW t, t = Leaves(w)
  PROVE  Outcome(r, s, t, S, l, k, n, g)
<1>1. Holds(r, t, S, FALSE, k, n, g)
  BY LeavesHolds
<1>2. t \in StaType /\ Blank(t) /\ ~On(t) /\ t.out = {Deauth}
  BY OffFields
<1>3. /\ S \cup (t.out \ {Deauth}) = S
      /\ (l /\ Deauth \notin t.out) = FALSE
      /\ \A f \in t.out : f.kind # "error" /\ f.kind # "4/4"
  BY <1>2 DEF Deauth, Frame
<1>4. Confirmed(t, k) = k
  BY <1>3, ConfirmedFacts
<1>5. k \in KeyType
  BY DEF Typed
<1> QED BY <1>1, <1>2, <1>3, <1>4, <1>5 DEF Outcome, Keeps, Blank

LEMMA LeavesAnsweredOutcome ==
  ASSUME NEW r, NEW s, NEW S, NEW l \in BOOLEAN, NEW k, NEW n,
         NEW g \in Nat, NEW f \in FrameType, f.kind = "4/4", f.key \in Keys,
         NEW p, Typed(r, p, S \cup {f}, f.key, n, g),
         Holds(r, p, S \cup {f}, l, f.key, n, g),
         NEW w \in StaType, w.out = {f}, w.snonce = p.snonce,
         w.renew = p.renew, w.pending = p.pending, NEW t, t = Leaves(w)
  PROVE  Outcome(r, s, t, S, l, k, n, g)
<1> DEFINE j == f.key
           T == S \cup {f}
<1>1. Typed(r, p, T, j, n, g) /\ Holds(r, p, T, l, j, n, g) /\ j = f.key
  OBVIOUS
<1>2. Deauth.kind = "deauth" /\ f # Deauth
  BY DEF Deauth, Frame
<1>3. t \in StaType /\ Blank(t) /\ ~On(t) /\ t.out = {f, Deauth}
  BY OffFields
<1>4. /\ S \cup (t.out \ {Deauth}) = T
      /\ (l /\ Deauth \notin t.out) = FALSE
      /\ \A x \in t.out : x.kind # "error"
  BY <1>2, <1>3
<1>5. Confirmed(t, k) = j
  BY <1>3, ConfirmedFacts
<1> HIDE DEF T, j
<1>6. Holds(r, t, T, FALSE, j, n, g)
  BY <1>1, LeavesHolds
<1>7. j \in KeyType /\ j \in Keys
  BY <1>1 DEF KeyType
<1> QED BY <1>3, <1>4, <1>5, <1>6, <1>7 DEF Outcome, Keeps, Blank

(* wpa_supplicant_process_3_of_4                                            *)
LEMMA Process3of4Holds ==
  ASSUME NEW r, NEW s, NEW S, NEW l \in BOOLEAN, NEW k, NEW n,
         NEW g \in Nat, Typed(r, s, S, k, n, g),
         Holds(r, s, S, l, k, n, g), On(s), s.out = {},
         NEW m \in Keyed(S), m.kind = "3/4", Verified(s, m), m.c > s.rx,
         NEW t \in Process3of4(s, m)
  PROVE  Outcome(r, s, t, S, l, k, n, g)
<1> DEFINE w == Enters(s, m, "4WAY_HANDSHAKE")
           f == Frame("4/4", m.c, 0, m.key, 0)
           u == [[w EXCEPT !.out = {f}] EXCEPT !.renew = TRUE]
           q == [u EXCEPT !.state = "GROUP_HANDSHAKE", !.key = m.key]
           p == IF m.gtk = 0 THEN q ELSE Complete([q EXCEPT !.gtk = m.gtk])
<1>1. /\ s \in StaType /\ m \in S /\ m \in FrameType
      /\ m.key \in {s.tptk, s.ptk} \ {NoKey}
      /\ {"4WAY_HANDSHAKE", "GROUP_HANDSHAKE", "COMPLETED"} \subseteq StaStates
  BY KindFacts DEF Typed, Verified, StaStates
<1>2. m.c \in Nat /\ m.key \in KeyType /\ m.gtk \in Nat
  BY <1>1 DEF FrameType
<1>3. /\ Known(w, s, m) /\ w.key = s.key /\ w.gtk = s.gtk
      /\ w.renew = s.renew /\ w.out = {}
  <2>1. "4WAY_HANDSHAKE" \in StaStates
    BY <1>1
  <2> QED BY <2>1, <1>1, VerifyFields
<1>4. f \in FrameType /\ f.kind = "4/4" /\ f.key = m.key /\ f.key \in Keys
  BY <1>1, <1>2 DEF Frame, FrameType, Up, KeyType
<1>5. \/ t = Leaves(w)
      \/ t = p
      \/ t = Leaves(u)
  BY <1>3 DEF Process3of4, Reply, Known, Enters
<1> HIDE DEF w
<1>6. w \in StaType
  BY <1>3 DEF Known
<1>7. f = Frame("4/4", m.c, 0, m.key, 0)
  OBVIOUS
<1> HIDE DEF f
<1>8. {f} \in SUBSET FrameType
  BY <1>4
<1>9. /\ Known(u, s, m) /\ u.key = s.key /\ u.gtk = s.gtk
      /\ u.renew /\ u.out = {f}
  <2>1. u \in StaType
    BY <1>6, <1>8 DEF StaType
  <2> QED BY <2>1, <1>3, <1>6 DEF StaType, Known
<1> HIDE DEF u
<1>10. /\ Known(q, s, m) /\ q.key = m.key /\ q.gtk = s.gtk
       /\ q.renew /\ q.out = {f} /\ q.state = "GROUP_HANDSHAKE"
  <2>1. u \in StaType
    BY <1>9 DEF Known
  <2>2. q \in StaType
    BY <2>1, <1>1, <1>2 DEF StaType
  <2> QED BY <2>1, <2>2, <1>9 DEF StaType, Known
<1> HIDE DEF q
<1>11. /\ Known(p, s, m) /\ p.key = m.key /\ p.renew /\ p.out = {f} /\ On(p)
       /\ p.gtk = IF m.gtk = 0 THEN s.gtk ELSE m.gtk
  <2>1. q \in StaType
    BY <1>10 DEF Known
  <2>2. CASE m.gtk = 0
    BY <2>2, <1>10 DEF On
  <2>3. CASE m.gtk # 0
    <3>1. p = [[q EXCEPT !.gtk = m.gtk]
                 EXCEPT !.state = "COMPLETED", !.timer = FALSE]
      BY <2>3 DEF Complete
    <3>2. p \in StaType
      BY <3>1, <2>1, <1>1, <1>2 DEF StaType
    <3> HIDE DEF p
    <3> QED BY <3>1, <3>2, <2>1, <2>3, <1>10 DEF StaType, Known, On
  <2> QED BY <2>2, <2>3
<1> HIDE DEF p
<1>12. /\ Outcome(r, s, p, S, l, k, n, g)
       /\ Holds(r, p, S \cup {f}, l, m.key, n, g)
       /\ Typed(r, p, S \cup {f}, m.key, n, g)
  <2>1. f = Frame(IF m.kind = "3/4" THEN "4/4" ELSE "2/2", m.c, 0, m.key, 0)
    BY <1>7
  <2> QED BY <2>1, <1>11, AcceptOutcome
<1>13. CASE t = Leaves(w)
  BY <1>13, <1>3, <1>6, LeavesOutcome DEF Known
<1>14. CASE t = p
  BY <1>12, <1>14
<1>15. CASE t = Leaves(u)
  <2>1. /\ u \in StaType /\ u.out = {f} /\ u.snonce = p.snonce
        /\ u.renew = p.renew /\ u.pending = p.pending
    BY <1>9, <1>11 DEF Known, StaType
  <2>2. /\ Holds(r, p, S \cup {f}, l, f.key, n, g)
        /\ Typed(r, p, S \cup {f}, f.key, n, g)
    BY <1>4, <1>12
  <2> QED BY <2>1, <2>2, <1>4, <1>15, LeavesAnsweredOutcome
<1> QED BY <1>5, <1>13, <1>14, <1>15

(* wpa_supplicant_process_1_of_2                                            *)
LEMMA Process1of2Holds ==
  ASSUME NEW r, NEW s, NEW S, NEW l \in BOOLEAN, NEW k, NEW n,
         NEW g \in Nat, Typed(r, s, S, k, n, g),
         Holds(r, s, S, l, k, n, g), On(s), s.out = {},
         NEW m \in Keyed(S), m.kind = "1/2", Verified(s, m), m.c > s.rx,
         NEW t \in Process1of2(s, m)
  PROVE  Outcome(r, s, t, S, l, k, n, g)
<1> DEFINE w == Enters(s, m, "GROUP_HANDSHAKE")
           f == Frame("2/2", m.c, 0, m.key, 0)
           q == [w EXCEPT !.gtk = m.gtk]
           u == [q EXCEPT !.out = {f}]
           p == Complete(u)
<1>1. /\ s \in StaType /\ m \in S /\ m \in FrameType
      /\ m.key \in {s.tptk, s.ptk} \ {NoKey}
      /\ "GROUP_HANDSHAKE" \in StaStates /\ "COMPLETED" \in StaStates
  BY KindFacts DEF Typed, Verified, StaStates
<1>2. m.c \in Nat /\ m.key \in KeyType /\ m.gtk \in Nat /\ m.gtk # 0
  BY <1>1, HoldsParts DEF FrameType, Caused
<1>3. /\ Known(w, s, m) /\ w.key = s.key /\ w.gtk = s.gtk
      /\ w.renew = s.renew /\ w.out = {}
  BY <1>1, VerifyFields
<1>4. f \in FrameType
  BY <1>1, <1>2 DEF Frame, FrameType, Up, KeyType
<1>5. q.ptk = m.key
  BY <1>2, <1>3 DEF Known, StaType
<1>6. t = p \/ t = Leaves(w)
  BY <1>5 DEF Process1of2, Reply, Enters
<1> HIDE DEF w
<1>7. w \in StaType
  BY <1>3 DEF Known
<1>8. f = Frame("2/2", m.c, 0, m.key, 0)
  OBVIOUS
<1> HIDE DEF f
<1>9. {f} \in SUBSET FrameType
  BY <1>4
<1>10. /\ Known(p, s, m) /\ p.key = s.key /\ p.renew = s.renew
       /\ p.out = {f} /\ On(p) /\ p.gtk = m.gtk
  <2>1. q \in StaType /\ Known(q, s, m) /\ q.key = s.key
        /\ q.renew = s.renew /\ q.gtk = m.gtk
    <3>1. q \in StaType
      BY <1>2, <1>7 DEF StaType
    <3> QED BY <3>1, <1>2, <1>3, <1>7 DEF StaType, Known
  <2> HIDE DEF q
  <2>2. u \in StaType /\ Known(u, s, m) /\ u.key = s.key
        /\ u.renew = s.renew /\ u.gtk = m.gtk /\ u.out = {f}
    <3>1. u \in StaType
      BY <1>9, <2>1 DEF StaType
    <3> QED BY <3>1, <2>1 DEF StaType, Known
  <2> HIDE DEF u
  <2>3. p = [u EXCEPT !.state = "COMPLETED", !.timer = FALSE]
    BY DEF Complete
  <2>4. p \in StaType
    BY <2>2, <2>3, <1>1 DEF StaType
  <2> HIDE DEF p
  <2> QED BY <2>2, <2>3, <2>4 DEF StaType, Known, On
<1> HIDE DEF p
<1>11. Outcome(r, s, p, S, l, k, n, g)
  <2>1. f = Frame(IF m.kind = "3/4" THEN "4/4" ELSE "2/2", m.c, 0, m.key, 0)
    BY <1>8
  <2> QED BY ZenonT(60), <2>1, <1>2, <1>10, AcceptOutcome
<1>12. CASE t = Leaves(w)
  BY <1>12, <1>3, <1>7, LeavesOutcome DEF Known
<1> QED BY <1>6, <1>11, <1>12

(* wpa_sm_rx_eapol                                                          *)
LEMMA SameOutcome ==
  ASSUME NEW r, NEW s, NEW S, NEW l \in BOOLEAN, NEW k, NEW n,
         NEW g \in Nat, Typed(r, s, S, k, n, g),
         Holds(r, s, S, l, k, n, g), s.out = {}
  PROVE  Outcome(r, s, s, S, l, k, n, g)
<1>1. /\ S \cup (s.out \ {Deauth}) = S /\ Deauth \notin s.out
      /\ (l /\ Deauth \notin s.out) = l
  OBVIOUS
<1>2. Confirmed(s, k) = k
  BY ConfirmedFacts
<1>3. s \in StaType /\ k \in KeyType /\ s.gtk \in Nat /\ s.gtk >= s.gtk
  BY DEF Typed, StaType
<1> QED BY <1>1, <1>2, <1>3 DEF Outcome, Keeps

LEMMA ProcessedHolds ==
  ASSUME NEW r, NEW s, NEW S, NEW l \in BOOLEAN, NEW k, NEW n,
         NEW g \in Nat, Typed(r, s, S, k, n, g),
         Holds(r, s, S, l, k, n, g), On(s), s.out = {},
         NEW m \in S, NEW t \in Processed(s, m)
  PROVE  Outcome(r, s, t, S, l, k, n, g)
<1>1. \/ m.kind = "1/4" /\ t \in Process1of4(s, m)
      \/ m.c > s.rx /\ m.kind = "3/4" /\ Verified(s, m)
           /\ t \in Process3of4(s, m)
      \/ m.c > s.rx /\ m.kind = "1/2" /\ Verified(s, m)
           /\ t \in Process1of2(s, m)
      \/ t = s
  BY DEF Processed
<1>2. m.kind \in {"3/4", "1/2"} => m \in Keyed(S)
  BY KindFacts
<1> QED BY <1>1, <1>2, Process1of4Holds, Process3of4Holds, Process1of2Holds,
           SameOutcome
-----------------------------------------------------------------------------
(* What a step of the station does, and may not do, whatever it is.         *)
StaForward ==
  /\ ap' = ap /\ Keeps(sta, sta', confirmed, confirmed')
  /\ On(sta) /\ On(sta') => sta'.gtk >= sta.gtk

LEMMA StaNext ==
  ASSUME HInv, UNCHANGED <<limit, rsn, gtk, ap>>,
         assoc' \in 0 .. limit.assocs, sta' \in StaType, sta'.out = {},
         confirmed' \in KeyType, link' \in BOOLEAN, mic' \in MicType,
         Holds(ap, sta', air', link', confirmed', assoc', gtk),
         CountFits(Unheard(ap, air'), gtk, mic'.count), NoneServed'
  PROVE  HInv'
<1>1. World'
  BY InvParts DEF World, MicType
<1> QED BY <1>1, InvParts, NextInv

(* The invariant does not depend on the frames to be sent, nor on the       *)
(* number of requests and the timer.                                        *)
LEMMA SameStaHolds ==
  ASSUME NEW t, NEW u, u.state = t.state, u.due = t.due,
         u.pending = t.pending, u.ptk = t.ptk, u.tptk = t.tptk,
         u.key = t.key, u.gtk = t.gtk, u.anonce = t.anonce,
         u.snonce = t.snonce, u.renew = t.renew, u.rx = t.rx
  PROVE  /\ On(u) <=> On(t)
         /\ \A r, S, l, k, n, g :
              Holds(r, t, S, l, k, n, g) => Holds(r, u, S, l, k, n, g)
<1>1. On(u) <=> On(t)
  BY DEF On
<1>2. ASSUME NEW r, NEW S, NEW l, NEW k, NEW n, NEW g,
             Holds(r, t, S, l, k, n, g)
      PROVE  Holds(r, u, S, l, k, n, g)
  <2>1. LinkFits(r, u, l, k, n)
    BY <1>1, <1>2, HoldsParts DEF LinkFits
  <2>2. NoncesFit(r, u, S, k) /\ ConfirmedFits(u, S, k)
    BY <1>2, HoldsParts DEF NoncesFit, ConfirmedFits
  <2>3. OffFits(u, S, l, k, n)
    <3>1. OffFits(t, S, l, k, n)
      BY <1>2, HoldsParts
    <3> QED BY <3>1, <1>1 DEF OffFits
  <2>4. GtkFits(u, S, g)
    <3>1. \A m : Ahead(u, m) <=> Ahead(t, m)
      BY DEF Ahead
    <3> QED BY <3>1, <1>2, HoldsParts DEF GtkFits
  <2> QED BY <2>1, <2>2, <2>3, <2>4, <1>2, HoldsParts DEF Holds
<1> QED BY <1>1, <1>2

LEMMA StaCleared ==
  ASSUME NEW t \in StaType, NEW u, u = [t EXCEPT !.out = {}]
  PROVE  /\ u \in StaType /\ u.out = {} /\ u.key = t.key /\ u.gtk = t.gtk
         /\ On(u) <=> On(t)
         /\ \A r, S, l, k, n, g :
              Holds(r, t, S, l, k, n, g) => Holds(r, u, S, l, k, n, g)
<1>1. /\ u \in StaType /\ u.out = {} /\ u.state = t.state /\ u.due = t.due
      /\ u.pending = t.pending /\ u.ptk = t.ptk /\ u.tptk = t.tptk
      /\ u.key = t.key /\ u.gtk = t.gtk /\ u.anonce = t.anonce
      /\ u.snonce = t.snonce /\ u.renew = t.renew /\ u.rx = t.rx
  BY DEF StaType
<1> QED BY <1>1, SameStaHolds

LEMMA StaBecomesHolds ==
  ASSUME HInv, UNCHANGED <<limit, rsn, assoc, gtk, ap>>,
         mic' \in MicType, mic'.on = mic.on,
         NEW s, s.key = sta.key, On(sta) => s.gtk >= sta.gtk /\ s.gtk \in Nat,
         NEW t \in StaType, StaBecomes(t),
         Holds(ap, t, air \cup (t.out \ {Deauth}),
               link /\ Deauth \notin t.out, Confirmed(t, confirmed), assoc,
               gtk),
         Confirmed(t, confirmed) \in KeyType,
         Keeps(s, t, confirmed, Confirmed(t, confirmed)),
         On(t) => t.gtk >= s.gtk,
         CountFits(Unheard(ap, air \cup (t.out \ {Deauth})), gtk, mic'.count)
  PROVE  HInv' /\ StaForward
<1>1. /\ sta' = [t EXCEPT !.out = {}]
      /\ air' = air \cup (t.out \ {Deauth})
      /\ link' = (link /\ Deauth \notin t.out)
      /\ confirmed' = Confirmed(t, confirmed)
  BY DEF StaBecomes, Confirmed
<1>2. /\ sta' \in StaType /\ sta'.out = {} /\ sta'.key = t.key
      /\ sta'.gtk = t.gtk /\ (On(sta') <=> On(t))
      /\ Holds(ap, sta', air', link', confirmed', assoc, gtk)
  BY <1>1, StaCleared
<1>3. link' \in BOOLEAN /\ (link' => link)
  BY <1>1, InvParts
<1>4. assoc' \in 0 .. limit.assocs
  BY InvParts DEF World
<1>5. NoneServed'
  BY <1>3, InvParts DEF NoneServed
<1>6. HInv'
  BY <1>1, <1>2, <1>3, <1>4, <1>5, StaNext
<1>7. On(sta) /\ On(sta') => sta'.gtk >= sta.gtk
  <2>1. sta.gtk \in Nat /\ t.gtk \in Nat
    BY InvParts DEF StaType
  <2> QED BY <2>1, <1>2
<1>8. Keeps(sta, sta', confirmed, confirmed')
  BY <1>1, <1>2 DEF Keeps
<1> QED BY <1>6, <1>7, <1>8 DEF StaForward

LEMMA OutcomeHolds ==
  ASSUME HInv, UNCHANGED <<limit, rsn, assoc, gtk, ap, mic>>,
         NEW s, s.key = sta.key, On(sta) => s.gtk >= sta.gtk /\ s.gtk \in Nat,
         NEW t, StaBecomes(t),
         Outcome(ap, s, t, air, link, confirmed, assoc, gtk)
  PROVE  HInv' /\ StaForward
<1> DEFINE S == air \cup (t.out \ {Deauth})
<1>1. Unheard(ap, S) = Unheard(ap, air)
  BY DEF Outcome, Unheard
<1>2. CountFits(Unheard(ap, S), gtk, mic'.count)
  BY <1>1, InvParts
<1> HIDE DEF S
<1> QED BY <1>2, InvParts, StaBecomesHolds DEF Outcome, S
-----------------------------------------------------------------------------
(* The station begins a step from s, a record without keys, or is as it is. *)
LEMMA BlankOutcome ==
  ASSUME HInv, UNCHANGED <<limit, rsn, assoc, gtk, ap, mic>>,
         ~On(sta), NEW s \in StaType, Blank(s), s.out = {},
         s.snonce = sta.snonce, sta.renew => s.renew, s.due => ~On(s),
         s.pending \subseteq Downward(air)
  PROVE  /\ Holds(ap, s, air, link, confirmed, assoc, gtk)
         /\ Typed(ap, s, air, confirmed, assoc, gtk)
         /\ s.key = sta.key
         /\ \A t : StaBecomes(t)
                     /\ Outcome(ap, s, t, air, link, confirmed, assoc, gtk)
                     => HInv' /\ StaForward
<1>1. link \in BOOLEAN /\ gtk \in Nat /\ (link => link /\ ~On(sta))
  BY InvParts
<1>2. Holds(ap, s, air, link, confirmed, assoc, gtk)
  BY <1>1, InvParts, BlankHolds
<1>3. Typed(ap, s, air, confirmed, assoc, gtk)
  BY InvParts DEF Typed
<1>4. s.key = sta.key
  <2>1. OffFits(sta, air, link, confirmed, assoc)
    BY InvParts, HoldsParts
  <2> QED BY <2>1 DEF OffFits, Blank
<1>5. On(sta) => s.gtk >= sta.gtk /\ s.gtk \in Nat
  OBVIOUS
<1> QED BY <1>2, <1>3, <1>4, <1>5, OutcomeHolds

(* wpa_supplicant_rx_eapol                                                  *)
LEMMA StaReceivesHolds ==
  ASSUME HInv, NEW m \in air, StaReceives(m)
  PROVE  HInv' /\ StaForward
<1>1. /\ UNCHANGED <<limit, rsn, assoc, gtk, ap, mic>> /\ m.kind \in Down
      /\ \/ On(sta) /\ \E t \in Processed(sta, m) : StaBecomes(t)
         \/ ~On(sta) /\ StaBecomes([sta EXCEPT !.pending = {m}])
  BY DEF StaReceives
<1>2. sta.gtk \in Nat /\ sta.gtk >= sta.gtk
  BY InvParts DEF StaType
<1>3. CASE On(sta)
  <2>1. PICK t \in Processed(sta, m) : StaBecomes(t)
    BY <1>1, <1>3
  <2>2. Outcome(ap, sta, t, air, link, confirmed, assoc, gtk)
    BY <1>3, InvParts, ProcessedHolds
  <2> QED BY <1>1, <1>2, <2>1, <2>2, OutcomeHolds
<1>4. CASE ~On(sta)
  <2> DEFINE t == [sta EXCEPT !.pending = {m}]
  <2>1. {m} \in SUBSET FrameType /\ {m} \subseteq Downward(air)
    BY <1>1, InvParts DEF Downward
  <2>2. StaBecomes(t)
    BY <1>1, <1>4
  <2>3. t \in StaType
    BY <2>1, InvParts DEF StaType
  <2>4. /\ t.state = sta.state /\ t.due = sta.due /\ t.pending = {m}
        /\ t.ptk = sta.ptk /\ t.tptk = sta.tptk /\ t.key = sta.key
        /\ t.gtk = sta.gtk /\ t.rx = sta.rx /\ t.snonce = sta.snonce
        /\ t.renew = sta.renew /\ t.out = {}
    BY InvParts DEF StaType
  <2> HIDE DEF t
  <2>5. Blank(t) /\ ~On(t)
    <3>1. OffFits(sta, air, link, confirmed, assoc)
      BY InvParts, HoldsParts
    <3> QED BY <3>1, <2>4, <1>4 DEF OffFits, Blank, On
  <2>6. /\ Holds(ap, t, air, link, confirmed, assoc, gtk)
        /\ Typed(ap, t, air, confirmed, assoc, gtk)
        /\ \A u : StaBecomes(u)
                    /\ Outcome(ap, t, u, air, link, confirmed, assoc, gtk)
                    => HInv' /\ StaForward
    BY <1>1, <1>4, <2>1, <2>3, <2>4, <2>5, BlankOutcome
  <2>7. Outcome(ap, t, t, air, link, confirmed, assoc, gtk)
    BY <2>4, <2>6, InvParts, SameOutcome
  <2> QED BY <2>2, <2>6, <2>7
<1> QED BY <1>3, <1>4

(* wpa_supplicant_event_assoc                                               *)
LEMMA StaAssociatedHolds ==
  ASSUME HInv, StaAssociated
  PROVE  HInv' /\ StaForward
<1> DEFINE s == NotifyAssoc(sta)
<1>1. /\ UNCHANGED <<limit, rsn, assoc, gtk, ap, mic>> /\ sta.due
      /\ \/ StaBecomes(s)
         \/ \E m \in sta.pending : \E t \in Processed(s, m) : StaBecomes(t)
  BY DEF StaAssociated
<1>2. OffFits(sta, air, link, confirmed, assoc)
  BY InvParts, HoldsParts
<1>3. ~On(sta) /\ sta.pending \subseteq air
  BY <1>1, <1>2 DEF OffFits, Downward
<1>4. "ASSOCIATED" \in StaStates /\ NoKey \in KeyType
  BY DEF StaStates, KeyType
<1>5. s \in StaType
  BY <1>4, InvParts DEF StaType, NotifyAssoc
<1>6. /\ s.state = "ASSOCIATED" /\ ~s.due /\ s.pending = {} /\ s.renew
      /\ s.ptk = NoKey /\ s.tptk = NoKey /\ s.rx = 0 /\ s.key = sta.key
      /\ s.gtk = sta.gtk /\ s.snonce = sta.snonce /\ s.out = {}
  BY InvParts DEF StaType, NotifyAssoc
<1> HIDE DEF s
<1>7. Blank(s) /\ On(s)
  BY <1>2, <1>3, <1>6 DEF OffFits, Blank, On
<1>8. /\ Holds(ap, s, air, link, confirmed, assoc, gtk)
      /\ Typed(ap, s, air, confirmed, assoc, gtk)
      /\ \A t : StaBecomes(t)
                  /\ Outcome(ap, s, t, air, link, confirmed, assoc, gtk)
                  => HInv' /\ StaForward
  BY <1>1, <1>3, <1>5, <1>6, <1>7, BlankOutcome
<1>9. Outcome(ap, s, s, air, link, confirmed, assoc, gtk)
  BY <1>6, <1>8, InvParts, SameOutcome
<1>10. \A m \in air : \A t \in Processed(s, m) :
         Outcome(ap, s, t, air, link, confirmed, assoc, gtk)
  BY <1>6, <1>7, <1>8, InvParts, ProcessedHolds
<1> QED BY <1>1, <1>3, <1>8, <1>9, <1>10

(* wpa_supplicant_event_disassoc                                            *)
LEMMA StaDisassociatedHolds ==
  ASSUME HInv, StaDisassociated
  PROVE  HInv' /\ StaForward
<1> DEFINE t == [Off(sta) EXCEPT !.timer = sta.timer]
<1>1. /\ UNCHANGED <<limit, rsn, assoc, link, gtk, ap, mic, air, confirmed>>
      /\ (link => link /\ ~On(sta)) /\ sta' = t
  BY DEF StaDisassociated, On
<1> DEFINE u == Off(sta)
<1>2. /\ u \in StaType /\ Blank(u) /\ ~On(u) /\ u.out = {}
      /\ u.snonce = sta.snonce /\ u.renew = sta.renew
      /\ u.pending = sta.pending
  BY InvParts, OffFields
<1>3. t = [u EXCEPT !.timer = sta.timer]
  OBVIOUS
<1> HIDE DEF u, t
<1>4. sta.timer \in BOOLEAN
  BY InvParts DEF StaType
<1>5. t \in StaType
  BY <1>2, <1>3, <1>4 DEF StaType
<1>6. /\ t.state = u.state /\ t.ptk = u.ptk /\ t.tptk = u.tptk
      /\ t.key = u.key /\ t.gtk = u.gtk /\ t.rx = u.rx
      /\ t.snonce = u.snonce /\ t.renew = u.renew /\ t.pending = u.pending
      /\ t.out = u.out
  BY <1>2, <1>3 DEF StaType
<1>7. Blank(t) /\ ~On(t)
  BY <1>2, <1>6 DEF Blank, On
<1>8. sta.pending \subseteq Downward(air)
  BY InvParts, HoldsParts DEF OffFits
<1>9. Holds(ap, t, air, link, confirmed, assoc, gtk)
  BY <1>1, <1>2, <1>5, <1>6, <1>7, <1>8, InvParts, BlankHolds
<1>10. /\ assoc' \in 0 .. limit.assocs /\ NoneServed' /\ mic' \in MicType
       /\ link' \in BOOLEAN /\ confirmed' \in KeyType
       /\ CountFits(Unheard(ap, air'), gtk, mic'.count)
  BY <1>1, InvParts DEF World, NoneServed
<1>11. HInv'
  BY <1>1, <1>2, <1>5, <1>6, <1>9, <1>10, StaNext
<1>12. StaForward
  BY <1>1, <1>7 DEF StaForward, Keeps, Blank
<1> QED BY <1>11, <1>12

(* wpa_supplicant_timeout                                                   *)
LEMMA StaTimeoutHolds ==
  ASSUME HInv, StaTimeout
  PROVE  HInv' /\ StaForward
<1>1. UNCHANGED <<limit, rsn, assoc, gtk, ap, mic>>
  BY DEF StaTimeout
<1>2. PICK t \in {Off(sta), Leaves(sta)} :
        /\ On(sta) => t = Leaves(sta)
        /\ StaBecomes(t)
  BY DEF StaTimeout
<1>3. sta \in StaType /\ sta.out = {} /\ sta.gtk \in Nat
  BY InvParts DEF StaType
<1>4. CASE t = Leaves(sta)
  <2>1. Outcome(ap, sta, t, air, link, confirmed, assoc, gtk)
    BY <1>3, <1>4, InvParts, LeavesOutcome
  <2>2. sta.gtk >= sta.gtk
    BY <1>3
  <2> QED BY <1>1, <1>2, <1>3, <2>1, <2>2, OutcomeHolds
<1>5. CASE t = Off(sta) /\ ~On(sta)
  <2>1. /\ t \in StaType /\ Blank(t) /\ ~On(t) /\ t.out = {}
        /\ t.snonce = sta.snonce /\ t.renew = sta.renew
        /\ t.pending = sta.pending
    BY <1>3, <1>5, OffFields
  <2>2. sta.pending \subseteq Downward(air)
    BY InvParts, HoldsParts DEF OffFits
  <2>3. /\ Holds(ap, t, air, link, confirmed, assoc, gtk)
        /\ Typed(ap, t, air, confirmed, assoc, gtk)
        /\ \A u : StaBecomes(u)
                    /\ Outcome(ap, t, u, air, link, confirmed, assoc, gtk)
                    => HInv' /\ StaForward
    BY <1>1, <1>5, <2>1, <2>2, BlankOutcome
  <2>4. Outcome(ap, t, t, air, link, confirmed, assoc, gtk)
    BY <2>1, <2>3, InvParts, SameOutcome
  <2> QED BY <1>2, <2>3, <2>4
<1> QED BY <1>2, <1>4, <1>5
-----------------------------------------------------------------------------
(* wpa_sm_key_request                                                       *)
LEMMA KeyRequestFields ==
  ASSUME HInv, sta.ptk # NoKey, NEW kind \in {"request", "error"},
         NEW f, f = Frame(kind, sta.requests + 1, 0, sta.ptk, 0),
         NEW t, t = KeyRequest(sta, kind)
  PROVE  /\ t \in StaType /\ t.out = {f} /\ f \in FrameType /\ f.kind = kind
         /\ f.kind \notin {"4/4", "deauth"} /\ f # Deauth
         /\ t.key = sta.key /\ t.gtk = sta.gtk /\ t.snonce = sta.snonce
         /\ t.renew = sta.renew /\ t.pending = sta.pending
         /\ Holds(ap, sta, air \cup {f}, link, confirmed, assoc, gtk)
         /\ Holds(ap, t, air \cup {f}, link, confirmed, assoc, gtk)
<1>1. sta \in StaType /\ sta.requests + 1 \in Nat /\ sta.ptk \in KeyType
  BY InvParts DEF StaType
<1>2. /\ f \in FrameType /\ f.kind = kind /\ f.key = sta.ptk /\ f.gtk = 0
      /\ f.kind \notin {"4/4", "deauth"} /\ f # Deauth
  BY <1>1 DEF Frame, FrameType, Up, Deauth
<1>3. t = [[sta EXCEPT !.requests = @ + 1] EXCEPT !.out = {f}]
  BY DEF KeyRequest
<1>4. {f} \in SUBSET FrameType
  BY <1>2
<1>5. t \in StaType
  BY <1>1, <1>3, <1>4 DEF StaType
<1>6. /\ t.state = sta.state /\ t.due = sta.due /\ t.pending = sta.pending
      /\ t.ptk = sta.ptk /\ t.tptk = sta.tptk /\ t.key = sta.key
      /\ t.gtk = sta.gtk /\ t.anonce = sta.anonce /\ t.snonce = sta.snonce
      /\ t.renew = sta.renew /\ t.rx = sta.rx /\ t.out = {f}
  BY <1>1, <1>3 DEF StaType
<1>7. Holds(ap, sta, air \cup {f}, link, confirmed, assoc, gtk)
  BY <1>2, InvParts, RequestHolds
<1>8. Holds(ap, t, air \cup {f}, link, confirmed, assoc, gtk)
  BY <1>6, <1>7, SameStaHolds
<1> QED BY <1>2, <1>5, <1>6, <1>7, <1>8

(* The timer of wpa_sm_key_request                                          *)
LEMMA StaRequestsHolds ==
  ASSUME HInv, StaRequests
  PROVE  HInv' /\ StaForward
<1> DEFINE t == KeyRequest(sta, "request")
           f == Frame("request", sta.requests + 1, 0, sta.ptk, 0)
<1>1. /\ UNCHANGED <<limit, rsn, assoc, gtk, ap, mic>> /\ sta.ptk # NoKey
      /\ StaBecomes(t)
  BY DEF StaRequests
<1>2. /\ t \in StaType /\ t.out = {f} /\ f \in FrameType
      /\ f.kind = "request" /\ f # Deauth
      /\ t.key = sta.key /\ t.gtk = sta.gtk
      /\ Holds(ap, t, air \cup {f}, link, confirmed, assoc, gtk)
  BY <1>1, KeyRequestFields
<1> HIDE DEF t, f
<1>3. /\ air \cup (t.out \ {Deauth}) = air \cup {f}
      /\ (link /\ Deauth \notin t.out) = link
  BY <1>2, InvParts
<1>4. Confirmed(t, confirmed) = confirmed
  BY <1>2, ConfirmedFacts
<1>5. Unheard(ap, air \cup {f}) = Unheard(ap, air)
  BY <1>2 DEF Unheard
<1>6. sta.gtk \in Nat /\ sta.gtk >= sta.gtk
  BY InvParts DEF StaType
<1>7. Keeps(sta, t, confirmed, Confirmed(t, confirmed))
  BY <1>2, <1>4 DEF Keeps
<1> QED BY <1>1, <1>2, <1>3, <1>4, <1>5, <1>6, <1>7, InvParts,
           StaBecomesHolds

(* One report more.                                                         *)
LEMMA ReportCounts ==
  ASSUME HInv, NEW f
  PROVE  CountFits(Unheard(ap, air \cup {f}), gtk, mic.count + 1)
<1> DEFINE U == Unheard(ap, air)
           V == U \cup {f}
<1>1. Unheard(ap, air \cup {f}) \subseteq V
  BY DEF Unheard
<1>2. /\ IsFiniteSet(U) /\ Cardinality(U) <= mic.count
      /\ gtk + Cardinality(U) <= limit.gtks + mic.count
  BY InvParts DEF CountFits
<1>3. /\ limit.gtks \in Nat /\ mic.count \in Nat /\ Cardinality(U) \in Nat
      /\ gtk \in Nat /\ mic.count + 1 \in Nat /\ limit \in Limits
  BY CountTypes, InvParts
<1> HIDE DEF U
<1>4. /\ IsFiniteSet(V)
      /\ Cardinality(V) = Cardinality(U) \/ Cardinality(V) = Cardinality(U) + 1
  BY <1>2, FS_AddElement
<1> HIDE DEF V
<1>5. /\ Cardinality(V) <= mic.count + 1
      /\ gtk + Cardinality(V) <= limit.gtks + (mic.count + 1)
  BY <1>2, <1>3, <1>4
<1>6. CountFits(V, gtk, mic.count + 1)
  BY <1>4, <1>5 DEF CountFits
<1> QED BY <1>1, <1>3, <1>6, CountSmaller

(* wpa_supplicant_event_michael_mic_failure                                 *)
LEMMA StaMicFailureHolds ==
  ASSUME HInv, StaMicFailure
  PROVE  HInv' /\ StaForward
<1> DEFINE u == KeyRequest(sta, "error")
           f == Frame("error", sta.requests + 1, 0, sta.ptk, 0)
           t == IF mic.seen THEN Leaves(u) ELSE u
<1>1. /\ UNCHANGED <<limit, rsn, assoc, gtk, ap>> /\ sta.ptk # NoKey
      /\ StaBecomes(t) /\ mic.count < limit.mics
      /\ mic' = [mic EXCEPT !.count = @ + 1, !.seen = TRUE,
                            !.held = @ \/ mic.seen]
  BY DEF StaMicFailure
<1>2. /\ u \in StaType /\ u.out = {f} /\ f \in FrameType
      /\ f.kind = "error" /\ f # Deauth
      /\ u.key = sta.key /\ u.gtk = sta.gtk /\ u.snonce = sta.snonce
      /\ u.renew = sta.renew /\ u.pending = sta.pending
      /\ Holds(ap, sta, air \cup {f}, link, confirmed, assoc, gtk)
      /\ Holds(ap, u, air \cup {f}, link, confirmed, assoc, gtk)
  BY <1>1, KeyRequestFields
<1>3. t = IF mic.seen THEN Leaves(u) ELSE u
  OBVIOUS
<1> HIDE DEF t, u, f
<1>4. mic' \in MicType /\ mic'.on = mic.on /\ mic'.count = mic.count + 1
  <2>1. mic \in MicType /\ limit.mics \in Nat /\ mic.count \in Nat
    BY InvParts, CountTypes
  <2> DEFINE held == mic.held \/ mic.seen
             count == mic.count + 1
  <2>2. mic' = [mic EXCEPT !.count = count, !.seen = TRUE, !.held = held]
    BY <1>1
  <2>3. held \in BOOLEAN /\ count \in 0 .. limit.mics
    BY <2>1, <1>1 DEF MicType
  <2> HIDE DEF held
  <2>4. mic' \in MicType /\ mic'.on = mic.on /\ mic'.count = count
    BY <2>1, <2>2, <2>3 DEF MicType
  <2> QED BY <2>4
<1>5. CountFits(Unheard(ap, air \cup {f}), gtk, mic'.count)
  BY <1>4, ReportCounts
<1>6. sta.gtk \in Nat /\ sta.gtk >= sta.gtk
  BY InvParts DEF StaType
<1>7. CASE ~mic.seen
  <2>1. t = u
    BY <1>3, <1>7
  <2>2. /\ air \cup (u.out \ {Deauth}) = air \cup {f}
        /\ (link /\ Deauth \notin u.out) = link
    BY <1>2, InvParts
  <2>3. Confirmed(u, confirmed) = confirmed
    BY <1>2, ConfirmedFacts
  <2>4. Keeps(sta, u, confirmed, Confirmed(u, confirmed))
    BY <1>2, <2>3 DEF Keeps
  <2>5. StaBecomes(u)
    BY <1>1, <2>1
  <2> QED BY <1>1, <1>2, <1>4, <1>5, <1>6, <2>2, <2>3, <2>4, <2>5, InvParts,
             StaBecomesHolds
<1>8. CASE mic.seen
  <2>1. t = Leaves(u)
    BY <1>3, <1>8
  <2>2. t \in StaType /\ Blank(t) /\ ~On(t) /\ t.out = {f, Deauth}
    BY <1>2, <2>1, OffFields
  <2>3. /\ air \cup (t.out \ {Deauth}) = air \cup {f}
        /\ (link /\ Deauth \notin t.out) = FALSE
    BY <1>2, <2>2
  <2>4. Deauth.kind # "4/4"
    BY DEF Deauth, Frame
  <2>5. Confirmed(t, confirmed) = confirmed
    BY <1>2, <2>2, <2>4, ConfirmedFacts
  <2>6. Keeps(sta, t, confirmed, Confirmed(t, confirmed))
    BY <2>2, <2>5 DEF Keeps, Blank
  <2>7. Typed(ap, sta, air \cup {f}, confirmed, assoc, gtk)
    BY <1>2, InvParts DEF Typed
  <2>8. Holds(ap, t, air \cup {f}, FALSE, confirmed, assoc, gtk)
    BY <1>2, <2>1, <2>7, InvParts, LeavesHolds
  <2> QED BY <1>1, <1>4, <1>5, <1>6, <2>2, <2>3, <2>5, <2>6, <2>8, InvParts,
             StaBecomesHolds
<1> QED BY <1>7, <1>8
-----------------------------------------------------------------------------
(* No frame is of an association that the access point does not know of.    *)
LEMMA KnownAssociations ==
  ASSUME NEW r, NEW s, NEW S, NEW l, NEW k, NEW n, NEW g,
         Typed(r, s, S, k, n, g), Holds(r, s, S, l, k, n, g)
  PROVE  /\ \A m \in S : m.kind \in {"2/4", "4/4", "2/2"} =>
              m.key[1] <= r.seen
         /\ k[1] <= r.seen
<1>1. r.seen \in Nat /\ k \in KeyType
  BY DEF Typed, ApType
<1>2. /\ \A m \in Downward(S) : From(m) <= r.seen
      /\ Caused(S) /\ ConfirmedFits(s, S, k)
  BY HoldsParts DEF NumbersFit
<1>3. ASSUME NEW m \in S, m.kind = "2/4"
      PROVE  m.key[1] <= r.seen
  <2>1. PICK x \in S : x.kind = "1/4" /\ x.nonce = m.key[1]
    BY <1>2, <1>3 DEF Caused
  <2> QED BY <1>2, <2>1, KindFacts DEF From
<1>4. ASSUME NEW m \in S, m.kind \in {"4/4", "2/2"}
      PROVE  m.key[1] <= r.seen
  <2>1. PICK x \in Keyed(S) : x.key = m.key
    BY <1>2, <1>4, Answers
  <2>2. From(x) = m.key[1] /\ x \in Downward(S)
    BY <2>1, KindFacts
  <2> QED BY <1>2, <2>2
<1>5. k[1] <= r.seen
  <2>1. CASE k = NoKey
    BY <1>1, <2>1, KeyFacts
  <2>2. CASE k # NoKey
    <3>1. PICK m \in S : m.kind = "4/4" /\ m.key = k
      BY <1>2, <2>2 DEF ConfirmedFits
    <3> QED BY <3>1, <1>4
  <2> QED BY <2>1, <2>2
<1> QED BY <1>3, <1>4, <1>5

(* A new association, with nothing of the last.                             *)
LEMMA NextAssociation ==
  ASSUME NEW r, NEW s, NEW S, NEW l \in BOOLEAN, NEW k, NEW n,
         NEW g \in Nat, Typed(r, s, S, k, n, g),
         Holds(r, s, S, l, k, n, g), r.seen = n, NEW t \in StaType, Blank(t),
         ~On(t), t.snonce = s.snonce, t.renew = s.renew,
         t.pending = s.pending, NEW j, j = n + 1
  PROVE  Holds(r, t, S, TRUE, k, j, g)
<1>1. n \in Nat /\ j \in Nat /\ r.seen < j /\ r.seen # j
  BY DEF Typed
<1>2. t.pending \subseteq Downward(S)
  BY HoldsParts DEF OffFits
<1>3. Holds(r, t, S, FALSE, k, n, g)
  BY <1>2, BlankHolds
<1>4. LinkFits(r, t, TRUE, k, j)
  BY <1>1 DEF LinkFits, Serves
<1>5. OffFits(t, S, TRUE, k, j)
  <2>1. \A m \in S : m.kind \in {"2/4", "4/4", "2/2"} => m.key[1] # j
    <3> SUFFICES ASSUME NEW m \in S, m.kind \in {"2/4", "4/4", "2/2"},
                        m.key[1] = j
                 PROVE  FALSE
      OBVIOUS
    <3>1. m.key[1] <= r.seen
      BY KnownAssociations
    <3> QED BY <3>1, <1>1
  <2>2. k[1] # j
    <3>1. k[1] <= r.seen
      BY KnownAssociations
    <3> QED BY <3>1, <1>1
  <2> QED BY <1>2, <2>1, <2>2 DEF OffFits, Blank
<1> QED BY <1>3, <1>4, <1>5, HoldsParts DEF Holds

(* wpa_supplicant_associate                                                 *)
LEMMA StaAssociatesHolds ==
  ASSUME HInv, StaAssociates
  PROVE  HInv' /\ StaForward
<1> DEFINE t == [Off(sta) EXCEPT !.state = "ASSOCIATING", !.due = TRUE,
                                 !.timer = TRUE]
           u == Off(sta)
<1>1. /\ UNCHANGED <<limit, rsn, gtk, ap, mic, air, confirmed>>
      /\ assoc < limit.assocs /\ ap.seen = assoc /\ assoc' = assoc + 1
      /\ link' = TRUE /\ sta' = t
  BY DEF StaAssociates
<1>2. /\ u \in StaType /\ Blank(u) /\ u.out = {}
      /\ u.snonce = sta.snonce /\ u.renew = sta.renew
      /\ u.pending = sta.pending
  BY InvParts, OffFields
<1>3. t = [u EXCEPT !.state = "ASSOCIATING", !.due = TRUE, !.timer = TRUE]
  OBVIOUS
<1> HIDE DEF u, t
<1>4. "ASSOCIATING" \in StaStates
  BY DEF StaStates
<1>5. t \in StaType
  BY <1>2, <1>3, <1>4 DEF StaType
<1>6. /\ t.state = "ASSOCIATING" /\ t.ptk = u.ptk /\ t.tptk = u.tptk
      /\ t.key = u.key /\ t.gtk = u.gtk /\ t.rx = u.rx
      /\ t.snonce = u.snonce /\ t.renew = u.renew /\ t.pending = u.pending
      /\ t.out = u.out
  BY <1>2, <1>3 DEF StaType
<1>7. Blank(t) /\ ~On(t)
  BY <1>2, <1>6 DEF Blank, On
<1>8. Holds(ap, t, air, TRUE, confirmed, assoc', gtk)
  BY <1>1, <1>2, <1>5, <1>6, <1>7, InvParts, NextAssociation
<1>9. assoc' \in 0 .. limit.assocs /\ ap.seen # assoc'
  <2>1. assoc \in Nat /\ limit.assocs \in Nat
    BY InvParts, HandshakeAssumption
  <2> QED BY <2>1, <1>1
<1>10. /\ NoneServed' /\ mic' \in MicType /\ link' \in BOOLEAN
       /\ confirmed' \in KeyType
       /\ CountFits(Unheard(ap, air'), gtk, mic'.count)
  <2>1. NoneServed'
    BY <1>1, <1>9 DEF NoneServed
  <2> QED BY <2>1, <1>1, InvParts
<1>11. Holds(ap, sta', air', link', confirmed', assoc', gtk)
  BY <1>1, <1>8
<1>12. HInv'
  BY <1>1, <1>2, <1>5, <1>6, <1>9, <1>10, <1>11, StaNext
<1>13. StaForward
  BY <1>1, <1>7 DEF StaForward, Keeps, Blank
<1> QED BY <1>12, <1>13
-----------------------------------------------------------------------------
(* Init: hostapd and wpa_supplicant start.                                  *)
LEMMA InitInv ==
  ASSUME Init
  PROVE  HInv /\ confirmed = NoKey /\ sta.key = NoKey /\ ap.installed = NoKey
<1>1. /\ limit \in Limits /\ rsn \in BOOLEAN /\ assoc = 0 /\ link = FALSE
      /\ gtk = 1 /\ ap = Gone(NewSm) /\ air = {} /\ confirmed = NoKey
  BY DEF Init
<1>2. /\ AtRest(ap) /\ ~ap.known /\ ap.seen = 0 /\ ap.ANonce = 0
      /\ ap.rx = {} /\ ap.PTK = NoKey /\ ap.installed = NoKey
      /\ ap.ptk = "INITIALIZE" /\ Awaited(ap) = {}
  <2>1. NewSm.seen = 0
    BY DEF NewSm
  <2> QED BY <1>1, <2>1, NewSmType, GoneFits
<1>3. /\ limit.mics \in Nat /\ limit.gtks \in Nat \ {0} /\ limit.assocs \in Nat
  BY <1>1, HandshakeAssumption
<1>4. mic \in MicType /\ mic.count = 0
  BY <1>3 DEF Init, MicType
<1>5. NoKey \in KeyType /\ NoKey[1] = 0 /\ NoKey[2] = 0
  BY DEF KeyType, NoKey
<1>6. sta \in StaType
  BY <1>5 DEF Init, StaType, StaStates
<1>7. /\ Blank(sta) /\ ~On(sta) /\ sta.pending = {} /\ sta.out = {}
      /\ sta.snonce = 0 /\ sta.renew /\ ~sta.due
  BY DEF Init, Blank, On
<1>8. Keyed(air) = {} /\ Downward(air) = {} /\ Unheard(ap, air) = {}
  BY <1>1 DEF Keyed, Downward, Unheard
<1>9. FramesFit(air, gtk)
  BY <1>1, <1>8
     DEF FramesFit, FramesTyped, Caused, Distinct, Ordered
<1>10. NumbersFit(ap, air, gtk) /\ AnswersFit(ap, air) /\ KeyFits(ap, air)
  BY <1>1, <1>2, <1>8 DEF NumbersFit, AnswersFit, KeyFits
<1>11. LinkFits(ap, sta, link, confirmed, assoc)
  BY <1>1, <1>2 DEF LinkFits, Serves
<1>12. /\ NoncesFit(ap, sta, air, confirmed)
       /\ ConfirmedFits(sta, air, confirmed)
  BY <1>1, <1>2, <1>5, <1>7, <1>8 DEF NoncesFit, ConfirmedFits, Blank
<1>13. OffFits(sta, air, link, confirmed, assoc) /\ GtkFits(sta, air, gtk)
  BY <1>1, <1>7, <1>8 DEF OffFits, GtkFits, Blank
<1>14. Holds(ap, sta, air, link, confirmed, assoc, gtk)
  BY <1>9, <1>10, <1>11, <1>12, <1>13 DEF Holds
<1>15. CountFits(Unheard(ap, air), gtk, mic.count)
  BY <1>1, <1>3, <1>4, <1>8, FS_EmptySet DEF CountFits
<1>16. World
  <2>1. assoc \in 0 .. limit.assocs
    BY <1>1, <1>3
  <2>2. gtk \in Nat \ {0} /\ confirmed \in KeyType
    BY <1>1, <1>5
  <2>3. link = FALSE
    BY <1>1
  <2>4. link \in BOOLEAN
    BY <2>3
  <2> QED BY <2>1, <2>2, <2>4, <1>1, <1>4, <1>6, <1>7 DEF World, MicType
<1>17. NoneServed
  BY <1>1 DEF NoneServed
<1> QED BY <1>1, <1>2, <1>7, <1>14, <1>15, <1>16, <1>17 DEF HInv, Blank

(* A frame arrives at the access point.                                     *)
LEMMA ApReceivesHolds ==
  ASSUME HInv, NEW m \in air, ApReceives(m)
  PROVE  HInv' /\ ApOnly /\ KeepsKey(ap'.installed)
BY Receive2of4Holds, Receive4of4Holds, Receive2of2Holds, ReceiveRequestHolds,
   ReceiveErrorHolds DEF ApReceives

(* What concerns none of the records of both ends.                          *)
LEMMA AsideOnly ==
  ASSUME UNCHANGED <<limit, rsn, assoc, ap, sta, confirmed>>
  PROVE  ApOnly /\ KeepsKey(ap'.installed)
BY DEF ApOnly, KeepsKey

LEMMA ApHandlerHolds ==
  ASSUME HInv, Ap
  PROVE  HInv' /\ ApOnly /\ KeepsKey(ap'.installed)
<1>1. CASE ApMinute \/ ApCalm
  <2>1. UNCHANGED <<limit, rsn, assoc, ap, sta, confirmed>>
    BY <1>1 DEF ApMinute, ApCalm
  <2> QED BY <1>1, <2>1, MinutesHold, AsideOnly
<1> QED BY <1>1, ApAssociatedHolds, ApDisassociatedHolds, ApInactiveHolds,
           ApRemovesHolds, ApTimeoutHolds, RekeyGtkHolds, OtherMicFailureHolds
        DEF Ap

(* Every step is one of the access point or one of the station.             *)
LEMMA NextHolding ==
  ASSUME HInv, [Next]_vars
  PROVE  HInv' /\ ((ApOnly /\ KeepsKey(ap'.installed)) \/ StaForward)
<1>1. CASE Ap
  BY <1>1, ApHandlerHolds
<1>2. CASE \E m \in air : ApReceives(m)
  BY <1>2, ApReceivesHolds
<1>3. CASE \E m \in air : StaReceives(m)
  BY <1>3, StaReceivesHolds
<1>4. CASE StaMinute \/ StaCalm
  <2>1. UNCHANGED <<limit, rsn, assoc, ap, sta, confirmed>>
    BY <1>4 DEF StaMinute, StaCalm
  <2> QED BY <1>4, <2>1, MinutesHold, AsideOnly
<1>5. CASE Station /\ ~(StaMinute \/ StaCalm)
  BY <1>5, StaAssociatesHolds, StaAssociatedHolds, StaDisassociatedHolds,
     StaTimeoutHolds, StaRequestsHolds, StaMicFailureHolds DEF Station
<1>6. CASE LinkLost
  <2>1. UNCHANGED <<limit, rsn, assoc, ap, sta, confirmed>>
    BY <1>6 DEF LinkLost
  <2> QED BY <1>6, <2>1, LinkLostHolds, AsideOnly
<1>7. CASE UNCHANGED vars
  <2>1. /\ UNCHANGED <<limit, rsn, assoc, ap, sta, confirmed>>
        /\ UNCHANGED <<gtk, air, mic, link>>
    BY <1>7 DEF vars
  <2>2. mic' \in MicType /\ link' \in BOOLEAN
    BY <2>1, InvParts
  <2> QED BY <2>1, <2>2, MicHolds, AsideOnly
<1> QED BY <1>1, <1>2, <1>3, <1>4, <1>5, <1>6, <1>7 DEF Next
-----------------------------------------------------------------------------
(* What HInv says of the properties.                                        *)
LEMMA InvTypes ==
  ASSUME HInv
  PROVE  TypeOK
<1>1. /\ ap \in ApType /\ sta \in StaType /\ confirmed \in KeyType
      /\ TriesFit(ap) /\ limit.tries \in Nat
  BY InvParts, FitsParts, TriesPositive
<1>2. gtk \in 1 .. limit.gtks + limit.mics
  <2> DEFINE U == Cardinality(Unheard(ap, air))
  <2>1. gtk + U <= limit.gtks + mic.count
    BY InvParts DEF CountFits
  <2>2. /\ limit.gtks \in Nat /\ limit.mics \in Nat /\ mic.count \in Nat
        /\ mic.count <= limit.mics /\ U \in Nat /\ gtk \in Nat \ {0}
    BY InvParts, CountTypes
  <2> HIDE DEF U
  <2> QED BY <2>1, <2>2
<1>3. {ap.PTK, ap.installed, sta.ptk, sta.tptk, sta.key, confirmed}
        \subseteq Keys \cup {NoKey}
  BY <1>1 DEF ApType, StaType, KeyType
<1>4. ap.seen \in 0 .. assoc
  <2>1. ap.seen <= assoc
    BY InvParts, HoldsParts DEF LinkFits
  <2>2. ap.seen \in Nat /\ assoc \in Nat
    BY <1>1, InvParts DEF ApType
  <2> QED BY <2>1, <2>2
<1>5. /\ ap.TimeoutCtr \in 0 .. limit.tries + 1
      /\ ap.GTimeoutCtr \in 0 .. limit.tries + 1
      /\ Len(ap.replay) <= limit.tries
  <2>1. ap.TimeoutCtr \in Nat /\ ap.GTimeoutCtr \in Nat
    BY <1>1 DEF ApType
  <2> QED BY <2>1, <1>1 DEF TriesFit
<1>6. Rounds({ap}, gtk) = {ap}
  BY InvParts, RestsStill
<1>7. air \subseteq [kind : Down \cup {"2/4", "4/4", "2/2", "request", "error"},
                     c : Nat, nonce : Nat, key : Keys \cup {NoKey},
                     gtk : 0 .. gtk]
  <2> SUFFICES ASSUME NEW m \in air
               PROVE  m \in [kind : Down \cup {"2/4", "4/4", "2/2", "request",
                                               "error"},
                             c : Nat, nonce : Nat, key : Keys \cup {NoKey},
                             gtk : 0 .. gtk]
    OBVIOUS
  <2>1. m \in FrameType /\ m.kind # "deauth" /\ m.gtk <= gtk /\ gtk \in Nat
    BY InvParts, HoldsParts DEF FramesTyped
  <2>2. m.gtk \in 0 .. gtk /\ m.kind \in Down \cup Up
    BY <2>1 DEF FrameType
  <2> QED BY <2>1, <2>2 DEF FrameType, KeyType, Up
<1> QED BY <1>2, <1>3, <1>4, <1>5, <1>6, <1>7, InvParts DEF TypeOK, World

LEMMA InvKeysAgree ==
  ASSUME HInv
  PROVE  KeysAgree
<1> SUFFICES ASSUME ap.known, ap.assoc, ap.ptk = "PTKINITDONE",
                    ap.seen = assoc, link
             PROVE  sta.key = ap.installed /\ sta.key # NoKey
  BY DEF KeysAgree
<1>1. ap.ask = {} /\ ~Pending(ap) /\ PtkFits(ap)
  BY InvParts, RestFacts, FitsParts
<1>2. /\ ap.installed = confirmed /\ ap.PTK = confirmed /\ confirmed # NoKey
      /\ ap.ANonce = assoc
  <2>1. LinkFits(ap, sta, link, confirmed, assoc)
    BY InvParts, HoldsParts
  <2> QED BY <2>1, <1>1 DEF LinkFits, Serves
<1>3. confirmed[1] = assoc
  BY <1>1, <1>2 DEF PtkFits
<1>4. sta.key = confirmed
  <2>1. OffFits(sta, air, link, confirmed, assoc)
    BY InvParts, HoldsParts
  <2> QED BY <2>1, <1>3 DEF OffFits
<1> QED BY <1>2, <1>4

LEMMA InvDelivered ==
  ASSUME HInv
  PROVE  GroupKeyDelivered
<1>1. LinkFits(ap, sta, link, confirmed, assoc)
  BY InvParts, HoldsParts
<1>2. sta.gtk \in Nat
  BY InvParts DEF StaType
<1> QED BY <1>1, <1>2 DEF LinkFits, GroupKeyDelivered

(* Every state has the types of TypeOK; in particular wpa_sm_step           *)
(* (wpa_auth.c:2392-2430) comes to rest within nine rounds, and no counter  *)
(* of tries passes its limit by more than one.                              *)
THEOREM TypeCorrect == Spec => []TypeOK
<1>1. Init => HInv
  BY InitInv
<1>2. HInv /\ [Next]_vars => HInv'
  BY NextHolding
<1>3. HInv => TypeOK
  BY InvTypes
<1> QED BY <1>1, <1>2, <1>3, PTL DEF Spec

(* As long as an association lasts, both ends use the same pairwise key     *)
(* once the access point has taken 4/4 (PTKINITDONE), whatever frames are   *)
(* lost, delayed, repeated or reordered, whatever keys a driver refuses,    *)
(* and whenever either end learns of the association or asks for new keys.  *)
THEOREM AlwaysSameKey == Spec => []KeysAgree
<1>1. Init => HInv
  BY InitInv
<1>2. HInv /\ [Next]_vars => HInv'
  BY NextHolding
<1>3. HInv => KeysAgree
  BY InvKeysAgree
<1> QED BY <1>1, <1>2, <1>3, PTL DEF Spec

(* The station has the group key of the frame whose answer the access point *)
(* has taken, or a later one (wpa_receive, wpa_supplicant_process_1_of_2):  *)
(* no answer is taken for one to another frame.                             *)
THEOREM AnswersMeanKeys == Spec => []GroupKeyDelivered
<1>1. Init => HInv
  BY InitInv
<1>2. HInv /\ [Next]_vars => HInv'
  BY NextHolding
<1>3. HInv => GroupKeyDelivered
  BY InvDelivered
<1> QED BY <1>1, <1>2, <1>3, PTL DEF Spec

(* No station is served from the second Michael MIC failure within a minute *)
(* to the end of the countermeasures (tkip_countermeasures.c:46-59,         *)
(* hostapd.c:894), however it associates meanwhile.                         *)
THEOREM CountermeasuresSpareNone == Spec => []NoneServed
<1>1. Init => HInv
  BY InitInv
<1>2. HInv /\ [Next]_vars => HInv'
  BY NextHolding
<1>3. HInv => NoneServed
  BY InvParts
<1> QED BY <1>1, <1>2, <1>3, PTL DEF Spec

(* No frame of before takes the group key of a station that stays           *)
(* associated back to an older one (the replay counter of wpa_sm_rx_eapol,  *)
(* and the keys of both nonces).                                            *)
THEOREM GroupKeyNeverBack == Spec => GtkForward
<1>1. Init => HInv
  BY InitInv
<1>2. HInv /\ [Next]_vars => HInv'
  BY NextHolding
<1>3. HInv /\ [Next]_vars =>
        [On(sta) /\ On(sta') /\ sta.key # NoKey => sta'.gtk >= sta.gtk]_vars
  <2> SUFFICES ASSUME HInv, [Next]_vars, On(sta), On(sta')
               PROVE  sta'.gtk >= sta.gtk
    OBVIOUS
  <2>1. (ApOnly /\ KeepsKey(ap'.installed)) \/ StaForward
    BY NextHolding
  <2>2. CASE ApOnly
    <3>1. sta' = sta /\ sta.gtk \in Nat
      BY <2>2, InvParts DEF ApOnly, StaType
    <3> QED BY <3>1
  <2> QED BY <2>1, <2>2 DEF StaForward
<1> QED BY <1>1, <1>2, <1>3, PTL DEF Spec, GtkForward

(* Both machines implement KeyAgreement: the access point installs no key   *)
(* but the last that the station has confirmed in 4/4, the station none     *)
(* that it has not just confirmed, and neither goes back to one before.     *)
THEOREM ImplementsAgreement == Spec => KeyAgreed
<1>1. Init => HInv
  BY InitInv
<1>2. HInv /\ [Next]_vars => HInv'
  BY NextHolding
<1>3. Init => Agreement!Init
  BY InitInv DEF Agreement!Init
<1>4. HInv /\ [Next]_vars =>
        [Agreement!Next]_<<confirmed, sta.key, ap.installed>>
  <2> SUFFICES ASSUME HInv, [Next]_vars
               PROVE  \/ Agreement!Next
                      \/ UNCHANGED <<confirmed, sta.key, ap.installed>>
    OBVIOUS
  <2>1. (ApOnly /\ KeepsKey(ap'.installed)) \/ StaForward
    BY NextHolding
  <2>2. CASE ApOnly /\ KeepsKey(ap'.installed)
    <3>1. confirmed' = confirmed /\ sta.key' = sta.key
      BY <2>2 DEF ApOnly
    <3>2. \/ ap'.installed = ap.installed
          \/ Agreement!ApStops
          \/ Agreement!Adopts
      BY <2>2, <3>1 DEF KeepsKey, Agreement!ApStops, Agreement!Adopts
    <3> QED BY <3>1, <3>2 DEF Agreement!Next
  <2>3. CASE StaForward
    <3>1. ap'.installed = ap.installed
      BY <2>3 DEF StaForward
    <3>2. \/ confirmed' = confirmed /\ sta'.key = sta.key
          \/ Agreement!StationStops
          \/ Agreement!Says
      BY <2>3, <3>1
         DEF StaForward, Keeps, Agreement!StationStops, Agreement!Says
    <3> QED BY <3>1, <3>2 DEF Agreement!Next
  <2> QED BY <2>1, <2>2, <2>3
<1> QED BY <1>1, <1>2, <1>3, <1>4, PTL DEF Spec, KeyAgreed, Agreement!Spec
=============================================================================
