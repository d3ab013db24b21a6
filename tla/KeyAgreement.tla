---------------------------- MODULE KeyAgreement ----------------------------
(***************************************************************************)
(* What the WPA handshakes promise of the pairwise keys, whatever becomes  *)
(* of their frames: the station says once that it will use a key, before   *)
(* it does; the access point uses no key but the one that the station said *)
(* last; and either may stop using a key at any time.                      *)
(***************************************************************************)
CONSTANTS Key, NoKey

VARIABLES said,    \* the key that the station said last
          station, \* the key that the station uses
          ap       \* the key that the access point uses

Init == said = NoKey /\ station = NoKey /\ ap = NoKey

(* The station may fail to use the key that it has just promised.           *)
Says ==
  /\ said' \in Key
  /\ station' \in {said', NoKey}
  /\ UNCHANGED ap

StationStops == station' = NoKey /\ UNCHANGED <<said, ap>>

Adopts == said # NoKey /\ ap' = said /\ UNCHANGED <<said, station>>

ApStops == ap' = NoKey /\ UNCHANGED <<said, station>>

Next == Says \/ StationStops \/ Adopts \/ ApStops

Spec == Init /\ [][Next]_<<said, station, ap>>
=============================================================================
