---------------------------- MODULE MCHandshake ----------------------------
EXTENDS Handshake

Limit(tries, assocs, gtks) ==
  [tries |-> tries, assocs |-> assocs, gtks |-> gtks, requests |-> 0,
   mics |-> 0, minutes |-> FALSE]

(* Frames tried once, over two associations; frames tried twice, in one     *)
(* association, with new group keys or with a request for new keys; a       *)
(* Michael MIC failure within a minute of one before, over two              *)
(* associations; and two more, with or without a minute between, in one.    *)
MCLimits ==
  {Limit(1, 2, 2), Limit(2, 1, 2),
   [Limit(2, 1, 1) EXCEPT !.requests = 1],
   [Limit(1, 2, 1) EXCEPT !.mics = 1],
   [Limit(1, 1, 1) EXCEPT !.mics = 2, !.minutes = TRUE]}
=============================================================================
