------------------------------- MODULE Tally -------------------------------
(***************************************************************************)
(* What a data file of the logger promises its reader: one header, which   *)
(* fixes the width for good; then rows, each the difference between two    *)
(* successive readings of that width; and nothing after the logger's end.  *)
(***************************************************************************)
EXTENDS Integers, Sequences

VARIABLES width,   \* columns, 0 before the header
          origin,  \* the reading the header stands for
          last,    \* the latest reading
          sum,     \* per column, the sum of the rows
          over     \* the logger has ended

vars == <<width, origin, last, sum, over>>

Init == width = 0 /\ origin = <<>> /\ last = <<>> /\ sum = <<>> /\ over = FALSE

Header ==
  /\ ~over /\ width = 0
  /\ last' \in Seq(Nat) /\ last' # <<>>
  /\ width' = Len(last') /\ origin' = last'
  /\ sum' = [i \in 1 .. width' |-> 0]
  /\ UNCHANGED over

Row ==
  /\ ~over /\ width > 0
  /\ last' \in Seq(Nat) /\ Len(last') = width
  /\ sum' = [i \in 1 .. width |-> sum[i] + (last'[i] - last[i])]
  /\ UNCHANGED <<width, origin, over>>

End ==
  /\ ~over /\ over' = TRUE
  /\ UNCHANGED <<width, origin, last, sum>>

Next == Header \/ Row \/ End

Spec == Init /\ [][Next]_vars
=============================================================================
