------------------------- MODULE ImmediateExchange -------------------------
(***************************************************************************)
(* What the coupling of a water column promises: two stores, the pond and  *)
(* the ground below it, that trade water at once and never more than is    *)
(* there.  The code defers every trade to the end of the surface step;     *)
(* CoupledColumn implements this specification when no top flux is         *)
(* configured (docs/theory/exchange-flux.md).                              *)
(***************************************************************************)
EXTENDS Integers

VARIABLES
  phase,    \* "weather" (the surface module works) or "trade"
  pond,     \* water at the surface, what is in transit included
  ground,   \* what the column gained since the step began
  outside   \* of that gain, what did not come from the pond

vars == <<phase, pond, ground, outside>>

Init == phase = "weather" /\ pond \in Nat /\ ground = 0 /\ outside = 0

\* The surface step leaves the pond at some depth; a new ledger opens.
Weather ==
  /\ phase = "weather" /\ phase' = "trade"
  /\ pond' \in Nat /\ ground' = 0 /\ outside' = 0

\* Water moves between the stores, and the column's other faces may act.
Trade ==
  /\ phase = "trade" /\ phase' = "trade"
  /\ pond' \in Nat /\ outside' \in Int
  /\ ground' = ground + (outside' - outside) - (pond' - pond)

\* The step ends: settling it moves no water.
EndStep == phase = "trade" /\ phase' = "weather" /\ UNCHANGED <<pond, ground, outside>>

Next == Weather \/ Trade \/ EndStep

Spec == Init /\ [][Next]_vars
=============================================================================
