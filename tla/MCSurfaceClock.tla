--------------------------- MODULE MCSurfaceClock ---------------------------
(***************************************************************************)
(* Configurations for SurfaceClock: those whose step divides the output    *)
(* interval, which divides the checkpoint interval and the start, with an  *)
(* end at any step; and one that the schema accepts as well.               *)
(***************************************************************************)
EXTENDS SurfaceClock

AlignedConfigs ==
  {c \in [dt : 1..3, tStart : {0, 6}, tEnd : 7..15, output : 1..6, checkpoint : {0, 2, 3, 6, 12}] :
     c.output % c.dt = 0 /\ c.checkpoint % c.output = 0 /\ c.tStart % c.output = 0
     /\ c.tEnd % c.dt = 0}

\* Aligned steps, and a checkpoint past the middle of an output interval.
UnalignedIntervals == {[dt |-> 1, tStart |-> 0, tEnd |-> 10, output |-> 5, checkpoint |-> 3]}
=============================================================================
