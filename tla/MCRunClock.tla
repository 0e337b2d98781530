----------------------------- MODULE MCRunClock -----------------------------
(***************************************************************************)
(* Small instances of RunClock, 2 or 4 ticks to the second.  The subsurface*)
(* steps reach from a fraction of the surface step to beyond the output    *)
(* interval: a window may hold several substeps or none, and one lockstep  *)
(* step may cross several output boundaries.                               *)
(***************************************************************************)
EXTENDS RunClock

SubcycledRun ==
  [subcycled |-> TRUE, dt |-> 2, first |-> 1, steps |-> {1, 3}, tEnd |-> 8,
   output |-> 2, checkpoint |-> 4]

LockstepRun ==
  [subcycled |-> FALSE, dt |-> 3, first |-> 3, steps |-> {1, 5}, tEnd |-> 10,
   output |-> 2, checkpoint |-> 4]

BothModes == {SubcycledRun, LockstepRun}
Subcycling == {SubcycledRun}
=============================================================================
