--------------------------- MODULE CoupledColumn ---------------------------
(***************************************************************************)
(* One coupled time step of one water column: the free-surface phase, the  *)
(* window of subsurface substeps that trade water with the pond through    *)
(* the column's top face, and the deferred application of that trade to    *)
(* the surface (src/src/coupling, with the kernels of src/src/swe and      *)
(* src/src/gw that write the shared state).                                *)
(*                                                                         *)
(* Every quantity is a volume per unit area in integer units, with the bed *)
(* at 0, so a rate times its step is one number.  What the hydraulics      *)
(* decide (the solved stage, Darcy fluxes, the excess the reallocation     *)
(* could not place) is chosen from a finite set; everything the code       *)
(* decides is a guard.                                                     *)
(***************************************************************************)
EXTENDS Integers

CONSTANTS
  MinDepth,     \* surface_water.min_depth
  Pore,         \* pore volume of the top cell between theta_r and theta_s
  EffSat,       \* the effective-saturation mark, 0.9999 theta_s in the code
  TopFlux,      \* the column has a configured top flux (topCode = Flux)
  EvapBulk,     \* evaporation mode: bulk (limited) or prescribed
  Sync,         \* coupling mode: one substep, or a subcycled window
  Laterals,     \* net surface inflow through the column's side faces
  Discharges,   \* inflow of a discharge boundary condition
  Rains, Evaps, \* rain and evaporation of one surface step
  TopValues,    \* value of the configured top flux over a substep
  Darcys,       \* upward Darcy volume through the top face over a substep
  Excesses,     \* water the reallocation walk brings to the column's top
  Internals,    \* net gain of the column from below and from theta repairs
  MaxEta,       \* bound: deepest pond the solve may produce
  MaxSubsteps   \* bound: substeps in one subcycled window

ASSUME ConstantsAssumption ==
  /\ MinDepth \in Nat /\ Pore \in Nat /\ EffSat \in 0..Pore
  /\ {TopFlux, EvapBulk, Sync} \subseteq BOOLEAN
  /\ Laterals \subseteq Int /\ Discharges \subseteq Nat /\ Rains \subseteq Nat
  /\ Evaps \subseteq Int /\ TopValues \subseteq Int /\ Darcys \subseteq Int
  /\ Excesses \subseteq Nat /\ Internals \subseteq Int
  /\ MaxEta \in Nat /\ MaxSubsteps \in Nat

VARIABLES
  pc,       \* the kernel that runs next
  eta,      \* free surface above the bed
  dept,     \* depth the kernels test: 0 for a film of at most MinDepth
  accum,    \* seepAccum: exchanged, not yet applied to eta
  avail,    \* what the window may still infiltrate
  gain,     \* coupled deposits onto the surface this step
  mode,     \* cplMode: 0 dry, 1 capacity limited, 2 supply limited
  value,    \* topValue of the current substep
  q,        \* volume through the top face this substep, upward positive
  top,      \* water in the top cell above theta_r
  store,    \* change of the column's water since the step began
  subs,     \* substeps taken in this window
  surf,     \* the surface step audit
  audit,    \* the window's coupling audit
  start     \* eta, dept and accum when the step began

exchange == <<mode, value, q, top>>
vars == <<pc, eta, dept, accum, avail, gain, exchange, store, subs, surf, audit, start>>

Larger(a, b) == IF a >= b THEN a ELSE b
Smaller(a, b) == IF a <= b THEN a ELSE b

Kernels == {"surface", "window", "substep", "classify", "flux", "book", "column", "velocity"}

(***************************************************************************)
(* The audits.  `limited` and `recharge` are not in the code: they record  *)
(* what its counters leave out (water the wetting limiter removes, and a   *)
(* downward top flux into a dry column).                                   *)
(***************************************************************************)
NoSurf == [inflow |-> 0, clamp |-> 0, limited |-> 0]
Audits == [boundaryIn : Int, exchanged : Int, bounce : Int, vent : Int, evap : Int,
           internal : Int, discarded : Int, recharge : Int]
NoAudit == [boundaryIn |-> 0, exchanged |-> 0, bounce |-> 0, vent |-> 0, evap |-> 0,
            internal |-> 0, discarded |-> 0, recharge |-> 0]

----------------------------------------------------------------------------
(* Depth rules of the surface module. *)

\* updateDepth: a film of at most MinDepth has no depth.
Depth(e) == IF e <= MinDepth THEN 0 ELSE e

\* enforceSurfBc: a surface below the bed is lifted onto it.
Lifted(e) == Larger(e, 0)

\* cflLimiter: an isolated cell stays dry and a film below MinDepth is removed.
Limited(e, wetNeighbour) ==
  IF (dept = 0 /\ e > 0 /\ ~wetNeighbour) \/ (e > 0 /\ e < MinDepth) THEN 0 ELSE e

\* evapRain, the volume evaporation removes from a surface at e.
Evaporated(e, ev) ==
  IF ~EvapBulk THEN ev ELSE IF e > 0 THEN Smaller(ev, e) ELSE 0

\* evapRain, the final clamp: depths below MinDepth are dried.
Dried(e) == IF e < MinDepth THEN 0 ELSE e

Init ==
  /\ eta \in 0..MaxEta /\ dept = Depth(eta) /\ accum = 0 /\ top \in 0..Pore
  /\ pc = "surface"
  /\ avail = 0 /\ gain = 0 /\ mode = 0 /\ value = 0 /\ q = 0
  /\ store = 0 /\ subs = 0 /\ surf = NoSurf /\ audit = NoAudit
  /\ start = [eta |-> eta, dept |-> dept, accum |-> 0]

(***************************************************************************)
(* Coupler::step up to refreshDepth: beginStep, solveFreeSurface and the   *)
(* depth the groundwater phase reads.  The matrix legs of a dry cell       *)
(* without a wet neighbour vanish, and a bare bed has nothing to give.     *)
(***************************************************************************)
SolveFreeSurface(lateral, discharge, rain, ev, wetNeighbour) ==
  LET solved  == eta + lateral + discharge
      lifted  == Lifted(solved)
      limited == Limited(lifted, wetNeighbour)
      removed == Evaporated(limited + rain, ev)
      drained == limited + rain - removed
  IN /\ pc = "surface"
     /\ eta = 0 => lateral >= 0
     /\ (dept = 0 /\ ~wetNeighbour) => lateral = 0
     /\ Dried(drained) <= MaxEta
     /\ eta' = Dried(drained) /\ dept' = Depth(Dried(drained))
     /\ surf' = [inflow  |-> lateral + discharge + rain - removed,
                 clamp   |-> (lifted - solved) + (Dried(drained) - drained),
                 limited |-> lifted - limited]
     /\ start' = [eta |-> eta, dept |-> dept, accum |-> accum]
     /\ store' = 0 /\ subs' = 0 /\ audit' = NoAudit
     /\ pc' = "window"
     /\ UNCHANGED <<accum, avail, gain, exchange>>

\* Coupler::beginWindow.
BeginWindow ==
  /\ pc = "window"
  /\ avail' = dept /\ gain' = 0
  /\ pc' = "substep"
  /\ UNCHANGED <<eta, dept, accum, exchange, store, subs, surf, audit, start>>

(***************************************************************************)
(* Coupler::step: a lockstep run takes exactly one substep, a subcycled    *)
(* one as many as fit (none, when the subsurface step is the longer).  A   *)
(* substep starts by refreshing the boundary values.                       *)
(***************************************************************************)
BeginSubstep(v) ==
  /\ pc = "substep"
  /\ subs < IF Sync THEN 1 ELSE MaxSubsteps
  /\ value' = IF TopFlux THEN v ELSE 0
  /\ subs' = subs + 1
  /\ pc' = "classify"
  /\ UNCHANGED <<eta, dept, accum, avail, gain, mode, q, top, store, surf, audit, start>>

(***************************************************************************)
(* RichardsSolver::classifyCoupledTop, and the top row of assembleSystem:  *)
(* a wet column whose estimated demand the window cannot fund becomes      *)
(* supply limited, and predictor and corrector then take a fixed volume.   *)
(***************************************************************************)
Take == Smaller(avail, Larger(0, EffSat - top))

ClassifyTop(demand) ==
  /\ pc = "classify"
  /\ mode' = IF dept <= 0 THEN 0 ELSE IF demand > 0 /\ demand > avail THEN 2 ELSE 1
  /\ pc' = "flux"
  /\ UNCHANGED <<eta, dept, accum, avail, gain, value, q, top, store, subs, surf, audit, start>>

\* computeFluxes, the coupled top face in each of the three modes.
\* Mutant: the predictor's volume is taken without debit.
SupplyFluxUndebited == mode = 2 /\ q' = -Take /\ UNCHANGED <<avail, audit>>

SupplyFlux ==
  /\ mode = 2
  /\ q' = -Take /\ avail' = avail - Take
  /\ UNCHANGED audit

\* Mutant: each substep is limited by the whole window's budget.
CapacityFluxUndebited(darcy) ==
  mode = 1 /\ q' = Larger(darcy, -avail) /\ UNCHANGED <<avail, audit>>

CapacityFlux(darcy) ==
  /\ mode = 1
  /\ q' = Larger(darcy, -avail)
  /\ avail' = avail - Larger(0, -q')
  /\ UNCHANGED audit

Configured == IF TopFlux /\ ((value > 0 /\ top > 0) \/ value < 0) THEN value ELSE 0

\* Mutant: infiltration from dry land is not prohibited.
DryFluxBothWays(darcy) == mode = 0 /\ q' = darcy + Configured /\ UNCHANGED <<avail, audit>>

DryFlux(darcy) ==
  /\ mode = 0
  /\ q' = Larger(0, darcy) + Configured
  /\ audit' = [audit EXCEPT !.recharge = @ + Larger(0, -q')]
  /\ UNCHANGED avail

ComputeFluxes(darcy) ==
  /\ pc = "flux"
  /\ SupplyFlux \/ CapacityFlux(darcy) \/ DryFlux(darcy)
  /\ pc' = "book"
  /\ UNCHANGED <<eta, dept, accum, gain, mode, value, top, store, subs, surf, start>>

(***************************************************************************)
(* applyCoupledTopBookkeeping: downward flux into a cell without room      *)
(* under a dry surface bounces back, the exchange joins the accumulator,   *)
(* and configured evaporation of a moist column does not pond.             *)
(***************************************************************************)
\* Mutant: flux into a full cell bounces under a wet surface too.
BouncedAnyDepth == IF q < 0 /\ Pore - top < -q THEN -q ELSE 0

Bounced == IF q < 0 /\ dept <= MinDepth /\ Pore - top < -q THEN -q ELSE 0

EvapBooked(d) == IF TopFlux /\ value > 0 /\ top > 0 /\ d <= MinDepth THEN value ELSE 0

\* Mutants: evaporation stays in transit, or the bounce is not tallied.
TopBookkeepingPonding ==
  /\ pc = "book"
  /\ eta' = eta + Bounced /\ dept' = dept + Bounced
  /\ avail' = avail + Bounced /\ gain' = gain + Bounced
  /\ accum' = accum + q
  /\ audit' = [audit EXCEPT !.exchanged = @ + q, !.bounce = @ + Bounced,
                            !.evap = @ + EvapBooked(dept')]
  /\ pc' = "column"
  /\ UNCHANGED <<exchange, store, subs, surf, start>>
TopBookkeepingUntallied ==
  /\ pc = "book"
  /\ eta' = eta + Bounced /\ dept' = dept + Bounced
  /\ avail' = avail + Bounced
  /\ accum' = accum + q - EvapBooked(dept')
  /\ audit' = [audit EXCEPT !.exchanged = @ + q, !.bounce = @ + Bounced,
                            !.evap = @ + EvapBooked(dept')]
  /\ pc' = "column"
  /\ UNCHANGED <<gain, exchange, store, subs, surf, start>>

TopBookkeeping ==
  /\ pc = "book"
  /\ eta' = eta + Bounced /\ dept' = dept + Bounced
  /\ avail' = avail + Bounced /\ gain' = gain + Bounced
  /\ accum' = accum + q - EvapBooked(dept')
  /\ audit' = [audit EXCEPT !.exchanged = @ + q, !.bounce = @ + Bounced,
                            !.evap = @ + EvapBooked(dept')]
  /\ pc' = "column"
  /\ UNCHANGED <<exchange, store, subs, surf, start>>

(***************************************************************************)
(* The rest of RichardsSolver::step: the theta update takes the top flux,  *)
(* the reallocation walk vents what two of its cells could not place (any  *)
(* amount on a wet surface, more than MinDepth on a dry one; the rest is   *)
(* lost), the final clamp and the boundary audit.  The flux is booked: it  *)
(* is set to 0 so that equal columns are equal states.                     *)
(***************************************************************************)
\* Mutant: a dry surface takes any amount.
VentedAnyAmount(d, excess) == excess

Vented(d, excess) == IF d > 0 \/ excess > MinDepth THEN excess ELSE 0

UpdateColumn(first, second, internal, newTop) ==
  LET excess == first + second
      vent   == Vented(dept, first) + Vented(dept + Vented(dept, first), second)
  IN /\ pc = "column"
     /\ eta' = eta + vent /\ dept' = dept + vent
     /\ avail' = avail + vent /\ gain' = gain + vent
     /\ top' = newTop
     /\ store' = store - q - excess + internal
     /\ audit' = [audit EXCEPT !.boundaryIn = @ - q - vent, !.vent = @ + vent,
                               !.internal = @ + internal - (excess - vent)]
     /\ q' = 0
     /\ pc' = "substep"
     /\ UNCHANGED <<accum, mode, value, subs, surf, start>>

(***************************************************************************)
(* Coupler::applySeepage and reduceAudit: infiltration in full down to the *)
(* bed, seepage onto a wet surface in full, seepage onto a dry one once it *)
(* exceeds MinDepth.                                                       *)
(***************************************************************************)
\* Mutant: the bed does not stop an infiltration.
InfiltrateUnclamped ==
  /\ accum < 0
  /\ eta' = eta + accum /\ gain' = gain + accum /\ accum' = 0
  /\ UNCHANGED audit

Infiltrate ==
  /\ accum < 0
  /\ eta' = Larger(0, eta + accum)
  /\ gain' = gain + (eta' - eta)
  /\ audit' = [audit EXCEPT !.discarded = (eta' - eta) - accum]
  /\ accum' = 0

Release ==
  /\ accum >= 0 /\ (dept > MinDepth \/ accum > MinDepth)
  /\ eta' = eta + accum /\ gain' = gain + accum /\ accum' = 0
  /\ UNCHANGED audit

\* Mutant: seepage is withheld without a threshold.
HoldAnyAmount == accum >= 0 /\ dept <= MinDepth /\ UNCHANGED <<eta, gain, accum, audit>>

Hold ==
  /\ accum >= 0 /\ dept <= MinDepth /\ accum <= MinDepth
  /\ UNCHANGED <<eta, gain, accum, audit>>

ApplySeepage ==
  /\ pc = "substep"
  /\ Sync => subs = 1
  /\ Infiltrate \/ Release \/ Hold
  /\ pc' = "velocity"
  /\ UNCHANGED <<dept, avail, exchange, store, subs, surf, start>>

\* SurfaceSolver::updateVelocity: the depth the next step and the audits read.
UpdateVelocity ==
  /\ pc = "velocity"
  /\ dept' = Depth(eta)
  /\ pc' = "surface"
  /\ UNCHANGED <<eta, accum, avail, gain, exchange, store, subs, surf, audit, start>>

Next ==
  \/ \E lateral \in Laterals, discharge \in Discharges, rain \in Rains, ev \in Evaps,
        wetNeighbour \in BOOLEAN :
        SolveFreeSurface(lateral, discharge, rain, ev, wetNeighbour)
  \/ BeginWindow
  \/ \E v \in TopValues : BeginSubstep(v)
  \/ \E demand \in Darcys : ClassifyTop(-demand)
  \/ \E darcy \in Darcys : ComputeFluxes(darcy)
  \/ TopBookkeeping
  \/ \E first, second \in Excesses, internal \in Internals, newTop \in 0..Pore :
        UpdateColumn(first, second, internal, newTop)
  \/ ApplySeepage
  \/ UpdateVelocity

Spec == Init /\ [][Next]_vars

----------------------------------------------------------------------------
Window == {"substep", "classify", "flux", "book", "column"}
InWindow == pc \in Window

TypeOK ==
  /\ pc \in Kernels
  /\ {eta, dept, avail} \subseteq Nat /\ {accum, gain, value, q, store} \subseteq Int
  /\ top \in 0..Pore
  /\ mode \in 0..2 /\ subs \in Nat
  /\ surf \in [inflow : Int, clamp : Int, limited : Int]
  /\ audit \in Audits
  /\ start \in [eta : Int, dept : Int, accum : Int]

(***************************************************************************)
(* The coupled budget, at every kernel boundary and not only at the end of *)
(* the step: pond, column and water in transit change by exactly what the  *)
(* audits of the two modules and of the coupler measured.  Whatever order  *)
(* bounces, vents, clamps and a late settlement come in, no kernel moves   *)
(* water without a counter (CouplingAudit, in the signs of the coupled     *)
(* mass test, not of Coupler.hpp:55-58 and exchange-flux.md:146, which     *)
(* print `- discarded`; `limited` is the one term the code has no counter  *)
(* for).                                                                   *)
(***************************************************************************)
SurfaceTerms == surf.inflow + surf.clamp - surf.limited
GroundwaterTerms ==
  audit.boundaryIn + audit.exchanged + audit.vent + audit.bounce - audit.evap + audit.internal

Closure ==
  eta - start.eta + store + accum - start.accum
    = SurfaceTerms + GroundwaterTerms + audit.discarded

(***************************************************************************)
(* The driver reports `gain` as the surface's share of the exchange: from  *)
(* the opening of the window to the end of the step the stage is the       *)
(* solved stage plus the deposits that four different kernels tallied.     *)
(***************************************************************************)
GainLedger == pc # "window" => eta = start.eta + SurfaceTerms + gain

(***************************************************************************)
(* The deferred settlement never owes more than the pond holds, except     *)
(* what evaporation and a configured recharge took outside the budget: the *)
(* window's budget limits infiltration over all substeps although the      *)
(* stage it is drawn from is not touched before applySeepage.              *)
(***************************************************************************)
DiscardBound == audit.discarded <= audit.evap + audit.recharge

\* Without a configured top flux the bed clamp never cuts an infiltration.
NoDiscard == ~TopFlux => audit.discarded = 0

(***************************************************************************)
(* While subsurface substeps run without a configured top flux, the live   *)
(* depth is never a film in (0, MinDepth], so the two dryness tests of the *)
(* code (dept <= 0 and dept <= min_depth) agree, and the bounce-back, which*)
(* would create water in the wet modes, is never taken.                    *)
(***************************************************************************)
NoFilm == (~TopFlux /\ InWindow) => dept = 0 \/ dept > MinDepth
NoBounce == ~TopFlux => audit.bounce = 0

\* Seepage is withheld from the pond only up to the wetting threshold.
HeldBounded == pc \in {"surface", "window"} => accum \in 0..MinDepth

(***************************************************************************)
(* The deferred exchange implements the immediate one: with what is in     *)
(* transit counted as pond (and a flux already booked but not yet in theta *)
(* as ground), every substep is a trade the pond can pay for, and settling *)
(* the accumulator, clamp, hold rule and all, moves no water.              *)
(***************************************************************************)
Immediate == INSTANCE ImmediateExchange WITH
  phase   <- IF pc = "surface" THEN "weather" ELSE "trade",
  pond    <- eta + accum,
  ground  <- IF pc = "column" THEN store - q ELSE store,
  outside <- audit.internal

ImmediateSpec == Immediate!Spec

=============================================================================
