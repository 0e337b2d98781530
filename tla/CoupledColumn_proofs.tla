------------------------ MODULE CoupledColumn_proofs ------------------------
(***************************************************************************)
(* The invariants of CoupledColumn and its implementation of               *)
(* ImmediateExchange, for every value of the constants.                    *)
(*                                                                         *)
(* The budget of a window is not inductive by itself: while a substep is   *)
(* between its fluxes and its bookkeeping, `avail` has been debited but    *)
(* `accum` has not.  `Claim` is that debt, and the invariant is that stage *)
(* plus transit, plus what evaporation and recharge took outside the       *)
(* budget, still covers the budget and the debt.                           *)
(***************************************************************************)
EXTENDS CoupledColumn, TLAPS

Claim == IF pc = "book" /\ q < 0 THEN -q ELSE 0

Budget ==
  InWindow => /\ avail >= 0
              /\ eta + accum + audit.recharge + audit.evap >= avail + Claim

OneSigned == audit.recharge >= 0 /\ audit.evap >= 0 /\ audit.discarded >= 0 /\ eta >= 0

OpenAudit == (InWindow \/ pc = "window") => audit.discarded = 0

StageLedger == eta = start.eta + SurfaceTerms + IF pc = "window" THEN 0 ELSE gain

Settled ==
  /\ pc \in {"surface", "window", "velocity"} => accum \in 0..MinDepth
  /\ pc = "window" => dept = Depth(eta)

IInv ==
  /\ TypeOK /\ Closure /\ StageLedger /\ OpenAudit /\ OneSigned /\ Settled
  /\ Budget /\ DiscardBound

----------------------------------------------------------------------------
\* The two comparisons return one of their integer arguments.
LEMMA LargerSmaller ==
  ASSUME NEW a \in Int, NEW b \in Int
  PROVE  /\ Larger(a, b) \in Int /\ Larger(a, b) >= a /\ Larger(a, b) >= b
         /\ Smaller(a, b) \in Int /\ Smaller(a, b) <= a /\ Smaller(a, b) <= b
         /\ (Larger(a, b) = a \/ Larger(a, b) = b)
         /\ (Smaller(a, b) = a \/ Smaller(a, b) = b)
BY DEF Larger, Smaller

LEMMA InitIInv == Init => IInv
<1> SUFFICES ASSUME Init PROVE IInv OBVIOUS
<1> USE ConstantsAssumption
<1>1. TypeOK
  BY DEF Init, TypeOK, Audits, Kernels, NoSurf, NoAudit, Depth
<1>2. Closure /\ StageLedger /\ DiscardBound /\ OneSigned /\ OpenAudit /\ Settled /\ Budget
  BY <1>1 DEF Init, Closure, StageLedger, DiscardBound, OneSigned, OpenAudit, Settled, Budget,
    SurfaceTerms, GroundwaterTerms, NoSurf, NoAudit, TypeOK, InWindow, Window
<1> QED BY <1>1, <1>2 DEF IInv

LEMMA SolveStep ==
  ASSUME IInv, NEW lateral \in Laterals, NEW discharge \in Discharges, NEW rain \in Rains,
         NEW ev \in Evaps, NEW wetNeighbour \in BOOLEAN,
         SolveFreeSurface(lateral, discharge, rain, ev, wetNeighbour)
  PROVE  IInv'
<1> USE ConstantsAssumption
<1> DEFINE solved  == eta + lateral + discharge
           lifted  == Lifted(solved)
           limited == Limited(lifted, wetNeighbour)
           removed == Evaporated(limited + rain, ev)
           drained == limited + rain - removed
<1>1. /\ {lateral, discharge, rain, ev} \subseteq Int
      /\ {eta, dept, accum} \subseteq Int
  BY DEF IInv, TypeOK, Audits
<1>2. lifted \in Int /\ limited \in Int /\ removed \in Int /\ drained \in Int
  BY <1>1 DEF Lifted, Limited, Evaporated, Larger, Smaller
<1>3. Dried(drained) \in Nat
  BY <1>2 DEF Dried
<1>4. /\ eta' = Dried(drained) /\ dept' = Depth(eta')
      /\ surf' = [inflow  |-> lateral + discharge + rain - removed,
                  clamp   |-> (lifted - solved) + (Dried(drained) - drained),
                  limited |-> lifted - limited]
      /\ start' = [eta |-> eta, dept |-> dept, accum |-> accum]
      /\ store' = 0 /\ subs' = 0 /\ audit' = NoAudit /\ pc = "surface" /\ pc' = "window"
      /\ UNCHANGED <<accum, avail, gain, mode, value, q, top>>
  BY DEF SolveFreeSurface, exchange
<1> HIDE DEF solved, lifted, limited, removed, drained
<1>5. solved = eta + lateral + discharge /\ drained = limited + rain - removed
  BY DEF solved, drained
<1>6. solved \in Int
  BY <1>1, <1>5
<1>7. TypeOK'
  BY <1>1, <1>2, <1>3, <1>4, <1>6 DEF IInv, TypeOK, Audits, Kernels, NoAudit, Depth
<1>8. Closure' /\ StageLedger'
  BY <1>1, <1>2, <1>3, <1>4, <1>5, <1>6
    DEF Closure, StageLedger, SurfaceTerms, GroundwaterTerms, NoAudit
<1>9. OpenAudit' /\ OneSigned' /\ Settled' /\ Budget' /\ DiscardBound'
  BY <1>3, <1>4 DEF IInv, OpenAudit, OneSigned, Settled, Budget, DiscardBound, InWindow, Window,
    NoAudit
<1> QED BY <1>7, <1>8, <1>9 DEF IInv

LEMMA BeginWindowStep == ASSUME IInv, BeginWindow PROVE IInv'
<1> USE ConstantsAssumption
<1>1. TypeOK'
  BY DEF IInv, TypeOK, Audits, BeginWindow, Kernels, exchange
<1>2. dept <= eta /\ 0 <= dept
  BY DEF IInv, TypeOK, Audits, Settled, OneSigned, BeginWindow, Depth
<1>3. Closure' /\ StageLedger' /\ OpenAudit' /\ OneSigned' /\ Settled' /\ DiscardBound'
  BY DEF IInv, TypeOK, Audits, BeginWindow, Closure, StageLedger, OpenAudit, OneSigned, Settled,
    DiscardBound, SurfaceTerms, GroundwaterTerms, InWindow, Window
<1>4. Budget'
  BY <1>2 DEF IInv, TypeOK, Audits, BeginWindow, Budget, Claim, OneSigned, Settled, InWindow, Window
<1> QED BY <1>1, <1>3, <1>4 DEF IInv

LEMMA BeginSubstepStep ==
  ASSUME IInv, NEW v \in TopValues, BeginSubstep(v)
  PROVE  IInv'
<1> USE ConstantsAssumption
<1>1. TypeOK'
  BY DEF IInv, TypeOK, Audits, BeginSubstep, Kernels
<1>2. Closure' /\ StageLedger' /\ OpenAudit' /\ OneSigned' /\ Settled' /\ DiscardBound'
  BY DEF IInv, TypeOK, Audits, BeginSubstep, Closure, StageLedger, OpenAudit, OneSigned, Settled,
    DiscardBound, SurfaceTerms, GroundwaterTerms, InWindow, Window
<1>3. Budget'
  BY DEF IInv, TypeOK, Audits, BeginSubstep, Budget, Claim, InWindow, Window
<1> QED BY <1>1, <1>2, <1>3 DEF IInv

LEMMA ClassifyTopStep ==
  ASSUME IInv, NEW demand \in Int, ClassifyTop(demand)
  PROVE  IInv'
<1> USE ConstantsAssumption
<1>1. TypeOK'
  BY DEF IInv, TypeOK, Audits, ClassifyTop, Kernels, Take, Larger, Smaller
<1>2. Closure' /\ StageLedger' /\ OpenAudit' /\ OneSigned' /\ Settled' /\ DiscardBound'
  BY DEF IInv, TypeOK, Audits, ClassifyTop, Closure, StageLedger, OpenAudit, OneSigned, Settled,
    DiscardBound, SurfaceTerms, GroundwaterTerms, InWindow, Window
<1>3. Budget'
  BY DEF IInv, TypeOK, Audits, ClassifyTop, Budget, Claim, InWindow, Window
<1> QED BY <1>1, <1>2, <1>3 DEF IInv

\* A wet column's flux never exceeds the budget it is debited from.
LEMMA FluxWithinBudget ==
  ASSUME IInv, NEW darcy \in Int, ComputeFluxes(darcy)
  PROVE  /\ q' \in Int /\ avail' \in Int /\ avail' >= 0
         /\ audit' = [audit EXCEPT !.recharge = audit'.recharge]
         /\ audit'.recharge \in Int /\ audit'.recharge >= audit.recharge
         /\ avail' + (IF q' < 0 THEN -q' ELSE 0) <= avail + (audit'.recharge - audit.recharge)
<1> USE ConstantsAssumption
<1>1. avail \in Int /\ avail >= 0 /\ top \in Int /\ value \in Int /\ audit.recharge \in Int
  BY DEF IInv, TypeOK, Audits, Budget, ComputeFluxes, InWindow, Window
<1>2. audit = [audit EXCEPT !.recharge = audit.recharge]
  BY DEF IInv, TypeOK, Audits
<1>3. CASE SupplyFlux
  <2>1. Take \in Int /\ 0 <= Take /\ Take <= avail
    BY <1>1 DEF Take, Larger, Smaller
  <2> QED BY <1>1, <1>2, <1>3, <2>1 DEF SupplyFlux
<1>4. CASE CapacityFlux(darcy)
  BY <1>1, <1>2, <1>4 DEF CapacityFlux, Larger
<1>5. CASE DryFlux(darcy)
  <2>1. q' \in Int
    BY <1>1, <1>5 DEF DryFlux, Configured, Larger
  <2>2. audit'.recharge = audit.recharge + Larger(0, -q') /\ avail' = avail
    BY <1>5 DEF DryFlux, IInv, TypeOK, Audits
  <2>3. audit' = [audit EXCEPT !.recharge = audit'.recharge]
    BY <1>5, <2>2 DEF DryFlux, IInv, TypeOK, Audits
  <2> QED BY <1>1, <2>1, <2>2, <2>3 DEF Larger
<1> QED BY <1>3, <1>4, <1>5 DEF ComputeFluxes

LEMMA ComputeFluxesStep ==
  ASSUME IInv, NEW darcy \in Int, ComputeFluxes(darcy)
  PROVE  IInv'
<1>1. /\ q' \in Int /\ avail' \in Int /\ avail' >= 0
      /\ audit' = [audit EXCEPT !.recharge = audit'.recharge]
      /\ audit'.recharge \in Int /\ audit'.recharge >= audit.recharge
      /\ avail' + (IF q' < 0 THEN -q' ELSE 0) <= avail + (audit'.recharge - audit.recharge)
  BY FluxWithinBudget
<1>2. /\ pc = "flux" /\ pc' = "book"
      /\ UNCHANGED <<eta, dept, accum, gain, mode, value, top, store, subs, surf, start>>
  BY DEF ComputeFluxes
<1>3. TypeOK'
  BY <1>1, <1>2 DEF IInv, TypeOK, Audits, Kernels
<1>4. Closure' /\ StageLedger' /\ OpenAudit' /\ OneSigned' /\ Settled' /\ DiscardBound'
  BY <1>1, <1>2 DEF IInv, TypeOK, Audits, Closure, StageLedger, OpenAudit, OneSigned, Settled,
    DiscardBound, SurfaceTerms, GroundwaterTerms, InWindow, Window
<1>5. Budget'
  BY <1>1, <1>2 DEF IInv, TypeOK, Audits, Budget, Claim, InWindow, Window
<1> QED BY <1>3, <1>4, <1>5 DEF IInv

LEMMA TopBookkeepingStep == ASSUME IInv, TopBookkeeping PROVE IInv'
<1> USE ConstantsAssumption
<1> DEFINE b == Bounced
           e == EvapBooked(dept')
<1>1. b \in Int /\ b >= 0 /\ e \in Int /\ e >= 0
  BY DEF IInv, TypeOK, Audits, Bounced, EvapBooked
<1>2. /\ pc = "book" /\ pc' = "column"
      /\ eta' = eta + b /\ dept' = dept + b /\ avail' = avail + b /\ gain' = gain + b
      /\ accum' = accum + q - e
      /\ audit' = [audit EXCEPT !.exchanged = @ + q, !.bounce = @ + b, !.evap = @ + e]
      /\ UNCHANGED <<mode, value, q, top, store, subs, surf, start>>
  BY DEF TopBookkeeping, exchange
<1> HIDE DEF b, e
<1>3. /\ audit' \in Audits
      /\ audit'.exchanged = audit.exchanged + q /\ audit'.bounce = audit.bounce + b
      /\ audit'.evap = audit.evap + e
      /\ UNCHANGED <<audit.boundaryIn, audit.vent, audit.internal, audit.discarded, audit.recharge>>
  <2>1. /\ audit \in Audits
        /\ q \in Int
    BY DEF IInv, TypeOK, Audits
  <2> DEFINE x == audit.exchanged + q
             y == audit.bounce + b
             z == audit.evap + e
  <2>2. x \in Int /\ y \in Int /\ z \in Int
    BY <1>1, <2>1 DEF Audits
  <2>3. audit' = [audit EXCEPT !.exchanged = x, !.bounce = y, !.evap = z]
    BY <1>2
  <2> HIDE DEF x, y, z
  <2>4. audit' \in Audits
    BY <2>1, <2>2, <2>3 DEF Audits
  <2> QED BY <1>2, <2>1, <2>4
<1>4. TypeOK'
  BY <1>1, <1>2, <1>3 DEF IInv, TypeOK, Audits, Kernels
<1>5. Closure' /\ StageLedger' /\ OpenAudit' /\ OneSigned'
  BY <1>1, <1>2, <1>3 DEF IInv, TypeOK, Audits, Closure, StageLedger, OpenAudit, OneSigned,
    SurfaceTerms, GroundwaterTerms, InWindow, Window
<1>6. Settled' /\ DiscardBound' /\ Budget'
  BY <1>1, <1>2, <1>3 DEF IInv, TypeOK, Audits, Settled, DiscardBound, OpenAudit, OneSigned, Budget, Claim,
    InWindow, Window
<1> QED BY <1>4, <1>5, <1>6 DEF IInv

LEMMA UpdateColumnStep ==
  ASSUME IInv, NEW first \in Excesses, NEW second \in Excesses, NEW internal \in Internals,
         NEW newTop \in 0..Pore, UpdateColumn(first, second, internal, newTop)
  PROVE  IInv'
<1> USE ConstantsAssumption
<1> DEFINE excess == first + second
           vent   == Vented(dept, first) + Vented(dept + Vented(dept, first), second)
<1>1. excess \in Int /\ vent \in Int /\ vent >= 0 /\ internal \in Int
  BY DEF IInv, TypeOK, Audits, Vented
<1>2. /\ pc = "column" /\ pc' = "substep"
      /\ eta' = eta + vent /\ dept' = dept + vent /\ avail' = avail + vent /\ gain' = gain + vent
      /\ top' = newTop /\ store' = store - q - excess + internal /\ q' = 0
      /\ audit' = [audit EXCEPT !.boundaryIn = @ - q - vent, !.vent = @ + vent,
                                !.internal = @ + internal - (excess - vent)]
      /\ UNCHANGED <<accum, mode, value, subs, surf, start>>
  BY DEF UpdateColumn
<1> HIDE DEF excess, vent
<1>3. /\ audit' \in Audits
      /\ audit'.boundaryIn = audit.boundaryIn - q - vent /\ audit'.vent = audit.vent + vent
      /\ audit'.internal = audit.internal + internal - (excess - vent)
      /\ UNCHANGED <<audit.exchanged, audit.bounce, audit.evap, audit.discarded, audit.recharge>>
  <2>1. /\ audit \in Audits
        /\ q \in Int
    BY DEF IInv, TypeOK, Audits
  <2> DEFINE x == audit.boundaryIn - q - vent
             y == audit.vent + vent
             z == audit.internal + internal - (excess - vent)
  <2>2. x \in Int /\ y \in Int /\ z \in Int
    BY <1>1, <2>1 DEF Audits
  <2>3. audit' = [audit EXCEPT !.boundaryIn = x, !.vent = y, !.internal = z]
    BY <1>2
  <2> HIDE DEF x, y, z
  <2>4. audit' \in Audits
    BY <2>1, <2>2, <2>3 DEF Audits
  <2> QED BY <1>2, <2>1, <2>4
<1>4. TypeOK'
  BY <1>1, <1>2, <1>3 DEF IInv, TypeOK, Audits, Kernels
<1>5. Closure' /\ StageLedger' /\ OpenAudit' /\ OneSigned'
  BY <1>1, <1>2, <1>3 DEF IInv, TypeOK, Audits, Closure, StageLedger, OpenAudit, OneSigned,
    SurfaceTerms, GroundwaterTerms, InWindow, Window
<1>6. Settled' /\ DiscardBound' /\ Budget'
  BY <1>1, <1>2, <1>3 DEF IInv, TypeOK, Audits, Settled, DiscardBound, OpenAudit, OneSigned, Budget, Claim,
    InWindow, Window
<1> QED BY <1>4, <1>5, <1>6 DEF IInv

LEMMA ApplySeepageStep == ASSUME IInv, ApplySeepage PROVE IInv'
<1> USE ConstantsAssumption
<1>1. /\ pc = "substep" /\ pc' = "velocity"
      /\ UNCHANGED <<dept, avail, mode, value, q, top, store, subs, surf, start>>
  BY DEF ApplySeepage, exchange
<1>2. CASE Infiltrate
  <2>1. eta' \in Int /\ eta' >= 0 /\ (eta' = eta + accum \/ (eta' = 0 /\ eta + accum < 0))
    BY <1>2 DEF Infiltrate, IInv, TypeOK, Audits, Larger
  <2>2. /\ gain' = gain + (eta' - eta) /\ accum' = 0
        /\ audit' = [audit EXCEPT !.discarded = (eta' - eta) - accum]
    BY <1>2 DEF Infiltrate
  <2>3. TypeOK'
    BY <1>1, <2>1, <2>2 DEF IInv, TypeOK, Audits, Kernels
  <2>4. Closure' /\ StageLedger' /\ OpenAudit' /\ OneSigned' /\ Settled'
    BY <1>1, <2>1, <2>2 DEF IInv, TypeOK, Audits, Closure, StageLedger, OpenAudit, OneSigned, Settled,
      SurfaceTerms, GroundwaterTerms, InWindow, Window
  <2>5. DiscardBound' /\ Budget'
    BY <1>1, <2>1, <2>2 DEF IInv, TypeOK, Audits, DiscardBound, Budget, Claim, OneSigned, InWindow, Window
  <2> QED BY <2>3, <2>4, <2>5 DEF IInv
<1>3. CASE Release \/ Hold
  <2>1. TypeOK'
    BY <1>1, <1>3 DEF Release, Hold, IInv, TypeOK, Audits, Kernels
  <2>2. Closure' /\ StageLedger' /\ OpenAudit' /\ OneSigned' /\ Settled'
    BY <1>1, <1>3 DEF Release, Hold, IInv, TypeOK, Audits, Closure, StageLedger, OpenAudit, OneSigned,
      Settled, SurfaceTerms, GroundwaterTerms, InWindow, Window
  <2>3. DiscardBound' /\ Budget'
    BY <1>1, <1>3 DEF Release, Hold, IInv, DiscardBound, Budget, InWindow, Window
  <2> QED BY <2>1, <2>2, <2>3 DEF IInv
<1> QED BY <1>2, <1>3 DEF ApplySeepage

LEMMA UpdateVelocityStep == ASSUME IInv, UpdateVelocity PROVE IInv'
<1> USE ConstantsAssumption
<1>1. TypeOK'
  BY DEF IInv, TypeOK, Audits, UpdateVelocity, Kernels, exchange, Depth
<1>2. Closure' /\ StageLedger' /\ OpenAudit' /\ OneSigned' /\ Settled' /\ DiscardBound' /\ Budget'
  BY DEF IInv, TypeOK, Audits, UpdateVelocity, Closure, StageLedger, OpenAudit, OneSigned, Settled,
    DiscardBound, Budget, SurfaceTerms, GroundwaterTerms, InWindow, Window
<1> QED BY <1>1, <1>2 DEF IInv

LEMMA StepIInv == IInv /\ [Next]_vars => IInv'
<1> SUFFICES ASSUME IInv, [Next]_vars PROVE IInv' OBVIOUS
<1> USE ConstantsAssumption
<1>1. CASE UNCHANGED vars
  BY <1>1 DEF vars, exchange, IInv, TypeOK, Audits, Closure, StageLedger, OpenAudit, OneSigned, Settled,
    DiscardBound, Budget, Claim, SurfaceTerms, GroundwaterTerms, InWindow, Window
<1>2. ASSUME NEW lateral \in Laterals, NEW discharge \in Discharges, NEW rain \in Rains,
             NEW ev \in Evaps, NEW wetNeighbour \in BOOLEAN,
             SolveFreeSurface(lateral, discharge, rain, ev, wetNeighbour)
      PROVE  IInv'
  BY <1>2, SolveStep
<1>3. CASE BeginWindow
  BY <1>3, BeginWindowStep
<1>4. ASSUME NEW v \in TopValues, BeginSubstep(v) PROVE IInv'
  BY <1>4, BeginSubstepStep
<1>5. ASSUME NEW demand \in Darcys, ClassifyTop(-demand) PROVE IInv'
  BY <1>5, ClassifyTopStep
<1>6. ASSUME NEW darcy \in Darcys, ComputeFluxes(darcy) PROVE IInv'
  BY <1>6, ComputeFluxesStep
<1>7. CASE TopBookkeeping
  BY <1>7, TopBookkeepingStep
<1>8. ASSUME NEW first \in Excesses, NEW second \in Excesses, NEW internal \in Internals,
             NEW newTop \in 0..Pore, UpdateColumn(first, second, internal, newTop)
      PROVE  IInv'
  BY <1>8, UpdateColumnStep
<1>9. CASE ApplySeepage
  BY <1>9, ApplySeepageStep
<1>10. CASE UpdateVelocity
  BY <1>10, UpdateVelocityStep
<1> QED BY <1>1, <1>2, <1>3, <1>4, <1>5, <1>6, <1>7, <1>8, <1>9, <1>10 DEF Next

THEOREM Invariance == Spec => []IInv
BY InitIInv, StepIInv, PTL DEF Spec

(***************************************************************************)
(* Every kernel keeps the types of the shared state.                       *)
(***************************************************************************)
THEOREM TypeCorrect == Spec => []TypeOK
<1>1. IInv => TypeOK BY DEF IInv
<1> QED BY <1>1, Invariance, PTL

(***************************************************************************)
(* The coupled budget closes at every kernel boundary (Coupler.hpp:52-60   *)
(* with the sign of the coupled mass test).                                *)
(***************************************************************************)
THEOREM BudgetCloses == Spec => []Closure
<1>1. IInv => Closure BY DEF IInv
<1> QED BY <1>1, Invariance, PTL

(***************************************************************************)
(* The tally the driver reports as the surface's gain is the stage's       *)
(* change since the solve (Simulation.cpp:621, Coupler::reduceAudit).      *)
(***************************************************************************)
THEOREM GainIsStageChange == Spec => []GainLedger
<1>1. IInv => GainLedger BY DEF IInv, StageLedger, GainLedger
<1> QED BY <1>1, Invariance, PTL

(***************************************************************************)
(* The bed clamp of applySeepage cuts at most what evaporation and         *)
(* recharge took outside the window's budget.                              *)
(***************************************************************************)
THEOREM DiscardIsBounded == Spec => []DiscardBound
<1>1. IInv => DiscardBound BY DEF IInv
<1> QED BY <1>1, Invariance, PTL

(***************************************************************************)
(* Seepage withheld from a dry surface stays within the wetting threshold. *)
(***************************************************************************)
THEOREM HeldIsBounded == Spec => []HeldBounded
<1>1. IInv => HeldBounded BY DEF IInv, Settled, HeldBounded
<1> QED BY <1>1, Invariance, PTL

----------------------------------------------------------------------------
(***************************************************************************)
(* Without a configured top flux.  Dryness is then one notion: the live    *)
(* depth is 0 or above MinDepth, the mode of a substep agrees with it, and *)
(* only a wet column sends water down, so nothing bounces back.            *)
(***************************************************************************)
Quiet ==
  ~TopFlux =>
    /\ audit.evap = 0 /\ audit.recharge = 0 /\ audit.bounce = 0
    /\ InWindow => dept = 0 \/ dept > MinDepth
    /\ pc \in {"flux", "book"} => (mode = 0 <=> dept = 0)
    /\ (pc = "book" /\ q < 0) => mode # 0

LEMMA InitQuiet == Init => Quiet
BY DEF Init, Quiet, NoAudit, InWindow, Window

LEMMA StepQuiet == IInv /\ Quiet /\ [Next]_vars => Quiet'
<1> SUFFICES ASSUME IInv, Quiet, [Next]_vars PROVE Quiet' OBVIOUS
<1> USE ConstantsAssumption
<1>1. CASE UNCHANGED vars
  BY <1>1 DEF vars, exchange, Quiet, InWindow, Window
<1>2. ASSUME NEW lateral \in Laterals, NEW discharge \in Discharges, NEW rain \in Rains,
             NEW ev \in Evaps, NEW wetNeighbour \in BOOLEAN,
             SolveFreeSurface(lateral, discharge, rain, ev, wetNeighbour)
      PROVE  Quiet'
  BY <1>2 DEF SolveFreeSurface, Quiet, NoAudit, InWindow, Window
<1>3. CASE BeginWindow
  <2>1. dept = 0 \/ dept > MinDepth
    BY <1>3 DEF BeginWindow, IInv, TypeOK, Settled, Depth
  <2> QED BY <1>3, <2>1 DEF BeginWindow, Quiet, InWindow, Window
<1>4. ASSUME NEW v \in TopValues, BeginSubstep(v) PROVE Quiet'
  BY <1>4 DEF BeginSubstep, Quiet, InWindow, Window
<1>5. ASSUME NEW demand \in Darcys, ClassifyTop(-demand) PROVE Quiet'
  BY <1>5 DEF ClassifyTop, IInv, TypeOK, Quiet, InWindow, Window
<1>6. ASSUME NEW darcy \in Darcys, ComputeFluxes(darcy) PROVE Quiet'
  <2>1. /\ pc = "flux" /\ pc' = "book" /\ UNCHANGED <<dept, mode>>
    BY <1>6 DEF ComputeFluxes
  <2>2. CASE SupplyFlux
    BY <2>1, <2>2 DEF SupplyFlux, Quiet, InWindow, Window
  <2>3. CASE CapacityFlux(darcy)
    BY <2>1, <2>3 DEF CapacityFlux, Quiet, InWindow, Window
  <2>4. CASE DryFlux(darcy)
    <3>1. ~TopFlux => q' = Larger(0, darcy)
      BY <2>4, LargerSmaller DEF DryFlux, Configured
    <3>2. ~TopFlux => q' \in Int /\ q' >= 0 /\ Larger(0, -q') = 0
      BY <3>1 DEF Larger
    <3>3. /\ audit'.recharge = audit.recharge + Larger(0, -q')
          /\ UNCHANGED <<audit.evap, audit.bounce>>
      BY <2>4 DEF DryFlux, IInv, TypeOK, Audits
    <3>4. mode' = 0
      BY <2>1, <2>4 DEF DryFlux
    <3> QED BY <2>1, <3>2, <3>3, <3>4 DEF Quiet, InWindow, Window
  <2> QED BY <1>6, <2>2, <2>3, <2>4 DEF ComputeFluxes
<1>7. CASE TopBookkeeping
  <2>1. ~TopFlux => Bounced = 0 /\ EvapBooked(dept') = 0
    BY <1>7 DEF TopBookkeeping, Bounced, EvapBooked, IInv, TypeOK, Quiet, InWindow, Window
  <2>2. /\ pc = "book" /\ pc' = "column" /\ dept' = dept + Bounced
        /\ audit'.bounce = audit.bounce + Bounced /\ audit'.evap = audit.evap + EvapBooked(dept')
        /\ audit'.recharge = audit.recharge
    BY <1>7 DEF TopBookkeeping, IInv, TypeOK, Audits
  <2>3. dept \in Int
    BY DEF IInv, TypeOK
  <2> QED BY <2>1, <2>2, <2>3 DEF Quiet, InWindow, Window
<1>8. ASSUME NEW first \in Excesses, NEW second \in Excesses, NEW internal \in Internals,
             NEW newTop \in 0..Pore, UpdateColumn(first, second, internal, newTop)
      PROVE  Quiet'
  <2> DEFINE vent == Vented(dept, first) + Vented(dept + Vented(dept, first), second)
  <2>1. /\ pc = "column" /\ pc' = "substep" /\ dept' = dept + vent
        /\ UNCHANGED <<audit.bounce, audit.evap, audit.recharge>>
    BY <1>8 DEF UpdateColumn, IInv, TypeOK, Audits
  <2>2. (dept = 0 \/ dept > MinDepth) => dept' = 0 \/ dept' > MinDepth
    BY <2>1 DEF Vented, IInv, TypeOK
  <2> QED BY <2>1, <2>2 DEF Quiet, InWindow, Window
<1>9. CASE ApplySeepage
  <2>1. UNCHANGED <<audit.bounce, audit.evap, audit.recharge>>
    BY <1>9 DEF ApplySeepage, Infiltrate, Release, Hold, IInv, TypeOK, Audits
  <2> QED BY <1>9, <2>1 DEF ApplySeepage, Quiet, InWindow, Window
<1>10. CASE UpdateVelocity
  BY <1>10 DEF UpdateVelocity, Quiet, InWindow, Window
<1> QED BY <1>1, <1>2, <1>3, <1>4, <1>5, <1>6, <1>7, <1>8, <1>9, <1>10 DEF Next

THEOREM QuietInvariance == Spec => []Quiet
BY InitQuiet, StepQuiet, Invariance, PTL DEF Spec

(***************************************************************************)
(* Without a configured top flux the clamp of applySeepage never cuts an   *)
(* infiltration: a window cannot draw more than its pond, however its      *)
(* substeps interleave with vents and changes of mode.                     *)
(***************************************************************************)
THEOREM NothingIsDiscarded == Spec => []NoDiscard
<1>1. IInv /\ Quiet => NoDiscard
  <2> SUFFICES ASSUME IInv, Quiet, ~TopFlux PROVE audit.discarded = 0
    BY DEF NoDiscard
  <2>1. audit.discarded <= 0 /\ audit.discarded \in Int
    BY DEF IInv, DiscardBound, Quiet, TypeOK, Audits
  <2> QED BY <2>1 DEF IInv, OneSigned
<1> QED BY <1>1, Invariance, QuietInvariance, PTL

(***************************************************************************)
(* The live depth is never a film during a window without a configured top *)
(* flux: what a window draws leaves the pond at its end only.              *)
(***************************************************************************)
THEOREM NoFilmInWindow == Spec => []NoFilm
<1>1. Quiet => NoFilm
  BY DEF Quiet, NoFilm
<1> QED BY <1>1, QuietInvariance, PTL

(***************************************************************************)
(* The bounce-back of a supplied cell (Corrector.cpp) is never taken       *)
(* without a configured top flux: there is no film to bounce into.         *)
(***************************************************************************)
THEOREM BounceNeverTaken == Spec => []NoBounce
<1>1. Quiet => NoBounce
  BY DEF Quiet, NoBounce
<1> QED BY <1>1, QuietInvariance, PTL

----------------------------------------------------------------------------
(***************************************************************************)
(* Implementation.  Pond and transit together are never overdrawn, so the  *)
(* mapped pond is a natural number in every state.                         *)
(***************************************************************************)
PondFunded == ~TopFlux => eta + accum \in Nat

LEMMA PondIsFunded == IInv /\ Quiet => PondFunded
<1> SUFFICES ASSUME IInv, Quiet, ~TopFlux PROVE eta + accum \in Nat
  BY DEF PondFunded
<1>1. eta \in Int /\ accum \in Int /\ avail \in Int /\ q \in Int /\ eta >= 0
  BY DEF IInv, TypeOK, OneSigned
<1>2. CASE InWindow
  <2>1. eta + accum >= avail + Claim /\ avail >= 0
    BY <1>2, <1>1 DEF IInv, Budget, Quiet, Claim
  <2> QED BY <1>1, <2>1 DEF Claim
<1>3. CASE ~InWindow
  <2>1. accum \in 0..MinDepth
    BY <1>3 DEF IInv, Settled, TypeOK, Kernels, InWindow, Window
  <2> QED BY <1>1, <2>1, ConstantsAssumption
<1> QED BY <1>2, <1>3

LEMMA InitImplements == Init => Immediate!Init
BY ConstantsAssumption DEF Init, NoAudit, Immediate!Init

LEMMA StepImplements ==
  ASSUME ~TopFlux, IInv, Quiet, PondFunded, IInv', PondFunded', [Next]_vars
  PROVE  [Immediate!Next]_(Immediate!vars)
<1> USE ConstantsAssumption
<1>1. eta + accum \in Nat /\ eta' + accum' \in Nat
  BY DEF PondFunded
<1>2. /\ {eta, accum, store, q, audit.internal} \subseteq Int
      /\ {eta', accum', store', q', audit'.internal} \subseteq Int
  BY DEF IInv, TypeOK, Audits
<1>3. CASE UNCHANGED vars
  BY <1>3 DEF vars, exchange, Immediate!vars
<1>4. ASSUME NEW lateral \in Laterals, NEW discharge \in Discharges, NEW rain \in Rains,
             NEW ev \in Evaps, NEW wetNeighbour \in BOOLEAN,
             SolveFreeSurface(lateral, discharge, rain, ev, wetNeighbour)
      PROVE  Immediate!Weather
  BY <1>1, <1>4 DEF SolveFreeSurface, NoAudit, Immediate!Weather
<1>5. CASE BeginWindow
  BY <1>5 DEF BeginWindow, exchange, Immediate!vars
<1>6. ASSUME NEW v \in TopValues, BeginSubstep(v) PROVE UNCHANGED Immediate!vars
  BY <1>6 DEF BeginSubstep, Immediate!vars
<1>7. ASSUME NEW demand \in Darcys, ClassifyTop(-demand) PROVE UNCHANGED Immediate!vars
  BY <1>7 DEF ClassifyTop, Immediate!vars
<1>8. ASSUME NEW darcy \in Darcys, ComputeFluxes(darcy) PROVE UNCHANGED Immediate!vars
  <2>1. audit'.internal = audit.internal
    BY <1>8 DEF ComputeFluxes, SupplyFlux, CapacityFlux, DryFlux, IInv, TypeOK, Audits
  <2> QED BY <1>8, <2>1 DEF ComputeFluxes, Immediate!vars
<1>9. CASE TopBookkeeping
  <2>1. Bounced = 0 /\ EvapBooked(dept') = 0
    BY <1>9 DEF TopBookkeeping, Bounced, EvapBooked, IInv, TypeOK, Quiet, InWindow, Window
  <2>2. /\ pc = "book" /\ pc' = "column" /\ eta' = eta /\ accum' = accum + q
        /\ q' = q /\ store' = store /\ audit'.internal = audit.internal
    BY <1>2, <1>9, <2>1 DEF TopBookkeeping, exchange, IInv, TypeOK, Audits
  <2> QED BY <1>1, <1>2, <2>2 DEF Immediate!Next, Immediate!Trade
<1>10. ASSUME NEW first \in Excesses, NEW second \in Excesses, NEW internal \in Internals,
              NEW newTop \in 0..Pore, UpdateColumn(first, second, internal, newTop)
       PROVE  Immediate!Trade
  <2> DEFINE excess == first + second
             vent   == Vented(dept, first) + Vented(dept + Vented(dept, first), second)
  <2>1. excess \in Int /\ vent \in Int /\ internal \in Int
    BY DEF Vented
  <2>2. /\ pc = "column" /\ pc' = "substep" /\ eta' = eta + vent /\ accum' = accum
        /\ store' = store - q - excess + internal
        /\ audit'.internal = audit.internal + internal - (excess - vent)
    BY <1>10 DEF UpdateColumn, IInv, TypeOK, Audits
  <2> HIDE DEF excess, vent
  <2> QED BY <1>1, <1>2, <2>1, <2>2 DEF Immediate!Trade
<1>11. CASE ApplySeepage
  <2>1. eta' + accum' = eta + accum
    BY <1>1, <1>2, <1>11 DEF ApplySeepage, Infiltrate, Release, Hold, Larger
  <2>2. audit'.internal = audit.internal
    BY <1>11 DEF ApplySeepage, Infiltrate, Release, Hold, IInv, TypeOK, Audits
  <2> QED BY <1>11, <2>1, <2>2 DEF ApplySeepage, exchange, Immediate!vars
<1>12. CASE UpdateVelocity
  BY <1>12 DEF UpdateVelocity, exchange, Immediate!Next, Immediate!EndStep
<1>13. CASE Next
  <2> SUFFICES Immediate!Next \/ UNCHANGED Immediate!vars
    OBVIOUS
  <2>1. Immediate!Weather \/ Immediate!Trade \/ Immediate!EndStep => Immediate!Next
    BY DEF Immediate!Next
  <2> QED
    BY <1>4, <1>5, <1>6, <1>7, <1>8, <1>9, <1>10, <1>11, <1>12, <1>13, <2>1 DEF Next
<1> QED BY <1>3, <1>13

(***************************************************************************)
(* Without a configured top flux the coupled column implements the         *)
(* immediate exchange: deferring the settlement to the end of the surface  *)
(* step is invisible, and no trade exceeds the pond that pays for it.      *)
(***************************************************************************)
THEOREM ImplementsImmediate == ASSUME ~TopFlux PROVE Spec => ImmediateSpec
<1>1. /\ IInv /\ Quiet /\ PondFunded /\ IInv' /\ PondFunded'
      /\ [Next]_vars
      => [Immediate!Next]_(Immediate!vars)
  BY StepImplements
<1>2. Spec => []PondFunded
  BY PondIsFunded, Invariance, QuietInvariance, PTL
<1> QED
  BY <1>1, <1>2, InitImplements, Invariance, QuietInvariance, PTL DEF Spec, ImmediateSpec, Immediate!Spec
=============================================================================
