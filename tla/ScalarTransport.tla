-------------------------- MODULE ScalarTransport --------------------------
(* One scalar (salinity or temperature) on a row of NX surface cells over NZ *)
(* soil layers, as ScalarSolver::step moves it after every flow step: the    *)
(* surface update, the subsurface update, the snapshots the next step reads, *)
(* the audit of everything that is not conserved, and a restart.             *)
(*                                                                           *)
(* Units: dx = dy = dt = 1 and every soil cell is active, so a depth, a flow *)
(* rate and a volume are the same integer; the scalar is an exact fraction.  *)
(* The water is the flow modules' (CoupledColumn and Reallocation model it): *)
(* here it is any of the constants' flows. Dispersion is molecular only, the *)
(* pore factor wcs is part of mol and kap. Along y the code repeats x.       *)
EXTENDS Integers, FiniteSets, Rational

CONSTANTS NX, NZ, Setups, Flows, Substeps, MinDepth, MaxSteps

ASSUME SizeAssumption == NX \in Nat \ {0, 1} /\ NZ \in Nat \ {0} /\ MinDepth \in Nat

Cols   == 1..NX
Slots  == 0..NX + 1
XFaces == 0..NX
Layers == 1..NZ
ZFaces == 1..NZ + 1
Cells  == Cols \X Layers

\* What a setup holds: scalars are exact fractions, the prescribed sides are
\* the two ends of the row.
ASSUME SetupAssumption ==
  \A s \in Setups :
    /\ {s.surface, s.ground, s.superbee, s.thermal, s.consistentSurface, s.consistentSub,
         s.hasMax, s.hasMin, s.allowance, s.conductive, s.equilibrium} \subseteq BOOLEAN
    /\ {s.boundMax, s.boundMin, s.tideValue, s.inflowS, s.pinValue, s.sideValue,
         s.equilibriumK, s.equilibriumT} \subseteq Fractions
    /\ {s.kap, s.mol, s.difu, s.inflowQ} \subseteq Nat /\ s.topValue \in Int
    /\ s.dz \in [Layers -> Nat \ {0}] /\ s.sub \in Nat \ {0}
    /\ s.sides \subseteq {0, NX + 1} /\ s.headTop \cap s.topFlux = {}
    /\ s.dept0 \in [Cols -> Nat] /\ s.wc0 \in [Cells -> Nat \ {0}]
    /\ s.s0 \in [Cols -> Fractions] /\ s.g0 \in [Cells -> Fractions]

\* Water crosses only a face that has an area, and no cell evaporates as much
\* as the smallest flux volume: where it does the code divides by zero.
ASSUME FlowAssumption ==
  \A f \in Flows :
    /\ f.fu \in [XFaces -> Int] /\ f.asx \in [XFaces -> Nat] /\ f.gap \in [Cols -> Int]
    /\ \A x \in XFaces : f.fu[x] # 0 => f.asx[x] # 0
    /\ f.rain \in Fractions /\ f.evap \in Fractions /\ f.evap \prec I(1)

\* A walk of the reallocation carries water up, to a layer above or out of the
\* top (0), or down, to a layer below; one that a closed top has sent back may
\* also end in the layer it came from. v.gap is what a cell gains or loses over
\* no face: moisture restored from the head, shares that are dropped, storage.
ASSUME SubstepAssumption ==
  \A v \in Substeps :
    /\ v.x \in [XFaces \X Layers -> Int] /\ v.z \in [Cols \X ZFaces -> Int]
    /\ v.from \in [Cols -> Layers] /\ v.to \in [Cols -> 0..NZ] /\ v.vol \in [Cols -> Nat]
    /\ v.down \in [Cols -> BOOLEAN] /\ v.gap \in [Cells -> Int]
    /\ \A i \in Cols : v.vol[i] > 0 =>
         IF v.down[i] THEN v.to[i] > 1 /\ v.to[i] >= v.from[i] ELSE v.to[i] < v.from[i]

VARIABLES
  setup,                          \* the configuration, one of Setups
  pc, steps,
  dept, fu, asx, rain, evap,      \* surface water: depths, x flow rates, face areas
  wc, wcn, qx, qz, taken,         \* soil water now and at the start of the last substep,
                                  \* that substep's volumes, the window's substeps so far
  qxWin, qzWin, ventWin,          \* the volumes moved since the last transport step
  unbooked,                       \* history: what a cell gained since then over no face
  seepAccum, qss,                 \* seepage collected, and the rate last applied
  sSurf, vsn, fuOld, sKp, ssee, dzzTop,
  sSubs, wcT,
  audit, history                  \* history: what the properties compare with

flowVars   == <<dept, fu, asx, rain, evap>>
soilVars   == <<wc, wcn, qx, qz, taken, qxWin, qzWin, ventWin, unbooked>>
seepVars   == <<seepAccum, qss>>
scalarVars == <<sSurf, vsn, fuOld, sKp, ssee, dzzTop, sSubs, wcT>>
vars == <<setup, pc, steps, flowVars, soilVars, seepVars, scalarVars, audit, history>>

Coupled    == setup.surface /\ setup.ground
Consistent == setup.consistentSub /\ setup.ground
LimHi == IF setup.hasMax THEN setup.boundMax ELSE I(1000)
LimLo == IF setup.hasMin THEN setup.boundMin ELSE I(-1000)
Wet(i) == dept[i] > 0

Clip(i) == IF i < 1 THEN 1 ELSE IF i > NX THEN NX ELSE i

-----------------------------------------------------------------------------
(* What the steps have in common: face values, ghosts, masses.               *)

SuperbeePhi(r) ==
  LET r1 == Lower(I(2) \otimes r, I(1))
      r2 == Lower(r, I(2))
  IN  IF Zero \prec r1 \/ Zero \prec r2 THEN Higher(r1, r2) ELSE Zero

\* The flux-limited share of the step from the donor sc to the acceptor sp,
\* sm being the donor's upwind neighbour.
Slope(sp, sc, sm) ==
  IF sp = sc THEN Zero
  ELSE Q(1, 2) \otimes SuperbeePhi((sc \ominus sm) \oslash (sp \ominus sc)) \otimes (sp \ominus sc)

TvdSuperbee(sp, sc, sm, courant) ==
  sc \oplus (Slope(sp, sc, sm) \otimes (I(1) \ominus courant))

\* Zero-gradient ghosts of the interior values s, one per row of cells.
EdgeGhosts(s) == [i \in Slots |-> s[Clip(i)]]

\* kappa V: the heat the grains of a cell of this layer hold.
GrainBasis(k) == setup.kap * setup.dz[k]

SurfaceMass(s, d)  == Total([i \in Cols |-> s[i] \otimes I(d[i])], Cols)
GroundMass(s, w) == Total([c \in Cells |-> s[c] \otimes I(w[c] + GrainBasis(c[2]))], Cells)

\* applyCellPins: the pinned top and bottom cells, and the mass that takes.
Pinned(s) ==
  [c \in Cells |-> IF \/ c[2] = 1 /\ c[1] \in setup.topPins
                      \/ c[2] = NZ /\ c[1] \in setup.botPins THEN setup.pinValue
                   ELSE s[c]]

\* enforceSubsurfaceBc: ghosts beside the row, prescribed where a side is.
WithSideGhosts(s) ==
  [c \in Slots \X Layers |->
     IF c[1] \in setup.sides THEN setup.sideValue ELSE s[<<Clip(c[1]), c[2]>>]]

TopScalar(s) == [i \in Cols |-> IF Coupled THEN s[<<i, 1>>] ELSE Zero]

NoAudit == [exchange |-> Zero, surfSource |-> Zero, surfBoundary |-> Zero,
            surfAdjust |-> Zero, surfAnchor |-> Zero, surfAtmos |-> Zero,
            subsBoundary |-> Zero, subsAdjust |-> Zero, subsAnchor |-> Zero]

\* The state at the start of the current transport step, as far as the
\* properties need it.
Snapshot == [surf |-> SurfaceMass(sSurf, dept), subs |-> GroundMass(sSubs, wc), wc |-> wc,
             surfMissed |-> Zero, subsMissed |-> Zero, sound |-> TRUE, clipped |-> FALSE]

-----------------------------------------------------------------------------
(* The flow modules, as the transport sees them.                             *)

\* The new depths are the flow's divergence and f.gap: rain, evaporation, the
\* clamps, limiters and the wet/dry rules.
SurfaceFlow(f) ==
  /\ pc = "flow" /\ steps < MaxSteps /\ setup.surface
  /\ fu' = f.fu /\ asx' = f.asx /\ rain' = f.rain /\ evap' = f.evap
  /\ dept' = [i \in Cols |->
       LET d == dept[i] + f.fu[i - 1] - f.fu[i] + f.gap[i]
                + (IF i \in setup.inflow THEN setup.inflowQ ELSE 0)
       IN  IF d < 0 THEN 0 ELSE d]
  /\ pc' = "window"
  /\ UNCHANGED <<setup, steps, soilVars, seepVars, scalarVars, audit, history>>

NoSurfaceFlow ==
  /\ pc = "flow" /\ steps < MaxSteps /\ ~setup.surface
  /\ pc' = "window"
  /\ UNCHANGED <<setup, steps, flowVars, soilVars, seepVars, scalarVars, audit, history>>

\* Whether the water sent up past the top of column i arrives anywhere: a dry
\* surface refuses less than min_depth.
Vents(v, i) == v.to[i] = 0 /\ v.vol[i] > 0
Arrives(v, i) == Coupled => Wet(i) \/ v.vol[i] > MinDepth
Walked(v, i) == v.vol[i] > 0 /\ (Vents(v, i) => Arrives(v, i))

\* A top that passes water: coupled, under a prescribed head or flux. Only the
\* first two let a walk out; the others send it back down, and only then can it
\* end where it began.
Outlet(i) == Coupled \/ i \in setup.headTop
Possible(v, i) ==
  /\ Vents(v, i) => Outlet(i)
  /\ v.vol[i] > 0 /\ v.to[i] = v.from[i] => ~Outlet(i)
  /\ v.z[<<i, 1>>] # 0 => Outlet(i) \/ i \in setup.topFlux

\* Mutant: a walk down is recorded with the sign of one up.
CrossedUpwards(v, i, f) ==
  CASE Walked(v, i) /\ f \in v.to[i] + 1..v.from[i] -> v.vol[i]
    [] Walked(v, i) /\ f \in v.from[i] + 1..v.to[i] -> v.vol[i]
    [] OTHER -> 0

\* What the walk carried over face f of column i, positive up.
Crossed(v, i, f) ==
  CASE Walked(v, i) /\ f \in v.to[i] + 1..v.from[i] -> v.vol[i]
    [] Walked(v, i) /\ f \in v.from[i] + 1..v.to[i] -> -v.vol[i]
    [] OTHER -> 0

\* The walk in the legacy flux: at the last face of its way only, and above the
\* receiver even where a walk sent back ends in its own layer.
Mirrored(v, i, f) ==
  CASE Walked(v, i) /\ ~v.down[i] /\ f = v.to[i] + 1 -> v.vol[i]
    [] Walked(v, i) /\ v.down[i] /\ f = v.to[i] -> -v.vol[i]
    [] OTHER -> 0

\* One subsurface step: the face volumes v.x (positive towards -x) and v.z
\* (positive up), then the reallocation, which takes v.vol[i] from layer
\* v.from[i] of column i to v.to[i] (0: out of the top). The window gets every
\* face on the way. A vent that a dry surface refuses is lost.
SoilStep(v) ==
  /\ pc = "window" /\ setup.ground /\ taken < setup.sub
  /\ \A i \in Cols : Possible(v, i)
  /\ wc' = [c \in Cells |->
       LET i == c[1]
           k == c[2]
       IN  wc[c] + v.x[<<i, k>>] - v.x[<<i - 1, k>>] + v.z[<<i, k + 1>>] - v.z[<<i, k>>]
           - (IF k = v.from[i] THEN v.vol[i] ELSE 0) + (IF k = v.to[i] THEN v.vol[i] ELSE 0)
           + v.gap[c]]
  /\ \A c \in Cells : wc'[c] > 0
  /\ wcn' = wc
  /\ qx' = v.x
  /\ qz' = [c \in Cols \X ZFaces |-> v.z[c] + Mirrored(v, c[1], c[2])]
  /\ unbooked' = [c \in Cells |->
       unbooked[c] + v.gap[c]
       - (IF c[2] = v.from[c[1]] /\ ~Walked(v, c[1]) THEN v.vol[c[1]] ELSE 0)]
  /\ IF Consistent
     THEN /\ qxWin' = [c \in XFaces \X Layers |-> qxWin[c] + v.x[c]]
          /\ qzWin' = [c \in Cols \X ZFaces |->
               qzWin[c] + v.z[c] + Crossed(v, c[1], c[2])]
          /\ ventWin' = [i \in Cols |->
               ventWin[i] + (IF Coupled /\ Vents(v, i) /\ Arrives(v, i) THEN v.vol[i] ELSE 0)]
     ELSE UNCHANGED <<qxWin, qzWin, ventWin>>
  /\ IF Coupled
     THEN /\ dept' = [i \in Cols |->
               dept[i] + (IF Vents(v, i) /\ Arrives(v, i) THEN v.vol[i] ELSE 0)]
          /\ seepAccum' = [i \in Cols |->
               seepAccum[i] + v.z[<<i, 1>>]
               - (IF i \in setup.topFlux /\ dept[i] <= MinDepth THEN setup.topValue ELSE 0)]
     ELSE UNCHANGED <<dept, seepAccum>>
  /\ taken' = taken + 1
  /\ UNCHANGED <<setup, pc, steps, fu, asx, rain, evap, qss, scalarVars, audit, history>>

\* The end of the window. Seepage onto a surface no deeper than min_depth is
\* withheld until more than min_depth of it is collected; qss is the collected
\* rate all the same.
ApplySeepage ==
  /\ pc = "window"
  /\ IF Coupled
     THEN LET a(i) == seepAccum[i]
              Applied(i) == a(i) < 0 \/ dept[i] > MinDepth \/ a(i) > MinDepth
          IN  /\ qss' = seepAccum
              /\ dept' = [i \in Cols |->
                   IF Applied(i) THEN IF dept[i] + a(i) < 0 THEN 0 ELSE dept[i] + a(i)
                   ELSE dept[i]]
              /\ seepAccum' = [i \in Cols |-> IF Applied(i) THEN 0 ELSE a(i)]
     ELSE UNCHANGED <<qss, dept, seepAccum>>
  /\ pc' = "surface"
  /\ taken' = 0
  /\ UNCHANGED <<setup, steps, fu, asx, rain, evap, wc, wcn, qx, qz, qxWin, qzWin, ventWin,
                 unbooked, scalarVars, audit, history>>

-----------------------------------------------------------------------------
(* stepSurface.                                                              *)

\* The scalar the water takes through x face f: the donor's, or the superbee
\* value where the donor is not an edge ghost. Both cells of a face use it.
SurfFace(f) ==
  IF fu[f] > 0
  THEN IF setup.superbee /\ f > 0
       THEN TvdSuperbee(sSurf[f + 1], sSurf[f], sSurf[f - 1], Q(Magnitude(fu[f]), asx[f]))
       ELSE sSurf[f]
  ELSE IF setup.superbee /\ f < NX /\ fu[f] # 0
       THEN TvdSuperbee(sSurf[f], sSurf[f + 1], sSurf[f + 2], Q(Magnitude(fu[f]), asx[f]))
       ELSE sSurf[f + 1]

Advected(f) == I(fu[f]) \otimes SurfFace(f)
Diffused(f) == I(setup.difu * asx[f]) \otimes (sSurf[f + 1] \ominus sSurf[f])

\* The scalar rate of the seepage into column i, with the interface diffusion.
ExchangeRate(i) ==
  LET diffusive == Q(2 * dzzTop, setup.dz[1]) \otimes (sKp[i] \ominus sSurf[i])
      up   == I(qss[i]) \otimes sKp[i]
      down == I(qss[i]) \otimes sSurf[i]
  IN  IF ~Coupled THEN Zero
      ELSE IF Consistent
      THEN (IF qss[i] > 0 /\ Wet(i) THEN up ELSE IF qss[i] < 0 THEN down ELSE Zero)
           \oplus (IF Wet(i) THEN diffusive ELSE Zero)
           \oplus (I(ventWin[i]) \otimes sKp[i])
      ELSE IF qss[i] > 0 /\ Wet(i) THEN up \oplus diffusive
      ELSE IF qss[i] < 0 THEN down \oplus diffusive
      ELSE Zero

InflowHere(i) == i \in setup.inflow /\ setup.inflowQ > 0

SurfIncrement(i) ==
  (sSurf[i] \otimes I(vsn[i])) \oplus Advected(i - 1) \ominus Advected(i)
  \oplus Diffused(i) \ominus Diffused(i - 1) \oplus ExchangeRate(i)

SurfInflow(i) == IF InflowHere(i) THEN I(setup.inflowQ) \otimes setup.inflowS ELSE Zero

\* Mutant: the consistent update divides by the lagged volume all the same.
FluxVolumeLagged(i) ==
  LET v    == vsn[i] + fuOld[i - 1] - fuOld[i]
      dv   == IF Wet(i) THEN qss[i] ELSE 0
      exchanged == IF Coupled /\ (qss[i] > 0 \/ (qss[i] < 0 /\ v > -dv)) THEN dv ELSE 0
  IN  v + exchanged + (IF Coupled /\ Consistent THEN ventWin[i] ELSE 0)
      + (IF InflowHere(i) THEN setup.inflowQ ELSE 0)

\* The volume the mass is divided by: with the flow rates of this step
\* (consistent) or of the step before (legacy).
FluxVolume(i) ==
  LET q(f) == IF setup.consistentSurface THEN fu[f] ELSE fuOld[f]
      v    == vsn[i] + q(i - 1) - q(i)
      dv   == IF Wet(i) THEN qss[i] ELSE 0
      exchanged == IF Coupled /\ (qss[i] > 0 \/ (qss[i] < 0 /\ v > -dv)) THEN dv ELSE 0
  IN  v + exchanged + (IF Coupled /\ Consistent THEN ventWin[i] ELSE 0)
      + (IF InflowHere(i) THEN setup.inflowQ ELSE 0)

\* The wet stencil of the limiter. vsn holds the depths the step began with.
SurfStencil(i) ==
  {sSurf[i]}
  \cup {sSurf[j] : j \in {n \in {i - 1, i + 1} : /\ asx[IF n < i THEN n ELSE i] > 0
                                                 /\ vsn[Clip(n)] > 0}}
  \cup (IF Coupled /\ setup.conductive THEN {sKp[i]} ELSE {})

Highest(S) == CHOOSE x \in S : \A y \in S : ~(x \prec y)
Lowest(S)  == CHOOSE x \in S : \A y \in S : ~(y \prec x)

\* The limiter, off where the water of a legacy run is still over a tight bed,
\* and released at an inflow cell.
SurfLimited(i, raw) ==
  LET hi == IF InflowHere(i) THEN LimHi ELSE Highest(SurfStencil(i))
      lo == IF InflowHere(i) THEN LimLo \ominus I(1) ELSE Lowest(SurfStencil(i))
      applies == \/ fu[i] # 0 \/ fu[i - 1] # 0 \/ setup.consistentSurface
                 \/ Coupled /\ setup.conductive
  IN  IF applies /\ hi \prec raw /\ hi \notin {LimHi, LimLo} THEN hi
      ELSE IF applies /\ raw \prec lo /\ lo # LimHi THEN lo ELSE raw

SurfBounded(value) ==
  IF setup.hasMax /\ ~(value \prec LimHi) THEN LimHi
  ELSE IF setup.hasMin /\ value \prec LimLo THEN LimLo ELSE value

\* Rain and evaporation, which carry no salt; temperature is left alone. The
\* instances evaporate less than any flux volume: the code would divide by zero.
Dilution(i, v) ==
  IF setup.thermal \/ v <= 0 \/ ~Wet(i) THEN Zero
  ELSE IF dept[i] > MinDepth /\ Zero \prec rain THEN rain ELSE Zero \ominus evap

\* The new scalar of column i and what the audit books for it.
SurfUpdate(i) ==
  LET sm    == SurfIncrement(i) \oplus SurfInflow(i)
      v     == FluxVolume(i)
      wet   == v > 0 /\ Wet(i)
      raw   == IF wet THEN sm \oslash I(v) ELSE Zero
      held  == IF wet THEN SurfBounded(SurfLimited(i, raw)) ELSE Zero
      vre   == Dilution(i, v)
      basis == I(v) \oplus vre
      mixed == IF vre = Zero THEN held ELSE (held \otimes I(v)) \oslash basis
      heat  == IF setup.equilibrium /\ Wet(i) /\ Zero \prec basis
               THEN setup.equilibriumK \otimes (setup.equilibriumT \ominus mixed) ELSE Zero
      value == IF heat = Zero THEN mixed ELSE mixed \oplus (heat \oslash basis)
  IN  [value  |-> value,
       adjust |-> IF wet THEN (held \ominus raw) \otimes I(v) ELSE Zero \ominus sm,
       anchor |-> IF wet THEN value \otimes (I(dept[i]) \ominus basis) ELSE Zero,
       atmos  |-> heat]

\* A Dirichlet (tide) cell is reset after the ghosts have copied it, a dry one
\* holds nothing.
Reset(i, value) == IF i \in setup.tide THEN setup.tideValue ELSE value
DryRule(i, value) == IF Wet(i) THEN value ELSE Zero

\* Diffusion through the row's ends enters the mass and no audit term: the
\* ghost has another value than its cell only after a reset, and before the
\* first step.
EdgeDiffusion == Diffused(NX) \ominus Diffused(0)

\* The scalar of the first cell, which a uniform run has everywhere.
Level == setup.s0[1]

\* Every flow of the step takes water at the uniform scalar and every volume is
\* accounted for: what the uniformity of a consistent step rests on. Rain and
\* evaporation, a ghost no step has set, seepage still withheld, a surface that
\* gives more than it has, soil that owes all its water to what crossed no face,
\* and a cell that has just become wet over a diffusive interface (its scalar is
\* still a dry cell's zero) are the ways out.
EvenlyFed ==
  /\ rain = Zero /\ evap = Zero
  /\ \A f \in XFaces : /\ fu[f] # 0 => sSurf[IF fu[f] > 0 THEN f ELSE f + 1] = Level
                       /\ setup.difu * asx[f] > 0 => sSurf[f] = sSurf[f + 1]
  /\ setup.surface => \A i \in Cols : Wet(i) => FluxVolume(i) > 0
  /\ setup.ground =>
       \A i \in Cols : setup.surface \/ qzWin[<<i, 1>>] = 0
                       \/ (qzWin[<<i, 1>>] > 0 /\ i \notin setup.topFlux \cup setup.cauchy)
  /\ setup.ground => \A c \in Cells : unbooked[c] < wc[c] + GrainBasis(c[2])
  /\ Coupled =>
       \A i \in Cols : /\ Wet(i) /\ dzzTop > 0 => sSurf[i] = sKp[i]
                       /\ qss[i] + ventWin[i] = qzWin[<<i, 1>>]
                       /\ qss[i] + ventWin[i] > 0 => Wet(i)
                       /\ qss[i] < 0 => /\ sSurf[i] = Level
                                        /\ vsn[i] + fu[i - 1] - fu[i] > -qss[i]

StepSurface ==
  /\ pc = "surface"
  /\ IF setup.surface
     THEN \E new \in {[i \in Cols |-> SurfUpdate(i)]} :
          LET ghosts == EdgeGhosts([i \in Cols |-> new[i].value])
              reset  == [i \in Cols |-> Reset(i, new[i].value)]
          IN /\ ssee' = [i \in Cols |-> ExchangeRate(i)]
             /\ sSurf' = [i \in Slots |->
                  IF i \in Cols THEN DryRule(i, reset[i]) ELSE ghosts[i]]
             /\ audit' = [NoAudit EXCEPT
                  !.exchange = Total([i \in Cols |-> ExchangeRate(i)], Cols),
                  !.surfBoundary = Advected(0) \ominus Advected(NX),
                  !.surfSource = Total([i \in Cols |-> SurfInflow(i) \oplus
                       ((reset[i] \ominus new[i].value) \otimes I(dept[i]))], Cols),
                  !.surfAdjust = Total([i \in Cols |-> new[i].adjust], Cols),
                  !.surfAnchor = Total([i \in Cols |-> new[i].anchor], Cols),
                  !.surfAtmos  = Total([i \in Cols |-> new[i].atmos], Cols)]
             /\ history' = [history EXCEPT !.surfMissed = EdgeDiffusion,
                     !.sound = @ /\ EvenlyFed,
                     !.clipped = @ \/ \E i \in Cols : Wet(i) /\ new[i].adjust # Zero]
     ELSE /\ audit' = NoAudit
          /\ history' = [history EXCEPT !.sound = @ /\ EvenlyFed]
          /\ UNCHANGED <<ssee, sSurf>>
  /\ pc' = "ground"
  /\ UNCHANGED <<setup, steps, flowVars, soilVars, seepVars, vsn, fuOld, sKp, dzzTop, sSubs, wcT>>

-----------------------------------------------------------------------------
(* stepSubsurface. It reads the surface scalar stepSurface has just updated. *)

\* The face rates of the step: the last substep's, or the window's mean.
FlowX(c) == IF Consistent THEN qxWin[c] ELSE setup.sub * qx[c]
FlowZ(c) == IF Consistent THEN qzWin[c] ELSE setup.sub * qz[c]

\* The water the scalar was last based on, and the divergence of the rates over
\* the time they stand for (dt, or the last dtg = 1 / sub).
WaterBasis(c) == IF Consistent THEN wcT[c] ELSE wcn[c]
Divergence(c) ==
  LET i == c[1]
      k == c[2]
      qX(f) == IF Consistent THEN qxWin[f] ELSE qx[f]
      qZ(f) == IF Consistent THEN qzWin[f] ELSE qz[f]
  IN  qX(<<i, k>>) - qX(<<i - 1, k>>) + qZ(<<i, k + 1>>) - qZ(<<i, k>>)
GroundFluxVolume(c) == WaterBasis(c) + GrainBasis(c[2]) + Divergence(c)

Above(i, k) == IF k > 1 THEN sSubs[<<i, k - 1>>]
               ELSE IF Coupled THEN sSurf[i] ELSE sSubs[<<i, 1>>]
Below(i, k) == IF k < NZ THEN sSubs[<<i, k + 1>>] ELSE sSubs[<<i, k>>]

Courant(q, k) == Q(Magnitude(q), setup.dz[k])

\* The donor's scalar at x face f, where a positive rate flows towards -x.
SideFace(f, k) ==
  LET q == FlowX(<<f, k>>)
      s(i) == sSubs[<<i, k>>]
  IN  IF q > 0 THEN IF setup.superbee /\ f < NX
                    THEN TvdSuperbee(s(f), s(f + 1), s(f + 2), Q(q, setup.dz[k]))
                    ELSE s(f + 1)
      ELSE IF q < 0 THEN IF setup.superbee /\ f > 0
                         THEN TvdSuperbee(s(f + 1), s(f), s(f - 1), Q(-q, setup.dz[k]))
                         ELSE s(f)
      ELSE Zero

\* The scalar at the lower face of cell (i, k), as that cell computes it.
LowerFace(i, k) ==
  LET q == FlowZ(<<i, k + 1>>)
  IN  IF q > 0 THEN IF setup.superbee /\ k < NZ
                    THEN TvdSuperbee(sSubs[<<i, k>>], sSubs[<<i, k + 1>>], Below(i, k + 1), Courant(q, k))
                    ELSE Below(i, k)
      ELSE IF q < 0 THEN IF setup.superbee
                         THEN TvdSuperbee(Below(i, k), sSubs[<<i, k>>], Above(i, k), Courant(q, k))
                         ELSE sSubs[<<i, k>>]
      ELSE Zero

\* The scalar at the top of the column. A coupled column exchanges through the
\* seepage; salt neither leaves with evaporation nor enters with rain.
TopFace(i) ==
  LET q     == FlowZ(<<i, 1>>)
      donor == sSubs[<<i, 1>>]
      flux  == i \in setup.topFlux
  IN  IF Coupled THEN Zero
      ELSE IF setup.thermal THEN IF q # 0 THEN donor ELSE Zero
      ELSE IF i \in setup.cauchy \/ flux THEN Zero
      ELSE IF setup.superbee \/ q > 0 THEN donor ELSE Zero

\* The scalar at the upper face of cell (i, k), with that cell's own thickness
\* in the Courant number: LowerFace(i, k - 1) has the other's.
UpperFace(i, k) ==
  LET q == FlowZ(<<i, k>>)
  IN  IF k = 1 THEN TopFace(i)
      ELSE IF q > 0 THEN IF setup.superbee
                         THEN TvdSuperbee(sSubs[<<i, k - 1>>], sSubs[<<i, k>>], Below(i, k), Courant(q, k))
                         ELSE sSubs[<<i, k>>]
      ELSE IF q < 0 THEN IF setup.superbee
                         THEN TvdSuperbee(sSubs[<<i, k>>], sSubs[<<i, k - 1>>], Above(i, k - 1), Courant(q, k))
                         ELSE sSubs[<<i, k - 1>>]
      ELSE Zero

Dispersed(f, k) ==
  IF setup.conductive /\ f \in 1..NX - 1
  THEN I(setup.mol * setup.dz[k]) \otimes (sSubs[<<f + 1, k>>] \ominus sSubs[<<f, k>>]) ELSE Zero

DispersedBelow(i, k) ==
  IF setup.conductive /\ k < NZ
  THEN Q(setup.mol, setup.dz[k]) \otimes (sSubs[<<i, k + 1>>] \ominus sSubs[<<i, k>>]) ELSE Zero

\* The legacy diffusion into a wet surface, taken from the soil alone: the
\* surface books its own with the exchange.
DispersedTop(i) ==
  IF Coupled /\ ~Consistent /\ Wet(i)
  THEN Q(setup.mol, setup.dz[1]) \otimes (sSubs[<<i, 1>>] \ominus sSurf[i]) ELSE Zero

SideMass(f, k)  == (I(FlowX(<<f, k>>)) \otimes SideFace(f, k)) \oplus Dispersed(f, k)
LowerMass(i, k) == (I(FlowZ(<<i, k + 1>>)) \otimes LowerFace(i, k)) \oplus DispersedBelow(i, k)
UpperMass(i, k) == (I(FlowZ(<<i, k>>)) \otimes UpperFace(i, k))
                   \oplus (IF k = 1 THEN DispersedTop(i) ELSE DispersedBelow(i, k - 1))

GroundIncrement(c) ==
  LET i == c[1]
      k == c[2]
  IN  (sSubs[c] \otimes I(WaterBasis(c) + GrainBasis(k)))
      \oplus (SideMass(i, k) \ominus SideMass(i - 1, k))
      \oplus (LowerMass(i, k) \ominus UpperMass(i, k))
      \ominus (IF Coupled /\ k = 1 THEN ssee[i] ELSE Zero)

\* Mutant: the one-sided gain at a coupled top is not booked.
BoundaryInOpenOnly ==
  LET Ends == [k \in Layers |-> SideMass(NX, k) \ominus SideMass(0, k)]
      Columns == [i \in Cols |-> LowerMass(i, NZ) \ominus
                  (IF Coupled THEN Zero ELSE I(FlowZ(<<i, 1>>)) \otimes UpperFace(i, 1))]
  IN  Total(Ends, Layers) \oplus Total(Columns, Cols)

\* The mass in through the outer faces, as the audit books it.
BoundaryIn ==
  LET Ends == [k \in Layers |-> SideMass(NX, k) \ominus SideMass(0, k)]
      Columns == [i \in Cols |-> LowerMass(i, NZ) \ominus
                  (IF Coupled THEN DispersedTop(i) ELSE I(FlowZ(<<i, 1>>)) \otimes UpperFace(i, 1))]
  IN  Total(Ends, Layers) \oplus Total(Columns, Cols)

\* The conductive stencil: neighbours in the row and the column, a wet coupled
\* surface above, and for temperature a prescribed side. Not the cell itself.
GroundStencil(c) ==
  LET i == c[1]
      k == c[2]
  IN  IF ~setup.conductive THEN {}
      ELSE {sSubs[<<n, k>>] : n \in {m \in {i - 1, i + 1} : m \in Cols \/ (setup.thermal /\ m \in setup.sides)}}
           \cup {sSubs[<<i, n>>] : n \in {k - 1, k + 1} \cap Layers}
           \cup (IF k = 1 /\ Coupled /\ Wet(i) THEN {sSurf[i]} ELSE {})

EvapTop(c) == /\ Coupled /\ c[2] = 1 /\ c[1] \in setup.topFlux
              /\ setup.topValue > 0 /\ ~Wet(c[1])

\* The limiter's window; at a top that passes water and no salt it admits the
\* factor by which that alone concentrates or dilutes the cell.
Window(c) ==
  LET S   == GroundStencil(c)
      top == <<c[1], 1>>
      v   == GroundFluxVolume(c)
      hi  == (IF S = {} THEN LimLo ELSE Highest(S))
             \oplus (IF EvapTop(c) /\ setup.allowance THEN Q(1, 100) ELSE Zero)
      lo  == IF S = {} THEN LimHi ELSE Lowest(S)
      interior == v + (IF Consistent THEN qzWin[top] ELSE qz[top])
      factor   == Q(interior, v)
      anchorHi == Higher(hi, sSubs[c])
      anchorLo == Lower(lo, sSubs[c])
      widened  == /\ c[2] = 1 /\ v > 0
                  /\ c[1] \in setup.cauchy \/ (EvapTop(c) /\ ~setup.allowance)
  IN  IF ~widened THEN [hi |-> hi, lo |-> lo]
      ELSE IF interior <= 0 THEN [hi |-> anchorHi, lo |-> anchorLo]
      ELSE IF interior > v THEN [hi |-> anchorHi \otimes factor, lo |-> anchorLo]
      ELSE [hi |-> anchorHi, lo |-> anchorLo \otimes factor]

GroundLimited(c, raw) ==
  LET w == Window(c)
      held == IF w.hi \prec raw /\ w.hi \prec LimHi THEN w.hi
              ELSE IF raw \prec w.lo /\ LimLo \prec w.lo THEN w.lo ELSE raw
  IN  IF setup.hasMax /\ LimHi \prec held THEN LimHi
      ELSE IF setup.hasMin /\ held \prec LimLo THEN LimLo ELSE held

GroundUpdate(c) ==
  LET v     == GroundFluxVolume(c)
      sm    == GroundIncrement(c)
      raw   == IF v > 0 THEN sm \oslash I(v) ELSE Zero
      value == GroundLimited(c, raw)
      now   == wc[c] + GrainBasis(c[2])
  IN  [value  |-> value,
       adjust |-> IF v > 0 THEN (value \ominus raw) \otimes I(v) ELSE Zero \ominus sm,
       anchor |-> value \otimes I(IF v > 0 THEN now - v ELSE now)]

\* What the subsurface ledger does not book. A legacy step starts from wcn, the
\* water at the start of the last substep, and not from the water its scalar
\* was last based on; and under superbee the two sides of a face between layers
\* of unequal thickness limit it differently.
BasisGap ==
  IF Consistent THEN Zero
  ELSE Total([c \in Cells |-> sSubs[c] \otimes I(wcn[c] - history.wc[c])], Cells)

FaceGap(i, k) ==
  LET q == FlowZ(<<i, k + 1>>)
      slope == IF q > 0 THEN Slope(sSubs[<<i, k>>], sSubs[<<i, k + 1>>], Below(i, k + 1))
               ELSE Slope(sSubs[<<i, k + 1>>], sSubs[<<i, k>>], Above(i, k))
  IN  IF q = 0 \/ k = NZ THEN Zero
      ELSE I(q) \otimes slope \otimes (Courant(q, k + 1) \ominus Courant(q, k))

SlopeGap ==
  IF setup.superbee THEN Total([c \in Cells |-> FaceGap(c[1], c[2])], Cells) ELSE Zero

StepSubsurface ==
  /\ pc = "ground"
  /\ IF setup.ground
     THEN \E new \in {[c \in Cells |-> GroundUpdate(c)]} :
          LET updated == [c \in Cells |-> new[c].value]
              pinned  == Pinned(updated)
              ghosted == WithSideGhosts(pinned)
              gained  == GroundMass(pinned, wc) \ominus GroundMass(updated, wc)
          IN /\ sSubs' = ghosted
             /\ sKp' = TopScalar(ghosted)
             /\ dzzTop' = setup.mol
             /\ wcT' = IF Consistent THEN wc ELSE wcT
             /\ audit' = [audit EXCEPT
                  !.subsBoundary = BoundaryIn \oplus gained,
                  !.subsAdjust = Total([c \in Cells |-> new[c].adjust], Cells),
                  !.subsAnchor = Total([c \in Cells |-> new[c].anchor], Cells)]
             /\ history' = [history EXCEPT !.subsMissed = BasisGap \oplus SlopeGap,
                     !.clipped = @ \/ \E c \in Cells : new[c].adjust # Zero]
     ELSE UNCHANGED <<sSubs, sKp, dzzTop, wcT, audit, history>>
  /\ pc' = "snapshot"
  /\ UNCHANGED <<setup, steps, flowVars, soilVars, seepVars, sSurf, vsn, fuOld, ssee>>

\* snapshotEndOfStep, and the window consumed (Simulation::stepTransport).
EndOfStep ==
  /\ pc = "snapshot"
  /\ vsn' = [i \in Cols |-> dept[i]]
  /\ fuOld' = fu
  /\ qxWin' = [c \in XFaces \X Layers |-> 0]
  /\ qzWin' = [c \in Cols \X ZFaces |-> 0]
  /\ ventWin' = [i \in Cols |-> 0]
  /\ unbooked' = [c \in Cells |-> 0]
  /\ history' = [Snapshot EXCEPT !.sound = history.sound, !.clipped = history.clipped]
  /\ steps' = steps + 1
  /\ pc' = "flow"
  /\ UNCHANGED <<setup, flowVars, wc, wcn, qx, qz, taken, seepVars, sSurf, sKp, ssee, dzzTop,
                 sSubs, wcT, audit>>

\* Mutant: the refresh copies the water of the start of the substep.
RestoredBasisStart == IF Consistent THEN wcn ELSE wcT

\* The water basis of the next step, in a resumed run.
RestoredBasis == IF Consistent THEN wc ELSE wcT

\* A run resumed from a checkpoint of this state: the fields the checkpoint has
\* not are at their initial values or rebuilt by refreshDerivedState, which
\* gives the surface scalar no ghosts at the row's ends.
Restart ==
  /\ pc = "flow" /\ steps \in 1..MaxSteps - 1
  /\ LET pinned  == Pinned([c \in Cells |-> sSubs[c]])
         ghosted == WithSideGhosts(pinned)
     IN /\ sSurf' = [i \in Slots |-> IF i \in Cols THEN sSurf[i] ELSE Zero]
        /\ fuOld' = [fuOld EXCEPT ![0] = 0]
        /\ vsn' = [i \in Cols |-> dept[i]]
        /\ IF setup.ground
           THEN /\ sSubs' = ghosted
                /\ sKp' = TopScalar(ghosted)
                /\ wcT' = RestoredBasis
           ELSE UNCHANGED <<sSubs, sKp, wcT>>
  /\ wcn' = wc
  /\ qx' = [c \in XFaces \X Layers |-> 0]
  /\ qz' = [c \in Cols \X ZFaces |-> 0]
  /\ UNCHANGED <<setup, pc, steps, flowVars, wc, taken, qxWin, qzWin, ventWin, unbooked, seepVars,
                 ssee, dzzTop, audit, history>>

-----------------------------------------------------------------------------
Init ==
  /\ setup \in Setups
  /\ pc = "flow" /\ steps = 0
  /\ dept = setup.dept0
  /\ fu = [f \in XFaces |-> 0] /\ asx = [f \in XFaces |-> 0] /\ rain = Zero /\ evap = Zero
  /\ wc = setup.wc0 /\ wcn = setup.wc0 /\ taken = 0
  /\ qx = [c \in XFaces \X Layers |-> 0] /\ qxWin = [c \in XFaces \X Layers |-> 0]
  /\ qz = [c \in Cols \X ZFaces |-> 0] /\ qzWin = [c \in Cols \X ZFaces |-> 0]
  /\ ventWin = [i \in Cols |-> 0] /\ unbooked = [c \in Cells |-> 0]
  /\ seepAccum = [i \in Cols |-> 0] /\ qss = [i \in Cols |-> 0]
  /\ sSurf = [i \in Slots |-> IF i \in Cols THEN setup.s0[i] ELSE Zero]
  /\ vsn = setup.dept0 /\ fuOld = [f \in XFaces |-> 0] /\ dzzTop = 0
  /\ ssee = [i \in Cols |-> Zero]
  /\ sSubs = WithSideGhosts(Pinned(setup.g0))
  /\ sKp = TopScalar(sSubs)
  /\ wcT = setup.wc0
  /\ audit = NoAudit
  /\ history = Snapshot

Next ==
  \/ \E f \in Flows : SurfaceFlow(f)
  \/ NoSurfaceFlow
  \/ \E v \in Substeps : SoilStep(v)
  \/ ApplySeepage
  \/ StepSurface
  \/ StepSubsurface
  \/ EndOfStep
  \/ Restart

Spec == Init /\ [][Next]_vars

-----------------------------------------------------------------------------
(* Properties.                                                               *)

\* The scalar budget of transport.md and of TransportAudit: after every step
\* the mass of each grid has changed by exactly what the audit books, except
\* for the three terms it does not know: diffusion across the row's ends, the
\* water basis of a legacy subcycled step, and the limited face between layers
\* of unequal thickness.
Ledger ==
  pc = "snapshot" =>
    /\ setup.surface =>
         SurfaceMass(sSurf, dept) \ominus history.surf =
           audit.exchange \oplus audit.surfSource \oplus audit.surfBoundary
           \oplus audit.surfAdjust \oplus audit.surfAnchor \oplus audit.surfAtmos
           \oplus history.surfMissed
    /\ setup.ground =>
         GroundMass(sSubs, wc) \ominus history.subs =
           audit.subsBoundary \ominus audit.exchange \oplus audit.subsAdjust
           \oplus audit.subsAnchor \oplus history.subsMissed

\* A run whose scalar starts uniform, with boundary values of that level and
\* both consistent updates, over soil that conducts: a cell without a conductive
\* neighbour has an empty window and is set to the lower bound. The level is
\* within the bounds and not negative: the factor of a widened window would
\* narrow it.
UniformRun ==
  /\ setup.consistentSurface /\ (setup.ground => setup.consistentSub)
  /\ ~(Level \prec Zero) /\ ~(Level \prec LimLo) /\ ~(LimHi \prec Level)
  /\ \A i \in Cols : setup.s0[i] = Level
  /\ \A c \in Cells : setup.g0[c] = Level
  /\ setup.conductive
  /\ setup.tideValue = Level /\ setup.inflowS = Level
  /\ setup.pinValue = Level /\ setup.sideValue = Level
  /\ ~setup.equilibrium

\* The claim of the consistent updates (SurfaceTransport.cpp, transport.md): a
\* uniform scalar stays uniform under any flow and substeps, reallocation walks
\* up, down and sent back, and vents, and in no wet cell has the limiter anything
\* to clip.
Uniform ==
  (UniformRun /\ history.sound /\ pc = "flow") =>
    /\ \A i \in Cols : setup.surface /\ Wet(i) => sSurf[i] = Level
    /\ \A c \in Cells : setup.ground => sSubs[c] = Level
    /\ ~history.clipped

\* The window explains the water (Reallocate.cpp:49-55, RichardsSolver.hpp:193-200):
\* through any number of substeps and whichever way the walks went, a cell has
\* the water the last transport step left it, what crossed its faces since, and
\* what the reallocation made or dropped there over no face.
WindowExplainsWater ==
  (Consistent /\ pc \in {"flow", "window", "surface", "ground"}) =>
    \A c \in Cells : wc[c] = wcT[c] + Divergence(c) + unbooked[c]

\* A resumed run continues from the scalar, the snapshots and the exports the
\* finished step left; only the two ghosts at the row's ends and the flow rate
\* kept for the western face are lost (restart.md promises the last bit).
RestartNeutral ==
  [][Restart => /\ \A i \in Cols : sSurf'[i] = sSurf[i] /\ fuOld'[i] = fuOld[i]
                /\ UNCHANGED <<sSubs, sKp, vsn, wcT>>]_vars
=============================================================================
