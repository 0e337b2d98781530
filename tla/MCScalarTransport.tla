------------------------- MODULE MCScalarTransport -------------------------
(* Two columns of two layers, the lower one twice as thick, through two     *)
(* transport steps.                                                          *)
EXTENDS ScalarTransport, TLC

MCNX == 2
MCNZ == 2

Row(w, m, e) == (0 :> w) @@ (1 :> m) @@ (2 :> e)

\* The flow rates of the surface, the areas of its faces, rain, evaporation,
\* and what the depth changes by beyond the flow's divergence.
Flow(q, open, r, e, gap) == [fu |-> q, asx |-> open, rain |-> r, evap |-> e, gap |-> gap]

MCFlows ==
  { Flow(Row(0, -2, 0), Row(0, 2, 0), Zero, Zero, <<1, 0>>),       \* backwards
    Flow(Row(0, 0, 0), Row(0, 0, 0), Zero, Zero, <<0, 0>>),        \* still
    Flow(Row(1, 1, 1), Row(2, 2, 2), Zero, Zero, <<0, 0>>),        \* through flow
    Flow(Row(0, -1, 1), Row(2, 2, 2), I(1), Zero, <<1, 1>>),       \* parting, rain
    Flow(Row(0, 2, 0), Row(0, 2, 2), Zero, Q(1, 2), <<-1, 0>>) }   \* filling, evaporation

None == [i \in 1..MCNX |-> 0]
NoSide == [c \in (0..MCNX) \X (1..MCNZ) |-> 0]

Column(top, mid, bottom) ==
  [c \in (1..MCNX) \X (1..MCNZ + 1) |-> IF c[1] = 2 THEN 0
                                        ELSE <<top, mid, bottom>>[c[2]]]

Substep(x, z, from, to, vol, down, gap) ==
  [x |-> x, z |-> z, from |-> from, to |-> to, vol |-> vol, down |-> down, gap |-> gap]

Still == [c \in (1..MCNX) \X (1..MCNZ) |-> 0]

MCSubsteps ==
  { Substep([NoSide EXCEPT ![<<1, 1>>] = 1, ![<<0, 2>>] = -1], Column(1, -1, 1),   \* no walk
            <<1, 1>>, <<1, 1>>, None, <<FALSE, FALSE>>, Still),
    Substep([NoSide EXCEPT ![<<2, 2>>] = 1], Column(2, 1, 1),                      \* out of the top
            <<2, 1>>, <<0, 1>>, <<1, 0>>, <<FALSE, FALSE>>, Still),
    Substep([NoSide EXCEPT ![<<1, 2>>] = -1], Column(-1, 0, 0),                    \* up and down
            <<2, 1>>, <<1, 2>>, <<2, 1>>, <<FALSE, TRUE>>,
            [Still EXCEPT ![<<1, 2>>] = -1, ![<<2, 1>>] = 1]),
    Substep(NoSide, Column(0, 1, 0), <<1, 2>>, <<2, 2>>, <<1, 1>>,                 \* down and sent back
            <<TRUE, TRUE>>, Still) }

Field(a, b, c, d) ==
  [x \in (1..MCNX) \X (1..MCNZ) |-> I(IF x[1] = 1 THEN (IF x[2] = 1 THEN a ELSE b)
                                      ELSE IF x[2] = 1 THEN c ELSE d)]

\* A coupled salinity run with both legacy updates.
Legacy ==
  [surface |-> TRUE, ground |-> TRUE, superbee |-> FALSE, thermal |-> FALSE,
   consistentSurface |-> FALSE, consistentSub |-> FALSE, hasMax |-> TRUE, hasMin |-> TRUE,
   boundMax |-> I(9), boundMin |-> I(0), allowance |-> FALSE, conductive |-> TRUE,
   kap |-> 0, mol |-> 1, difu |-> 1, dz |-> <<1, 2>>, sub |-> 1,
   cauchy |-> {}, headTop |-> {1}, topFlux |-> {}, topValue |-> 0, tide |-> {}, tideValue |-> I(2),
   inflow |-> {}, inflowQ |-> 0, inflowS |-> I(2), topPins |-> {}, botPins |-> {},
   pinValue |-> I(2), sides |-> {}, sideValue |-> I(2), equilibrium |-> FALSE,
   equilibriumK |-> Q(1, 2), equilibriumT |-> I(4), dept0 |-> <<3, 3>>,
   wc0 |-> [c \in (1..MCNX) \X (1..MCNZ) |-> 4], s0 |-> <<I(2), I(1)>>, g0 |-> Field(1, 3, 0, 2)]

Both == [Legacy EXCEPT !.consistentSurface = TRUE, !.consistentSub = TRUE]
Even == [Both EXCEPT !.s0 = <<I(2), I(2)>>, !.g0 = Field(2, 2, 2, 2)]

MCSetups ==
  { [Legacy EXCEPT !.superbee = TRUE, !.tide = {2}],
    [Legacy EXCEPT !.sub = 2, !.inflow = {1}, !.inflowQ = 1, !.botPins = {1}, !.difu = 0],
    [Legacy EXCEPT !.thermal = TRUE, !.kap = 1, !.equilibrium = TRUE, !.hasMax = FALSE,
                   !.hasMin = FALSE, !.sides = {0}],
    [Legacy EXCEPT !.topFlux = {1}, !.headTop = {}, !.topValue = 1, !.dept0 = <<0, 2>>, !.allowance = TRUE],
    [Legacy EXCEPT !.surface = FALSE, !.superbee = TRUE, !.cauchy = {1}, !.sub = 2, !.mol = 0],
    [Both EXCEPT !.superbee = TRUE, !.topPins = {2}],
    [Legacy EXCEPT !.ground = FALSE, !.superbee = TRUE, !.tide = {1}, !.inflow = {2}, !.inflowQ = 1],
    [Even EXCEPT !.ground = FALSE, !.inflow = {1}, !.inflowQ = 1],
    [Even EXCEPT !.superbee = TRUE],
    [Even EXCEPT !.difu = 0, !.dept0 = <<0, 3>>],
    [Even EXCEPT !.surface = FALSE, !.conductive = FALSE],
    [Even EXCEPT !.surface = FALSE, !.sub = 2] }
=============================================================================
