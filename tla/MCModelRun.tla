----------------------------- MODULE MCModelRun -----------------------------
(***************************************************************************)
(* Documents for ModelRun: six whole ones of different module sets, every  *)
(* document one edit away from one of them, every boundary condition of a  *)
(* small family added to one of them, and chains of documents whose runs   *)
(* may be killed and resumed.                                              *)
(***************************************************************************)
EXTENDS ModelRun

\* checkNode has a level for every level of the schema, and no more.
RECURSIVE Levels(_)
Levels(spec) ==
    LET below == CASE spec.type = "map" -> {Levels(spec.children[key]) : key \in DOMAIN spec.children}
                   [] spec.type = "sequence" -> {Levels(spec.element)}
                   [] OTHER -> {0}
    IN 1 + CHOOSE n \in below : \A m \in below : m <= n

ASSUME SchemaLevels == Levels(rootSchema) = 6

const(v) == [constant |-> v]

surfaceDoc ==
    [simulation |-> [id |-> "run"],
     domain |-> [nx |-> 2, ny |-> 1, nz |-> 1, dx |-> 1, dy |-> 1, dz |-> 1,
                 bottom_elevation |-> const(0)],
     time |-> [dt |-> 2, t_end |-> 8, output_interval |-> 4],
     modules |-> [surface_water |-> TRUE],
     surface_water |-> [friction |-> [coefficient |-> const(1)], min_depth |-> 1,
                        wetting_face_depth |-> 1, evaporation |-> const(1),
                        wind |-> [enabled |-> TRUE, speed |-> const(3), direction |-> const(0)]],
     initial_conditions |-> [surface |-> [eta |-> const(1)]],
     output |-> [filename |-> "out.h5", variables |-> [surface |-> <<"eta">>],
                 monitors |-> << [name |-> "m", i |-> 0, j |-> 0, variables |-> <<"eta">>] >>]]

soilWater ==
    [groundwater |-> [timestep |-> [dt_init |-> 2, dt_min |-> 1, dt_max |-> 4],
                      specific_storage |-> 0],
     soil |-> [types |-> << [name |-> "sand", ksx |-> 1, ksy |-> 1, ksz |-> 1, theta_s |-> 40,
                             theta_r |-> 5, vg_alpha |-> 1, vg_n |-> 20] >>,
               map |-> const("sand")]]

groundwaterDoc ==
    [surfaceDoc EXCEPT !.modules = [groundwater |-> TRUE],
                       !.initial_conditions = [groundwater |-> [head |-> const(0)]],
                       !.output = [filename |-> "out.h5",
                                   variables |-> [groundwater |-> <<"qz">>]]]
    @@ soilWater

without(node, key) == [k \in DOMAIN node \ {key} |-> node[k]]

air == [air_temperature |-> const(20), surface_temperature |-> const(20), pressure |-> const(1),
        relative_humidity |-> const(50), wind_speed |-> const(1)]

\* Soil alone, with salt and heat and evaporation from a zone.
soilDoc ==
    [without(groundwaterDoc, "surface_water")
       EXCEPT !.modules = [groundwater |-> TRUE, transport |-> TRUE, temperature |-> TRUE],
              !.initial_conditions = [groundwater |-> [water_table |-> [file |-> "data"]],
                                      transport |-> [groundwater |-> const(1)],
                                      temperature |-> [groundwater |-> const(9)]],
              !.groundwater = @ @@ [evaporation |-> [mode |-> "bulk",
                                                     region |-> [polygon |-> <<1, 1, 2>>]]]]
    @@ [atmosphere |-> air,
        transport |-> [subsurface_update |-> "consistent"],
        temperature |-> [thermal_conductivity |-> 2, heat_capacity_solid |-> 3]]

\* Both, coupled, with the two scalars and every exchange with the air.
coupledDoc ==
    [groundwaterDoc
       EXCEPT !.modules = [surface_water |-> TRUE, groundwater |-> TRUE, transport |-> TRUE,
                           temperature |-> TRUE],
              !.surface_water = [without(@, "evaporation") EXCEPT !.wind = [enabled |-> FALSE]]
                                @@ [evaporation |-> [mode |-> "bulk"]],
              !.initial_conditions =
                 [surface |-> [eta |-> const(1)], groundwater |-> [moisture |-> const(1)],
                  transport |-> [surface |-> const(1), groundwater |-> const(1)],
                  temperature |-> [surface |-> const(9), groundwater |-> const(9)]],
              !.output = [filename |-> "out.h5",
                          variables |-> [surface |-> <<"depth", "seepage">>,
                                         temperature |-> <<"temperature">>],
                          monitors |-> << [name |-> "m", i |-> 0, j |-> 0,
                                           variables |-> <<"concentration_surface">>] >>]]
    @@ [atmosphere |-> air, transport |-> [bounds |-> [max |-> 5]],
        temperature |-> [thermal_conductivity |-> 2, heat_capacity_solid |-> 3,
                         surface_exchange |-> [mode |-> "bulk"]],
        coupling |-> [mode |-> "subcycled"]]

\* Both without scalars, and the surface with heat exchanged at a fixed rate.
plainCoupledDoc ==
    [groundwaterDoc EXCEPT
        !.modules = [surface_water |-> TRUE, groundwater |-> TRUE],
        !.initial_conditions = [surface |-> [eta |-> const(1)],
                                groundwater |-> [head |-> const(0)]]]

heatDoc ==
    [surfaceDoc EXCEPT
        !.modules = [surface_water |-> TRUE, temperature |-> TRUE],
        !.initial_conditions = @ @@ [temperature |-> [surface |-> const(9)]]]
    @@ [temperature |-> [surface_exchange |-> [mode |-> "equilibrium",
                            equilibrium |-> [temperature |-> 9, coefficient |-> 1]]]]

WholeDocuments ==
    {surfaceDoc, groundwaterDoc, soilDoc, coupledDoc, plainCoupledDoc, heatDoc}

-----------------------------------------------------------------------------
(***************************************************************************)
(* Edits.  Samples(spec) are nodes to put where the schema has spec: good  *)
(* ones, ones at the ends of its range and ones just beyond.               *)
(***************************************************************************)
RECURSIVE Samples(_)
Samples(spec) ==
    CASE spec.type = "scalar"    -> spec.values
      [] spec.type = "text"      -> {"x"}
      [] spec.type = "path"      -> {"data", "none"}
      [] spec.type = "intOrAuto" -> {Automatic, 0, 1, 2, Decimal}
      [] spec.type = "number"    -> {spec.least - 1, spec.least, Decimal, 30}
      [] spec.type = "sequence"  -> {<<node, node, node>> : node \in Samples(spec.element)}
      [] spec.type = "map" /\ spec.exactlyOne ->
            UNION {{key :> node : node \in Samples(spec.children[key])} :
                      key \in DOMAIN spec.children}
      [] spec.type = "map" /\ ~spec.exactlyOne ->
            LET required == {key \in DOMAIN spec.children : spec.children[key].required}
                one(key) == CHOOSE node \in Samples(spec.children[key]) :
                                checkNode(node, spec.children[key], DataFiles)
                least    == [key \in required |-> one(key)]
            IN {least} \cup UNION {{least @@ (key :> node) :
                                        node \in Samples(spec.children[key])} :
                                      key \in DOMAIN spec.children \ required}

\* The nodes one edit away from one: another in its place, a key more or
\* less, an element more or less, or an edit further down.
RECURSIVE Edits(_, _)
Edits(node, spec) ==
    {Wrong} \cup
    CASE spec.type = "map" ->
            {without(node, key) : key \in DOMAIN node}
            \cup {node @@ [unknown |-> 1]}
            \cup UNION {{[node EXCEPT ![key] = edit] :
                            edit \in Edits(node[key], spec.children[key])} :
                           key \in DOMAIN node}
            \cup UNION {{node @@ (key :> extra) : extra \in Samples(spec.children[key])} :
                           key \in DOMAIN spec.children \ DOMAIN node}
            \cup (IF spec.exactlyOne THEN Samples(spec) ELSE {})
      [] spec.type = "sequence" ->
            {<<>>, node \o node}
            \cup UNION {{[node EXCEPT ![n] = edit] : edit \in Edits(node[n], spec.element)} :
                           n \in DOMAIN node}
      [] spec.type \notin {"map", "sequence"} -> Samples(spec)

\* One step to the end, with an output.
Short(whole) == [whole EXCEPT !.time.dt = 4, !.time.t_end = 4]

EditedBases ==
    WholeDocuments \cup {[coupledDoc EXCEPT !.modules[m] = FALSE] :
                           m \in DOMAIN coupledDoc.modules}

EditedDocuments == UNION {Edits(Short(whole), rootSchema) : whole \in EditedBases}

-----------------------------------------------------------------------------
(***************************************************************************)
(* Boundary conditions: every combination of what the keys may hold, on    *)
(* every set of modules; an empty region; and two discharges with a scalar *)
(* that rides on both, on one or on none.                                  *)
(***************************************************************************)
condition(name, points, target, kind) ==
    [name |-> name, region |-> [polygon |-> points], target |-> target, kind |-> kind]

schemaOf(key) == bcEntry.children[key].values
valueForms == {const(1), [series |-> [file |-> "data"]], [gravity |-> TRUE],
               [gravity |-> FALSE], [hydrostatic |-> [eta |-> 1]]}

Conditions ==
    {condition("bc", <<1, 1, 2>>, target, kind) @@ selected @@ valued :
        target \in schemaOf("target"), kind \in schemaOf("kind"),
        selected \in {Empty} \cup {[scalar |-> s] : s \in schemaOf("scalar")},
        valued \in {Empty} \cup {[value |-> v] : v \in valueForms}}
    \cup {condition("bc", <<0, 0, 0>>, "surface", "outflow")}

Pairs ==
    {<<condition("left", <<1, 1, 1>>, "surface", "discharge") @@ [value |-> const(1)],
       condition("right", <<2, 2, 2>>, "surface", "discharge") @@ [value |-> const(1)],
       condition("heat", points, "surface", "scalar_value")
           @@ [value |-> const(1), scalar |-> "temperature"]>> :
        points \in {<<1, 1, 1>>, <<1, 2, 2>>}}

ConditionDocuments ==
    {Short(whole) @@ [boundary_conditions |-> bcs] :
        whole \in {surfaceDoc, groundwaterDoc, soilDoc, coupledDoc, heatDoc},
        bcs \in {<<bc>> : bc \in Conditions} \cup Pairs}

-----------------------------------------------------------------------------
(***************************************************************************)
(* Lives: a run that saves, killed at any point or not, and a run that     *)
(* resumes from what it left.                                              *)
(***************************************************************************)
saving(whole, systems, filename) ==
    [whole EXCEPT !.output = [@ EXCEPT !.filename = filename]
                             @@ [checkpoint |-> [interval |-> 4]]]
    @@ [solver |-> systems]

reusing == [preconditioner |-> "gamg", reuse_max_solves |-> 2]

resuming(whole, filename, time) ==
    [whole EXCEPT !.output.filename = filename]
    @@ [restart |-> [enabled |-> TRUE, file |-> "out.h5", time |-> time]]

coupledSaving == saving(coupledDoc, [groundwater |-> reusing], "out.h5")
surfaceSaving == saving(surfaceDoc, [surface |-> reusing], "out.h5")
saltless      == [coupledDoc EXCEPT !.modules = [@ EXCEPT !.transport = FALSE],
                                    !.output = without(@, "monitors")]

Lives ==
    {<<coupledSaving, resuming(coupledDoc, name, time)>> :
        name \in {"second.h5", "out.h5"}, time \in {4, 8}}
    \cup {<<surfaceSaving, resuming(surfaceDoc, "second.h5", time)>> : time \in {4, 8}}
    \cup {<<coupledSaving, resuming(saltless, "second.h5", 4)>>,
          <<saving(saltless, Empty, "out.h5"), resuming(coupledDoc, "second.h5", 4)>>,
          <<surfaceSaving, surfaceSaving, resuming(surfaceDoc, "second.h5", 8)>>}

\* The runs of a life step alike and keep their checkpoints apart.
ASSUME LivesAreTimed ==
    \A documents \in Lives : \A document \in Elements(documents) :
        PlanTimed(planOf(loadConfig(document), TRUE), 2)

-----------------------------------------------------------------------------
(***************************************************************************)
(* Documents that are accepted and fail once they run: a monitor named as  *)
(* an audit table, one of a field that is not kept or was never allocated, *)
(* and an end that is not a whole second.                                  *)
(***************************************************************************)
monitored(whole, name, var) ==
    [Short(whole) EXCEPT !.output = @ @@
        [monitors |-> << [name |-> name, i |-> 0, j |-> 0, variables |-> <<var>>] >>]]

LateFailures ==
    {monitored(plainCoupledDoc, name, var) : name \in {"m", "mass_audit"},
                                             var \in {"depth", "seepage", "qz", "temperature"}}
    \cup {monitored(soilDoc, "m", "temperature_surface"),
          [surfaceSaving EXCEPT !.time.t_end = 7]}

MCChains ==
    Lives \cup {<<d>> : d \in EditedDocuments \cup ConditionDocuments \cup LateFailures}

MCAttempts == {[converged |-> TRUE, iterations |-> 1], [converged |-> TRUE, iterations |-> 5],
               [converged |-> FALSE, iterations |-> 9]}
=============================================================================
