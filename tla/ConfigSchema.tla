---------------------------- MODULE ConfigSchema ----------------------------
(***************************************************************************)
(* The schema of the YAML configuration and the checks a document must     *)
(* pass before anything is read out of it (core/ConfigSchema.cpp).         *)
(*                                                                         *)
(* A document is a tree of nested records; a list is a tuple.  A key that  *)
(* is not given is not in the record's domain, and looking it up yields    *)
(* Absent.  Reals are integers in a unit of their own per key (only their  *)
(* sign, order and default matter); the keys of the time section are in    *)
(* ticks, so that a time need not be a whole second.  A polygon is the     *)
(* tuple of the columns its vertices lie in, 0 being outside the grid.     *)
(***************************************************************************)
EXTENDS Integers, Sequences, FiniteSets, TLC

CONSTANTS
    Absent,    \* an undefined node
    Wrong,     \* a node of another kind than the schema expects there
    Automatic, \* the word auto
    Decimal,   \* the number 1 written with a decimal point (1.0)
    Second     \* ticks in a second; an even number

ASSUME SecondAssumption == Second \in Nat \ {0} /\ Second % 2 = 0

\* An undefined node is none of the things a scalar can be.
ASSUME AbsentAssumption == Absent \notin Int \cup STRING \cup BOOLEAN \cup {Decimal}

Unbounded == 10000     \* beyond every number of a document

\* The number a scalar node stands for.
NumberOf(node) == IF node = Decimal THEN 1 ELSE node

-----------------------------------------------------------------------------
(***************************************************************************)
(* The constructors of schema nodes.                                       *)
(***************************************************************************)
scalar(values)       == [type |-> "scalar", required |-> FALSE, values |-> values]
boolean              == scalar(BOOLEAN)
text                 == [type |-> "text", required |-> FALSE]
enumeration(allowed) == scalar(allowed)

number(least, most, step) ==
    [type |-> "number", required |-> FALSE,
     least |-> least, most |-> most, step |-> step]
integer(least)        == number(least, Unbounded, 1)
real                  == number(-Unbounded, Unbounded, 1)
realPositive          == number(1, Unbounded, 1)
realNonNegative       == number(0, Unbounded, 1)
integerSeconds(least) == number(least, Unbounded, Second)

intOrAuto == [type |-> "intOrAuto", required |-> FALSE]
path      == [type |-> "path", required |-> FALSE]

map(children) ==
    [type |-> "map", required |-> FALSE, children |-> children, exactlyOne |-> FALSE]
oneOf(children) == [map(children) EXCEPT !.exactlyOne = TRUE]
sequence(element, minItems) ==
    [type |-> "sequence", required |-> FALSE, element |-> element, minItems |-> minItems]
point2 == number(0, Unbounded, 1)

Req(spec) == [spec EXCEPT !.required = TRUE]

fileOrConstant   == oneOf([constant |-> real, file |-> path])
series           == map([file |-> Req(path)])
seriesOrConstant == oneOf([constant |-> real, series |-> series])
polygon          == map([polygon |-> Req(sequence(point2, 3))])

surfaceVariables     == {"eta", "depth", "uu", "vv", "seepage"}
groundwaterVariables == {"hydraulic_head", "water_content", "qx", "qy", "qz"}
transportVariables   == {"concentration", "concentration_surface"}
temperatureVariables == {"temperature", "temperature_surface"}
allVariables == surfaceVariables \cup groundwaterVariables
                    \cup transportVariables \cup temperatureVariables

-----------------------------------------------------------------------------
(***************************************************************************)
(* The schema, one definition for each group of sections.                  *)
(***************************************************************************)
soilType ==
    map([name |-> Req(text),
         ksx |-> Req(realNonNegative), ksy |-> Req(realNonNegative),
         ksz |-> Req(realNonNegative),
         theta_s |-> Req(number(1, 100, 1)),          \* hundredths, in (0, 1]
         theta_r |-> Req(number(0, 100, 1)),          \* hundredths, in [0, 1]
         vg_alpha |-> Req(realPositive),
         vg_n |-> Req(number(11, Unbounded, 1)),      \* tenths, above 1
         aev |-> number(-Unbounded, 0, 1)])

bcEntry ==
    map([name |-> Req(text),
         region |-> Req(polygon),
         target |-> Req(enumeration({"surface", "groundwater_top",
                                     "groundwater_bottom", "groundwater_side"})),
         kind |-> Req(enumeration({"eta", "discharge", "velocity", "outflow", "head",
                                   "flux", "scalar_value", "scalar_cauchy"})),
         scalar |-> enumeration({"salinity", "temperature"}),
         value |-> oneOf([constant |-> real, series |-> series, gravity |-> boolean,
                          hydrostatic |-> map([eta |-> Req(real)])])])

monitorEntry ==
    map([name |-> Req(text), type |-> enumeration({"point"}),
         i |-> Req(integer(0)), j |-> Req(integer(0)),
         variables |-> Req(sequence(enumeration(allVariables), 1))])

runSections ==
    [simulation |-> Req(map([id |-> Req(text), title |-> text])),
     domain |-> Req(map(
        [nx |-> Req(integer(1)), ny |-> Req(integer(1)), nz |-> Req(integer(1)),
         dx |-> Req(realPositive), dy |-> Req(realPositive), dz |-> Req(realPositive),
         dz_stretch |-> realPositive,
         bottom_elevation |-> Req(fileOrConstant),
         follow_terrain |-> boolean,
         terrain_layers |-> enumeration({"scaled", "uniform"}),
         decomposition |-> map([mpi_nx |-> intOrAuto, mpi_ny |-> intOrAuto])])),
     time |-> Req(map(
        [dt |-> Req(realPositive), t_start |-> integerSeconds(0),
         t_end |-> Req(realPositive), output_interval |-> Req(integerSeconds(1))])),
     modules |-> Req(map(
        [surface_water |-> boolean, groundwater |-> boolean,
         transport |-> boolean, temperature |-> boolean]))]

surfaceSection ==
    [surface_water |-> map(
        [gravity |-> realPositive,
         friction |-> Req(map([law |-> enumeration({"manning", "chezy"}),
                               coefficient |-> Req(fileOrConstant),
                               thin_layer_depth |-> realPositive])),
         viscosity |-> map([x |-> realNonNegative, y |-> realNonNegative]),
         min_depth |-> Req(realPositive),
         wetting_face_depth |-> Req(realPositive),
         wind |-> map([enabled |-> boolean,
                       law |-> enumeration({"constant", "garratt", "smith-banke",
                                            "wu", "large-pond"}),
                       cd |-> realNonNegative, cap |-> realPositive,
                       attenuation_depth |-> realPositive, north_angle |-> real,
                       speed |-> seriesOrConstant, direction |-> seriesOrConstant,
                       u10 |-> seriesOrConstant, v10 |-> seriesOrConstant]),
         rainfall |-> map([constant |-> real, series |-> series, exclude |-> polygon]),
         evaporation |-> map([mode |-> enumeration({"bulk"}), constant |-> real,
                              series |-> series, exclude |-> polygon])])]

atmosphereSection ==
    [atmosphere |-> map(
        [air_temperature |-> Req(seriesOrConstant),
         surface_temperature |-> seriesOrConstant,
         pressure |-> Req(seriesOrConstant),
         specific_humidity |-> seriesOrConstant,
         relative_humidity |-> seriesOrConstant,
         wind_speed |-> Req(seriesOrConstant),
         shortwave |-> seriesOrConstant, longwave_in |-> seriesOrConstant,
         wind_speed_floor |-> realNonNegative])]

groundwaterSections ==
    [groundwater |-> map(
        [scheme |-> enumeration({"pca"}),
         use_full3d |-> boolean,
         timestep |-> Req(map([dt_init |-> Req(realPositive),
                               dt_min |-> Req(realPositive),
                               dt_max |-> Req(realPositive),
                               dq_grow |-> realPositive, dq_shrink |-> realPositive,
                               courant_max |-> realPositive])),
         specific_storage |-> Req(realNonNegative),
         reallocation_surplus |-> enumeration({"drop", "redistribute"}),
         density_coupling |-> map(
            [enabled |-> boolean,
             beta_saline |-> realNonNegative, beta_saline_viscosity |-> realNonNegative,
             thermal_expansion |-> realNonNegative, reference_temperature |-> real,
             reallocation_gradient |-> enumeration({"freshwater", "density"})]),
         evaporation |-> map([mode |-> Req(enumeration({"bulk"})),
                              region |-> Req(polygon)])]),
     soil |-> map([types |-> Req(sequence(soilType, 1)),
                   map |-> Req(oneOf([constant |-> text, file |-> path]))]),
     coupling |-> map([mode |-> enumeration({"sync", "subcycled"})])]

conditionSections ==
    [initial_conditions |-> map(
        [surface |-> map([eta |-> Req(fileOrConstant),
                          uu |-> fileOrConstant, vv |-> fileOrConstant]),
         groundwater |-> oneOf([water_table |-> fileOrConstant, head |-> fileOrConstant,
                                moisture |-> fileOrConstant]),
         transport |-> map([surface |-> fileOrConstant, groundwater |-> fileOrConstant]),
         temperature |-> map([surface |-> fileOrConstant,
                              groundwater |-> fileOrConstant])]),
     boundary_conditions |-> sequence(bcEntry, 0)]

scalarSections ==
    [transport |-> map(
        [scheme |-> map([advection |-> enumeration({"upwind", "superbee"})]),
         surface_diffusivity |-> map([x |-> realNonNegative, y |-> realNonNegative]),
         dispersion |-> map([longitudinal |-> realNonNegative,
                             transverse |-> realNonNegative,
                             molecular |-> realNonNegative]),
         bounds |-> map([min |-> real, max |-> real]),
         legacy_evap_allowance |-> boolean,
         surface_update |-> enumeration({"legacy", "consistent"}),
         subsurface_update |-> enumeration({"legacy", "consistent"})]),
     temperature |-> map(
        [scheme |-> map([advection |-> enumeration({"upwind", "superbee"})]),
         surface_diffusivity |-> map([x |-> realNonNegative, y |-> realNonNegative]),
         thermal_conductivity |-> realPositive,
         heat_capacity_water |-> realPositive,
         heat_capacity_solid |-> realPositive,
         dispersivity |-> map([longitudinal |-> realNonNegative,
                               transverse |-> realNonNegative]),
         bounds |-> map([min |-> real, max |-> real]),
         surface_exchange |-> map(
            [mode |-> Req(enumeration({"equilibrium", "bulk"})),
             equilibrium |-> map([temperature |-> real, coefficient |-> realPositive])])])]

solverSystem ==
    map([preconditioner |-> enumeration({"bjacobi-icc", "amg", "gamg"}),
         mat_type |-> enumeration({"aij", "aijkokkos"}),
         rtol |-> realPositive, atol |-> realNonNegative,
         max_iterations |-> integer(1),
         reuse_max_solves |-> integer(0),
         reuse_iteration_factor |-> number(10, Unbounded, 1)])    \* tenths

serviceSections ==
    [output |-> Req(map(
        [filename |-> Req(text),
         variables |-> map(
            [surface |-> sequence(enumeration(surfaceVariables), 1),
             groundwater |-> sequence(enumeration(groundwaterVariables), 1),
             transport |-> sequence(enumeration(transportVariables), 1),
             temperature |-> sequence(enumeration(temperatureVariables), 1)]),
         monitors |-> sequence(monitorEntry, 0),
         checkpoint |-> map([interval |-> integerSeconds(0)])])),
     restart |-> map([enabled |-> boolean, file |-> text, time |-> real]),
     solver |-> map([surface |-> solverSystem, groundwater |-> solverSystem,
                     petsc_options_file |-> text]),
     runtime |-> map([gpu_aware_mpi |-> enumeration({"auto", "on", "off"})])]

joined(group, others) ==
    [key \in DOMAIN group \cup DOMAIN others |->
        IF key \in DOMAIN group THEN group[key] ELSE others[key]]

rootSchema ==
    map(joined(runSections, joined(surfaceSection, joined(atmosphereSection,
        joined(groundwaterSections, joined(conditionSections,
        joined(scalarSections, serviceSections)))))))

-----------------------------------------------------------------------------
(***************************************************************************)
(* The walk of the document along the schema.  The errors the code gathers *)
(* are abstracted to whether there is one.  files is the set of the files  *)
(* that exist in the document's directory.                                 *)
(***************************************************************************)
Sub(node, key) ==
    IF node \in {Absent, Wrong} \/ key \notin DOMAIN node THEN Absent ELSE node[key]
Sub2(node, key1, key2)       == Sub(Sub(node, key1), key2)
Sub3(node, key1, key2, key3) == Sub(Sub2(node, key1, key2), key3)
Given(node)                  == node # Absent

IsNumber(node) == node = Decimal \/ node \in Int
Elements(list) == {list[n] : n \in DOMAIN list}
IsList(node)   == node \in Seq(Elements(node))

\* One level of the walk; check is what the levels below it find.
checkMap(check(_, _, _), node, spec, files) ==
    /\ node \notin {Absent, Wrong}
    /\ DOMAIN node \subseteq DOMAIN spec.children
    /\ spec.exactlyOne => Cardinality(DOMAIN node) = 1
    /\ \A key \in DOMAIN spec.children :
          IF key \in DOMAIN node
            THEN check(node[key], spec.children[key], files)
            ELSE spec.children[key].required => spec.exactlyOne

checkLevel(check(_, _, _), node, spec, files) ==
    CASE spec.type = "map"       -> checkMap(check, node, spec, files)
      [] spec.type = "scalar"    -> node \in spec.values
      [] spec.type = "text"      -> node \in STRING
      [] spec.type = "path"      -> node \in files
      [] spec.type = "intOrAuto" -> node = Automatic \/ (IsNumber(node) /\ NumberOf(node) >= 1)
      [] spec.type = "number"    -> /\ IsNumber(node)
                                    /\ NumberOf(node) >= spec.least
                                    /\ NumberOf(node) <= spec.most
                                    /\ NumberOf(node) % spec.step = 0
      [] spec.type = "sequence"  -> /\ node \notin {Absent, Wrong} /\ IsList(node)
                                    /\ Len(node) >= spec.minItems
                                    /\ \A n \in DOMAIN node :
                                          check(node[n], spec.element, files)

\* The walk calls itself, once for each level of the schema, which has six:
\* the deepest are the points of a polygon and the words of a monitor's list.
checkBeyond(node, spec, files) == FALSE
checkLevel6(node, spec, files) == checkLevel(checkBeyond, node, spec, files)
checkLevel5(node, spec, files) == checkLevel(checkLevel6, node, spec, files)
checkLevel4(node, spec, files) == checkLevel(checkLevel5, node, spec, files)
checkLevel3(node, spec, files) == checkLevel(checkLevel4, node, spec, files)
checkLevel2(node, spec, files) == checkLevel(checkLevel3, node, spec, files)
checkNode(node, spec, files)   == checkLevel(checkLevel2, node, spec, files)

moduleOn(root, name) == Sub2(root, "modules", name) = TRUE

numberOr(node, fallback) == IF Given(node) THEN NumberOf(node) ELSE fallback
wordOr(node, fallback)   == IF Given(node) THEN node ELSE fallback

-----------------------------------------------------------------------------
(***************************************************************************)
(* The cross-field checks, one definition for each of their sections.      *)
(***************************************************************************)
modulesCheck(root) ==
    LET on(m) == moduleOn(root, m) IN
    /\ on("surface_water") \/ on("groundwater")
    /\ \A m \in {"surface_water", "groundwater", "transport", "temperature"} :
          on(m) => Given(Sub(root, m))
    /\ on("groundwater") => Given(Sub(root, "soil"))

temperatureCheck(root) ==
    LET temp     == Sub(root, "temperature")
        exchange == Sub(temp, "surface_exchange")
        eq       == Sub(exchange, "equilibrium")
        sw       == moduleOn(root, "surface_water")
        gw       == moduleOn(root, "groundwater")
        tp       == moduleOn(root, "temperature")
    IN Given(temp) =>
        /\ gw /\ tp => /\ Given(Sub(temp, "thermal_conductivity"))
                       /\ Given(Sub(temp, "heat_capacity_solid"))
        /\ ~gw => \A key \in {"thermal_conductivity", "heat_capacity_solid",
                              "dispersivity"} : ~Given(Sub(temp, key))
        /\ Given(exchange) => sw
        /\ Sub(exchange, "mode") = "equilibrium" =>
              Given(Sub(eq, "temperature")) /\ Given(Sub(eq, "coefficient"))
        /\ Sub(exchange, "mode") = "bulk" =>
              ~Given(eq) /\ Given(Sub(root, "atmosphere"))
        /\ Given(Sub(temp, "surface_diffusivity")) => sw

timeCheck(root) ==
    LET time == Sub(root, "time") IN
    NumberOf(time.t_end) > numberOr(Sub(time, "t_start"), 0)

ExactlyOneOf(node, key1, key2) == Given(Sub(node, key1)) # Given(Sub(node, key2))

rainfallCheck(root) ==
    LET rainfall == Sub2(root, "surface_water", "rainfall")
    IN Given(rainfall) => ExactlyOneOf(rainfall, "constant", "series")

windCheck(root) ==
    LET wind       == Sub2(root, "surface_water", "wind")
        components == Given(Sub(wind, "u10")) \/ Given(Sub(wind, "v10"))
        compass    == Given(Sub(wind, "speed")) \/ Given(Sub(wind, "direction"))
        law        == wordOr(Sub(wind, "law"), "constant")
    IN /\ ~(components /\ compass)
       /\ components => Given(Sub(wind, "u10")) /\ Given(Sub(wind, "v10"))
       /\ law = "constant" => ~Given(Sub(wind, "cap"))
       /\ law # "constant" => ~Given(Sub(wind, "cd"))

atmosphereCheck(root) ==
    LET atm    == Sub(root, "atmosphere")
        evap   == Sub2(root, "surface_water", "evaporation")
        gwEvap == Sub2(root, "groundwater", "evaporation")
        bulk   == Given(Sub(evap, "mode"))
    IN /\ Given(atm) => ExactlyOneOf(atm, "specific_humidity", "relative_humidity")
       /\ Given(atm) /\ (bulk \/ Given(gwEvap)) => Given(Sub(atm, "surface_temperature"))
       /\ bulk => /\ Given(atm)
                  /\ \A key \in {"constant", "series", "exclude"} : ~Given(Sub(evap, key))
       /\ Given(evap) /\ ~bulk => ExactlyOneOf(evap, "constant", "series")
       /\ Given(gwEvap) =>
            /\ Given(atm)
            /\ ~(moduleOn(root, "surface_water") /\ moduleOn(root, "groundwater"))

updateCheck(root) ==
    Sub2(root, "transport", "subsurface_update") = "consistent"
        => moduleOn(root, "groundwater")

densityCheck(root) ==
    LET dc == Sub2(root, "groundwater", "density_coupling")
        tr == moduleOn(root, "transport")
        tp == moduleOn(root, "temperature")
        some(keys) == \E key \in keys : Given(Sub(dc, key))
    IN /\ Sub(dc, "enabled") = TRUE => tr \/ tp
       /\ some({"beta_saline", "beta_saline_viscosity"}) => tr
       /\ some({"thermal_expansion", "reference_temperature"}) => tp

terrainCheck(root) ==
    Sub2(root, "domain", "terrain_layers") = "uniform"
        => Sub2(root, "domain", "follow_terrain") = TRUE

stepOrderCheck(root) ==
    LET ts == Sub2(root, "groundwater", "timestep") IN
    Given(ts) => /\ NumberOf(ts.dt_min) <= NumberOf(ts.dt_init)
                 /\ NumberOf(ts.dt_init) <= NumberOf(ts.dt_max)

\* Mutant: the scalars' states in the ground are not asked for.
initialCheckOfSurface(root) ==
    LET ic == Sub(root, "initial_conditions") IN
    /\ moduleOn(root, "surface_water") => Given(Sub2(ic, "surface", "eta"))
    /\ moduleOn(root, "groundwater") => Given(Sub(ic, "groundwater"))
    /\ \A s \in {"transport", "temperature"} :
          moduleOn(root, s) /\ moduleOn(root, "surface_water") => Given(Sub2(ic, s, "surface"))

initialCheck(root) ==
    LET ic == Sub(root, "initial_conditions") IN
    /\ moduleOn(root, "surface_water") => Given(Sub2(ic, "surface", "eta"))
    /\ moduleOn(root, "groundwater") => Given(Sub(ic, "groundwater"))
    /\ \A s \in {"transport", "temperature"} : moduleOn(root, s) =>
          /\ moduleOn(root, "surface_water") => Given(Sub2(ic, s, "surface"))
          /\ moduleOn(root, "groundwater") => Given(Sub2(ic, s, "groundwater"))

ListOr(node)   == IF Given(node) THEN node ELSE <<>>
UniqueNames(list) ==
    \A m, n \in DOMAIN list : list[m].name = list[n].name => m = n

soilCheck(root) ==
    LET types == ListOr(Sub2(root, "soil", "types"))
        named == Sub3(root, "soil", "map", "constant")
    IN /\ UniqueNames(types)
       /\ Given(named) => \E t \in Elements(types) : t.name = named

(***************************************************************************)
(* Boundary conditions: what each kind may be applied to, which module it  *)
(* needs, and the form its value may take.                                 *)
(***************************************************************************)
surfaceKinds == {"eta", "discharge", "velocity", "outflow"}
valueless    == {"outflow", "scalar_cauchy"}

conditionTarget(bc, root) ==
    LET sw      == moduleOn(root, "surface_water")
        gw      == moduleOn(root, "groundwater")
        surface == bc.target = "surface"
    IN /\ IF surface THEN sw ELSE gw
       /\ bc.kind \in surfaceKinds => surface
       /\ bc.kind \in {"head", "flux"} => ~surface
       /\ bc.kind = "head" /\ bc.target = "groundwater_top" => ~(sw /\ gw)

conditionScalar(bc, root) ==
    LET coupled  == moduleOn(root, "surface_water") /\ moduleOn(root, "groundwater")
        selected == wordOr(Sub(bc, "scalar"), "salinity")
    IN /\ Given(Sub(bc, "scalar")) => bc.kind = "scalar_value"
       /\ bc.kind = "scalar_value" =>
            /\ moduleOn(root, IF selected = "temperature" THEN "temperature"
                                                          ELSE "transport")
            /\ bc.target \in {"groundwater_top", "groundwater_bottom"}
                  => selected = "temperature"
            /\ bc.target = "groundwater_top" => ~coupled
       /\ bc.kind = "scalar_cauchy" =>
            /\ moduleOn(root, "transport")
            /\ bc.target = "groundwater_top"
            /\ ~coupled

conditionValue(bc) ==
    LET value == Sub(bc, "value") IN
    /\ Given(value) <=> bc.kind \notin valueless
    /\ Given(Sub(value, "gravity")) =>
          /\ value.gravity
          /\ bc.kind = "flux" /\ bc.target = "groundwater_bottom"
    /\ Given(Sub(value, "hydrostatic")) =>
          bc.kind = "head" /\ bc.target = "groundwater_side"

boundaryCheck(root) ==
    LET bcs == ListOr(Sub(root, "boundary_conditions")) IN
    /\ UniqueNames(bcs)
    /\ \A bc \in Elements(bcs) : /\ conditionTarget(bc, root)
                                 /\ conditionScalar(bc, root)
                                 /\ conditionValue(bc)

(***************************************************************************)
(* Outputs and monitors: only variables of enabled modules.  The variables *)
(* of the temperature module are not asked for.                            *)
(***************************************************************************)
outputCheck(root) ==
    LET vars == Sub2(root, "output", "variables") IN
    /\ Given(Sub(vars, "surface")) => moduleOn(root, "surface_water")
    /\ Given(Sub(vars, "groundwater")) => moduleOn(root, "groundwater")
    /\ Given(Sub(vars, "transport")) => moduleOn(root, "transport")
    /\ "seepage" \in Elements(ListOr(Sub(vars, "surface")))
          => moduleOn(root, "groundwater")

monitorCheck(root) ==
    LET monitors == ListOr(Sub2(root, "output", "monitors")) IN
    /\ UniqueNames(monitors)
    /\ \A mon \in Elements(monitors) :
          /\ NumberOf(mon.i) < NumberOf(root.domain.nx)
          /\ NumberOf(mon.j) < NumberOf(root.domain.ny)
          /\ \A var \in Elements(mon.variables) :
                /\ var \in surfaceVariables => moduleOn(root, "surface_water")
                /\ var \in groundwaterVariables => moduleOn(root, "groundwater")
                /\ var \in transportVariables => moduleOn(root, "transport")

restartCheck(root, files) ==
    Sub2(root, "restart", "enabled") = TRUE
        => wordOr(Sub2(root, "restart", "file"), "") \in files \ {""}

optionsCheck(root, files) ==
    wordOr(Sub2(root, "solver", "petsc_options_file"), "") \in files \cup {""}

crossChecks(root, files) ==
    /\ modulesCheck(root)
    /\ temperatureCheck(root)
    /\ timeCheck(root)
    /\ rainfallCheck(root)
    /\ windCheck(root)
    /\ atmosphereCheck(root)
    /\ updateCheck(root)
    /\ densityCheck(root)
    /\ terrainCheck(root)
    /\ stepOrderCheck(root)
    /\ initialCheck(root)
    /\ soilCheck(root)
    /\ boundaryCheck(root)
    /\ outputCheck(root)
    /\ monitorCheck(root)
    /\ restartCheck(root, files)
    /\ optionsCheck(root, files)

\* A document --validate calls VALID.  Every error counts, whichever check
\* finds it, so the cross checks need only be read where the walk finds none.
validateRoot(root, files) ==
    checkNode(root, rootSchema, files) /\ crossChecks(root, files)
=============================================================================
