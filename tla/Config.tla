------------------------------- MODULE Config -------------------------------
(***************************************************************************)
(* Reading a valid document into the configuration the program runs with,  *)
(* with every default materialised (core/Config.hpp, core/Config.cpp), and *)
(* writing that configuration back as a document: what --resolve prints    *)
(* and what the run record embeds.                                         *)
(*                                                                         *)
(* The fields keep the names of the C++ structures.  A default that is not *)
(* a whole number is given in a fraction of its unit.                      *)
(***************************************************************************)
EXTENDS ConfigSchema

Empty == [key \in {} |-> 0]
When(condition, node) == IF condition THEN node ELSE Empty

Flag(node) == node = TRUE
(***************************************************************************)
(* Values that are a file or a constant, a time series or a constant.      *)
(***************************************************************************)
FileOrConstant(node) == [fromFile |-> Given(Sub(node, "file")),
                         file |-> wordOr(Sub(node, "file"), ""),
                         constant |-> numberOr(Sub(node, "constant"), 0)]

SeriesOrConstant(node) == [fromSeries |-> Given(Sub(node, "series")),
                           file |-> wordOr(Sub2(node, "series", "file"), ""),
                           constant |-> numberOr(Sub(node, "constant"), 0)]

emitFileOrConstant(v) ==
    IF v.fromFile THEN [file |-> v.file] ELSE [constant |-> v.constant]

emitSeriesOrConstant(v) ==
    IF v.fromSeries THEN [series |-> [file |-> v.file]] ELSE [constant |-> v.constant]

PolygonOf(node) ==
    LET points == ListOr(Sub(node, "polygon")) IN
    [n \in DOMAIN points |-> NumberOf(points[n])]
emitPolygon(polyg)   == [polygon |-> polyg]
intOrAutoValue(node) == IF node \in {Absent, Automatic} THEN 0 ELSE NumberOf(node)

\* The keys read as integers.  A number the schema takes for an integer is
\* read back with the strict conversion, which refuses a decimal point.
IntegerNodes(root) ==
    {Sub2(root, "domain", key) : key \in {"nx", "ny", "nz"}}
    \cup {Sub3(root, "domain", "decomposition", key) : key \in {"mpi_nx", "mpi_ny"}}
    \cup {Sub3(root, "solver", sys, key) : sys \in {"surface", "groundwater"},
                                           key \in {"max_iterations", "reuse_max_solves"}}
    \cup UNION {{mon.i, mon.j} : mon \in Elements(ListOr(Sub2(root, "output", "monitors")))}

Readable(root) == Decimal \notin IntegerNodes(root)

-----------------------------------------------------------------------------
(***************************************************************************)
(* Extraction, section by section.                                         *)
(***************************************************************************)
extractSimulation(node) == [id |-> node.id, title |-> wordOr(Sub(node, "title"), "")]

extractDomain(node) ==
    [nx |-> NumberOf(node.nx), ny |-> NumberOf(node.ny), nz |-> NumberOf(node.nz),
     dx |-> NumberOf(node.dx), dy |-> NumberOf(node.dy), dz |-> NumberOf(node.dz),
     dzStretch |-> numberOr(Sub(node, "dz_stretch"), 1),
     bottomElevation |-> FileOrConstant(node.bottom_elevation),
     followTerrain |-> Flag(Sub(node, "follow_terrain")),
     terrainLayers |-> wordOr(Sub(node, "terrain_layers"), "scaled"),
     mpiNx |-> intOrAutoValue(Sub2(node, "decomposition", "mpi_nx")),
     mpiNy |-> intOrAutoValue(Sub2(node, "decomposition", "mpi_ny"))]

extractTime(node) ==
    [dt |-> NumberOf(node.dt), tStart |-> numberOr(Sub(node, "t_start"), 0),
     tEnd |-> NumberOf(node.t_end), outputInterval |-> NumberOf(node.output_interval)]

extractModules(node) ==
    [surfaceWater |-> Flag(Sub(node, "surface_water")),
     groundwater |-> Flag(Sub(node, "groundwater")),
     transport |-> Flag(Sub(node, "transport")),
     temperature |-> Flag(Sub(node, "temperature"))]

extractWind(wind) ==
    [enabled |-> Flag(Sub(wind, "enabled")),
     law |-> wordOr(Sub(wind, "law"), "constant"),
     cd |-> numberOr(Sub(wind, "cd"), 13),
     cap |-> numberOr(Sub(wind, "cap"), 35),
     attenuationDepth |-> numberOr(Sub(wind, "attenuation_depth"), 5),
     northAngle |-> numberOr(Sub(wind, "north_angle"), 0),
     componentForm |-> Given(Sub(wind, "u10")) \/ Given(Sub(wind, "v10")),
     u10 |-> SeriesOrConstant(Sub(wind, "u10")),
     v10 |-> SeriesOrConstant(Sub(wind, "v10")),
     speed |-> SeriesOrConstant(Sub(wind, "speed")),
     direction |-> SeriesOrConstant(Sub(wind, "direction"))]

extractSurfaceWater(node) ==
    LET evap == Sub(node, "evaporation")
        bulk == wordOr(Sub(evap, "mode"), "prescribed") = "bulk"
    IN [gravity |-> numberOr(Sub(node, "gravity"), 981),
        law |-> wordOr(Sub(node.friction, "law"), "manning"),
        coefficient |-> FileOrConstant(node.friction.coefficient),
        thinLayerDepth |-> numberOr(Sub(node.friction, "thin_layer_depth"), 10),
        viscosityX |-> numberOr(Sub2(node, "viscosity", "x"), 1),
        viscosityY |-> numberOr(Sub2(node, "viscosity", "y"), 1),
        minDepth |-> NumberOf(node.min_depth),
        wettingFaceDepth |-> NumberOf(node.wetting_face_depth),
        wind |-> extractWind(Sub(node, "wind")),
        rainfall |-> SeriesOrConstant(Sub(node, "rainfall")),
        rainfallExcludePolygon |-> PolygonOf(Sub2(node, "rainfall", "exclude")),
        evapMode |-> IF bulk THEN "bulk" ELSE "prescribed",
        evaporation |-> SeriesOrConstant(IF bulk THEN Absent ELSE evap),
        evaporationExcludePolygon |->
            IF bulk THEN <<>> ELSE PolygonOf(Sub(evap, "exclude"))]

extractAtmosphere(node) ==
    LET relative == Given(Sub(node, "relative_humidity")) IN
    [airTemperature |-> SeriesOrConstant(node.air_temperature),
     hasSurfaceTemperature |-> Given(Sub(node, "surface_temperature")),
     surfaceTemperature |-> SeriesOrConstant(Sub(node, "surface_temperature")),
     pressure |-> SeriesOrConstant(node.pressure),
     humidityIsRelative |-> relative,
     humidity |-> SeriesOrConstant(IF relative THEN node.relative_humidity
                                               ELSE node.specific_humidity),
     windSpeed |-> SeriesOrConstant(node.wind_speed),
     shortwave |-> SeriesOrConstant(Sub(node, "shortwave")),
     longwaveIn |-> SeriesOrConstant(Sub(node, "longwave_in")),
     windSpeedFloor |-> numberOr(Sub(node, "wind_speed_floor"), 5)]

extractGroundwater(node) ==
    LET ts == node.timestep
        dc == Sub(node, "density_coupling")
    IN [scheme |-> wordOr(Sub(node, "scheme"), "pca"),
        useFull3d |-> Sub(node, "use_full3d") # FALSE,
        dtInit |-> NumberOf(ts.dt_init), dtMin |-> NumberOf(ts.dt_min),
        dtMax |-> NumberOf(ts.dt_max),
        dqGrow |-> numberOr(Sub(ts, "dq_grow"), 10),
        dqShrink |-> numberOr(Sub(ts, "dq_shrink"), 20),
        courantMax |-> numberOr(Sub(ts, "courant_max"), 2),
        specificStorage |-> NumberOf(node.specific_storage),
        reallocationSurplus |-> wordOr(Sub(node, "reallocation_surplus"), "drop"),
        density |-> Flag(Sub(dc, "enabled")),
        betaSaline |-> numberOr(Sub(dc, "beta_saline"), 744),
        betaSalineViscosity |-> numberOr(Sub(dc, "beta_saline_viscosity"), 2200),
        thermalExpansion |-> numberOr(Sub(dc, "thermal_expansion"), 0),
        referenceTemperature |-> numberOr(Sub(dc, "reference_temperature"), 20),
        densityReallocationGradient |-> Sub(dc, "reallocation_gradient") = "density",
        evaporates |-> Given(Sub(node, "evaporation")),
        evaporationPolygon |-> PolygonOf(Sub2(node, "evaporation", "region"))]

extractSoil(node) ==
    [types |-> [n \in DOMAIN node.types |->
        LET t == node.types[n] IN
        [name |-> t.name, ksx |-> NumberOf(t.ksx), ksy |-> NumberOf(t.ksy),
         ksz |-> NumberOf(t.ksz), thetaS |-> NumberOf(t.theta_s),
         thetaR |-> NumberOf(t.theta_r), vgAlpha |-> NumberOf(t.vg_alpha),
         vgN |-> NumberOf(t.vg_n), aev |-> numberOr(Sub(t, "aev"), 0)]],
     fromFile |-> Given(Sub(node.map, "file")),
     file |-> wordOr(Sub(node.map, "file"), ""),
     constantName |-> wordOr(Sub(node.map, "constant"), "")]

extractInitialConditions(node, mods) ==
    LET surface == Sub(node, "surface")
        gw      == IF mods.groundwater THEN Sub(node, "groundwater") ELSE Absent
        form    == IF Given(Sub(gw, "water_table")) THEN "water_table"
                   ELSE IF Given(Sub(gw, "head")) THEN "head" ELSE "moisture"
    IN [eta |-> FileOrConstant(Sub(surface, "eta")),
        hasUu |-> Given(Sub(surface, "uu")), uu |-> FileOrConstant(Sub(surface, "uu")),
        hasVv |-> Given(Sub(surface, "vv")), vv |-> FileOrConstant(Sub(surface, "vv")),
        form |-> form, value |-> FileOrConstant(Sub(gw, form)),
        transport |-> [surface |-> FileOrConstant(Sub2(node, "transport", "surface")),
                       groundwater |-> FileOrConstant(Sub2(node, "transport", "groundwater"))],
        temperature |-> [surface |-> FileOrConstant(Sub2(node, "temperature", "surface")),
                         groundwater |-> FileOrConstant(Sub2(node, "temperature", "groundwater"))]]

extractValue(value) ==
    [form |-> IF ~Given(value) \/ Given(Sub(value, "constant")) THEN "constant"
              ELSE IF Given(Sub(value, "series")) THEN "series"
              ELSE IF Given(Sub(value, "gravity")) THEN "gravity" ELSE "hydrostatic",
     constant |-> numberOr(Sub(value, "constant"), 0),
     seriesFile |-> wordOr(Sub2(value, "series", "file"), ""),
     hydrostaticEta |-> numberOr(Sub2(value, "hydrostatic", "eta"), 0)]

extractBoundaryConditions(node) ==
    [n \in DOMAIN ListOr(node) |->
        LET bc == node[n] IN
        [name |-> bc.name, polygon |-> bc.region.polygon,
         target |-> bc.target, kind |-> bc.kind,
         scalarField |-> wordOr(Sub(bc, "scalar"), "salinity"),
         value |-> extractValue(Sub(bc, "value"))]]

extractTransport(node) ==
    [advection |-> wordOr(Sub2(node, "scheme", "advection"), "upwind"),
     surfaceDiffusivityX |-> numberOr(Sub2(node, "surface_diffusivity", "x"), 1),
     surfaceDiffusivityY |-> numberOr(Sub2(node, "surface_diffusivity", "y"), 1),
     dispersionLongitudinal |-> numberOr(Sub2(node, "dispersion", "longitudinal"), 0),
     dispersionTransverse |-> numberOr(Sub2(node, "dispersion", "transverse"), 0),
     dispersionMolecular |-> numberOr(Sub2(node, "dispersion", "molecular"), 1),
     boundMin |-> numberOr(Sub2(node, "bounds", "min"), 0),
     hasBoundMax |-> Given(Sub2(node, "bounds", "max")),
     boundMax |-> numberOr(Sub2(node, "bounds", "max"), 0),
     legacyEvapAllowance |-> Flag(Sub(node, "legacy_evap_allowance")),
     consistentSurfaceUpdate |-> Sub(node, "surface_update") = "consistent",
     consistentSubsurfaceUpdate |-> Sub(node, "subsurface_update") = "consistent"]

extractTemperature(node) ==
    LET exchange == Sub(node, "surface_exchange") IN
    [advection |-> wordOr(Sub2(node, "scheme", "advection"), "upwind"),
     surfaceDiffusivityX |-> numberOr(Sub2(node, "surface_diffusivity", "x"), 1),
     surfaceDiffusivityY |-> numberOr(Sub2(node, "surface_diffusivity", "y"), 1),
     thermalConductivity |-> numberOr(Sub(node, "thermal_conductivity"), 0),
     heatCapacityWater |-> numberOr(Sub(node, "heat_capacity_water"), 4184),
     heatCapacitySolid |-> numberOr(Sub(node, "heat_capacity_solid"), 0),
     dispersivityLongitudinal |-> numberOr(Sub2(node, "dispersivity", "longitudinal"), 0),
     dispersivityTransverse |-> numberOr(Sub2(node, "dispersivity", "transverse"), 0),
     hasBoundMin |-> Given(Sub2(node, "bounds", "min")),
     boundMin |-> numberOr(Sub2(node, "bounds", "min"), 0),
     hasBoundMax |-> Given(Sub2(node, "bounds", "max")),
     boundMax |-> numberOr(Sub2(node, "bounds", "max"), 0),
     exchangeMode |-> wordOr(Sub(exchange, "mode"), "none"),
     equilibriumTemperature |-> numberOr(Sub2(exchange, "equilibrium", "temperature"), 0),
     equilibriumCoefficient |-> numberOr(Sub2(exchange, "equilibrium", "coefficient"), 0)]

extractOutput(node) ==
    LET vars == Sub(node, "variables")
        mons == ListOr(Sub(node, "monitors"))
    IN [filename |-> node.filename,
        surfaceVariables |-> ListOr(Sub(vars, "surface")),
        groundwaterVariables |-> ListOr(Sub(vars, "groundwater")),
        transportVariables |-> ListOr(Sub(vars, "transport")),
        temperatureVariables |-> ListOr(Sub(vars, "temperature")),
        monitors |-> [n \in DOMAIN mons |->
            [name |-> mons[n].name, i |-> NumberOf(mons[n].i), j |-> NumberOf(mons[n].j),
             variables |-> mons[n].variables]],
        checkpointInterval |-> numberOr(Sub2(node, "checkpoint", "interval"), 0)]

extractRestart(node) ==
    [enabled |-> Flag(Sub(node, "enabled")), file |-> wordOr(Sub(node, "file"), ""),
     time |-> numberOr(Sub(node, "time"), 0)]

extractSystem(node, maxIterations) ==
    [preconditioner |-> wordOr(Sub(node, "preconditioner"), "bjacobi-icc"),
     matType |-> wordOr(Sub(node, "mat_type"), "aij"),
     rtol |-> numberOr(Sub(node, "rtol"), 8), atol |-> numberOr(Sub(node, "atol"), 14),
     maxIterations |-> numberOr(Sub(node, "max_iterations"), maxIterations),
     reuseMaxSolves |-> numberOr(Sub(node, "reuse_max_solves"), 50),
     reuseIterationFactor |-> numberOr(Sub(node, "reuse_iteration_factor"), 15)]

\* A section that is not given leaves its structure at the defaults; the
\* structures of modules that are off are never read.
IfGiven(node, structure) == IF Given(node) THEN structure ELSE Absent

loadConfig(root) ==
    LET mods == extractModules(root.modules)
        at(key) == Sub(root, key)
    IN [simulation |-> extractSimulation(root.simulation),
        domain |-> extractDomain(root.domain),
        time |-> extractTime(root.time),
        modules |-> mods,
        atmosphere |-> IfGiven(at("atmosphere"), extractAtmosphere(at("atmosphere"))),
        surfaceWater |-> IfGiven(at("surface_water"), extractSurfaceWater(at("surface_water"))),
        groundwater |-> IfGiven(at("groundwater"), extractGroundwater(at("groundwater"))),
        soil |-> IfGiven(at("soil"), extractSoil(at("soil"))),
        coupling |-> wordOr(Sub2(root, "coupling", "mode"), "sync"),
        initialConditions |-> extractInitialConditions(at("initial_conditions"), mods),
        boundaryConditions |-> extractBoundaryConditions(at("boundary_conditions")),
        transport |-> IfGiven(at("transport"), extractTransport(at("transport"))),
        temperature |-> IfGiven(at("temperature"), extractTemperature(at("temperature"))),
        output |-> extractOutput(root.output),
        restart |-> extractRestart(at("restart")),
        solver |-> [surface |-> extractSystem(Sub2(root, "solver", "surface"), 500),
                    groundwater |-> extractSystem(Sub2(root, "solver", "groundwater"), 1000),
                    petscOptionsFile |-> wordOr(Sub2(root, "solver", "petsc_options_file"), "")],
        gpuAwareMpi |-> wordOr(Sub2(root, "runtime", "gpu_aware_mpi"), "auto")]

-----------------------------------------------------------------------------
(***************************************************************************)
(* The resolved document, section by section.  A key that would not pass   *)
(* the schema's cross-field checks is left out.                            *)
(***************************************************************************)
emitSimulation(s) == [id |-> s.id] @@ When(s.title # "", [title |-> s.title])

emitDomain(d) ==
    [nx |-> d.nx, ny |-> d.ny, nz |-> d.nz, dx |-> d.dx, dy |-> d.dy, dz |-> d.dz,
     dz_stretch |-> d.dzStretch,
     bottom_elevation |-> emitFileOrConstant(d.bottomElevation),
     follow_terrain |-> d.followTerrain,
     decomposition |-> [mpi_nx |-> IF d.mpiNx > 0 THEN d.mpiNx ELSE Automatic,
                        mpi_ny |-> IF d.mpiNy > 0 THEN d.mpiNy ELSE Automatic]]
    @@ When(d.followTerrain, [terrain_layers |-> d.terrainLayers])

emitTime(t) == [dt |-> t.dt, t_start |-> t.tStart, t_end |-> t.tEnd,
                output_interval |-> t.outputInterval]

emitModules(m) == [surface_water |-> m.surfaceWater, groundwater |-> m.groundwater,
                   transport |-> m.transport, temperature |-> m.temperature]

emitWind(w) ==
    [enabled |-> w.enabled, law |-> w.law,
     attenuation_depth |-> w.attenuationDepth, north_angle |-> w.northAngle]
    @@ (IF w.law = "constant" THEN [cd |-> w.cd] ELSE [cap |-> w.cap])
    @@ (IF w.componentForm
          THEN [u10 |-> emitSeriesOrConstant(w.u10), v10 |-> emitSeriesOrConstant(w.v10)]
          ELSE [speed |-> emitSeriesOrConstant(w.speed),
                direction |-> emitSeriesOrConstant(w.direction)])

WithExclusion(node, excluded) ==
    node @@ When(excluded # <<>>, [exclude |-> emitPolygon(excluded)])

emitSurfaceWater(sw) ==
    [gravity |-> sw.gravity,
     friction |-> [law |-> sw.law, coefficient |-> emitFileOrConstant(sw.coefficient),
                   thin_layer_depth |-> sw.thinLayerDepth],
     viscosity |-> [x |-> sw.viscosityX, y |-> sw.viscosityY],
     min_depth |-> sw.minDepth, wetting_face_depth |-> sw.wettingFaceDepth,
     wind |-> emitWind(sw.wind),
     rainfall |-> WithExclusion(emitSeriesOrConstant(sw.rainfall),
                                sw.rainfallExcludePolygon),
     evaporation |-> IF sw.evapMode = "bulk" THEN [mode |-> "bulk"]
                     ELSE WithExclusion(emitSeriesOrConstant(sw.evaporation),
                                        sw.evaporationExcludePolygon)]

emitAtmosphere(a) ==
    [air_temperature |-> emitSeriesOrConstant(a.airTemperature),
     pressure |-> emitSeriesOrConstant(a.pressure),
     wind_speed |-> emitSeriesOrConstant(a.windSpeed),
     shortwave |-> emitSeriesOrConstant(a.shortwave),
     longwave_in |-> emitSeriesOrConstant(a.longwaveIn),
     wind_speed_floor |-> a.windSpeedFloor]
    @@ When(a.hasSurfaceTemperature,
            [surface_temperature |-> emitSeriesOrConstant(a.surfaceTemperature)])
    @@ (IF a.humidityIsRelative
          THEN [relative_humidity |-> emitSeriesOrConstant(a.humidity)]
          ELSE [specific_humidity |-> emitSeriesOrConstant(a.humidity)])

\* Mutant: the coefficients of the scalars are written whichever are on.
emitGroundwaterWhole(gw, mods) ==
    [scheme |-> gw.scheme, use_full3d |-> gw.useFull3d,
     timestep |-> [dt_init |-> gw.dtInit, dt_min |-> gw.dtMin, dt_max |-> gw.dtMax,
                   dq_grow |-> gw.dqGrow, dq_shrink |-> gw.dqShrink,
                   courant_max |-> gw.courantMax],
     specific_storage |-> gw.specificStorage,
     reallocation_surplus |-> gw.reallocationSurplus,
     density_coupling |->
        [enabled |-> gw.density, beta_saline |-> gw.betaSaline,
         thermal_expansion |-> gw.thermalExpansion]]

emitGroundwater(gw, mods) ==
    [scheme |-> gw.scheme, use_full3d |-> gw.useFull3d,
     timestep |-> [dt_init |-> gw.dtInit, dt_min |-> gw.dtMin, dt_max |-> gw.dtMax,
                   dq_grow |-> gw.dqGrow, dq_shrink |-> gw.dqShrink,
                   courant_max |-> gw.courantMax],
     specific_storage |-> gw.specificStorage,
     reallocation_surplus |-> gw.reallocationSurplus,
     density_coupling |->
        [enabled |-> gw.density,
         reallocation_gradient |->
            IF gw.densityReallocationGradient THEN "density" ELSE "freshwater"]
        @@ When(mods.transport, [beta_saline |-> gw.betaSaline,
                                 beta_saline_viscosity |-> gw.betaSalineViscosity])
        @@ When(mods.temperature, [thermal_expansion |-> gw.thermalExpansion,
                                   reference_temperature |-> gw.referenceTemperature])]
    @@ When(gw.evaporates,
            [evaporation |-> [mode |-> "bulk", region |-> emitPolygon(gw.evaporationPolygon)]])

emitSoil(soil) ==
    [types |-> [n \in DOMAIN soil.types |->
        LET t == soil.types[n] IN
        [name |-> t.name, ksx |-> t.ksx, ksy |-> t.ksy, ksz |-> t.ksz,
         theta_s |-> t.thetaS, theta_r |-> t.thetaR,
         vg_alpha |-> t.vgAlpha, vg_n |-> t.vgN, aev |-> t.aev]],
     map |-> IF soil.fromFile THEN [file |-> soil.file] ELSE [constant |-> soil.constantName]]

emitScalarInitial(ic, mods) ==
    When(mods.surfaceWater, [surface |-> emitFileOrConstant(ic.surface)])
    @@ When(mods.groundwater, [groundwater |-> emitFileOrConstant(ic.groundwater)])

emitInitialConditions(ic, mods) ==
    When(mods.surfaceWater,
         [surface |-> [eta |-> emitFileOrConstant(ic.eta)]
                      @@ When(ic.hasUu, [uu |-> emitFileOrConstant(ic.uu)])
                      @@ When(ic.hasVv, [vv |-> emitFileOrConstant(ic.vv)])])
    @@ When(mods.groundwater,
            [groundwater |-> [form \in {ic.form} |-> emitFileOrConstant(ic.value)]])
    @@ When(mods.transport, [transport |-> emitScalarInitial(ic.transport, mods)])
    @@ When(mods.temperature, [temperature |-> emitScalarInitial(ic.temperature, mods)])

emitBoundaryCondition(bc) ==
    LET v == bc.value IN
    [name |-> bc.name, region |-> emitPolygon(bc.polygon),
     target |-> bc.target, kind |-> bc.kind]
    @@ When(bc.kind = "scalar_value" /\ bc.scalarField = "temperature",
            [scalar |-> "temperature"])
    @@ When(bc.kind \notin valueless,
            [value |-> CASE v.form = "constant" -> [constant |-> v.constant]
                         [] v.form = "series"   -> [series |-> [file |-> v.seriesFile]]
                         [] v.form = "gravity"  -> [gravity |-> TRUE]
                         [] OTHER -> [hydrostatic |-> [eta |-> v.hydrostaticEta]]])

emitTransport(tr) ==
    [scheme |-> [advection |-> tr.advection],
     surface_diffusivity |-> [x |-> tr.surfaceDiffusivityX, y |-> tr.surfaceDiffusivityY],
     dispersion |-> [longitudinal |-> tr.dispersionLongitudinal,
                     transverse |-> tr.dispersionTransverse,
                     molecular |-> tr.dispersionMolecular],
     bounds |-> [min |-> tr.boundMin] @@ When(tr.hasBoundMax, [max |-> tr.boundMax]),
     legacy_evap_allowance |-> tr.legacyEvapAllowance,
     surface_update |-> IF tr.consistentSurfaceUpdate THEN "consistent" ELSE "legacy",
     subsurface_update |-> IF tr.consistentSubsurfaceUpdate THEN "consistent" ELSE "legacy"]

emitTemperature(tp, mods) ==
    [scheme |-> [advection |-> tp.advection], heat_capacity_water |-> tp.heatCapacityWater]
    @@ When(mods.surfaceWater,
            [surface_diffusivity |-> [x |-> tp.surfaceDiffusivityX,
                                      y |-> tp.surfaceDiffusivityY]])
    @@ When(mods.groundwater,
            [thermal_conductivity |-> tp.thermalConductivity,
             heat_capacity_solid |-> tp.heatCapacitySolid,
             dispersivity |-> [longitudinal |-> tp.dispersivityLongitudinal,
                               transverse |-> tp.dispersivityTransverse]])
    @@ When(tp.hasBoundMin \/ tp.hasBoundMax,
            [bounds |-> When(tp.hasBoundMin, [min |-> tp.boundMin])
                        @@ When(tp.hasBoundMax, [max |-> tp.boundMax])])
    @@ When(tp.exchangeMode = "equilibrium",
            [surface_exchange |->
                [mode |-> "equilibrium",
                 equilibrium |-> [temperature |-> tp.equilibriumTemperature,
                                  coefficient |-> tp.equilibriumCoefficient]]])
    @@ When(tp.exchangeMode = "bulk", [surface_exchange |-> [mode |-> "bulk"]])

emitVariables(out) ==
    LET group(key, vars) == When(vars # <<>>, [k \in {key} |-> vars])
        groups == group("surface", out.surfaceVariables)
                  @@ group("groundwater", out.groundwaterVariables)
                  @@ group("transport", out.transportVariables)
                  @@ group("temperature", out.temperatureVariables)
    IN When(DOMAIN groups # {}, [variables |-> groups])

emitOutput(out) ==
    [filename |-> out.filename, checkpoint |-> [interval |-> out.checkpointInterval]]
    @@ emitVariables(out)
    @@ When(out.monitors # <<>>, [monitors |-> out.monitors])

emitRestart(r) ==
    [enabled |-> r.enabled] @@ When(r.enabled, [file |-> r.file, time |-> r.time])

emitSolverSystem(s) ==
    [preconditioner |-> s.preconditioner, mat_type |-> s.matType, rtol |-> s.rtol,
     atol |-> s.atol, max_iterations |-> s.maxIterations,
     reuse_max_solves |-> s.reuseMaxSolves,
     reuse_iteration_factor |-> s.reuseIterationFactor]

emitSolver(s) ==
    [surface |-> emitSolverSystem(s.surface), groundwater |-> emitSolverSystem(s.groundwater)]
    @@ When(s.petscOptionsFile # "", [petsc_options_file |-> s.petscOptionsFile])

resolvedConfig(cfg) ==
    LET mods == cfg.modules
        ic   == emitInitialConditions(cfg.initialConditions, mods)
        bcs  == cfg.boundaryConditions
    IN [simulation |-> emitSimulation(cfg.simulation), domain |-> emitDomain(cfg.domain),
        time |-> emitTime(cfg.time), modules |-> emitModules(mods)]
       @@ When(mods.surfaceWater, [surface_water |-> emitSurfaceWater(cfg.surfaceWater)])
       @@ When(cfg.atmosphere # Absent, [atmosphere |-> emitAtmosphere(cfg.atmosphere)])
       @@ When(mods.groundwater, [groundwater |-> emitGroundwater(cfg.groundwater, mods),
                                  soil |-> emitSoil(cfg.soil)])
       @@ When(mods.surfaceWater /\ mods.groundwater, [coupling |-> [mode |-> cfg.coupling]])
       @@ When(DOMAIN ic # {}, [initial_conditions |-> ic])
       @@ When(bcs # <<>>, [boundary_conditions |->
                                [n \in DOMAIN bcs |-> emitBoundaryCondition(bcs[n])]])
       @@ When(mods.transport, [transport |-> emitTransport(cfg.transport)])
       @@ When(mods.temperature, [temperature |-> emitTemperature(cfg.temperature, mods)])
       @@ [output |-> emitOutput(cfg.output), restart |-> emitRestart(cfg.restart),
           solver |-> emitSolver(cfg.solver), runtime |-> [gpu_aware_mpi |-> cfg.gpuAwareMpi]]
=============================================================================
