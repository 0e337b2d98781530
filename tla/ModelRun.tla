------------------------------ MODULE ModelRun ------------------------------
(***************************************************************************)
(* One run of the program after another, from the document each is given   *)
(* to the files it leaves (main.cpp, driver/Simulation.cpp, io/RunRecord). *)
(*                                                                         *)
(* A run reads and checks its document, builds the model, creates its      *)
(* output file, starts from the initial conditions or from a checkpoint,   *)
(* and steps to the end, writing outputs, monitor tables, checkpoints and  *)
(* its run record on the way.  It may fail by itself or be killed.         *)
(*                                                                         *)
(* The numbers a run computes are not modelled: its state is a tag for     *)
(* each part of the prognostic state, naming the run and the time it was   *)
(* computed at.  The adaptive steps are of one length here.  The grid is   *)
(* one row of nx columns on one rank.  Times are in ticks, Second of them  *)
(* in a second.                                                            *)
(***************************************************************************)
EXTENDS Config, LinearSystem, OutputFile

CONSTANTS
    Chains,       \* sequences of documents, each to be run after the other
    DataFiles,    \* the data files beside the documents
    Packages,     \* what PETSc was built with
    Attempts,     \* how an attempt of a reused solver may end
    Missing       \* no file of that name

ASSUME RunAssumption ==
    /\ DataFiles \subseteq STRING
    /\ Attempts \subseteq [converged : BOOLEAN, iterations : Nat]
    /\ \A documents \in Chains : IsList(documents) /\ documents # <<>>

VARIABLES
    chain,        \* the documents still to be run, the present one first
    pc,           \* where the program is
    failure,      \* why the last run ended early
    plan,         \* what the present run does, from its configuration
    run,          \* how many runs were started before this one
    files,        \* the output file of each name that has one
    record,       \* run-record.yaml, or Missing
    tmp,          \* run-record.yaml.tmp, or Missing
    clock,        \* the time of the present state
    start,        \* the time the loop began at
    saved,        \* lastCheckpointTime
    agenda,       \* what is left to write for this step
    state,        \* the tag of each part of the prognostic state
    rows,         \* the last time the monitors recorded, and last wrote out
    solvers,      \* the linear systems
    completed     \* the runs that reached their end (only watched)

vars == <<chain, pc, failure, plan, run, files, record, tmp, clock, start, saved,
          agenda, state, rows, solvers, completed>>

disk   == <<files, record, tmp>>
loop   == <<clock, start, saved, agenda, state, rows, solvers>>
doc    == Head(chain)
Never  == -1

\* The key of a time must be a whole number of seconds.
timeKeyed(t) == t % Second = 0

\* Times are rounded half up to a whole second.
NearestSecond(t) == ((t + Second \div 2) \div Second) * Second

NoPlan == [live |-> FALSE]

OnDisk == DOMAIN files

\* The loop's variables before a run, and after it.
Idle == /\ clock' = 0 /\ start' = 0 /\ saved' = Never /\ agenda' = <<>>
        /\ state' = Empty
        /\ rows' = [recorded |-> Never, written |-> Never]
        /\ solvers' = [surface |-> NewSystem, groundwater |-> NewSystem]

-----------------------------------------------------------------------------
(***************************************************************************)
(* What can still go wrong when the model of a valid document is built.    *)
(* The first group cannot: the code checks again what the schema checked.  *)
(***************************************************************************)
cellsOf(polyg, domain) == Elements(polyg) \cap 1..domain.nx

onTarget(cfg, target, kinds) ==
    {bc \in Elements(cfg.boundaryConditions) : bc.target = target /\ bc.kind \in kinds}

\* The discharge condition a cell rides on: the first that has it.
dischargeAt(cfg, cell) ==
    LET bcs    == cfg.boundaryConditions
        owners == {n \in DOMAIN bcs : /\ bcs[n].target = "surface"
                                      /\ bcs[n].kind = "discharge"
                                      /\ cell \in cellsOf(bcs[n].polygon, cfg.domain)}
    IN IF owners = {} THEN 0 ELSE CHOOSE n \in owners : \A m \in owners : n <= m

spansDischarges(cfg, bc) ==
    Cardinality({dischargeAt(cfg, cell) : cell \in cellsOf(bc.polygon, cfg.domain)} \ {0}) > 1

zoneOverlaps(cfg) ==
    \E bc \in onTarget(cfg, "groundwater_top", {"head", "flux"}) :
        cellsOf(bc.polygon, cfg.domain)
            \cap cellsOf(cfg.groundwater.evaporationPolygon, cfg.domain) # {}

scalarModule(bc, mods) ==
    IF bc.kind = "scalar_cauchy" \/ bc.scalarField = "salinity" THEN mods.transport
                                                               ELSE mods.temperature

unchecked(cfg) ==
    LET mods == cfg.modules
        bcs  == Elements(cfg.boundaryConditions)
        ofScalar == {bc \in bcs : bc.kind \in {"scalar_value", "scalar_cauchy"}}
    IN << <<"no-module", ~mods.surfaceWater /\ ~mods.groundwater>>,
          <<"surface-kind", mods.surfaceWater /\
              onTarget(cfg, "surface", {"head", "flux"}) # {}>>,
          <<"groundwater-kind", mods.groundwater /\
              \E bc \in bcs : bc.target # "surface" /\ bc.kind \in surfaceKinds>>,
          <<"soil-type", mods.groundwater /\ ~cfg.soil.fromFile /\
              \A t \in Elements(cfg.soil.types) : t.name # cfg.soil.constantName>>,
          <<"scalar-condition", \E bc \in ofScalar :
              /\ scalarModule(bc, mods)
              /\ IF bc.target = "surface" THEN ~mods.surfaceWater
                                          ELSE ~mods.groundwater>>,
          <<"consistent-update", mods.transport
              /\ cfg.transport.consistentSubsurfaceUpdate /\ ~mods.groundwater>>,
          <<"monitor-point", \E mon \in Elements(cfg.output.monitors) :
              mon.i >= cfg.domain.nx \/ mon.j >= cfg.domain.ny \/ mon.variables = <<>> >> >>

buildChecks(cfg) ==
    LET mods == cfg.modules
        bcs  == Elements(cfg.boundaryConditions)
    IN << <<"layout", ~({cfg.domain.mpiNx, cfg.domain.mpiNy} \subseteq {0, 1})>>,
          <<"empty-region", \E bc \in bcs : cellsOf(bc.polygon, cfg.domain) = {}>>,
          <<"surface-solver", mods.surfaceWater /\ ~buildable(cfg.solver.surface, Packages)>>,
          <<"groundwater-solver", mods.groundwater
              /\ ~buildable(cfg.solver.groundwater, Packages)>>,
          <<"evaporation-zone", mods.groundwater /\ cfg.groundwater.evaporates /\
              \/ cellsOf(cfg.groundwater.evaporationPolygon, cfg.domain) = {}
              \/ zoneOverlaps(cfg)>>,
          <<"several-discharges", mods.surfaceWater /\
              \E bc \in onTarget(cfg, "surface", {"scalar_value"}) :
                  scalarModule(bc, mods) /\ spansDischarges(cfg, bc)>> >>

firstFailing(checks) ==
    LET failing == {n \in DOMAIN checks : checks[n][2]}
    IN IF failing = {} THEN "none"
       ELSE checks[CHOOSE n \in failing : \A m \in failing : n <= m][1]

-----------------------------------------------------------------------------
(***************************************************************************)
(* The plan of a run: what its loop needs of the configuration.            *)
(***************************************************************************)
\* The names of a list that are among those kept, in their order, each with
\* the group it is written to.
pairs(group, names, kept) ==
    LET ns == {n \in DOMAIN names : names[n] \in kept}
    IN [k \in 1..Cardinality(ns) |->
           <<group, names[CHOOSE n \in ns : Cardinality({m \in ns : m < n}) = k - 1]>>]

writtenVariables(cfg) ==
    LET mods == cfg.modules
        out  == cfg.output
        keptIf(on, names) == IF on THEN names ELSE {}
        ofSurface == keptIf(mods.surfaceWater, surfaceVariables \ {"seepage"})
                     \cup keptIf(mods.surfaceWater /\ mods.groundwater, {"seepage"})
        ofScalar(soil, surface) == keptIf(mods.groundwater, {soil})
                                   \cup keptIf(mods.surfaceWater, {surface})
    IN pairs("surface", out.surfaceVariables, ofSurface)
       \o pairs("groundwater", out.groundwaterVariables,
                keptIf(mods.groundwater, groundwaterVariables))
       \o pairs("transport", out.transportVariables,
                keptIf(mods.transport, ofScalar("concentration", "concentration_surface")))
       \o pairs("temperature", out.temperatureVariables,
                keptIf(mods.temperature, ofScalar("temperature", "temperature_surface")))

\* The tables: the user's monitors, then the built-in audits.
audits(mods) == If(mods.surfaceWater, <<"mass_audit">>)
                \o If(mods.groundwater, <<"gw_mass_audit">>)
                \o If(mods.transport, <<"transport_audit">>)
                \o If(mods.temperature, <<"temperature_audit">>)

\* How recording a monitor's variables ends: all recorded, one that no
\* enabled module keeps, or one whose surface field was never allocated.
recordMonitors(cfg) ==
    LET mods == cfg.modules
        kept(v) == \/ mods.surfaceWater /\ v \in {"eta", "depth", "uu", "vv"}
                   \/ mods.temperature /\ v = "temperature_surface"
                   \/ mods.transport /\ v = "concentration_surface"
        lost == UNION {{<<m, n>> : n \in {k \in DOMAIN cfg.output.monitors[m].variables :
                            ~mods.surfaceWater
                            \/ ~kept(cfg.output.monitors[m].variables[k])}} :
                          m \in DOMAIN cfg.output.monitors}
        first == CHOOSE p \in lost : \A q \in lost :
                    p[1] < q[1] \/ (p[1] = q[1] /\ p[2] <= q[2])
    IN IF lost = {} THEN "recorded"
       ELSE IF kept(cfg.output.monitors[first[1]].variables[first[2]])
              THEN "unallocated" ELSE "unavailable"

policyOf(system) == [preconditioner |-> system.preconditioner,
                     matType |-> system.matType,
                     reuseMaxSolves |-> system.reuseMaxSolves,
                     reuseIterationFactor |-> system.reuseIterationFactor]

planOf(cfg, live) ==
    [live |-> live,
     mods |-> cfg.modules,
     dt |-> IF cfg.modules.surfaceWater THEN cfg.time.dt ELSE cfg.groundwater.dtInit,
     tStart |-> cfg.time.tStart, tEnd |-> cfg.time.tEnd,
     interval |-> cfg.time.outputInterval,
     checkpointInterval |-> cfg.output.checkpointInterval,
     filename |-> cfg.output.filename,
     restart |-> cfg.restart,
     variables |-> writtenVariables(cfg),
     tables |-> [n \in DOMAIN cfg.output.monitors |-> cfg.output.monitors[n].name]
                \o audits(cfg.modules),
     monitoring |-> recordMonitors(cfg),
     policies |-> [surface |-> policyOf(cfg.solver.surface),
                   groundwater |-> policyOf(cfg.solver.groundwater)]]

mods == plan.mods
file == files[plan.filename]

\* The prognostic state: what a step takes from the step before it.
prognostic ==
    LET carried(surf, subs) == (IF mods.surfaceWater THEN surf ELSE {})
                               \cup (IF mods.groundwater THEN subs ELSE {})
    IN {"t"}
       \cup (IF mods.surfaceWater THEN {"eta", "etan", "uu", "vv", "cflx", "cfly"} ELSE {})
       \cup (IF mods.groundwater THEN {"h", "wc", "scalar_dtg"} ELSE {})
       \cup (IF coupledRun(mods)
               THEN {"seep_accum", "qss", "scalar_tgw_lag", "scalar_dt_surface"} ELSE {})
       \cup (IF mods.transport THEN carried({"s_surf", "s_fu_old", "s_fv_old"},
                                             {"s_subs", "s_dzz_top"}) ELSE {})
       \cup (IF mods.temperature THEN carried({"t_surf", "t_fu_old", "t_fv_old"},
                                               {"t_subs", "t_dzz_top"}) ELSE {})

tagged(t) == [part \in prognostic |-> [run |-> run, at |-> t, t |-> t]]

surfaceLoop == ~mods.groundwater

task(do, label) == <<[do |-> do, label |-> label]>>

-----------------------------------------------------------------------------
(***************************************************************************)
(* How a run ends early.  A fatal error is thrown as an exception, and the *)
(* output file is closed, and so made durable, on the way out.  A killed   *)
(* run closes nothing.                                                     *)
(***************************************************************************)
Ended(where, why) == /\ pc' = where
                     /\ failure' = why
                     /\ plan' = NoPlan
                     /\ Idle

\* The output file is now this one.
Put(new) == files' = joined([name \in {plan.filename} |-> new], files)

Fatal(why, left) == Ended("failed", why) /\ Put(flushed(left))

Killed(why) == Ended("killed", why) /\ \E left \in leftovers(file) : Put(left)

-----------------------------------------------------------------------------
(***************************************************************************)
(* main: the document is read, checked and taken apart.  A number that the *)
(* schema takes for an integer and the conversion does not throws an       *)
(* exception that main does not catch.                                     *)
(***************************************************************************)
Read ==
    /\ pc = "reading"
    /\ \/ /\ ~validateRoot(doc, DataFiles \cup OnDisk)
          /\ pc' = "rejected"
          /\ chain' = Tail(chain)
          /\ UNCHANGED failure
       \/ /\ validateRoot(doc, DataFiles \cup OnDisk)
          /\ IF Readable(doc)
               THEN /\ pc' = "loaded"
                    /\ UNCHANGED <<chain, failure>>
               ELSE /\ pc' = "failed"
                    /\ failure' = "conversion"
                    /\ chain' = Tail(chain)
    /\ UNCHANGED <<plan, run, disk, loop, completed>>

\* --validate describes the configuration, --resolve prints it whole.
Report ==
    /\ pc = "loaded"
    /\ pc' = "reported"
    /\ chain' = Tail(chain)
    /\ UNCHANGED <<failure, plan, run, disk, loop, completed>>

\* Simulation's constructor up to the output file.
Build ==
    /\ pc = "loaded"
    /\ LET cfg == loadConfig(doc)
           why == firstFailing(unchecked(cfg) \o buildChecks(cfg))
       IN /\ failure' = why
          /\ pc' = IF why = "none" THEN "built" ELSE "failed"
          /\ plan' = IF why = "none" THEN planOf(cfg, Len(chain) > 1) ELSE NoPlan
    /\ chain' = Tail(chain)
    /\ UNCHANGED <<run, disk, loop, completed>>

from == IF DOMAIN state = {} THEN [run |-> run, at |-> 0, t |-> 0] ELSE state["t"]

gridMeta == <<object("grid", 0, "x_center", from), object("grid", 0, "y_center", from),
              object("grid", 0, "z_center", from), object("grid", 0, "dz", from),
              object("groundwater", 0, "zcell", from),
              object("grid", 0, "bottom", from), object("grid", 0, "ktop", from)>>

\* The output file, whose name may be that of an earlier run's, and the
\* empty monitor tables.
CreateOutput ==
    /\ pc = "built"
    /\ LET objects == gridMeta \o [n \in DOMAIN plan.tables |->
                                        object("table", 0, plan.tables[n], from)]
           left    == written(created(run), objects)
       IN IF writable(created(run), objects)
            THEN /\ Put(left)
                 /\ pc' = "opened"
                 /\ UNCHANGED <<failure, plan, loop>>
            ELSE Fatal("table-exists", left)
    /\ UNCHANGED <<chain, run, record, tmp, completed>>

(***************************************************************************)
(* run(): the initial conditions are written out at once; a checkpoint is  *)
(* read from its file, which is opened after the output file was created.  *)
(***************************************************************************)
Begin ==
    /\ pc = "opened"
    /\ LET source  == files[plan.restart.file]
           initial == tagged(plan.tStart)
       IN IF ~plan.restart.enabled
            THEN /\ state' = initial
                 /\ clock' = plan.tStart /\ start' = plan.tStart
                 /\ agenda' = task("outputs", plan.tStart) \o task("monitors", 0)
                 /\ pc' = "running"
                 /\ UNCHANGED <<failure, plan, files, saved, rows, solvers>>
          ELSE IF plan.restart.file \in OnDisk /\ readable(source, plan.restart.time, mods)
            THEN /\ state' = restored(source, plan.restart.time, mods, initial)
                 /\ clock' = state'["t"].t /\ start' = state'["t"].t
                 /\ pc' = "running"
                 /\ UNCHANGED <<failure, plan, files, saved, agenda, rows, solvers>>
          ELSE Fatal("no-checkpoint", file)
    /\ UNCHANGED <<chain, run, record, tmp, completed>>

(***************************************************************************)
(* What is due at time t.  The adaptive loops take the interval boundary   *)
(* crossed last; the surface loop takes the nearest multiple, once, where  *)
(* it is less than half a step away.                                       *)
(***************************************************************************)
nearest(t, interval) == (2 * t + interval) \div (2 * interval)

due(do, before, t, interval) ==
    LET index == nearest(t, interval)
        away  == t - index * interval
    IN IF interval = 0 THEN <<>>
       ELSE IF surfaceLoop
         THEN If(/\ index > nearest(start, interval)
                 /\ 2 * away < plan.dt /\ -(2 * away) < plan.dt,
                 task(do, index * interval))
         ELSE If(t \div interval > before \div interval,
                 task(do, (before \div interval + 1) * interval))

\* Mutant: the record before the tables it closes.
flushingRecordFirst == task("record", 0) \o task("tables", 0) \o task("flush", 0)

flushing == task("tables", 0) \o task("flush", 0) \o task("record", 0)

\* One pass of the loop: the clock and the state, then what is to be done.
Step ==
    /\ pc = "running" /\ agenda = <<>>
    /\ clock < plan.tEnd
    /\ LET t       == clock + plan.dt
           outputs == due("outputs", clock, t, plan.interval)
           saves   == due("checkpoint", clock, t, plan.checkpointInterval)
       IN /\ clock' = t
          /\ state' = tagged(t)
          /\ agenda' = If(mods.surfaceWater, task("surface", 0))
                       \o If(mods.groundwater, task("groundwater", 0))
                       \o task("monitors", 0)
                       \o If(outputs # <<>>, outputs \o flushing)
                       \o If(saves # <<>>, saves \o task("flush", 0))
    /\ UNCHANGED <<chain, pc, failure, plan, run, disk, start, saved, rows, solvers,
                   completed>>

\* The last checkpoint, if the interval did not just write it.
EndLoop ==
    /\ pc = "running" /\ agenda = <<>>
    /\ clock >= plan.tEnd
    /\ LET final == IF surfaceLoop THEN plan.tEnd ELSE clock
           label == IF surfaceLoop THEN plan.tEnd ELSE NearestSecond(clock)
           last  == plan.checkpointInterval > 0 /\ saved # final
       IN agenda' = If(last, task("checkpoint", label) \o task("flush", 0)) \o flushing
    /\ pc' = "ending"
    /\ UNCHANGED <<chain, failure, plan, run, disk, clock, start, saved, state, rows,
                   solvers, completed>>

Doing(what) == pc \in {"running", "ending", "completed"} /\ agenda # <<>>
                  /\ Head(agenda).do = what
Done == agenda' = Tail(agenda)

Quick == [converged |-> TRUE, iterations |-> 1]

\* One linear solve, with the wet/dry mask changed since the last or not.
Solve(name) ==
    /\ Doing(name)
    /\ \E first, second \in (IF plan.live THEN Attempts ELSE {Quick}),
         flipped \in (IF plan.live /\ name = "surface"
                         /\ reusesHierarchy(plan.policies[name]) THEN BOOLEAN ELSE {FALSE}) :
          LET sys == IF flipped THEN forceRebuild(solvers[name]) ELSE solvers[name]
              new == solve(plan.policies[name], sys, first, second)
          IN IF new.outcome = "solved"
               THEN /\ solvers' = [solvers EXCEPT ![name] = new]
                    /\ Done
                    /\ UNCHANGED <<pc, failure, plan, files, clock, start, saved, state, rows>>
               ELSE Fatal(new.outcome, file)
    /\ UNCHANGED <<chain, run, record, tmp, completed>>

\* A monitor that reads a field the run never allocated is stopped by the
\* operating system.
RecordMonitors ==
    /\ Doing("monitors")
    /\ CASE plan.monitoring = "recorded" ->
                /\ rows' = [rows EXCEPT !.recorded = clock]
                /\ Done
                /\ UNCHANGED <<pc, failure, plan, files, clock, start, saved, state, solvers>>
         [] plan.monitoring = "unavailable" -> Fatal("unavailable", file)
         [] plan.monitoring = "unallocated" -> Killed("unallocated")
    /\ UNCHANGED <<chain, run, record, tmp, completed>>

Write(objects, label, lastSaved) ==
    LET left == written(file, objects) IN
    IF timeKeyed(label) \/ objects = <<>>
      THEN IF writable(file, objects)
             THEN /\ Put(left)
                  /\ Done
                  /\ saved' = lastSaved
                  /\ UNCHANGED <<pc, failure, plan, clock, start, state, rows, solvers>>
             ELSE Fatal("dataset-exists", left)
      ELSE Fatal("time-key", file)

WriteOutputs ==
    /\ Doing("outputs")
    /\ LET label == Head(agenda).label IN
       Write([n \in DOMAIN plan.variables |->
                 object(plan.variables[n][1], label, plan.variables[n][2], from)],
             label, saved)
    /\ UNCHANGED <<chain, run, record, tmp, completed>>

\* The header carries the time of the state; in the surface loop, the label.
WriteCheckpoint ==
    /\ Doing("checkpoint")
    /\ LET label  == Head(agenda).label
           header == IF surfaceLoop THEN label ELSE clock
           headed == [part \in DOMAIN state |-> [state[part] EXCEPT !.t = header]]
       IN Write(checkpointOf(mods, headed, label), label, header)
    /\ UNCHANGED <<chain, run, record, tmp, completed>>

FlushTables ==
    /\ Doing("tables")
    /\ LET new == If(rows.recorded > rows.written,
                     [n \in DOMAIN plan.tables |->
                         object("rows", rows.recorded, plan.tables[n], from)])
       IN Put(written(file, new))
    /\ rows' = [rows EXCEPT !.written = rows.recorded]
    /\ Done
    /\ UNCHANGED <<chain, pc, failure, plan, run, record, tmp, clock, start, saved, state,
                   solvers, completed>>

FlushFile ==
    /\ Doing("flush")
    /\ Put(flushed(file))
    /\ Done
    /\ UNCHANGED <<chain, pc, failure, plan, run, record, tmp, clock, start, saved, state,
                   rows, solvers, completed>>

\* What the record is built from when the run begins (its configuration, its
\* input files, the machine) is the run's own and never changes: its number.
provenance == run

(***************************************************************************)
(* The run record is written beside the old one and then takes its name.   *)
(* Its closure holds the budgets of the audit tables up to now.            *)
(***************************************************************************)
content == [run |-> provenance, finished |-> pc = "completed", upTo |-> rows.recorded,
            closes |-> {audits(mods)[n] : n \in DOMAIN audits(mods)}
                           \cap {"mass_audit", "gw_mass_audit"}]

WriteRecord ==
    /\ Doing("record")
    /\ tmp' = content
    /\ agenda' = task("rename", 0) \o Tail(agenda)
    /\ UNCHANGED <<chain, pc, failure, plan, run, files, record, clock, start, saved,
                   state, rows, solvers, completed>>

RenameRecord ==
    /\ Doing("rename")
    /\ record' = tmp
    /\ tmp' = Missing
    /\ Done
    /\ UNCHANGED <<chain, pc, failure, plan, run, files, clock, start, saved, state,
                   rows, solvers, completed>>

\* run() has returned: the record is written once more, as finished.
Finalize ==
    /\ pc = "ending" /\ agenda = <<>>
    /\ pc' = "completed"
    /\ completed' = completed \cup {run}
    /\ agenda' = task("record", 0)
    /\ UNCHANGED <<chain, failure, plan, run, disk, clock, start, saved, state, rows,
                   solvers>>

Exit ==
    /\ pc = "completed" /\ agenda = <<>>
    /\ Ended("done", "none")
    /\ Put(flushed(file))
    /\ UNCHANGED <<chain, run, record, tmp, completed>>

-----------------------------------------------------------------------------
\* The run is killed.
Kill ==
    /\ pc \in {"opened", "running", "ending", "completed"}
    /\ plan.live
    /\ Killed("none")
    /\ UNCHANGED <<chain, run, record, tmp, completed>>

\* The next document is run in the same directory.
Rerun ==
    /\ pc \in {"rejected", "reported", "failed", "killed", "done"}
    /\ chain # <<>>
    /\ pc' = "reading"
    /\ failure' = "none"
    /\ run' = run + 1
    /\ UNCHANGED <<chain, plan, disk, loop, completed>>

Init ==
    /\ chain \in Chains
    /\ pc = "reading" /\ failure = "none" /\ plan = NoPlan /\ run = 0
    /\ files = Empty
    /\ record = Missing /\ tmp = Missing
    /\ clock = 0 /\ start = 0 /\ saved = Never /\ agenda = <<>> /\ state = Empty
    /\ rows = [recorded |-> Never, written |-> Never]
    /\ solvers = [surface |-> NewSystem, groundwater |-> NewSystem]
    /\ completed = {}

Next == \/ Read \/ Report \/ Build \/ CreateOutput \/ Begin
        \/ Step \/ EndLoop
        \/ Solve("surface") \/ Solve("groundwater") \/ RecordMonitors
        \/ WriteOutputs \/ WriteCheckpoint \/ FlushTables \/ FlushFile
        \/ WriteRecord \/ RenameRecord \/ Finalize \/ Exit
        \/ Kill \/ Rerun

Spec == Init /\ [][Next]_vars

-----------------------------------------------------------------------------
(***************************************************************************)
(* Properties.                                                             *)
(***************************************************************************)
\* What a run with these modules reads of a configuration.
seen(cfg) ==
    LET m  == cfg.modules
        ic == cfg.initialConditions
        of(on, structure) == IF on THEN structure ELSE Absent
        onGrids(v) == <<of(m.surfaceWater, v.surface), of(m.groundwater, v.groundwater)>>
    IN <<cfg.simulation, cfg.domain, cfg.time, m, cfg.output, cfg.solver, cfg.gpuAwareMpi,
         cfg.boundaryConditions, cfg.atmosphere,
         of(m.surfaceWater, <<cfg.surfaceWater, ic.eta, ic.hasUu, ic.uu, ic.hasVv, ic.vv>>),
         of(m.groundwater, <<cfg.groundwater, cfg.soil, ic.form, ic.value>>),
         of(m.surfaceWater /\ m.groundwater, cfg.coupling),
         of(m.transport, <<cfg.transport, onGrids(ic.transport)>>),
         of(m.temperature, <<cfg.temperature, onGrids(ic.temperature)>>),
         of(cfg.restart.enabled, cfg.restart)>>

\* The resolved document of an accepted one is accepted as well, a run of it
\* is configured as a run of the first, and it resolves to itself: what the
\* run record embeds can be run again.
RoundTrip ==
    pc = "loaded" =>
        LET cfg      == loadConfig(doc)
            resolved == resolvedConfig(cfg)
            again    == loadConfig(resolved)
        IN /\ validateRoot(resolved, DataFiles \cup OnDisk)
           /\ seen(again) = seen(cfg)
           /\ resolvedConfig(again) = resolved

\* Nothing that a run of the document reads without a default is left out of
\* it, and none of the code's own checks of what the schema checks can fail.
Complete(root) ==
    LET cfg == loadConfig(root)
        m   == cfg.modules
        ics == Sub(root, "initial_conditions")
        given(section) == Given(Sub(root, section))
        bulkSurface == m.surfaceWater /\ cfg.surfaceWater.evapMode = "bulk"
        bulkSoil    == m.groundwater /\ cfg.groundwater.evaporates
        bulkHeat    == m.temperature /\ cfg.temperature.exchangeMode = "bulk"
    IN /\ firstFailing(unchecked(cfg)) = "none"
       /\ m.surfaceWater => given("surface_water") /\ Given(Sub2(ics, "surface", "eta"))
       /\ m.groundwater => /\ given("groundwater") /\ given("soil")
                           /\ Given(Sub2(ics, "groundwater", cfg.initialConditions.form))
       /\ \A s \in {"transport", "temperature"} : m[s] =>
             /\ given(s)
             /\ m.surfaceWater => Given(Sub2(ics, s, "surface"))
             /\ m.groundwater => Given(Sub2(ics, s, "groundwater"))
       /\ bulkSurface \/ bulkSoil \/ bulkHeat => given("atmosphere")
       /\ bulkSurface \/ bulkSoil => cfg.atmosphere.hasSurfaceTemperature
       /\ m.temperature /\ m.groundwater =>
             cfg.temperature.thermalConductivity > 0 /\ cfg.temperature.heatCapacitySolid > 0
       /\ m.temperature /\ cfg.temperature.exchangeMode # "none" => m.surfaceWater
       /\ m.temperature /\ cfg.temperature.exchangeMode = "equilibrium" =>
             cfg.temperature.equilibriumCoefficient > 0

\* A document that was accepted is complete.
AcceptedIsComplete == pc = "loaded" => Complete(doc)

\* The checkpoints of a run with this plan keep apart, and the time asked for
\* tells which of them is meant, if every run steps this far.  An adaptive loop
\* rounds the time of its last checkpoint to a second: it must end at a whole
\* one, or step by half a second or more.  The surface loop saves at the nearest
\* step to each interval and calls the state after its last step the end.
PlanTimed(p, step) ==
    /\ p.dt = step
    /\ timeKeyed(p.tEnd) \/ 2 * step >= Second
    /\ ~p.mods.groundwater =>
          /\ p.checkpointInterval = 0 \/ 2 * step <= p.checkpointInterval
          /\ p.restart.enabled => p.restart.time <= p.tEnd

\* A resumed run begins from one state of one earlier run, whole, computed
\* within a step of the time its document asks for; a checkpoint that was cut
\* short by a crash, or that lacks what this run needs, is never begun from.
RestoredWhole ==
    pc = "running" /\ plan.restart.enabled /\ clock = start =>
        \E tag \in {state[part] : part \in DOMAIN state} :
            /\ \A part \in DOMAIN state : state[part] = tag
            /\ tag.run < run
            /\ tag.t = clock
            /\ tag.at - plan.restart.time \in -plan.dt..plan.dt

\* The record on disk is never ahead of the run it describes: it says finished
\* only of a run that reached its end, and the budgets it closes with are those
\* of rows that a crash can no longer take from that run's output file.
RecordTruthful ==
    record # Missing =>
        /\ record.finished => record.run \in completed
        /\ \A name \in OnDisk : \A table \in record.closes :
              files[name].owner = record.run /\ record.upTo # Never =>
                  \E row \in Durable(files[name]) :
                      row.group = "rows" /\ row.part = table /\ row.label = record.upTo

\* The promises of LinearSystem, of both systems, at every step; and no run
\* ends because of a preconditioner built for an older operator.
SolverSound ==
    /\ plan # NoPlan => \A name \in {"surface", "groundwater"} :
                            SystemSound(plan.policies[name], solvers[name])
    /\ failure # "stale"
=============================================================================
