# A verification project for Frehg2

Frehg2 (`src/`) simulates coupled surface water and groundwater: a free-surface
(shallow-water) solver over a two-dimensional grid, a Richards solver over the soil columns
below it, an exchange of water through their common face, and the transport of solutes and
heat on top. It runs on MPI ranks with Kokkos threads inside each. The values that the hydraulics
compute are real numbers and stay with the repository's tests. What is specified here is everything around them that decides
*whether the water and the salt are still all there, whether the clocks agree, whether a restarted
run is the same run, whether ranks and threads see the data they believe they see, and what becomes
of a configuration from its text to the last file it leaves*. Scalar transport is the one part whose arithmetic is
modelled as well, with exact fractions, because its budget is a statement about arithmetic.

## 1. The system

| Component | State it keeps | Operations | Interacts with | What makes it correct |
|---|---|---|---|---|
| Coupled column (`coupling/`, the coupled-top kernels of `gw/Corrector.cpp`, wetting rules of `swe/`) | stage `eta`, depth `dept`, accumulator `seepAccum`, window budget `avail`, `cplMode`, audits | `Coupler::step`: surface phase, `beginWindow`, substeps, `applySeepage`, `reduceAudit` | shares the surface fields between two solvers; every kernel writes some of them | the budget closes at each kernel; a window never spends more than the pond has |
| Time loops (`driver/Simulation.cpp`, `coupling/Coupler.cpp`, `gw/AdaptiveStep.cpp`) | clocks `t`, `tSub`, `dtg`; next output and checkpoint | three loops (surface, groundwater, coupled in two modes), output, checkpoint, final checkpoint, restore | writes the output file; reads an earlier one | labels tell the truth; a resumed run repeats the outputs; the run ends |
| Reallocation (`gw/Reallocate.cpp`) | moisture `wc`, head `h`, `room`, send shares | classification kernel over the threads, one sequential sweep per column, final clamp | vents into the surface depth | room is never overfilled; every loss is measured; the threads' order does not matter more than it must |
| Grid and ids (`core/Grid.cpp`) | process layout, blocks, `gid2`, `gid3` | choose a decomposition, number the active cells, fetch halo ids | everything is indexed by it | blocks tile the domain, ids are a bijection with contiguous rows per rank |
| Halo exchange (`core/HaloExchanger.cpp`) | registered fields, message buffers | `exchangeAll`, `exchange`, `exchangeWithCorners` | every module calls it several times a step | halos hold the neighbour's values of this call, whatever the relative speed of the ranks; no deadlock |
| Linear systems (`core/LinearSystem.cpp`) | matrix, preconditioner reuse state | `setPattern`, `setValues`, `solve`, `forceRebuild` | both solvers | a stale preconditioner is renewed before a solve is declared failed, and none is used past its limit |
| Free-surface solver (`swe/`) | `eta`, velocities, face areas, audits | begin, solve, velocities | halo, linear system, boundary set | audits measure every source |
| Richards solver (`gw/`) | head, moisture, fluxes | predictor, corrector, adaptive step | halo, linear system, exchange | as above, for the soil |
| Scalar transport (`transport/`) | a scalar on each grid, depths, flow rates and moisture of the last step, the fluxes collected since | `stepSurface`, `stepSubsurface`, `snapshotEndOfStep`, `refreshDerivedState`, for salt and for heat | reads both flows' fluxes, the reallocation's walks and vents | the audit explains every change of mass; a uniform scalar stays uniform; a resumed run has the same scalar |
| Boundary set, time series (`bc/`, `core/TimeSeries.cpp`) | polygons, interpolated values | resolve to cells, refresh per step | both solvers | what cannot be resolved is refused before the run |
| Configuration (`core/Config*.cpp`) | the document, the schema, the configuration with its defaults | validate, cross-check, extract, print resolved | all | an accepted document is complete; the resolved one is the same run |
| Files (`io/`) | HDF5 output with tables and checkpoints, run record | create, write, flush, validate, restore, rename | time loops | a checkpoint is complete or refused; the record is never ahead of the run |
| Entry (`main.cpp`) | | read, `--validate`, `--resolve`, build, run, finalize | all | |

What is hard here: several kernels share four surface fields inside one window (ordering, stale
values); two clocks advance at different rates and a crash falls between any two writes; one kernel reads moisture
other threads are overwriting; ranks run ahead of each other by a message; transport must use the
depths, moistures and fluxes of exactly the steps since its last one, while substeps, walks and vents keep moving water; defaults and requirements of
one configuration section depend on another; thresholds
(`min_depth`, 0.9999 saturation) are tested with `<=` in one place and `<` in another.
`PROJECT.json` lists each of these hazards at its line with the properties that watch it.

## 2. Modules

| Module | Models | State and actions |
|---|---|---|
| `CoupledColumn` | one coupled step of one water column | one action per kernel in the order `Coupler::step` runs them: `SolveFreeSurface`, `BeginWindow`, `BeginSubstep`, `ClassifyTop`, `ComputeFluxes` (three exclusive modes), `TopBookkeeping`, `UpdateColumn`, `ApplySeepage` (infiltrate, release or hold), `UpdateVelocity` |
| `ImmediateExchange` | the abstract exchange: a pond and a ground that trade water at once | `Weather`, `Trade` |
| `RunClock` | the coupled loop in both modes and the groundwater loop | `Advance`, `Lockstep`/`Substep`, `EndWindow`, `Output`, `PeriodicCheckpoint`, `Finish`, `Crash`, `Resume` |
| `SurfaceClock` | the surface-only loop, which counts steps and label indexes instead | `Step`, `Output`, `PeriodicCheckpoint`, `Finish`, `Crash`, `Resume` |
| `Reallocation` | `reallocateWaterContent` on a row of columns | `Classify` in any order of the cells, the sweep's `Climb`, `Sink`, `Outlet`, `Drop`, `ThenDown`, `NextSender` interleaved between columns, `Finalize` |
| `Grid` | layouts, blocks, neighbours and compressed ids as pure operators | `ChooseDecomposition`, `Accepted`, `BlockStart`, `BlockSize`, `Neighbor`, `ColumnIds` |
| `HaloExchange` | the ranks of a run from the `Grid` constructor through two numberings and a sequence of exchanges | `Construct`, `EnterSum`, `LeaveSum` (the collectives of `buildGlobalIds`), `Post` (kernels, receives, packs, sends), `Complete` (wait, unpack), each by one rank at its own pace |
| `LinearSystem` | `solve` and its reuse policy as operators on a system's state | `solve`, `settle`, `forceRebuild` |
| `ConfigSchema` | the schema as a tree of nodes; `checkNode`, which walks a document along it, with one definition per level of the tree (six levels; TLC evaluates the assumption `SchemaLevels` that there are no more); the cross-checks between sections | pure operators |
| `Config` | `loadConfig` and `resolvedConfigYaml`: the configuration with every default, and the document printed from it | pure operators |
| `OutputFile` | the HDF5 file as the sequence of objects written to it, how many of them are durable, what a checkpoint consists of, validation and restore | pure operators |
| `ModelRun` | one program run after another, from the document to the files left behind; composes the four modules above | `Read`, `Report`, `Build`, `CreateOutput`, `Begin`, `Step`, `Solve`, `RecordMonitors`, `WriteOutputs`, `WriteCheckpoint`, `FlushTables`, `FlushFile`, `WriteRecord`, `RenameRecord`, `EndLoop`, `Finalize`, `Exit`, `Kill`, `Rerun` |
| `Rational` | exact fractions | |
| `ScalarTransport` | one scalar on a row of surface cells over a grid of soil cells: what the flow modules hand over, one transport step on each grid, the audit, the snapshots, a restart | `SurfaceFlow`, `NoSurfaceFlow`, `SoilStep`, `ApplySeepage`, `StepSurface`, `StepSubsurface`, `EndOfStep`, `Restart` |
| `*_proofs` | the theorems about `CoupledColumn`, `Reallocation`, `Grid` and `HaloExchange` (in `HaloExchange_proofs`), `RunClock`, `SurfaceClock`, `ModelRun` and `LinearSystem` (in `ModelRun_proofs`), `Rational` and `ScalarTransport` (in `ScalarTransport_proofs`) | |
| `SumTheorems` | facts about sums over finite sets, places in a finite order and offsets, and the induction they rest on | |
| `MC*` | values of the constants for TLC | |

Abstractions common to all: water is counted in integer units of volume per area (the bed at 0), so
`min_depth` and pore rooms are small integers and every threshold can be met exactly, passed by one
unit or missed by one; time is counted in ticks. What the hydraulics decide (a solved stage, a Darcy flux, the
direction a cell sends its surplus, the length of the next adaptive step) is chosen
nondeterministically from a set; what the code decides is a guard. Definitions whose comment begins with
"Mutant" are the damaged variants that show each property can fail.

`CoupledColumn`: `audit` is `CouplingAudit` and the groundwater terms of its closure, `surf` is
`SurfaceStepAudit`; two terms, `limited` and `recharge`, are counted by the model where the
code has no counter. `store` is what the column's moisture changed by since the step began.
`RunClock`: `pace` remembers what the adaptive controller chose after the nth step, so that a run resumed from the
same state must make the same choices, as a deterministic controller does. A resumed run writes
a file of its own (docs/user-guide/restart.md:59).
`ModelRun`: the prognostic state is a tag per part of it (which run computed it, and when), so
that a state put together from two places shows. A document is a tree of records; a run is killed between any two
writes, and what was not flushed may or may not be on disk, up to any prefix. `agenda` is what the loop still has to do in the present pass,
in the code's order. A chain of documents is run in one directory (`files`, from the names on disk to the files): the next run meets the files of the one before. Times are in ticks, `Second` of them in a second, since
labels are rounded to seconds.
`ScalarTransport`: with cells of unit size and steps of unit length, depths, flow rates and volumes are
integers, and the scalar is a fraction. What the flow solvers do is any of a small set of flows and substeps, kept
consistent with the depths they produce. A substep's walk of the reallocation goes up to a cell, out of the open top, down, or down
after a closed top sent it back; `unbooked` is the model's own account of what a substep changes in a cell over no face. `history` holds what the properties compare with: the masses before the step and
the terms that the code's audit does not book. The direction along y repeats x in the code and is left out; so are the cross terms and
the longitudinal and transverse parts of dispersion, leaving the molecular one.
`SurfaceClock`: a state *is* the sequence of times its steps were taken at, so two equal states had
equal forcing. `Reallocation`: neighbours on the same rank are read live (`wc`), those in the halo
as they were at the last exchange (`before`). `HaloExchange`: all ranks run one `Program`, a
sequence of parts made of phases, and `at` says where each one is; a value in a field is the place
it belongs to and the call whose kernels wrote it, so that a halo cell with another rank's or another call's
value is visible; the coalesced buffers are functions from field and row to value, since both ends
compute the same offsets. A rank computes alone between its waits, so posting and completing a phase are its only steps.

## 3. Runs

| Run | Question | Bounds, and why they are enough |
|---|---|---|
| `CoupledSubcycled` | With a prescribed top flux: does the budget close at every kernel, does the gain ledger match the stage, what can the bed clamp discard, how much seepage is held back? | `MinDepth` 2, `Pore` 3, ponds to 4, two substeps: a pond below, at and above the threshold, a demand above and below budget and room, and a second substep that meets what the first one changed. The lockstep mode's behaviours (exactly one substep) are among them. |
| `CoupledExchange` | Without one: is anything ever discarded, is there ever a film in a window, is water ever bounced back, and does the deferred exchange implement the immediate one? | the same thresholds, three substeps, bulk evaporation |
| `RunClock` | Both modes of the adaptive loops, a crash anywhere, a resumed run: lag, labels, equal outputs, checkpoints accepted and complete, termination of the first run and of the resumed one | two configurations whose subsurface steps reach from half a surface step to beyond the output interval: windows with several substeps and with none, one step over several labels |
| `SurfaceRestart` | The surface loop on aligned configurations: every output written from its own state, a resumed run equal to the first, no label refused, the end saved | every step 1–3, output and checkpoint interval, start and end up to 15 that align: a few hundred configurations |
| `ReallocCoupled` | One coupled column of three cells, any moisture and heads: room, outlets, the water account | three cells are the least with a cell between sender and outlet; moisture up to twice the pore space |
| `ReallocRow` | Two columns of different height on two ranks, every order of the threads: the final clamp, cells in contact with saturation | two columns and a halo are what one cell's classification can see |
| `Halo` | Is the layout sound, are the ids PETSc rows, does every exchange deliver the owners' values of that very call whatever the ranks' speeds, and does every rank get through? | one to four ranks, extents 1–3 and a strip of four, automatic and every requested layout of 3 by 2, a mask with full, partial and inactive columns, three calls with overlapping fields, the middle one with corners. Four ranks in a square are the least with a corner between them; three calls in a row with the same tags are enough for two messages of one tag to be in transit |
| `Life` | Is the resolved document of an accepted one the same run, is an accepted document complete, does a resumed run begin from one whole state, is the run record never ahead of the run, does the reuse policy keep its promises inside a run? | six whole documents that switch every module and exchange on and off between them; every document one edit away (a key missing, unknown, of the wrong kind, at or beyond each end of its range); every boundary condition on every set of modules; chains of two and three runs killed anywhere; these meet the hypothesis of `RestartIsWhole` (section 5), which TLC evaluates as the assumption `LivesAreTimed`. Two steps and two intervals are the least with a checkpoint before the last one; three outcomes of an attempt (easy, laborious, diverged) and two solves per preconditioner reach every branch of the policy |
| `Transport` | Does the audit explain every change of mass, does a uniform scalar stay uniform, do the window's fluxes explain the water, does a resumed run have the scalar the first run had? | two columns of two layers, the lower twice as thick: the least with a face in each direction, an edge on either side and unequal layers. Five flows (through, parting, backwards, filling, still) over four substeps (no walk; out of the top; up and down with water made and dropped over no face; down and sent back from a closed top) with seepage, up to two substeps per step, two transport steps. Twelve setups: legacy and consistent updates, superbee and upwind, salt and heat, each boundary condition, surface or soil alone, soil that does not conduct, a dry bed beside a wet one |
| `ReallocOrder` (violation) | Is the classification independent of the threads' order, as the file's comment says? | three cells in a row on one rank |
| `RestartHasOutputs` (violation) | Does a surface run resumed at any checkpoint write every later output? | checkpoint past the middle of an output interval |
| `SameTransport` (violation) | Does the resumed run's transport see the fluxes the first run's saw? | a subcycled window without a substep |

Deadlock checking is off where the program may stop (a finished run, a swept column, the last document of a chain, the last
transport step). `Transport` restarts only between steps, where a checkpoint is written; a crash elsewhere loses nothing but the time since, which `RunClock` and
`Life` model.

`Ledger` is an equality in which three terms stand that the code's audit has not (see section 4); `Uniform` is stated for
runs on soil that conducts, with a level inside the bounds and not negative, in whose steps (`EvenlyFed`) it neither rains nor evaporates, no seepage is withheld on a dry bed, no cell is emptied of water or owes all it has to what crossed no face, water leaves
no cell that was dry, and no cell over a diffusive interface has just become wet. The code makes no such promise elsewhere: section 4 lists what happens instead. `WindowExplainsWater` is
about the recording of the walks: `Crossed` is the volume at each face on the way, `Mirrored` the single face of the legacy flux, and `unbooked` what a substep changes in a cell over no face (moisture restored from
the head, dropped shares and remainders, storage, a vent that a dry surface refuses). A walk down recorded with the sign of a walk up breaks it, and `Uniform` as well. `RestartNeutral` compares everything the next step reads,
less the two places section 4 names.

Fairness: `RunClock` and `HaloExchange` state liveness. `HaloExchange` assumes weak fairness of its whole next-state
relation: some process that can move does, and MPI delivers what was sent; where a send may have
to wait for its receive (`buffered` FALSE), the model lets it. `RunClock` assumes weak fairness of the process's own steps
(`RunStep`): the loop waits for nothing outside the process, so a process that is not killed keeps executing. `Terminates` is a recurrence (`[]<>`), since a resume leaves the end the first run has reached:
the resumed run must reach one of its own.
A crash is never required to happen.

## 4. Disagreements

Shown by runs (see `findings` in `PROJECT.json`):
- *Reallocation order.* Reallocate.cpp:23 says cells "are classified against the pre-reallocation
  state" and :57-59 that the pass is race-free and independent of the decomposition; the kernel reads the live
  moisture of same-rank neighbours that other threads overwrite. `ContactIsKept` shows the effect is
  one-sided: an order can add cells in contact with saturation, never remove one.
- *Restart past the middle of an output interval.* The surface loop rounds its start to the nearest
  output index and skips the next output; restart.md:4-6 promises every output.
- *Transport after restart.* Fluxes of the last subsurface step are not in a checkpoint; a window without
  a substep makes the resumed run's transport use others.

Met while modelling, without a run of their own:
- Coupler.hpp:55-58 and docs/theory/exchange-flux.md:146 print the discarded remainder with a minus
  sign; the identity that closes (`Closure`, and the residual in tests/unit/test_coupling.cpp:128-139) adds it.
- The mass test sums `dept`, in which a film of at most `min_depth` has no volume, while `eta` keeps
  it: the residual of exchange-flux.md:152-155 then holds the film. `Closure` is stated on `eta`.
- `cflLimiter` removes water that no audit term records (`surf.limited` in the model), against
  surface-water.md:111-115.
- *Restart into the same file.* The output file is created with H5F_ACC_TRUNC (Hdf5Output.cpp:86) before the restart file is read, so a run
  resumed into the file it stopped from destroys its checkpoint and fails; restart.md:59-60 asks for a different file
  "unless you intend to extend the same file".
- *Accepted, and fatal later.* parameters.md:245 allows a monitor "variables of enabled modules"; the schema accepts any known
  variable, and seepage, groundwater and scalar variables abort the run when monitors are first recorded (Simulation.cpp:598). A surface scalar variable in
  a run without surface water reads a field that was never allocated. A monitor with the name of an audit table, a variable listed twice, and a missing or torn
  checkpoint are accepted and fatal later as well.
- *Accepted, and ignored.* Output variables of the temperature group with temperature off, and the subsurface concentration without
  groundwater, are accepted and never written.
- *Fractional times.* configuration.md:79-80 says times are whole seconds; the schema accepts a fractional `t_end`, and a surface run
  with checkpoints aborts after its last step because the label is not a whole second (Hdf5Output.cpp:66).
- *Run record before the first output.* output.md:158-161 promises "a truthful partial record" of a killed run. The record is first written
  at the first output flush: a run killed before that leaves the record of the run before it, finished, beside its own truncated output. `RecordTruthful` is about the run a record names.
- The run record's modules section omits temperature.
- *Integers with a decimal point.* `nx: 1.0` passes the schema, whose test is numeric; `loadConfig` converts strictly and throws an exception that
  `main` does not catch.
- *Scalar budget.* docs/theory/transport.md:204 says the closure "holds to rounding on every configuration". Three terms are in no audit: in a
  legacy subcycled step the mass starts from the moisture before the last substep (SubsurfaceTransport.cpp:337); under superbee a
  face between layers of unequal thickness is limited with two Courant numbers (:476); and diffusion across the domain's edge uses the ghost of before the prescribed
  value is imposed (SurfaceTransport.cpp:488). `Ledger` holds with exactly these three added.
- *Restart and the scalar's edges.* restart.md:4-6 promises the last bit. The surface scalar's ghosts at the domain's edge are neither saved nor rebuilt,
  and the flow rate kept for the western face is outside the saved interior: both are zero in a resumed run.
- *Soil that does not conduct.* A cell with no conductive neighbour (a single-cell column, or a conductivity of 0, which the schema allows) has an empty limiter window and
  is set to the lower bound, or to -1e30 where none is configured (SubsurfaceTransport.cpp:537, 704).
- *Rain on a dry bed.* A bed that rain wets within the step has no flux volume, and its scalar is set to 0 (SurfaceTransport.cpp:378): in a temperature run the
  first water is at 0 degrees, though rain is meant to arrive at the cell's own temperature.
- *A bed that has just become wet.* Its scalar is still a dry cell's 0 when the interface diffusion takes the difference to the soil (SurfaceTransport.cpp:246-248). With soil and seepage at one level the
  consistent update arrives above it; the limiter cuts that back and the audit books an adjustment of mass, though by SurfaceTransport.cpp:303-305 the update by
  itself leaves a uniform scalar uniform. The attempt to prove `Uniform` found it: `EvenlyFed` excludes such a step.
- *Withheld seepage.* While a dry cell withholds seepage, its rate is applied to the scalar in every step it is withheld (Exchange.cpp:49).
- *A label that is already taken.* A comment before the surface loop's final checkpoint (Simulation.cpp:1024-1025) says it is written "unless the interval already produced one at t_end"; the
  test compares the end with the last label only. When the step divides neither, the interval can write the end's label and then a later one, and the
  final write fails (section 5 has an instance).
- *The last checkpoint over the one before it.* The final checkpoint's label is `floor(t + 0.5)` (Simulation.cpp:934-935): with a fractional end it can be the label of the
  last periodic checkpoint, whose datasets exist, which is fatal. parameters.md:246 promises one "at
  `t_end`". By the time it fails the group's attributes have been replaced (Hdf5Output.cpp:489-490), so the file keeps a
  checkpoint with the fields of the periodic one and the time of the last step, and a run resumed from it begins at that time with those
  fields; restart.md:27-29 promises that "the restart resumes from the true state". With `Second` = 4, steps of 1, a checkpoint
  every 4 and `t_end` 5 (checkpoints every second, an end at 1.25 s) TLC finds `RestoredWhole` violated; the runs here keep to ends for which `RestartIsWhole` (section 5) excludes it.
- *Resuming past the end.* Nothing compares `restart.time` with `t_end`. A surface run resumed beyond its end takes no step and saves the state it began from under the label
  of `t_end` (Simulation.cpp:1024-1027).
- HaloExchanger.hpp:65-69 says asking for the corners of a 3D field is fatal; exchangeWithCorners
  (HaloExchanger.cpp:199-208) accepts it, and its own comment names a caller.
- The surface loop's checkpoint header stores the label, not the time of the state
  (Simulation.cpp:1018): when the step does not divide the checkpoint interval the resumed run is shifted.

## 5. Proofs

All theorems hold for every value of the constants that satisfies the named assumptions.

`CoupledColumn_proofs`. The inductive invariant `IInv` joins the type invariant and the closure
with what they need: the stage ledger at every kernel (`StageLedger`, of which `GainLedger` is the reported
part), the fact that outside a window the accumulator holds only what a dry cell withholds
(`Settled`), the signs of the audit terms, and `Budget`: what the window took from the pond and has not settled is
at most what evaporation and recharge moved outside the budget. `Budget` is the heart: `DiscardBound` alone is not
inductive because the clamp acts long after the debit. From it: `TypeCorrect`, `BudgetCloses`,
`GainIsStageChange`, `DiscardIsBounded`, `HeldIsBounded`. Without a configured top flux a second invariant, `Quiet`, adds that the
depth of a window is 0 or above `MinDepth`, that the mode of a substep agrees with it and that only a wet column sends water down; it gives
`NothingIsDiscarded`, `NoFilmInWindow`, `BounceNeverTaken`, and, step by step, that the deferred exchange
implements the immediate one (`ImplementsImmediate`).

`Reallocation_proofs`. `Invariance` proves type correctness together with
`wc + room = Saturated` for every visited cell, shares and remainders being non-negative;
`NoOverfill` is the second half of it, and `ClampCutsNothing` follows: with the room true, the clamp after the sweep finds nothing above saturation.
`OutletsAreLastResort` and `RaceIsOneSided` add what the walk has passed and what the pass has visited.
`WaterIsAccounted` is the water balance of the whole row of columns at every step, in every order of the threads and every interleaving of the
columns. The balance of a cell is what is in it and on its way from it, less what was there before; `AccountInv` adds to `Inv` that nothing
is on its way from a cell the pass has not visited. A step changes the balance of one cell or of two, and `SumChange` tells what that does to the sum.

`SumTheorems`. `SumFunctionOnSet` of the community modules is a recursive function on the subsets of its set. The library's
induction rules range over a predicate, which the installed provers cannot instantiate; `SubsetInduction` is the same rule with the set of
good subsets in its place, and is proved from well-foundedness. From it: a sum is an integer (`SumType`), any element may be taken
out of it first (`SumSplit`), and it changes by what one summand changed by (`SumChange`). Two facts carry the numberings: in a finite total order
the number of elements before an element takes the values 0 to n - 1, each once (`PlacesAreRows`), and consecutive parts that begin at the
sum of the sizes before them leave no gap and do not overlap (`OffsetsGrow`, `OffsetsCover`).

`HaloExchange_proofs`, the grid. For every extent and number of ranks on an axis: the blocks follow each other from the first
cell to the last (`BlocksAbut`), every cell has exactly one owner (`BlocksTile`, with the owner's index as an explicit
witness), and no block is empty exactly when the ranks are no more than the cells (`NoEmptyBlock`), the test
the constructor makes. The proofs replace quotient and remainder by `q` and `r` with `N = P * q + r`, after
which one lemma says that a product grows with its first factor. `AutomaticFits`: the automatic layout is a factorization of the ranks,
and fits the extents whenever some factorization does, so the constructor gives up on it only where nothing fits. Of `MPI_Dims_create` the proof uses only that it factorizes.
`IdsAreConsecutive`: the order of the loops over a block is total on its active columns and on its active cells, and the ids are places in it (`IdsArePlaces`), so a
block's ids are the offset and up, as many as it counts, for any mask.

`HaloExchange_proofs`, the ranks. From `HaloAssumption` alone: for every request, mask, set of fields and sequence of calls, with and without buffered messages.
`LayoutIsSound` lifts the theorems about one axis to the plane: a rank is its two block indices, and the cells across a side belong to the
next block of that axis; the constructor's failure is `AutomaticFits`.
`HaloIsCurrent` is about ranks that run ahead of each other while every call uses the same tags. `HaloCurrent` alone is far from inductive: `MessagesInv`
adds four things. *Gates* (`GateInv`): a rank is past a phase only if every rank it waits for there has posted it. *Order* (`WireInv`): a channel holds the messages of
exactly the phases that its sender has posted and its receiver has not completed, in the program's order, each with the values of the sender's
place in the program (`Message`); so the first message of an awaited channel is the neighbour's of the same phase, however far the neighbour has gone on. *Progress* (`ProgressInv`): where a rank can
be. *Contents* (`IdsOf`, `FieldOf`): what a rank's ids and fields hold is told by its own place. A pack at one end and an unpack at the other name the same
cell (`Facing`), and corners are right because the second phase of `exchangeWithCorners` sends rows that carry the columns the first one brought.
`IdsArePetscRows`: by `LayoutIsSound` the ranks' active columns and cells share out those of the domain (`SharesCover`), so the counts add up to theirs and the
offsets, the sums over the lower ranks, tile the rows (`RowsTogether`).
`TypeCorrect` bounds every id anywhere by the number of the domain's columns or cells, and a channel by two messages (`TwoInTransit`): of three, the sender is past
the second, so by `GateInv` the receiver has posted that phase and taken the first; in the two numberings no tag is used in three phases.

`RunClock_proofs`. For every configuration that satisfies `ClockAssumption` and any choice of steps: `TypeCorrect`; `LagIsBounded`,
from an invariant that bounds the lag of the running clocks and of every checkpoint in the file by the same relation (`Behind`, `SavedClocks`), without which a
resumed run could begin outside it; `LabelsAreHonest`, for which the next boundary must be known to lie ahead of the time before the step being
worked off (`BoundaryAhead`), and which rests on the one arithmetical fact that `After` is later than its argument; `EndIsKept`, from the fact that the time
of the last checkpoint is behind the clock until one is written at it; `NoWriteIsRefused`, on configurations that end at a whole second: `WriteInv` says that
all labels in the file are at or before the last periodic one and before the next, and a time that is not before a whole second does not round to before it. Without that
hypothesis it is false: with steps of 1 tick, a second of 4, checkpoints every 16 and `t_end` 17, the final label is `floor(4.25 + 0.5)`, the label
of the last periodic checkpoint, and the run fails in its last act.
`RestartRepeats` needs no hypothesis. Its invariant (`HistoryInv`) is that one path exists, a sequence of clock positions each of which
follows from the one before it by the step the controller chose there (`pace`), on which lie the live clocks, every checkpoint and, each at the first position past its
label, every output of both runs. A resumed run starts at a checkpoint, so on the path, and moves along it until it reaches its end and both extend it.

`SurfaceClock_proofs`. The surface loop counts steps from its start and writes at the nearest step, so its promises need intervals that align, which the schema does not ask for.
`Aligned`: the step divides the start, the end and the checkpoint interval. Then every time is on one grid and what a state is follows from its time
(`Reached`); a label within half a step of a time on the grid tells it (`LabelTells`). From `TimeInv`, which says so of the live state and of every checkpoint: `NoWriteIsRefused` and `EndIsKept` (with `SaveInv`: the labels
of a run increase and `last.time` is the latest), and `RestartRepeats`, for any output interval. `Nested` adds that the step divides the output interval, and that the
checkpoint interval and the start: a resumed loop then starts at an output label, which `EveryOutputIsWritten` needs (section 4 shows what happens otherwise). The hypotheses are those of
`SurfaceRestart`, where TLC meets the same theorems. Without alignment `NoWriteIsRefused` is false: steps of 10, checkpoints every 8 and `t_end` 24 write the labels 8, 24 (at 20) and 32 (at 30), and then
24 once more as the end (Simulation.cpp:1026 compares with the last label only).

`ModelRun_proofs`. For any chains of documents, any sets of data files and any ends of the linear solves: any number of runs after each other in a directory, each killed anywhere. The
argument is built in layers, each of which assumes the ones before it.
*Documents.* `ValidIsComplete`: what the walk of the schema and the cross-checks let pass has every value that an enabled module reads without a default, so no check that the constructors
repeat can fail (`AcceptedDocumentsAreComplete`). It goes through the walk level by level (`Passed`, what is known of a node of each kind that raised no error). `PlanRead` says that the
plan of such a document is of the right type, which the later layers need of intervals and times.
*Control.* `ControlInv` (`ControlHolds`) says where the program can be and that it only gets past its construction with the plan of an accepted document.
*Linear systems.* `SolvedIsSound`: from any sound system, for any settings, a solve whose attempts end in any way with any number of iterations leaves a sound one.
`CounterExact` (the counter the code keeps is the number of solves served) makes it inductive; `SolversKeepTheirPromises` carries it through whole runs.
*Work and disk.* `WorkHolds`: what the loop has left to do is a list of known tasks, no rows are written that were not recorded, every state is of the run or of an earlier one, and of the files
on disk only the output of the open run is of the open run (`WorkInv`, `DiskInv`).
*The record.* `RecordTruthful` is about rows that must survive a crash, so the invariant has to follow them from the accumulators to the table to the flushed prefix of the file: `Stage` tells how far they have come, `Orderly`
that each record in the list of tasks stands behind the writing of the tables and a flush (`CloseInv`), and `Backed` that the record's rows are durable in every file of its run (`ContentInv`). The last must
survive the next runs, which truncate files and replace them by their own: a file either keeps what is durable in it or is of a later run. `RecordIsTruthful` follows.
*Restart.* `RestartIsWhole`: a resumed run begins with every part of its state from one checkpoint of one earlier run, at the time the clock shows, within a step of the time asked for. `TimedInv` keeps, of every checkpoint in every
file, how far its label, its header and the time of its fields can be apart, and that parts with the same label are of the same state. That a checkpoint torn by a crash is refused is in the model and needs no hypothesis; that two checkpoints of a run have
two labels does, and `WellTimedChains` states it by `PlanTimed`: the documents of a chain have one step; a loop with groundwater ends at a whole second or steps by half a second or more; a surface run
saves at intervals of at least two steps, or only at the end, and does not resume past its end. The first clash in section 4 ("The last checkpoint over the one before it") shows that without it the
theorem is false. The hypothesis is on the documents alone and the lives that TLC runs meet it; it is sufficient, not necessary.

`ScalarTransport_proofs`. For every number of columns and layers, every setup that satisfies `SetupAssumption`, every flow of `FlowAssumption` and every substep of `SubstepAssumption`, and any number of steps and
restarts. Three layers again.
*Fractions.* A scalar is a pair in lowest terms, reduced by a greatest common divisor that `Rational` defines as a recursive function. `GcdIsGreatest` says what it computes, by taking the least argument at which it
would not; `Least`, that a reduced denominator is the least there is; `QSame`, that equal quotients are equal pairs. Then nothing needs the divisor any more: any finite set of fractions has a common denominator (`OneDenominator`), over which sums, differences,
totals and the order are those of integers (`Num`).
*One update.* A face enters two cells with opposite signs, so the faces of a row and of a column telescope to their ends (`TotalRow`, `DownTotal`), and what is left of an update
is the budget of its grid (`SurfBudget`, `SoilBudget`). The latter finds the two soil terms that no audit has: `BasisMassIs` the water basis of a legacy step, `SlopeGapIs` the face that two cells limit differently.
*Runs.* `Invariance`: the types; `Bases`, that depths, moistures and the water basis of the scalar are of the same step; `Settled`, that pins and side ghosts are already in the soil's scalar and
the export is its top layer, so that rebuilding them changes nothing; `Masses`, that the masses a step is compared with are those of the state it began with; and `Audited`, how far the books of the running step are. `LedgerHolds`
follows for both updates, for salt and heat, under every boundary condition, `RestartIsNeutral` from `Bases` and `Settled`, and `TypesHold`.
*The window and the uniform scalar.* `Accounted`: the water a consistent step starts from, the window's volumes and what crossed no face (`unbooked`) are the water in the cell. A walk must count at each face on its way,
with the sign of its direction, and at none where it is refused or ends where it began; the differences of neighbouring faces then telescope to what the two ends gave and got (`SubstepAccounts`). It is `WindowIsExplained`,
and makes every flux volume positive as long as no cell owes all it has to `unbooked` (`Sourced`, of `EvenlyFed`). `UniformHolds` needs one more invariant. `Kept`: the soil is at the level with its ghosts; a surface cell is at the level or at a dry cell's 0, at the level where the depth its scalar belongs to is positive; and between the two updates the
exchange already booked is the level times the window's top volume (`TopFed`), whose two halves are computed in different steps. Then every mass is the level times a volume (`LevelMass`, `LevelSoilMass`), and the quotient is the level exactly; a
limited slope between the level and itself or a dry cell's 0 is zero (`DryFace`), and no window of a limiter is narrower than the level (`LevelWindow`). TLC checked each of these invariants on the instance of `Transport` first.

Only model-checked: `RoundTrip` of `ModelRun`, since the printed document is merged from trees without a common type; what a recursive operator computes for every input
(the library's induction theorems take an operator as a parameter; sums and the greatest common divisor are recursive functions, for which `SumTheorems` and `GcdIsGreatest` do it with sets); and liveness (`Terminates`, `Completes`), which the prover does not treat.

## 6. Not modelled

Assembly, momentum, retention curves, density and the atmosphere's formulas: real-valued numerics without control of their own.
Of transport: the second horizontal direction, cross terms and the longitudinal and transverse parts of dispersion, the bulk form of the surface heat exchange, the bounce-back of
`gw/Corrector.cpp`, evaporation as large as a cell's flux volume (the code divides by what is left, SurfaceTransport.cpp:429), and several ranks. A substep has at
most one walk per column, from one sender to one receiver: several deposits of one sender and several senders are several substeps of the model, and the order among them is `Reallocation`'s.
Of the configuration: YAML text, numbers other than by sign, order and default, and files by content. Of `ModelRun`: several ranks (the per-rank checks, such as ScalarSolver.cpp:413, see all members),
polygons other than as sets of columns, and adaptive steps, which are `RunClock`'s. `OutputFile` does not compare extents. Timers, logs and the raster reader are left out.
`HaloExchange` has two-dimensional fields only, and leaves out the registration of fields and the totals past a PETSc integer. In `Reallocation`:
moisture below the residual, faces closed inside the row, and the drop-mode counter. In `CoupledColumn`:
water below the top cell is one number, and lateral flow is an input.

## 7. Plan

1. Coupled column, clocks, reallocation with proofs (done).
2. `Grid` and `HaloExchange` with the block partition for all sizes (done).
3. `LinearSystem`, checkpoint files object by object, the configuration, whole runs one after another (done).
4. Scalar transport with its budget (done); next the second horizontal direction and two ranks.
5. The wetting and drying of a row of surface cells; time series.
6. Proofs: the clocks, with outputs and restart, the water account of `Reallocation`, layouts, halo exchanges and
   the ids as rows, accepted documents, the linear systems, the run record and the checkpoints of `ModelRun`, the transport's budget, restart and uniform scalar (done); next the resolved document of `ModelRun`, with its trees given a type.
