---------------------------- MODULE SurfaceClock ----------------------------
(***************************************************************************)
(* The clock of a surface-only run (Simulation::runSurfaceLoop): a fixed   *)
(* step, outputs and checkpoints written at the step nearest to their      *)
(* label, a crash, and a second run that resumes from a checkpoint.        *)
(*                                                                         *)
(* A step reads the forcing at its own time, so a state is the sequence of *)
(* times its steps were taken at.  All times are whole seconds here.       *)
(***************************************************************************)
EXTENDS Integers, Sequences

CONSTANT Configs  \* dt, tStart, tEnd, output and checkpoint interval of a run

ASSUME ConfigsAssumption ==
  Configs \subseteq [dt : Nat \ {0}, tStart : Nat, tEnd : Nat, output : Nat \ {0}, checkpoint : Nat]

VARIABLES
  config,       \* the configuration both runs use
  pc,           \* "step", "output", "checkpoint", "done", "crashed", "failed"
  run,          \* 1, or 2 for the resumed run
  t0, step,     \* start of the loop, steps taken by it
  state,        \* the times of the steps behind the state
  last,         \* index of the last output and checkpoint, time of the latter
  checkpoints,  \* label -> state, in the file of the first run and of this one
  outputs       \* per run, label -> state

vars == <<config, pc, run, t0, step, state, last, checkpoints, outputs>>

t == t0 + step * config.dt
Steps == (config.tEnd - t0 + config.dt - 1) \div config.dt

\* std::llround of s / interval, for times that are not negative.
Index(s, interval) == (2 * s + interval) \div (2 * interval)

\* The labels a run that starts at s takes as written.
\* Mutant: the label that is next counts as written.
StartIndexesNext(s) ==
  [output     |-> s \div config.output + 1,
   checkpoint |-> IF config.checkpoint = 0 THEN 0 ELSE Index(s, config.checkpoint),
   time       |-> -1]

StartIndexes(s) ==
  [output     |-> Index(s, config.output),
   checkpoint |-> IF config.checkpoint = 0 THEN 0 ELSE Index(s, config.checkpoint),
   time       |-> -1]

Empty == <<>>

\* A label that is written again would keep what it has.
With(f, key, value) ==
  [k \in DOMAIN f \union {key} |-> IF k \in DOMAIN f THEN f[k] ELSE value]

Init ==
  /\ config \in Configs
  /\ pc = "step" /\ run = 1 /\ t0 = config.tStart /\ step = 0 /\ state = <<>>
  /\ last = StartIndexes(config.tStart)
  /\ checkpoints = <<Empty, Empty>>
  /\ outputs = <<With(Empty, config.tStart, <<>>), Empty>>

\* beginStep(t), solveFreeSurface, updateVelocity and the transport step.
\* Mutant: the steps of a resumed run are counted from the start of the first.
StepFromStart ==
  /\ pc = "step" /\ step < Steps
  /\ step' = step + 1
  /\ state' = Append(state, config.tStart + (step + 1) * config.dt)
  /\ pc' = "output"
  /\ UNCHANGED <<config, run, t0, last, checkpoints, outputs>>

Step ==
  /\ pc = "step" /\ step < Steps
  /\ step' = step + 1
  /\ state' = Append(state, t + config.dt)
  /\ pc' = "output"
  /\ UNCHANGED <<config, run, t0, last, checkpoints, outputs>>

\* The label a step at t writes under: a new index, less than half a step away.
Due(index, interval) ==
  /\ Index(t, interval) > index
  /\ 2 * (t - Index(t, interval) * interval) \in (1 - config.dt)..(config.dt - 1)

Output ==
  /\ pc = "output" /\ pc' = "checkpoint"
  /\ IF Due(last.output, config.output)
     THEN LET index == Index(t, config.output)
          IN /\ last' = [last EXCEPT !.output = index]
             /\ outputs' = [outputs EXCEPT ![run] = With(@, index * config.output, state)]
     ELSE UNCHANGED <<last, outputs>>
  /\ UNCHANGED <<config, run, t0, step, state, checkpoints>>

\* Checkpoint::write: the header's time is the label, an existing label is fatal.
WriteCheckpoint(label, next) ==
  IF label \in DOMAIN checkpoints[run] THEN pc' = "failed" /\ UNCHANGED checkpoints
  ELSE pc' = next /\ checkpoints' = [checkpoints EXCEPT ![run] = With(@, label, state)]

\* Mutant: lastCheckpointTime is not assigned.
PeriodicCheckpointUntimed ==
  /\ pc = "checkpoint"
  /\ IF config.checkpoint > 0 /\ Due(last.checkpoint, config.checkpoint)
     THEN LET index == Index(t, config.checkpoint)
          IN /\ last' = [last EXCEPT !.checkpoint = index]
             /\ WriteCheckpoint(index * config.checkpoint, "step")
     ELSE pc' = "step" /\ UNCHANGED <<last, checkpoints>>
  /\ UNCHANGED <<config, run, t0, step, state, outputs>>

PeriodicCheckpoint ==
  /\ pc = "checkpoint"
  /\ IF config.checkpoint > 0 /\ Due(last.checkpoint, config.checkpoint)
     THEN LET index == Index(t, config.checkpoint)
          IN /\ last' = [last EXCEPT !.checkpoint = index, !.time = index * config.checkpoint]
             /\ WriteCheckpoint(index * config.checkpoint, "step")
     ELSE pc' = "step" /\ UNCHANGED <<last, checkpoints>>
  /\ UNCHANGED <<config, run, t0, step, state, outputs>>

\* Mutant: the final checkpoint is left to the interval.
FinishUnsaved ==
  /\ pc = "step" /\ step >= Steps /\ pc' = "done"
  /\ UNCHANGED <<config, run, t0, step, state, last, checkpoints, outputs>>

Finish ==
  /\ pc = "step" /\ step >= Steps
  /\ IF config.checkpoint > 0 /\ last.time # config.tEnd
     THEN WriteCheckpoint(config.tEnd, "done")
     ELSE pc' = "done" /\ UNCHANGED checkpoints
  /\ UNCHANGED <<config, run, t0, step, state, last, outputs>>

Crash ==
  /\ pc \in {"step", "output", "checkpoint"} /\ run = 1
  /\ pc' = "crashed"
  /\ UNCHANGED <<config, run, t0, step, state, last, checkpoints, outputs>>

\* restoreFromCheckpoint into a new file: the loop starts from the header's time.
Resume(label) ==
  /\ pc \in {"done", "crashed"} /\ run = 1 /\ run' = 2
  /\ t0' = label /\ step' = 0 /\ state' = checkpoints[1][label]
  /\ last' = StartIndexes(label)
  /\ pc' = "step"
  /\ UNCHANGED <<config, checkpoints, outputs>>

Next ==
  \/ Step \/ Output \/ PeriodicCheckpoint \/ Finish \/ Crash
  \/ \E label \in DOMAIN checkpoints[1] : Resume(label)

Spec == Init /\ [][Next]_vars

----------------------------------------------------------------------------
Labels(from, interval) == {s \in from + 1..config.tEnd : s % interval = 0}

\* A run that ended wrote every output label of its time span, from the state
\* whose last step was taken at that very time: the round trip through indexes
\* neither loses nor shifts a label, in the first run and in a resumed one.
EveryOutput ==
  pc = "done" =>
    \A label \in Labels(t0, config.output) :
      /\ label \in DOMAIN outputs[run]
      /\ outputs[run][label] # <<>> /\ outputs[run][label][Len(outputs[run][label])] = label

\* A resumed run agrees with the first wherever both wrote (restart.md:3-5),
\* also when the first one crashed.  It needs a step that divides the checkpoint
\* interval: the header stores the label, not the time of the state.
SameOutputs ==
  \A label \in DOMAIN outputs[1] \intersect DOMAIN outputs[2] :
    outputs[1][label] = outputs[2][label]

\* No label is written twice, the final checkpoint's included.
NeverFails == pc # "failed"

\* A run that ends with checkpointing on can be continued from its end.
EndIsSaved ==
  (pc = "done" /\ config.checkpoint > 0) =>
    config.tEnd \in DOMAIN checkpoints[run] /\ checkpoints[run][config.tEnd] = state

(***************************************************************************)
(* What the repository says and a run refutes, on a configuration that the *)
(* schema accepts.                                                         *)
(***************************************************************************)

\* restart.md:3-5, for an output interval that the checkpoint interval is not
\* a multiple of: the resumed run has every output the first run wrote after
\* the checkpoint.
RestartHasOutputs ==
  (run = 2 /\ pc = "done") =>
    \A label \in DOMAIN outputs[1] : label > t0 => label \in DOMAIN outputs[2]
=============================================================================
