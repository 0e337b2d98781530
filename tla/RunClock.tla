------------------------------ MODULE RunClock ------------------------------
(***************************************************************************)
(* The clocks of a run whose step is adaptive somewhere: the coupled loop  *)
(* in its two modes and the groundwater loop (src/src/driver/Simulation.cpp*)
(* and src/src/coupling/Coupler.cpp), with the output and checkpoint       *)
(* labels, a crash between any two writes, and a resumed second run.       *)
(*                                                                         *)
(* Time is counted in ticks, Second of them in a second; the code's 1e-9   *)
(* tolerances are exact comparisons here.  The length of the next subsurface*)
(* step is what the adaptive controller makes of the state it finds; a run *)
(* resumed from that state must find the same one, so `pace` remembers it. *)
(***************************************************************************)
EXTENDS Integers, Sequences

CONSTANTS
  Second,   \* ticks in a second
  Configs   \* subcycled: coupling.mode, FALSE for sync or groundwater alone;
            \* dt: time.dt; first: the first subsurface step (time.dt for sync,
            \* else dt_init); steps: what the controller may choose; tEnd, with
            \* t_start = 0; output, checkpoint: their intervals, 0 for none

ASSUME ClockAssumption ==
  /\ Second \in Nat \ {0}
  /\ \A c \in Configs :
       /\ c.subcycled \in BOOLEAN
       /\ {c.dt, c.first, c.tEnd, c.output} \subseteq Nat \ {0}
       /\ c.steps \subseteq Nat \ {0} /\ c.checkpoint \in Nat
       /\ c.output % Second = 0 /\ c.checkpoint % Second = 0

VARIABLES
  config,      \* the configuration both runs use
  pc,          \* "loop", "window", "output", "checkpoint", "done", "crashed", "failed"
  run, t0,     \* 1, or 2 for the resumed run; the time the run starts from
  t, dt,       \* time of the state, and the step that led to it
  tSub, dtg,   \* subsurface clock, and its next step
  flux,        \* the subsurface step whose fluxes and dtg transport sees, 0 for none
  taken,       \* subsurface steps the state has behind it
  pace,        \* the steps the controller chose, in order
  due,         \* next output and checkpoint boundary, time of the last checkpoint
  file,        \* the output file: labels and checkpoints
  log          \* per run, what its outputs and its transport steps saw

clocks == <<t, dt, tSub, dtg, flux, taken, pace>>
vars == <<config, pc, run, t0, clocks, due, file, log>>

\* The record f with value at key; what is already written there stays.
With(f, key, value) ==
  [k \in DOMAIN f \union {key} |-> IF k \in DOMAIN f THEN f[k] ELSE value]

NoFile == [outputs |-> {}, checkpoints |-> <<>>]
NoLog == [outputs |-> <<>>, transport |-> <<>>]

\* The first multiple of interval after the time s.
After(s, interval) == (s \div interval + 1) * interval

Boundaries(s) ==
  [output     |-> After(s, config.output),
   checkpoint |-> IF config.checkpoint = 0 THEN 0 ELSE After(s, config.checkpoint),
   last       |-> -1]

State == [t |-> t, dt |-> dt, tSub |-> tSub, dtg |-> dtg, taken |-> taken]

Init ==
  /\ config \in Configs
  /\ pc = "loop" /\ run = 1 /\ t0 = 0
  /\ t = 0 /\ dt = 0 /\ tSub = 0 /\ dtg = config.first /\ flux = 0 /\ taken = 0 /\ pace = <<>>
  /\ due = Boundaries(0)
  /\ file = [NoFile EXCEPT !.outputs = {0}]
  /\ log = <<[NoLog EXCEPT !.outputs = [label \in {0} |-> State]], NoLog>>

\* Mutant: the grown step misses the dt_max clamp.
AdaptUnclamped(next) ==
  /\ IF taken < Len(pace) THEN next = pace[taken + 1] /\ UNCHANGED pace
     ELSE pace' = Append(pace, next)
  /\ dtg' = dtg + next /\ taken' = taken + 1 /\ flux' = taken + 1

\* adaptTimeStep: the controller's next step is a function of the state.
Adapt(next) ==
  /\ IF taken < Len(pace) THEN next = pace[taken + 1] /\ UNCHANGED pace
     ELSE pace' = Append(pace, next)
  /\ dtg' = next /\ taken' = taken + 1 /\ flux' = taken + 1

(***************************************************************************)
(* The loop head, and the part of Coupler::step before the window: the     *)
(* surface advances by the fixed step, or by the common adaptive one.      *)
(***************************************************************************)
NextDt == IF config.subcycled THEN config.dt ELSE dtg

Advance ==
  /\ pc = "loop" /\ t < config.tEnd
  /\ dt' = NextDt /\ t' = t + NextDt
  /\ pc' = "window"
  /\ UNCHANGED <<config, run, t0, tSub, dtg, flux, taken, pace, due, file, log>>

\* One subsurface step of the common length.
Lockstep(next) ==
  /\ pc = "window" /\ ~config.subcycled /\ tSub < t
  /\ tSub' = t /\ Adapt(next)
  /\ UNCHANGED <<config, pc, run, t0, t, dt, due, file, log>>

\* Mutant: a substep is taken whenever the subsurface is behind.
SubstepEager(next) ==
  /\ pc = "window" /\ config.subcycled /\ tSub < t
  /\ tSub' = tSub + dtg /\ Adapt(next)
  /\ UNCHANGED <<config, pc, run, t0, t, dt, due, file, log>>

\* One subsurface step of a subcycled window, while a whole one fits.
Substep(next) ==
  /\ pc = "window" /\ config.subcycled /\ tSub + dtg <= t
  /\ tSub' = tSub + dtg /\ Adapt(next)
  /\ UNCHANGED <<config, pc, run, t0, t, dt, due, file, log>>

\* The window is over; stepTransport moves the scalars with the last fluxes.
EndWindow ==
  /\ pc = "window"
  /\ IF config.subcycled THEN tSub + dtg > t ELSE tSub = t
  /\ log' = [log EXCEPT ![run].transport = With(@, t, flux)]
  /\ pc' = "output"
  /\ UNCHANGED <<config, run, t0, clocks, due, file>>

\* Mutant: one interval per output, however many boundaries the step crossed.
OutputOneInterval ==
  /\ pc = "output"
  /\ IF t < due.output THEN UNCHANGED <<due, file, log>>
     ELSE /\ due' = [due EXCEPT !.output = @ + config.output]
          /\ file' = [file EXCEPT !.outputs = @ \union {due.output}]
          /\ log' = [log EXCEPT ![run].outputs = With(@, due.output, State)]
  /\ pc' = "checkpoint"
  /\ UNCHANGED <<config, run, t0, clocks>>

\* An output is labelled with the first boundary the step crossed.
Output ==
  /\ pc = "output"
  /\ IF t < due.output THEN UNCHANGED <<due, file, log>>
     ELSE /\ due' = [due EXCEPT !.output = After(t, config.output)]
          /\ file' = [file EXCEPT !.outputs = @ \union {due.output}]
          /\ log' = [log EXCEPT ![run].outputs = With(@, due.output, State)]
  /\ pc' = "checkpoint"
  /\ UNCHANGED <<config, run, t0, clocks>>

\* Checkpoint::write under a label: a dataset that exists is fatal.
WriteCheckpoint(label, next) ==
  IF label \in DOMAIN file.checkpoints THEN pc' = "failed" /\ UNCHANGED file
  ELSE pc' = next /\ file' = [file EXCEPT !.checkpoints = With(@, label, State)]

\* Mutant: lastCheckpointTime is not assigned.
PeriodicCheckpointUnrecorded ==
  /\ pc = "checkpoint"
  /\ IF config.checkpoint = 0 \/ t < due.checkpoint
     THEN pc' = "loop" /\ UNCHANGED <<due, file>>
     ELSE /\ WriteCheckpoint(due.checkpoint, "loop")
          /\ due' = [due EXCEPT !.checkpoint = After(t, config.checkpoint)]
  /\ UNCHANGED <<config, run, t0, clocks, log>>

\* The checkpoint due after a step holds the exact state under the boundary's label.
PeriodicCheckpoint ==
  /\ pc = "checkpoint"
  /\ IF config.checkpoint = 0 \/ t < due.checkpoint
     THEN pc' = "loop" /\ UNCHANGED <<due, file>>
     ELSE /\ WriteCheckpoint(due.checkpoint, "loop")
          /\ due' = [due EXCEPT !.checkpoint = After(t, config.checkpoint), !.last = t]
  /\ UNCHANGED <<config, run, t0, clocks, log>>

\* The final checkpoint is labelled with the whole second nearest to the state.
Nearest(s) == ((2 * s + Second) \div (2 * Second)) * Second

\* Mutant: the final checkpoint is written only when no other was.
FinishIfNone ==
  /\ pc = "loop" /\ t >= config.tEnd
  /\ IF config.checkpoint > 0 /\ due.last = -1 THEN WriteCheckpoint(Nearest(t), "done")
     ELSE pc' = "done" /\ UNCHANGED file
  /\ UNCHANGED <<config, run, t0, clocks, due, log>>

Finish ==
  /\ pc = "loop" /\ t >= config.tEnd
  /\ IF config.checkpoint > 0 /\ due.last # t THEN WriteCheckpoint(Nearest(t), "done")
     ELSE pc' = "done" /\ UNCHANGED file
  /\ UNCHANGED <<config, run, t0, clocks, due, log>>

\* The process dies between two writes.
Crash ==
  /\ pc \in {"loop", "window", "output", "checkpoint"} /\ run = 1
  /\ pc' = "crashed"
  /\ UNCHANGED <<config, run, t0, clocks, due, file, log>>

\* Mutant: the subsurface clock of the resumed run starts at the surface's.
ResumeWithoutLag(label) ==
  /\ pc \in {"done", "crashed"} /\ run = 1 /\ run' = 2
  /\ LET saved == file.checkpoints[label]
     IN /\ t0' = saved.t /\ t' = saved.t /\ dt' = saved.dt /\ tSub' = saved.t /\ dtg' = saved.dtg
        /\ taken' = saved.taken /\ flux' = 0
        /\ due' = Boundaries(saved.t)
  /\ pc' = "loop" /\ file' = NoFile
  /\ UNCHANGED <<config, pace, log>>

\* Mutant: the saved lag is read where the saved step belongs.
ResumeStepIsLag(label) ==
  /\ pc \in {"done", "crashed"} /\ run = 1 /\ run' = 2
  /\ LET saved == file.checkpoints[label]
     IN /\ t0' = saved.t /\ t' = saved.t /\ dt' = saved.dt /\ tSub' = saved.tSub
        /\ dtg' = saved.t - saved.tSub
        /\ taken' = saved.taken /\ flux' = 0
        /\ due' = Boundaries(saved.t)
  /\ pc' = "loop" /\ file' = NoFile
  /\ UNCHANGED <<config, pace, log>>

(***************************************************************************)
(* A second run resumes from a checkpoint, into an output file of its own  *)
(* (Simulation's constructor truncates the file it opens before            *)
(* restoreFromCheckpoint reads).  The fluxes of the last subsurface step   *)
(* are not part of a checkpoint.                                           *)
(***************************************************************************)
Resume(label) ==
  /\ pc \in {"done", "crashed"} /\ run = 1 /\ run' = 2
  /\ LET saved == file.checkpoints[label]
     IN /\ t0' = saved.t /\ t' = saved.t /\ dt' = saved.dt /\ tSub' = saved.tSub /\ dtg' = saved.dtg
        /\ taken' = saved.taken /\ flux' = 0
        /\ due' = Boundaries(saved.t)
  /\ pc' = "loop" /\ file' = NoFile
  /\ UNCHANGED <<config, pace, log>>

RunStep ==
  \/ Advance \/ EndWindow \/ Output \/ PeriodicCheckpoint \/ Finish
  \/ \E next \in config.steps : Lockstep(next) \/ Substep(next)

Next ==
  \/ RunStep
  \/ Crash
  \/ \E label \in DOMAIN file.checkpoints : Resume(label)

Spec == Init /\ [][Next]_vars

\* The process keeps executing: nothing in the loop waits for anything else.
FairSpec == Spec /\ WF_vars(RunStep)

----------------------------------------------------------------------------
TypeOK ==
  /\ pc \in {"loop", "window", "output", "checkpoint", "done", "crashed", "failed"}
  /\ run \in 1..2 /\ t0 \in 0..t
  /\ {t, dt, tSub, taken, flux} \subseteq Nat /\ dtg \in config.steps \union {config.first}
  /\ pace \in Seq(config.steps)
  /\ due.output \in Nat /\ due.checkpoint \in Nat /\ due.last \in Int

\* Coupler.hpp:25-30: outside a window the subsurface clock lags the surface
\* clock by less than one subsurface step, and it is never ahead; a resumed
\* run takes the lag over.
LagBounded ==
  pc \in {"loop", "output", "checkpoint"} =>
    IF config.subcycled THEN tSub \in (t - dtg + 1)..t ELSE tSub = t

\* An output holds a state less than one step past its label, however many
\* boundaries a step crosses and whichever run wrote it.
LabelsHonest ==
  \A r \in 1..2 : \A label \in DOMAIN log[r].outputs \ {0} :
    LET seen == log[r].outputs[label] IN seen.t - label \in 0..(seen.dt - 1)

\* A resumed run writes every output the first run wrote after the checkpoint,
\* with the state the first run wrote (restart.md:3-5), whether the first run
\* ended or crashed and whichever checkpoint is resumed.
SameOutputs ==
  (run = 2 /\ pc \in {"loop", "done"}) =>
    \A label \in DOMAIN log[1].outputs :
      LET first == log[1].outputs[label]
      IN (first.t > t0 /\ label < due.output) =>
           /\ label \in DOMAIN log[2].outputs
           /\ log[2].outputs[label] = first

\* No write of the run is refused, the final checkpoint included.
NeverFails == pc # "failed"

\* A run that ends with checkpointing on can be continued from where it ended.
EndIsSaved ==
  (pc = "done" /\ config.checkpoint > 0 /\ t > 0) =>
    \E label \in DOMAIN file.checkpoints : file.checkpoints[label] = State

\* Every run that is not killed comes to its end, the resumed one as well: each
\* window closes and the end time is reached although the steps vary. A resume
\* leaves the end again, so the end must be reached infinitely often and not
\* just once.
Terminates == []<>(pc \in {"done", "crashed", "failed"})

(***************************************************************************)
(* What the repository says and a run refutes.                             *)
(***************************************************************************)

\* restart.md:4-6: the transport steps of a resumed run see what the steps of
\* the uninterrupted run saw at the same time.
SameTransport ==
  \A s \in DOMAIN log[1].transport \intersect DOMAIN log[2].transport :
    log[2].transport[s] = log[1].transport[s]
=============================================================================
