-------------------------- MODULE RunClock_proofs --------------------------
(***************************************************************************)
(* Proofs about RunClock, for any configurations, steps and length of a    *)
(* tick: the types, the lag between the two clocks, the labels, the final  *)
(* checkpoint, the refusal of a label, and the outputs of a resumed run.   *)
(*                                                                         *)
(* A state is bounded by what the two clocks may differ by (Behind), a     *)
(* checkpoint by the same bound (SavedClocks), which is why a resumed run  *)
(* keeps it; a label is bounded by where the next boundary lies            *)
(* (BoundaryAhead), which holds again at the head of the loop because the  *)
(* boundary is moved past the time reached.                                *)
(*                                                                         *)
(* For the outputs, the live clocks, the checkpoints and the outputs all   *)
(* lie on one path, the positions an uninterrupted run passes (OnPath).    *)
(***************************************************************************)
EXTENDS RunClock, TLAPS

ClockTypes ==
  /\ config \in Configs
  /\ pc \in {"loop", "window", "output", "checkpoint", "done", "crashed", "failed"}
  /\ run \in 1..2
  /\ t0 \in Nat /\ t \in Nat /\ dt \in Nat /\ tSub \in Nat /\ flux \in Nat /\ taken \in Nat
  /\ t0 <= t
  /\ dtg \in config.steps \union {config.first}
  /\ pace \in Seq(config.steps)
  /\ due \in [output : Nat, checkpoint : Nat, last : Int]

Lag(c, s, sub, next) ==
  IF c.subcycled THEN sub <= s /\ s < sub + next ELSE sub = s

\* What is known of the clocks outside a window and inside one.
Behind ==
  /\ pc \in {"loop", "output", "checkpoint"} => Lag(config, t, tSub, dtg)
  /\ pc = "window" => tSub <= t

SavedClocks ==
  \A label \in DOMAIN file.checkpoints :
    LET saved == file.checkpoints[label]
    IN /\ saved.t \in Nat /\ saved.dt \in Nat /\ saved.tSub \in Nat /\ saved.taken \in Nat
       /\ saved.dtg \in config.steps \union {config.first}
       /\ Lag(config, saved.t, saved.tSub, saved.dtg)

FileShape == file = [outputs |-> file.outputs, checkpoints |-> file.checkpoints]

ClockInv == ClockTypes /\ Behind /\ FileShape /\ SavedClocks

-----------------------------------------------------------------------------
LEMMA Positive ==
  /\ Second \in Nat /\ Second > 0
  /\ \A c \in Configs :
       /\ c.subcycled \in BOOLEAN
       /\ c.dt \in Nat /\ c.dt > 0 /\ c.first \in Nat /\ c.first > 0
       /\ c.tEnd \in Nat /\ c.output \in Nat /\ c.output > 0 /\ c.checkpoint \in Nat
       /\ \A d \in c.steps \union {c.first} : d \in Nat /\ d > 0
BY ClockAssumption

\* The boundary after a time is later than it, by an interval at most.
LEMMA AfterIsLater ==
  ASSUME NEW s \in Nat, NEW interval \in Nat, interval > 0
  PROVE  After(s, interval) \in Nat /\ s < After(s, interval)
<1> DEFINE q == s \div interval
           r == s % interval
<1>1. q \in Int /\ r \in 0..interval - 1 /\ s = interval * q + r
  OBVIOUS
<1>2. q >= 0
  OBVIOUS
<1>3. After(s, interval) = (q + 1) * interval
  BY DEF After
<1> HIDE DEF q, r
<1>4. (q + 1) * interval = interval * q + interval /\ interval * q \in Nat
  BY <1>1, <1>2
<1> QED  BY <1>1, <1>3, <1>4

LEMMA BoundariesType ==
  ASSUME config \in Configs, NEW s \in Nat
  PROVE  /\ Boundaries(s) \in [output : Nat, checkpoint : Nat, last : Int]
         /\ s < Boundaries(s).output
<1>1. config.output \in Nat /\ config.output > 0 /\ config.checkpoint \in Nat
  BY Positive
<1>2. After(s, config.output) \in Nat /\ s < After(s, config.output)
  BY <1>1, AfterIsLater
<1>3. config.checkpoint # 0 => After(s, config.checkpoint) \in Nat
  <2> HAVE config.checkpoint # 0
  <2>1. config.checkpoint > 0
    BY <1>1
  <2> QED  BY <1>1, <2>1, AfterIsLater
<1> QED  BY <1>1, <1>2, <1>3 DEF Boundaries

\* A checkpoint that is not refused is in the file, beside those before it.
LEMMA WrittenFile ==
  ASSUME FileShape, NEW label, NEW next, WriteCheckpoint(label, next),
         label \notin DOMAIN file.checkpoints
  PROVE  /\ FileShape' /\ pc' = next
         /\ DOMAIN file'.checkpoints = DOMAIN file.checkpoints \union {label}
         /\ \A k \in DOMAIN file.checkpoints : file'.checkpoints[k] = file.checkpoints[k]
         /\ file'.checkpoints[label] = State
<1>1. pc' = next /\ file' = [file EXCEPT !.checkpoints = With(file.checkpoints, label, State)]
  BY DEF WriteCheckpoint
<1>2. file' = [outputs |-> file.outputs,
               checkpoints |-> With(file.checkpoints, label, State)]
  BY <1>1 DEF FileShape
<1>3. file'.checkpoints = With(file.checkpoints, label, State)
  BY <1>2
<1> QED  BY <1>1, <1>2, <1>3 DEF FileShape, With

\* What a checkpoint takes of a state whose clocks are in order is in order.
LEMMA WrittenClocks ==
  ASSUME ClockInv, Lag(config, t, tSub, dtg), NEW label, NEW next,
         WriteCheckpoint(label, next), config' = config
  PROVE  FileShape' /\ SavedClocks'
<1>1. CASE label \in DOMAIN file.checkpoints
  BY <1>1 DEF WriteCheckpoint, ClockInv, FileShape, SavedClocks
<1>2. CASE label \notin DOMAIN file.checkpoints
  <2>1. FileShape
    BY DEF ClockInv
  <2>3. /\ FileShape'
        /\ DOMAIN file'.checkpoints = DOMAIN file.checkpoints \union {label}
        /\ \A k \in DOMAIN file.checkpoints : file'.checkpoints[k] = file.checkpoints[k]
        /\ file'.checkpoints[label] = State
    BY <1>2, <2>1, WrittenFile
  <2>4. /\ State.t = t /\ State.dt = dt /\ State.tSub = tSub
        /\ State.dtg = dtg /\ State.taken = taken
    BY DEF State
  <2>5. ASSUME NEW k \in DOMAIN file.checkpoints'
        PROVE  LET saved == file'.checkpoints[k]
               IN /\ saved.t \in Nat /\ saved.dt \in Nat /\ saved.tSub \in Nat
                  /\ saved.taken \in Nat
                  /\ saved.dtg \in config.steps \union {config.first}
                  /\ Lag(config, saved.t, saved.tSub, saved.dtg)
    <3>1. CASE k \in DOMAIN file.checkpoints
      <4>1. file'.checkpoints[k] = file.checkpoints[k]
        BY <2>3, <3>1
      <4> QED  BY <3>1, <4>1 DEF ClockInv, SavedClocks
    <3>2. CASE k = label
      <4>1. file'.checkpoints[k] = State
        BY <2>3, <3>2
      <4> QED  BY <2>4, <4>1 DEF ClockInv, ClockTypes
    <3> QED  BY <2>3, <3>1, <3>2
  <2> QED  BY <2>3, <2>5 DEF SavedClocks
<1> QED  BY <1>1, <1>2

-----------------------------------------------------------------------------
LEMMA InitClocks == Init => ClockInv
<1> SUFFICES ASSUME Init PROVE ClockInv
  OBVIOUS
<1>1. /\ config \in Configs /\ config.output \in Nat /\ config.output > 0
      /\ config.checkpoint \in Nat /\ config.first \in Nat /\ config.first > 0
  BY Positive DEF Init
<1>2. pace \in Seq(config.steps)
  BY DEF Init
<1>3. due \in [output : Nat, checkpoint : Nat, last : Int]
  BY <1>1, BoundariesType DEF Init
<1>4. file = [outputs |-> {0}, checkpoints |-> <<>>]
  BY DEF Init, NoFile
<1>5. DOMAIN file.checkpoints = {}
  BY <1>4
<1>6. Behind
  BY <1>1 DEF Init, Behind, Lag
<1>7. ClockTypes
  BY <1>1, <1>2, <1>3 DEF Init, ClockTypes
<1>8. FileShape /\ SavedClocks
  BY <1>4, <1>5 DEF FileShape, SavedClocks
<1> QED  BY <1>6, <1>7, <1>8 DEF ClockInv

LEMMA AdaptTypes ==
  ASSUME ClockTypes, NEW next \in config.steps, Adapt(next)
  PROVE  /\ dtg' \in config.steps /\ taken' \in Nat /\ flux' \in Nat
         /\ pace' \in Seq(config.steps)
<1>1. dtg' = next /\ taken' \in Nat /\ flux' \in Nat
  BY DEF ClockTypes, Adapt
<1>2. pace' \in Seq(config.steps)
  <2>1. pace \in Seq(config.steps)
    BY DEF ClockTypes
  <2>2. pace' = pace \/ pace' = Append(pace, next)
    BY DEF Adapt
  <2>3. Append(pace, next) \in Seq(config.steps)
    BY <2>1
  <2> QED  BY <2>1, <2>2, <2>3
<1> QED  BY <1>1, <1>2

LEMMA NextClocks == ClockInv /\ [Next]_vars => ClockInv'
<1> SUFFICES ASSUME ClockInv, [Next]_vars PROVE ClockInv'
  OBVIOUS
<1>0. ClockTypes /\ Behind /\ FileShape /\ SavedClocks
  BY DEF ClockInv
<1>a. /\ config.subcycled \in BOOLEAN /\ config.dt \in Nat /\ config.dt > 0
      /\ dtg \in Nat /\ dtg > 0 /\ t \in Nat /\ tSub \in Nat
      /\ \A d \in config.steps : d \in Nat /\ d > 0
      /\ config.output \in Nat /\ config.output > 0 /\ config.checkpoint \in Nat
  BY <1>0, Positive DEF ClockTypes
<1>1. CASE Advance
  <2>1. NextDt \in Nat
    BY <1>a DEF NextDt
  <2>2. t <= t' /\ t' \in Nat /\ dt' \in Nat
    BY <1>1, <1>a, <2>1 DEF Advance
  <2>3. ClockTypes'
    BY <1>0, <1>1, <2>2 DEF Advance, ClockTypes
  <2>4. Behind'
    BY <1>0, <1>1, <1>a, <2>2 DEF Advance, Behind, Lag
  <2> QED  BY <1>0, <1>1, <2>3, <2>4 DEF Advance, ClockInv, FileShape, SavedClocks
<1>2. CASE \E next \in config.steps : Lockstep(next) \/ Substep(next)
  <2>1. PICK next \in config.steps : Lockstep(next) \/ Substep(next)
    BY <1>2
  <2>2. Adapt(next) /\ pc = "window"
    BY <2>1 DEF Lockstep, Substep
  <2>3. tSub' \in Nat /\ tSub' <= t
    BY <1>a, <2>1 DEF Lockstep, Substep
  <2>4. /\ dtg' \in config.steps /\ taken' \in Nat /\ flux' \in Nat
        /\ pace' \in Seq(config.steps)
    BY <1>0, <2>2, AdaptTypes
  <2>5. UNCHANGED <<config, pc, run, t0, t, dt, due, file, log>>
    BY <2>1 DEF Lockstep, Substep
  <2>6. ClockTypes'
    BY <1>0, <2>3, <2>4, <2>5 DEF ClockTypes
  <2>7. Behind'
    BY <2>2, <2>3, <2>5 DEF Behind
  <2> QED  BY <1>0, <2>5, <2>6, <2>7 DEF ClockInv, FileShape, SavedClocks
<1>3. CASE EndWindow
  <2>1. Lag(config, t, tSub, dtg)
    BY <1>0, <1>3, <1>a DEF EndWindow, Behind, Lag
  <2> QED  BY <1>0, <1>3, <2>1
           DEF EndWindow, clocks, ClockInv, ClockTypes, Behind, FileShape, SavedClocks
<1>4. CASE Output
  <2>1. After(t, config.output) \in Nat
    BY <1>a, AfterIsLater
  <2>2. due' \in [output : Nat, checkpoint : Nat, last : Int]
    BY <1>0, <1>4, <2>1 DEF Output, ClockTypes
  <2>3. FileShape' /\ file'.checkpoints = file.checkpoints
    BY <1>0, <1>4 DEF Output, FileShape
  <2>4. ClockTypes' /\ Behind'
    BY <1>0, <1>4, <2>2 DEF Output, clocks, ClockTypes, Behind
  <2>5. SavedClocks'
    BY <1>0, <1>4, <2>3 DEF Output, SavedClocks
  <2> QED  BY <2>3, <2>4, <2>5 DEF ClockInv
<1>5. CASE PeriodicCheckpoint
  <2>1. Lag(config, t, tSub, dtg) /\ config' = config
    BY <1>0, <1>5 DEF PeriodicCheckpoint, Behind
  <2>2. due' \in [output : Nat, checkpoint : Nat, last : Int]
    <3>1. CASE config.checkpoint = 0 \/ t < due.checkpoint
      BY <1>0, <1>5, <3>1 DEF PeriodicCheckpoint, ClockTypes
    <3>2. CASE ~(config.checkpoint = 0 \/ t < due.checkpoint)
      <4>1. config.checkpoint > 0
        BY <1>a, <3>2
      <4>2. After(t, config.checkpoint) \in Nat
        BY <1>a, <4>1, AfterIsLater
      <4>3. due' = [due EXCEPT !.checkpoint = After(t, config.checkpoint), !.last = t]
        BY <1>5, <3>2 DEF PeriodicCheckpoint
      <4>4. due \in [output : Nat, checkpoint : Nat, last : Int] /\ t \in Int
        BY <1>0, <1>a DEF ClockTypes
      <4>5. due' = [output |-> due.output, checkpoint |-> After(t, config.checkpoint), last |-> t]
        BY <4>3, <4>4
      <4> QED  BY <4>2, <4>4, <4>5
    <3> QED  BY <3>1, <3>2
  <2>3. pc' \in {"loop", "failed"}
    BY <1>5 DEF PeriodicCheckpoint, WriteCheckpoint
  <2>4. ClockTypes' /\ Behind'
    BY <1>0, <1>5, <2>1, <2>2, <2>3 DEF PeriodicCheckpoint, clocks, ClockTypes, Behind
  <2>5. FileShape' /\ SavedClocks'
    <3>1. CASE UNCHANGED file
      BY <1>0, <2>1, <3>1 DEF FileShape, SavedClocks
    <3>2. CASE WriteCheckpoint(due.checkpoint, "loop")
      BY <2>1, <3>2, WrittenClocks
    <3> QED  BY <1>5, <3>1, <3>2 DEF PeriodicCheckpoint
  <2> QED  BY <2>4, <2>5 DEF ClockInv
<1>6. CASE Finish
  <2>1. Lag(config, t, tSub, dtg) /\ config' = config
    BY <1>0, <1>6 DEF Finish, Behind
  <2>2. pc' \in {"done", "failed"}
    BY <1>6 DEF Finish, WriteCheckpoint
  <2>3. ClockTypes' /\ Behind'
    BY <1>0, <1>6, <2>2 DEF Finish, clocks, ClockTypes, Behind
  <2>4. FileShape' /\ SavedClocks'
    <3>1. CASE UNCHANGED file
      BY <1>0, <2>1, <3>1 DEF FileShape, SavedClocks
    <3>2. CASE WriteCheckpoint(Nearest(t), "done")
      BY <2>1, <3>2, WrittenClocks
    <3> QED  BY <1>6, <3>1, <3>2 DEF Finish
  <2> QED  BY <2>3, <2>4 DEF ClockInv
<1>7. CASE Crash
  BY <1>0, <1>7 DEF Crash, clocks, ClockInv, ClockTypes, Behind, FileShape, SavedClocks
<1>8. CASE \E label \in DOMAIN file.checkpoints : Resume(label)
  <2>1. PICK label \in DOMAIN file.checkpoints : Resume(label)
    BY <1>8
  <2> DEFINE saved == file.checkpoints[label]
  <2>2. /\ saved.t \in Nat /\ saved.dt \in Nat /\ saved.tSub \in Nat /\ saved.taken \in Nat
        /\ saved.dtg \in config.steps \union {config.first}
        /\ Lag(config, saved.t, saved.tSub, saved.dtg)
    BY <1>0, <2>1 DEF SavedClocks
  <2>3. /\ t0' = saved.t /\ t' = saved.t /\ dt' = saved.dt /\ tSub' = saved.tSub
        /\ dtg' = saved.dtg /\ taken' = saved.taken /\ flux' = 0
        /\ due' = Boundaries(saved.t)
        /\ pc' = "loop" /\ run' = 2 /\ file' = NoFile /\ config' = config /\ pace' = pace
    BY <2>1 DEF Resume
  <2> HIDE DEF saved
  <2>4. due' \in [output : Nat, checkpoint : Nat, last : Int]
    BY <1>0, <2>2, <2>3, BoundariesType DEF ClockTypes
  <2>5. ClockTypes'
    BY <1>0, <2>2, <2>3, <2>4 DEF ClockTypes
  <2>6. Behind'
    BY <2>2, <2>3 DEF Behind
  <2>7. file' = [outputs |-> {}, checkpoints |-> <<>>] /\ DOMAIN file'.checkpoints = {}
    BY <2>3 DEF NoFile
  <2>8. FileShape' /\ SavedClocks'
    BY <2>7 DEF FileShape, SavedClocks
  <2> QED  BY <2>5, <2>6, <2>8 DEF ClockInv
<1>9. CASE UNCHANGED vars
  BY <1>0, <1>9 DEF vars, clocks, ClockInv, ClockTypes, Behind, FileShape, SavedClocks
<1> QED  BY <1>1, <1>2, <1>3, <1>4, <1>5, <1>6, <1>7, <1>8, <1>9 DEF Next, RunStep

LEMMA ClocksInvariant == Spec => []ClockInv
BY InitClocks, NextClocks, PTL DEF Spec

-----------------------------------------------------------------------------
\* The type invariant of the three adaptive loops.
THEOREM TypeCorrect == Spec => []TypeOK
<1>1. ClockInv => TypeOK
  <2> SUFFICES ASSUME ClockInv PROVE TypeOK
    OBVIOUS
  <2>1. ClockTypes
    BY DEF ClockInv
  <2> QED  BY <2>1 DEF ClockTypes, TypeOK
<1> QED  BY <1>1, ClocksInvariant, PTL

\* Coupler.hpp:25-30: the subsurface clock is never ahead of the surface clock,
\* and outside a window behind it by less than one step; in lockstep they are
\* equal. A resumed run, which begins anywhere, keeps it.
THEOREM LagIsBounded == Spec => []LagBounded
<1>1. ClockInv => LagBounded
  <2> SUFFICES ASSUME ClockInv, pc \in {"loop", "output", "checkpoint"}
               PROVE  IF config.subcycled THEN tSub \in (t - dtg + 1)..t ELSE tSub = t
    BY DEF LagBounded
  <2>1. Lag(config, t, tSub, dtg)
    BY DEF ClockInv, Behind
  <2>2. t \in Nat /\ tSub \in Nat /\ dtg \in Nat
    BY Positive DEF ClockInv, ClockTypes
  <2> QED  BY <2>1, <2>2 DEF Lag
<1> QED  BY <1>1, ClocksInvariant, PTL
-----------------------------------------------------------------------------
LogShape ==
  /\ log = [r \in 1..2 |-> log[r]]
  /\ \A r \in 1..2 : log[r] = [outputs |-> log[r].outputs, transport |-> log[r].transport]

LogLabels ==
  \A r \in 1..2 : \A label \in DOMAIN log[r].outputs \ {0} :
    LET seen == log[r].outputs[label]
    IN seen.t - label \in 0..(seen.dt - 1)

\* The next boundary is ahead of the time reached, or, while the step that
\* reached it is still being worked off, of the time before.
BoundaryAhead ==
  /\ pc \in {"loop", "checkpoint"} => t < due.output
  /\ pc \in {"window", "output"} => t - dt < due.output

LabelInv == LogShape /\ LogLabels /\ BoundaryAhead

\* A record of one run's log replaced.
LEMMA LogUpdate ==
  ASSUME LogShape, run \in 1..2, NEW outputs, NEW transport,
         log' = [log EXCEPT ![run] = [outputs |-> outputs, transport |-> transport]]
  PROVE  /\ LogShape' /\ log'[run].outputs = outputs
         /\ \A r \in 1..2 : r # run => log'[r].outputs = log[r].outputs
<1> DEFINE entry == [outputs |-> outputs, transport |-> transport]
<1>1. /\ entry.outputs = outputs
      /\ entry = [outputs |-> entry.outputs, transport |-> entry.transport]
  OBVIOUS
<1> HIDE DEF entry
<1>2. DOMAIN log = 1..2
  BY DEF LogShape
<1>3. log' = [r \in 1..2 |-> IF r = run THEN entry ELSE log[r]]
  BY <1>2 DEF entry
<1>4. log' = [r \in 1..2 |-> log'[r]]
  BY <1>3
<1>5. log'[run] = entry /\ \A r \in 1..2 : r # run => log'[r] = log[r]
  BY <1>3
<1>6. ASSUME NEW r \in 1..2
      PROVE  log'[r] = [outputs |-> log'[r].outputs, transport |-> log'[r].transport]
  BY <1>1, <1>5 DEF LogShape
<1> QED  BY <1>1, <1>4, <1>5, <1>6 DEF LogShape

LEMMA EntryOfRun ==
  ASSUME LogShape, run \in 1..2, NEW value
  PROVE  /\ [log EXCEPT ![run].outputs = value]
              = [log EXCEPT ![run] = [outputs |-> value, transport |-> log[run].transport]]
         /\ [log EXCEPT ![run].transport = value]
              = [log EXCEPT ![run] = [outputs |-> log[run].outputs, transport |-> value]]
<1> DEFINE entry == log[run]
<1>1. entry = [outputs |-> entry.outputs, transport |-> entry.transport]
  BY DEF LogShape
<1> HIDE DEF entry
<1>2. /\ [entry EXCEPT !.outputs = value] = [outputs |-> value, transport |-> entry.transport]
      /\ [entry EXCEPT !.transport = value] = [outputs |-> entry.outputs, transport |-> value]
  BY <1>1
<1> USE DEF entry
<1>3. /\ [log EXCEPT ![run].outputs = value]
           = [log EXCEPT ![run] = [log[run] EXCEPT !.outputs = value]]
      /\ [log EXCEPT ![run].transport = value]
           = [log EXCEPT ![run] = [log[run] EXCEPT !.transport = value]]
  OBVIOUS
<1> QED  BY <1>2, <1>3

LEMMA InitLabels == Init => LabelInv
<1> SUFFICES ASSUME Init PROVE LabelInv
  OBVIOUS
<1>1. 0 < due.output
  BY BoundariesType DEF Init
<1>2. /\ log = <<[outputs |-> [label \in {0} |-> State], transport |-> <<>>], NoLog>>
      /\ NoLog = [outputs |-> <<>>, transport |-> <<>>]
  BY DEF Init, NoLog
<1>3. LogShape
  BY <1>2 DEF LogShape
<1>4. DOMAIN log[1].outputs = {0} /\ DOMAIN log[2].outputs = {}
  BY <1>2
<1>5. LogLabels
  BY <1>4 DEF LogLabels
<1> QED  BY <1>1, <1>3, <1>5 DEF Init, BoundaryAhead, LabelInv

LEMMA NextLabels == ClockInv /\ ClockInv' /\ LabelInv /\ [Next]_vars => LabelInv'
<1> SUFFICES ASSUME ClockInv, ClockInv', LabelInv, [Next]_vars PROVE LabelInv'
  OBVIOUS
<1>0. LogShape /\ LogLabels /\ BoundaryAhead
  BY DEF LabelInv
<1>a. /\ config \in Configs /\ run \in 1..2 /\ due.output \in Nat
      /\ t \in Nat /\ dt \in Nat /\ dtg \in Nat
      /\ config.dt \in Nat /\ config.output \in Nat /\ config.output > 0
  BY Positive DEF ClockInv, ClockTypes
<1>b. ASSUME UNCHANGED log PROVE LogShape' /\ LogLabels'
  BY <1>0, <1>b DEF LogShape, LogLabels
<1>1. CASE Advance
  <2>1. NextDt \in Nat
    BY <1>a DEF NextDt
  <2>2. t' - dt' = t /\ pc' = "window" /\ due' = due /\ pc = "loop" /\ UNCHANGED log
    BY <1>1, <1>a, <2>1 DEF Advance
  <2>3. BoundaryAhead'
    BY <1>0, <2>2 DEF BoundaryAhead
  <2> QED  BY <1>b, <2>2, <2>3 DEF LabelInv
<1>2. CASE \E next \in config.steps : Lockstep(next) \/ Substep(next)
  <2>1. UNCHANGED <<pc, t, dt, due, log>>
    BY <1>2 DEF Lockstep, Substep
  <2> QED  BY <1>0, <1>b, <2>1 DEF BoundaryAhead, LabelInv
<1>3. CASE EndWindow
  <2>1. /\ log' = [log EXCEPT ![run].transport = With(log[run].transport, t, flux)]
        /\ pc = "window" /\ pc' = "output" /\ t' = t /\ dt' = dt /\ due' = due
    BY <1>3 DEF EndWindow, clocks
  <2>2. log' = [log EXCEPT ![run] = [outputs |-> log[run].outputs,
                                     transport |-> With(log[run].transport, t, flux)]]
    BY <1>0, <1>a, <2>1, EntryOfRun
  <2>3. LogShape' /\ \A r \in 1..2 : log'[r].outputs = log[r].outputs
    BY <1>0, <1>a, <2>2, LogUpdate
  <2>4. LogLabels'
    BY <1>0, <2>3 DEF LogLabels
  <2> QED  BY <1>0, <2>1, <2>3, <2>4 DEF BoundaryAhead, LabelInv
<1>4. CASE Output
  <2>1. pc = "output" /\ pc' = "checkpoint" /\ t' = t /\ dt' = dt
    BY <1>4 DEF Output, clocks
  <2>2. CASE t < due.output
    <3>1. due' = due /\ UNCHANGED log
      BY <1>4, <2>2 DEF Output
    <3> QED  BY <1>b, <2>1, <2>2, <3>1 DEF BoundaryAhead, LabelInv
  <2>3. CASE ~(t < due.output)
    <3> DEFINE later == After(t, config.output)
               more  == With(log[run].outputs, due.output, State)
    <3>1. /\ due' = [due EXCEPT !.output = later]
          /\ log' = [log EXCEPT ![run].outputs = more]
      BY <1>4, <2>3 DEF Output
    <3>2. due'.output = later /\ t < later
      BY <1>a, <3>1, AfterIsLater DEF ClockInv, ClockTypes
    <3>3. BoundaryAhead'
      BY <2>1, <3>2 DEF BoundaryAhead
    <3>4. /\ DOMAIN more = DOMAIN log[run].outputs \union {due.output}
          /\ \A k \in DOMAIN log[run].outputs : more[k] = log[run].outputs[k]
          /\ due.output \notin DOMAIN log[run].outputs => more[due.output] = State
      BY DEF With
    <3> HIDE DEF more
    <3>5. log' = [log EXCEPT ![run] = [outputs |-> more, transport |-> log[run].transport]]
      BY <1>0, <1>a, <3>1, EntryOfRun
    <3>6. /\ LogShape'
          /\ \A r \in 1..2 : log'[r].outputs = IF r = run THEN more ELSE log[r].outputs
      BY <1>0, <1>a, <3>5, LogUpdate
    <3>7. t - due.output \in 0..(dt - 1)
      BY <1>0, <1>a, <2>1, <2>3 DEF BoundaryAhead
    <3>8. State.t = t /\ State.dt = dt
      BY DEF State
    <3>9. ASSUME NEW r \in 1..2, NEW label \in DOMAIN log'[r].outputs \ {0}
          PROVE  log'[r].outputs[label].t - label \in 0..(log'[r].outputs[label].dt - 1)
      <4>1. CASE r # run
        BY <1>0, <3>6, <4>1 DEF LogLabels
      <4>2. CASE r = run /\ label \in DOMAIN log[run].outputs
        <5>1. log'[r].outputs[label] = log[r].outputs[label]
          BY <3>4, <3>6, <4>2
        <5> QED  BY <1>0, <4>2, <5>1 DEF LogLabels
      <4>3. CASE r = run /\ label \notin DOMAIN log[run].outputs
        <5>1. label = due.output /\ log'[r].outputs[label] = State
          BY <3>4, <3>6, <4>3
        <5> QED  BY <3>7, <3>8, <5>1
      <4> QED  BY <4>1, <4>2, <4>3
    <3>10. LogLabels'
      BY <3>9 DEF LogLabels
    <3> QED  BY <3>3, <3>6, <3>10 DEF LabelInv
  <2> QED  BY <2>2, <2>3
<1>5. CASE PeriodicCheckpoint
  <2>1. /\ pc = "checkpoint" /\ pc' \in {"loop", "failed"} /\ t' = t /\ UNCHANGED log
    BY <1>5 DEF PeriodicCheckpoint, WriteCheckpoint, clocks
  <2>2. due'.output = due.output
    BY <1>5 DEF PeriodicCheckpoint, ClockInv, ClockTypes
  <2> QED  BY <1>0, <1>b, <2>1, <2>2 DEF BoundaryAhead, LabelInv
<1>6. CASE Finish
  <2>1. pc' \in {"done", "failed"} /\ UNCHANGED log
    BY <1>6 DEF Finish, WriteCheckpoint
  <2> QED  BY <1>b, <2>1 DEF BoundaryAhead, LabelInv
<1>7. CASE Crash
  BY <1>b, <1>7 DEF Crash, BoundaryAhead, LabelInv
<1>8. CASE \E label \in DOMAIN file.checkpoints : Resume(label)
  <2>1. PICK label \in DOMAIN file.checkpoints : Resume(label)
    BY <1>8
  <2> DEFINE from == file.checkpoints[label].t
  <2>2. from \in Nat
    BY <2>1 DEF ClockInv, SavedClocks
  <2>3. t' = from /\ due' = Boundaries(from) /\ pc' = "loop" /\ UNCHANGED log
    BY <2>1 DEF Resume
  <2>4. from < Boundaries(from).output
    BY <1>a, <2>2, BoundariesType
  <2> QED  BY <1>b, <2>3, <2>4 DEF BoundaryAhead, LabelInv
<1>9. CASE UNCHANGED vars
  BY <1>0, <1>b, <1>9 DEF vars, clocks, BoundaryAhead, LabelInv
<1> QED  BY <1>1, <1>2, <1>3, <1>4, <1>5, <1>6, <1>7, <1>8, <1>9 DEF Next, RunStep

\* An output holds a state less than one step past its label, in both runs and
\* however many boundaries a step crosses.
THEOREM LabelsAreHonest == Spec => []LabelsHonest
<1>1. LabelInv => LabelsHonest
  BY DEF LabelInv, LogLabels, LabelsHonest
<1> QED  BY <1>1, InitLabels, NextLabels, ClocksInvariant, PTL DEF Spec
-----------------------------------------------------------------------------
\* A checkpoint of the present state.
Kept == \E label \in DOMAIN file.checkpoints : file.checkpoints[label] = State

EndInv ==
  /\ due.last <= t
  /\ pc \in {"window", "output", "checkpoint"} => due.last < t
  /\ pc = "loop" /\ due.last = t => Kept
  /\ pc = "done" /\ config.checkpoint > 0 => Kept

LEMMA KeptStays ==
  ASSUME Kept, file'.checkpoints = file.checkpoints, UNCHANGED clocks
  PROVE  Kept'
BY DEF Kept, State, clocks

LEMMA InitEnd == Init => EndInv
BY DEF Init, Boundaries, EndInv

LEMMA NextEnd == ClockInv /\ ClockInv' /\ EndInv /\ [Next]_vars => EndInv'
<1> SUFFICES ASSUME ClockInv, ClockInv', EndInv, [Next]_vars PROVE EndInv'
  OBVIOUS
<1>a. /\ config \in Configs /\ FileShape /\ due \in [output : Nat, checkpoint : Nat, last : Int]
      /\ t \in Nat /\ t' \in Nat /\ dtg \in Nat /\ dtg > 0
      /\ config.dt \in Nat /\ config.dt > 0 /\ config.checkpoint \in Nat
  BY Positive DEF ClockInv, ClockTypes
<1>b. ASSUME NEW label, NEW next, WriteCheckpoint(label, next), UNCHANGED clocks, pc' # "failed"
      PROVE  Kept'
  <2>1. label \notin DOMAIN file.checkpoints
    BY <1>b DEF WriteCheckpoint
  <2>2. label \in DOMAIN file'.checkpoints /\ file'.checkpoints[label] = State
    BY <1>a, <1>b, <2>1, WrittenFile
  <2>3. State' = State
    BY <1>b DEF State, clocks
  <2> QED  BY <2>2, <2>3 DEF Kept
<1>1. CASE Advance
  <2>1. t < t' /\ due' = due /\ pc' = "window"
    BY <1>1, <1>a DEF Advance, NextDt
  <2> QED  BY <1>a, <2>1 DEF EndInv
<1>2. CASE \E next \in config.steps : Lockstep(next) \/ Substep(next)
  BY <1>2 DEF Lockstep, Substep, EndInv
<1>3. CASE EndWindow
  BY <1>3 DEF EndWindow, clocks, EndInv
<1>4. CASE Output
  <2>1. /\ pc = "output" /\ pc' = "checkpoint" /\ t' = t
        /\ due'.last = due.last
    BY <1>4, <1>a DEF Output, clocks
  <2> QED  BY <2>1 DEF EndInv
<1>5. CASE PeriodicCheckpoint
  <2>1. pc = "checkpoint" /\ UNCHANGED clocks /\ t' = t /\ due.last < t
    BY <1>5 DEF PeriodicCheckpoint, clocks, EndInv
  <2>2. CASE config.checkpoint = 0 \/ t < due.checkpoint
    <3>1. pc' = "loop" /\ due' = due
      BY <1>5, <2>2 DEF PeriodicCheckpoint
    <3> QED  BY <1>a, <2>1, <3>1 DEF EndInv
  <2>3. CASE ~(config.checkpoint = 0 \/ t < due.checkpoint)
    <3>1. /\ WriteCheckpoint(due.checkpoint, "loop")
          /\ due' = [due EXCEPT !.checkpoint = After(t, config.checkpoint), !.last = t]
      BY <1>5, <2>3 DEF PeriodicCheckpoint
    <3>2. due'.last = t /\ pc' \in {"loop", "failed"}
      BY <1>a, <3>1 DEF WriteCheckpoint
    <3>3. pc' = "loop" => Kept'
      BY <1>b, <2>1, <3>1
    <3> QED  BY <1>a, <2>1, <3>2, <3>3 DEF EndInv
  <2> QED  BY <2>2, <2>3
<1>6. CASE Finish
  <2>1. pc = "loop" /\ UNCHANGED clocks /\ t' = t /\ due' = due /\ config' = config
    BY <1>6 DEF Finish, clocks
  <2>2. pc' \in {"done", "failed"}
    BY <1>6 DEF Finish, WriteCheckpoint
  <2>3. pc' = "done" /\ config.checkpoint > 0 => Kept'
    <3>1. CASE config.checkpoint > 0 /\ due.last # t
      <4>1. WriteCheckpoint(Nearest(t), "done")
        BY <1>6, <3>1 DEF Finish
      <4> QED  BY <1>b, <2>1, <4>1
    <3>2. CASE config.checkpoint > 0 /\ due.last = t
      <4>1. Kept /\ UNCHANGED file
        BY <1>6, <2>1, <3>2 DEF Finish, EndInv
      <4> QED  BY <2>1, <4>1, KeptStays
    <3> QED  BY <3>1, <3>2
  <2> QED  BY <1>a, <2>1, <2>2, <2>3 DEF EndInv
<1>7. CASE Crash
  BY <1>7 DEF Crash, clocks, EndInv
<1>8. CASE \E label \in DOMAIN file.checkpoints : Resume(label)
  <2>1. pc' = "loop" /\ due'.last = -1
    BY <1>8 DEF Resume, Boundaries
  <2> QED  BY <1>a, <2>1 DEF EndInv
<1>9. CASE UNCHANGED vars
  <2>1. UNCHANGED <<pc, due, t, config, clocks>> /\ file' = file
    BY <1>9 DEF vars, clocks
  <2> QED  BY <2>1, KeptStays DEF EndInv
<1> QED  BY <1>1, <1>2, <1>3, <1>4, <1>5, <1>6, <1>7, <1>8, <1>9 DEF Next, RunStep

\* A run that ends with checkpointing on leaves a checkpoint of its last state,
\* whether the last periodic one or one more.
THEOREM EndIsKept == Spec => []EndIsSaved
<1>1. EndInv => EndIsSaved
  BY DEF EndInv, Kept, EndIsSaved
<1> QED  BY <1>1, InitEnd, NextEnd, ClocksInvariant, PTL DEF Spec
-----------------------------------------------------------------------------
(* No write is refused.  The periodic labels are multiples of the interval *)
(* that increase, and never pass the state they are written for; the label *)
(* of the final checkpoint is no earlier than the end time, if that is a   *)
(* whole second, and a last periodic checkpoint that is not of the final   *)
(* state was written before the end time.                                  *)

LEMMA TimesMonotone ==
  ASSUME NEW a \in Int, NEW b \in Int, NEW c \in Nat, a <= b
  PROVE  c * a <= c * b
<1>1. PICK d \in Nat : b = a + d
  <2>1. b - a \in Nat /\ b = a + (b - a)
    OBVIOUS
  <2> QED  BY <2>1
<1>2. c * d \in Nat
  OBVIOUS
<1>3. c * b = c * a + c * d /\ c * a \in Int
  BY <1>1
<1> QED  BY <1>2, <1>3

LEMMA Division ==
  ASSUME NEW x \in Nat, NEW y \in Nat, y > 0
  PROVE  x \div y \in Nat /\ x % y \in 0..y - 1 /\ x = y * (x \div y) + (x % y)
<1>1. x \div y \in Int /\ x % y \in 0..y - 1 /\ x = y * (x \div y) + (x % y)
  OBVIOUS
<1>2. x \div y >= 0
  OBVIOUS
<1> QED  BY <1>1, <1>2

\* Rounding to the nearest second does not pass a whole second.
LEMMA NearestNotBefore ==
  ASSUME NEW s \in Nat, NEW e \in Nat, e % Second = 0, e <= s
  PROVE  Nearest(s) \in Nat /\ e <= Nearest(s)
<1> DEFINE x == 2 * s + Second
           y == 2 * Second
           q == x \div y
           r == x % y
           m == e \div Second
<1>1. Second \in Nat /\ Second > 0
  BY Positive
<1>2. e = Second * m /\ m \in Nat
  BY <1>1
<1>3. Nearest(s) = q * Second
  BY DEF Nearest
<1>4. x \in Nat /\ y \in Nat /\ y > 0 /\ x = 2 * s + Second /\ y = 2 * Second
  BY <1>1
<1> HIDE DEF x, y
<1>5. q \in Nat /\ r \in 0..y - 1 /\ x = y * q + r
  BY <1>4, Division
<1> HIDE DEF q, r, m
<1>6. q * Second = Second * q /\ Second * q \in Nat /\ y * q = 2 * (Second * q)
  BY <1>1, <1>4, <1>5
<1>7. ~(q + 1 <= m)
  <2> SUFFICES ASSUME q + 1 <= m PROVE FALSE
    OBVIOUS
  <2>1. Second * (q + 1) <= Second * m
    BY <1>1, <1>2, <1>5, TimesMonotone
  <2>2. Second * (q + 1) = Second * q + Second
    BY <1>1, <1>5
  <2> QED  BY <1>1, <1>2, <1>4, <1>5, <1>6, <2>1, <2>2
<1>8. m <= q
  BY <1>2, <1>5, <1>7
<1>9. Second * m <= Second * q
  BY <1>1, <1>2, <1>5, <1>8, TimesMonotone
<1> QED  BY <1>2, <1>3, <1>6, <1>9

\* Where the labels written lie, and when the last periodic checkpoint was.
WriteInv ==
  /\ pc # "failed"
  /\ pc \in {"loop", "window", "output", "checkpoint"} =>
       \A label \in DOMAIN file.checkpoints :
         /\ label \in Nat /\ label <= due.last /\ label < due.checkpoint
         /\ config.checkpoint > 0
  /\ pc = "loop" => due.last < config.tEnd \/ due.last = t
  /\ pc \in {"window", "output", "checkpoint"} => due.last < config.tEnd

LEMMA InitWrites == Init => WriteInv
<1> SUFFICES ASSUME Init PROVE WriteInv
  OBVIOUS
<1>0. file = [outputs |-> {0}, checkpoints |-> <<>>]
  BY DEF Init, NoFile
<1>1. DOMAIN file.checkpoints = {}
  BY <1>0
<1>2. due.last = -1 /\ config.tEnd \in Nat
  BY Positive DEF Init, Boundaries
<1> QED  BY <1>1, <1>2 DEF Init, WriteInv

LEMMA NextWrites ==
  ASSUME \A c \in Configs : c.tEnd % Second = 0,
         ClockInv, EndInv, WriteInv, [Next]_vars
  PROVE  WriteInv'
<1>a. /\ config \in Configs /\ FileShape /\ due \in [output : Nat, checkpoint : Nat, last : Int]
      /\ t \in Nat /\ config.tEnd \in Nat /\ config.tEnd % Second = 0
      /\ config.checkpoint \in Nat
  BY Positive DEF ClockInv, ClockTypes
<1>1. CASE Advance
  <2>1. /\ pc = "loop" /\ t < config.tEnd /\ pc' = "window"
        /\ UNCHANGED <<config, due, file>>
    BY <1>1 DEF Advance
  <2>2. due.last < config.tEnd
    BY <1>a, <2>1 DEF EndInv
  <2> QED  BY <2>1, <2>2 DEF WriteInv
<1>2. CASE \E next \in config.steps : Lockstep(next) \/ Substep(next)
  BY <1>2 DEF Lockstep, Substep, WriteInv
<1>3. CASE EndWindow
  BY <1>3 DEF EndWindow, WriteInv
<1>4. CASE Output
  <2>1. /\ pc = "output" /\ pc' = "checkpoint" /\ config' = config
        /\ due'.last = due.last /\ due'.checkpoint = due.checkpoint
        /\ file'.checkpoints = file.checkpoints
    BY <1>4, <1>a DEF Output, FileShape
  <2> QED  BY <2>1 DEF WriteInv
<1>5. CASE PeriodicCheckpoint
  <2>1. pc = "checkpoint" /\ UNCHANGED <<config, t>>
    BY <1>5 DEF PeriodicCheckpoint, clocks
  <2>2. CASE config.checkpoint = 0 \/ t < due.checkpoint
    <3>1. pc' = "loop" /\ UNCHANGED <<due, file>>
      BY <1>5, <2>2 DEF PeriodicCheckpoint
    <3> QED  BY <2>1, <3>1 DEF WriteInv
  <2>3. CASE ~(config.checkpoint = 0 \/ t < due.checkpoint)
    <3> DEFINE later == After(t, config.checkpoint)
    <3>1. WriteCheckpoint(due.checkpoint, "loop")
          /\ due' = [due EXCEPT !.checkpoint = later, !.last = t]
      BY <1>5, <2>3 DEF PeriodicCheckpoint
    <3>2. config.checkpoint > 0 /\ due.checkpoint <= t /\ due.checkpoint \in Nat
      BY <1>a, <2>3
    <3>3. later \in Nat /\ t < later
      BY <1>a, <3>2, AfterIsLater
    <3> HIDE DEF later
    <3>4. due'.last = t /\ due'.checkpoint = later
      BY <1>a, <3>1
    <3>5. due.checkpoint \notin DOMAIN file.checkpoints
      BY <2>1, <3>2 DEF WriteInv
    <3>6. pc' = "loop" /\ DOMAIN file'.checkpoints = DOMAIN file.checkpoints \union {due.checkpoint}
      BY <1>a, <3>1, <3>5, WrittenFile
    <3>7. ASSUME NEW label \in DOMAIN file'.checkpoints
          PROVE  label \in Nat /\ label <= t /\ label < later
      <4>1. label \in Nat /\ label <= due.checkpoint
        BY <2>1, <3>2, <3>6 DEF WriteInv
      <4> QED  BY <1>a, <3>2, <3>3, <4>1
    <3> QED  BY <2>1, <3>2, <3>4, <3>6, <3>7 DEF WriteInv
  <2> QED  BY <2>2, <2>3
<1>6. CASE Finish
  <2>1. pc = "loop" /\ config.tEnd <= t
    BY <1>6, <1>a DEF Finish
  <2>2. CASE config.checkpoint > 0 /\ due.last # t
    <3>1. WriteCheckpoint(Nearest(t), "done")
      BY <1>6, <2>2 DEF Finish
    <3>2. config.tEnd <= Nearest(t) /\ Nearest(t) \in Nat
      BY <1>a, <2>1, NearestNotBefore
    <3>3. due.last < config.tEnd
      BY <2>1, <2>2 DEF WriteInv
    <3>4. Nearest(t) \notin DOMAIN file.checkpoints
      <4> SUFFICES ASSUME Nearest(t) \in DOMAIN file.checkpoints PROVE FALSE
        OBVIOUS
      <4>1. Nearest(t) <= due.last
        BY <2>1 DEF WriteInv
      <4> QED  BY <1>a, <3>2, <3>3, <4>1
    <3>5. pc' = "done"
      BY <3>1, <3>4 DEF WriteCheckpoint
    <3> QED  BY <3>5 DEF WriteInv
  <2>3. CASE ~(config.checkpoint > 0 /\ due.last # t)
    BY <1>6, <2>3 DEF Finish, WriteInv
  <2> QED  BY <2>2, <2>3
<1>7. CASE Crash
  BY <1>7 DEF Crash, WriteInv
<1>8. CASE \E label \in DOMAIN file.checkpoints : Resume(label)
  <2>1. pc' = "loop" /\ due'.last = -1 /\ file' = NoFile /\ config' = config
    BY <1>8 DEF Resume, Boundaries
  <2>2. DOMAIN file'.checkpoints = {}
    BY <2>1 DEF NoFile
  <2> QED  BY <1>a, <2>1, <2>2 DEF WriteInv
<1>9. CASE UNCHANGED vars
  BY <1>9 DEF vars, clocks, WriteInv
<1> QED  BY <1>1, <1>2, <1>3, <1>4, <1>5, <1>6, <1>7, <1>8, <1>9 DEF Next, RunStep

\* If t_end is a whole number of seconds, no checkpoint of a run is refused: no
\* periodic label is written twice, and the rounded label of the final checkpoint
\* is none of theirs.  Simulation.cpp:934-935 rounds the time of a t_end that is
\* not, and the label may then be one that is taken.
THEOREM NoWriteIsRefused ==
  ASSUME \A c \in Configs : c.tEnd % Second = 0
  PROVE  Spec => []NeverFails
<1>1. ClockInv /\ EndInv /\ WriteInv /\ [Next]_vars => WriteInv'
  BY NextWrites
<1>2. ClockInv /\ ClockInv' /\ EndInv /\ [Next]_vars => EndInv'
  BY NextEnd
<1>3. Spec => []WriteInv
  BY <1>1, <1>2, InitWrites, InitEnd, ClocksInvariant, PTL DEF Spec
<1>4. WriteInv => NeverFails
  BY DEF WriteInv, NeverFails
<1> QED  BY <1>3, <1>4, PTL
-----------------------------------------------------------------------------
(***************************************************************************)
(* A resumed run repeats the first.  The history both runs share is the    *)
(* path: the positions of the clocks, one per step of the loop head, of    *)
(* the subsurface, or of the window's end.  Each position follows from the *)
(* one before and from what the controller chose, so a run that is put     *)
(* back on the path goes along it until it passes the point where the      *)
(* first one stopped; outputs and checkpoints are written at positions of  *)
(* the path, and the label of an output follows from the position.         *)
(***************************************************************************)

\* A time that is not past the next boundary has the same next boundary.
LEMMA AfterOrder ==
  ASSUME NEW s \in Nat, NEW u \in Nat, s <= u, NEW interval \in Nat, interval > 0
  PROVE  /\ After(s, interval) <= After(u, interval)
         /\ u < After(s, interval) => After(u, interval) = After(s, interval)
<1> DEFINE q == s \div interval
           p == u \div interval
           r == s % interval
           w == u % interval
<1>1. /\ q \in Nat /\ r \in 0..interval - 1 /\ s = interval * q + r
      /\ p \in Nat /\ w \in 0..interval - 1 /\ u = interval * p + w
  BY Division
<1>2. After(s, interval) = (q + 1) * interval /\ After(u, interval) = (p + 1) * interval
  BY DEF After
<1> HIDE DEF p, q, r, w
<1>3. /\ interval * q \in Nat /\ interval * p \in Nat
      /\ (q + 1) * interval = interval * q + interval
      /\ (p + 1) * interval = interval * p + interval
      /\ interval * (p + 1) = interval * p + interval
      /\ interval * (q + 1) = interval * q + interval
  BY <1>1
<1>4. q <= p
  <2> SUFFICES ASSUME p + 1 <= q PROVE FALSE
    BY <1>1
  <2>1. interval * (p + 1) <= interval * q
    BY <1>1, TimesMonotone
  <2> QED  BY <1>1, <1>3, <2>1
<1>5. interval * q <= interval * p
  BY <1>1, <1>4, TimesMonotone
<1>6. u < After(s, interval) => p = q
  <2> SUFFICES ASSUME u < After(s, interval), q + 1 <= p PROVE FALSE
    BY <1>1, <1>4
  <2>1. interval * (q + 1) <= interval * p
    BY <1>1, TimesMonotone
  <2> QED  BY <1>1, <1>2, <1>3, <2>1
<1> QED  BY <1>2, <1>3, <1>5, <1>6

\* Where the clocks are, and whether a window is open.
Here == [t |-> t, dt |-> dt, tSub |-> tSub, dtg |-> dtg, taken |-> taken,
         inside |-> pc = "window"]

Positions ==
  {a \in [t : Nat, dt : Nat, tSub : Nat, dtg : Nat, taken : Nat, inside : BOOLEAN] :
     a.dt <= a.t /\ a.dtg > 0}

Start(c) == [t |-> 0, dt |-> 0, tSub |-> 0, dtg |-> c.first, taken |-> 0, inside |-> FALSE]

\* What an output or a checkpoint holds of a position.
Saved(a) == [t |-> a.t, dt |-> a.dt, tSub |-> a.tSub, dtg |-> a.dtg, taken |-> a.taken]

\* The subsurface takes one more step in this window.
Fits(c, a) == IF c.subcycled THEN a.tSub + a.dtg <= a.t ELSE a.tSub < a.t

\* The three moves of configuration c, p being what the controller chose.
Opens(c, a, b) ==
  /\ ~a.inside /\ b.inside
  /\ b.dt = (IF c.subcycled THEN c.dt ELSE a.dtg) /\ b.t = a.t + b.dt
  /\ b.tSub = a.tSub /\ b.dtg = a.dtg /\ b.taken = a.taken

Steps(c, a, b, p) ==
  /\ a.inside /\ b.inside /\ Fits(c, a)
  /\ b.t = a.t /\ b.dt = a.dt
  /\ b.tSub = (IF c.subcycled THEN a.tSub + a.dtg ELSE a.t)
  /\ b.taken = a.taken + 1 /\ b.taken <= Len(p) /\ b.dtg = p[b.taken]

Closes(c, a, b) ==
  /\ a.inside /\ ~b.inside /\ ~Fits(c, a)
  /\ b.t = a.t /\ b.dt = a.dt /\ b.tSub = a.tSub /\ b.dtg = a.dtg /\ b.taken = a.taken

Moves(c, a, b, p) == Opens(c, a, b) \/ Steps(c, a, b, p) \/ Closes(c, a, b)

\* The times do not go back, and from a window's end the next step starts no
\* earlier than the window ended.
Precedes(a, b) == a.t <= b.t /\ (~a.inside => a.t < b.t /\ a.t <= b.t - b.dt)

Path(c, path, n, p) ==
  /\ path \in [0..n -> Positions] /\ path[0] = Start(c)
  /\ \A i \in 0..n : path[i].taken <= Len(p)
  /\ \A i \in 1..n : Moves(c, path[i - 1], path[i], p)
  /\ \A i, j \in 0..n : j < i => Precedes(path[j], path[i])

\* p is the beginning of r.
Begins(p, r) == Len(p) \in Nat /\ Len(p) <= Len(r) /\ Len(r) \in Nat
                /\ \A i \in 1..Len(p) : r[i] = p[i]

LEMMA SamePosition ==
  ASSUME NEW a \in Positions, NEW b \in Positions, Saved(a) = Saved(b), a.inside = b.inside
  PROVE  a = b
<1>1. /\ a.t = b.t /\ a.dt = b.dt /\ a.tSub = b.tSub /\ a.dtg = b.dtg /\ a.taken = b.taken
  BY DEF Saved
<1> QED  BY <1>1 DEF Positions

LEMMA PositionTimes ==
  ASSUME NEW a \in Positions
  PROVE  a.t \in Nat /\ a.dt \in Nat /\ a.t - a.dt \in Nat /\ a.dt <= a.t
BY DEF Positions

\* The next position is determined by the choices.
LEMMA OneNext ==
  ASSUME NEW c, NEW p, NEW a \in Positions, NEW b \in Positions, NEW d \in Positions,
         Moves(c, a, b, p), Moves(c, a, d, p)
  PROVE  b = d
<1>1. /\ b.t = d.t /\ b.dt = d.dt /\ b.tSub = d.tSub /\ b.dtg = d.dtg /\ b.taken = d.taken
      /\ b.inside = d.inside
  <2>1. a.inside \in BOOLEAN /\ b.inside \in BOOLEAN /\ d.inside \in BOOLEAN
    BY DEF Positions
  <2>2. CASE Opens(c, a, b)
    BY <2>1, <2>2 DEF Moves, Opens, Steps, Closes
  <2>3. CASE Steps(c, a, b, p)
    <3>1. Steps(c, a, d, p)
      BY <2>1, <2>3 DEF Moves, Opens, Steps, Closes
    <3> QED  BY <2>3, <3>1 DEF Steps
  <2>4. CASE Closes(c, a, b)
    BY <2>1, <2>4 DEF Moves, Opens, Steps, Closes
  <2> QED  BY <2>2, <2>3, <2>4 DEF Moves
<1> QED  BY <1>1, SamePosition DEF Saved

LEMMA MovesOn ==
  ASSUME NEW c, NEW p, NEW a \in Positions, NEW b \in Positions, Moves(c, a, b, p),
         c.subcycled => c.dt \in Nat /\ c.dt > 0
  PROVE  /\ Precedes(a, b)
         /\ \A z \in Positions : Precedes(z, a) => Precedes(z, b)
<1>1. /\ a.t \in Nat /\ a.dt \in Nat /\ a.dtg \in Nat /\ a.dtg > 0 /\ a.dt <= a.t
      /\ b.t \in Nat /\ b.dt \in Nat
      /\ \A z \in Positions : z.t \in Nat
  BY DEF Positions
<1>2. CASE Opens(c, a, b)
  <2>1. b.dt > 0 /\ b.t = a.t + b.dt
    BY <1>1, <1>2 DEF Opens
  <2> QED  BY <1>1, <2>1 DEF Precedes
<1>3. CASE a.inside /\ b.t = a.t /\ b.dt = a.dt
  BY <1>1, <1>3 DEF Precedes
<1> QED  BY <1>2, <1>3 DEF Moves, Steps, Closes

\* A longer record of the choices tells the same path.
LEMMA PathKept ==
  ASSUME NEW c, NEW n \in Nat, NEW path, NEW p, NEW r, Path(c, path, n, p), Begins(p, r)
  PROVE  Path(c, path, n, r)
<1>1. \A i \in 0..n : path[i] \in Positions /\ path[i].taken \in Nat
                      /\ path[i].taken <= Len(p)
  BY DEF Path, Positions
<1>2. \A i \in 0..n : path[i].taken <= Len(r)
  BY <1>1 DEF Begins
<1>3. ASSUME NEW i \in 1..n PROVE Moves(c, path[i - 1], path[i], r)
  <2>1. Moves(c, path[i - 1], path[i], p) /\ i \in 0..n /\ i - 1 \in 0..n
    BY DEF Path
  <2>2. CASE Steps(c, path[i - 1], path[i], p)
    <3>1. path[i].taken \in 1..Len(p)
      BY <1>1, <2>1, <2>2 DEF Steps, Begins
    <3>2. r[path[i].taken] = p[path[i].taken]
      BY <3>1 DEF Begins
    <3> QED  BY <1>2, <2>1, <2>2, <3>2 DEF Steps, Moves
  <2> QED  BY <2>1, <2>2 DEF Moves
<1> QED  BY <1>2, <1>3 DEF Path

\* A move from a position of the path leads to the next one, or lengthens it.
LEMMA GoesOn ==
  ASSUME NEW c, c.subcycled => c.dt \in Nat /\ c.dt > 0,
         NEW n \in Nat, NEW path, NEW p, NEW r, Path(c, path, n, p), Begins(p, r),
         NEW k \in 0..n, NEW q \in Positions, Moves(c, path[k], q, r), q.taken <= Len(r)
  PROVE  \E m \in Nat : \E longer :
           /\ n <= m /\ \A i \in 0..n : longer[i] = path[i]
           /\ Path(c, longer, m, r) /\ k + 1 \in 0..m /\ longer[k + 1] = q
<1>0. Path(c, path, n, r) /\ \A i \in 0..n : path[i] \in Positions
  BY PathKept DEF Path
<1>1. CASE k < n
  <2>1. k + 1 \in 1..n /\ (k + 1) - 1 = k /\ k + 1 \in 0..n
    BY <1>1
  <2>2. Moves(c, path[k], path[k + 1], r)
    BY <1>0, <2>1 DEF Path
  <2>3. path[k + 1] = q
    BY <1>0, <2>1, <2>2, OneNext
  <2> QED  BY <1>0, <2>1, <2>3
<1>2. CASE k = n
  <2> DEFINE longer == [i \in 0..n + 1 |-> IF i <= n THEN path[i] ELSE q]
  <2>1. /\ \A i \in 0..n : longer[i] = path[i]
        /\ longer[n + 1] = q /\ longer \in [0..n + 1 -> Positions]
    BY <1>0
  <2> HIDE DEF longer
  <2>2. longer[0] = Start(c)
    BY <2>1 DEF Path
  <2>3. \A i \in 0..n + 1 : longer[i].taken <= Len(r)
    <3>1. \A i \in 0..n + 1 : i \in 0..n \/ i = n + 1
      OBVIOUS
    <3> QED  BY <1>0, <2>1, <3>1 DEF Path
  <2>4. ASSUME NEW i \in 1..n + 1 PROVE Moves(c, longer[i - 1], longer[i], r)
    <3>1. CASE i \in 1..n
      <4>1. i \in 0..n /\ i - 1 \in 0..n
        BY <3>1
      <4> QED  BY <1>0, <2>1, <3>1, <4>1 DEF Path
    <3>2. CASE i = n + 1
      <4>1. i - 1 = n /\ n \in 0..n
        BY <3>2
      <4> QED  BY <1>2, <2>1, <3>2, <4>1
    <3> QED  BY <3>1, <3>2
  <2>5. ASSUME NEW i \in 0..n + 1, NEW j \in 0..n + 1, j < i
        PROVE  Precedes(longer[j], longer[i])
    <3>1. CASE i \in 0..n
      <4>1. j \in 0..n
        BY <2>5, <3>1
      <4> QED  BY <1>0, <2>1, <2>5, <3>1, <4>1 DEF Path
    <3>2. CASE i = n + 1
      <4>1. n \in 0..n /\ j \in 0..n /\ (j < n \/ j = n)
        BY <2>5, <3>2
      <4>2. /\ Precedes(path[n], q)
            /\ \A z \in Positions : Precedes(z, path[n]) => Precedes(z, q)
        BY <1>0, <1>2, <4>1, MovesOn
      <4>3. j < n => Precedes(path[j], path[n])
        BY <1>0, <4>1 DEF Path
      <4>4. longer[i] = q /\ longer[j] = path[j]
        BY <2>1, <3>2, <4>1
      <4> QED  BY <1>0, <4>1, <4>2, <4>3, <4>4
    <3> QED  BY <3>1, <3>2
  <2>6. Path(c, longer, n + 1, r)
    BY <2>1, <2>2, <2>3, <2>4, <2>5 DEF Path
  <2>7. n + 1 \in Nat /\ n <= n + 1 /\ k + 1 \in 0..n + 1 /\ k + 1 = n + 1
    BY <1>2
  <2> QED  BY <2>1, <2>6, <2>7
<1> QED  BY <1>1, <1>2

-----------------------------------------------------------------------------
\* The label of the output of a position, if its step crossed a boundary.
Label(c, a) == After(a.t - a.dt, c.output)

OutputsOn(c, outputs, path, n) ==
  \A label \in DOMAIN outputs \ {0} : \E i \in 0..n :
    /\ ~path[i].inside /\ outputs[label] = Saved(path[i])
    /\ label = Label(c, path[i]) /\ label <= path[i].t

CheckpointsOn(checkpoints, path, n) ==
  \A label \in DOMAIN checkpoints : \E i \in 0..n :
    ~path[i].inside /\ checkpoints[label] = Saved(path[i])

\* The resumed run has written the outputs of the positions it went along.
Covered(path, k) ==
  run = 2 /\ pc \notin {"crashed", "failed"} =>
    \A i \in 0..k :
      (/\ ~path[i].inside /\ t0 < path[i].t /\ Label(config, path[i]) <= path[i].t
       /\ i = k => pc # "output")
      => Label(config, path[i]) \in DOMAIN log[2].outputs

Told(path, n, k) ==
  /\ k \in 0..n /\ Path(config, path, n, pace)
  /\ pc \notin {"crashed", "failed"} => Here = path[k]
  /\ \A r \in 1..2 : OutputsOn(config, log[r].outputs, path, n)
  /\ CheckpointsOn(file.checkpoints, path, n)
  /\ Covered(path, k)

OnPath == \E n \in Nat : \E path, k : Told(path, n, k)

\* The next boundary follows from the position, too.
DueAt ==
  /\ pc \in {"loop", "checkpoint", "done"} => due.output = After(t, config.output)
  /\ pc \in {"window", "output"} => due.output = After(t - dt, config.output)

InitialOutput == 0 \in DOMAIN log[1].outputs /\ log[1].outputs[0].t = 0

HistoryInv == OnPath /\ DueAt /\ InitialOutput

LEMMA HereIs ==
  /\ Here.t = t /\ Here.dt = dt /\ Here.tSub = tSub /\ Here.dtg = dtg /\ Here.taken = taken
  /\ Here.inside = (pc = "window") /\ Saved(Here) = State
BY DEF Here, Saved, State

\* What was written on the path is on a longer one.
LEMMA Longer ==
  ASSUME NEW n \in Nat, NEW m \in Nat, n <= m, NEW path, NEW longer,
         \A i \in 0..n : longer[i] = path[i]
  PROVE  /\ \A c, outputs : OutputsOn(c, outputs, path, n) => OutputsOn(c, outputs, longer, m)
         /\ \A saves : CheckpointsOn(saves, path, n) => CheckpointsOn(saves, longer, m)
<1>1. \A i \in 0..n : i \in 0..m
  OBVIOUS
<1> QED  BY <1>1 DEF OutputsOn, CheckpointsOn

\* A step that moves the clocks keeps to the path.
LEMMA MoveStep ==
  ASSUME ClockInv, NEW n \in Nat, NEW path, NEW k, Told(path, n, k),
         pc \in {"loop", "window"}, pc' \in {"window", "output"},
         Here' \in Positions, Moves(config, Here, Here', pace'), Begins(pace, pace'),
         taken' <= Len(pace'), UNCHANGED <<config, run, t0, file>>,
         \A r \in 1..2 : log'[r].outputs = log[r].outputs
  PROVE  OnPath'
<1>1. /\ k \in 0..n /\ Path(config, path, n, pace) /\ Here = path[k]
      /\ \A r \in 1..2 : OutputsOn(config, log[r].outputs, path, n)
      /\ CheckpointsOn(file.checkpoints, path, n) /\ Covered(path, k)
  BY DEF Told
<1>2. config.subcycled => config.dt \in Nat /\ config.dt > 0
  BY Positive DEF ClockInv, ClockTypes
<1> DEFINE q == Here'
           r == pace'
<1>3. q.taken = taken' /\ q.inside = (pc' = "window")
  BY DEF Here
<1>4. q \in Positions /\ Moves(config, path[k], q, r) /\ Begins(pace, r) /\ q.taken <= Len(r)
  BY <1>1, <1>3
<1> HIDE DEF q, r
<1>5a. PICK m \in Nat : \E longer :
        /\ n <= m /\ \A i \in 0..n : longer[i] = path[i]
        /\ Path(config, longer, m, r) /\ k + 1 \in 0..m /\ longer[k + 1] = q
  BY <1>1, <1>2, <1>4, GoesOn
<1>5. PICK longer :
        /\ n <= m /\ \A i \in 0..n : longer[i] = path[i]
        /\ Path(config, longer, m, r) /\ k + 1 \in 0..m /\ longer[k + 1] = q
  BY <1>5a
<1>6. Path(config, longer, m, pace)'
  BY <1>5 DEF r
<1>7. /\ \A i \in 1..2 : OutputsOn(config, log[i].outputs, longer, m)'
      /\ CheckpointsOn(file.checkpoints, longer, m)'
  BY <1>1, <1>5, Longer
<1>8. Here' = longer[k + 1]
  BY <1>5 DEF q
<1>9. Covered(longer, k + 1)'
  <2> SUFFICES ASSUME run = 2, NEW i \in 0..k + 1, ~longer[i].inside, t0 < longer[i].t,
                      Label(config, longer[i]) <= longer[i].t,
                      i = k + 1 => pc' # "output"
               PROVE  Label(config, longer[i]) \in DOMAIN log[2].outputs
    BY DEF Covered
  <2>1. i # k + 1
    BY <1>3, <1>5
  <2>2. i \in 0..k /\ i \in 0..n /\ longer[i] = path[i]
    BY <1>1, <1>5, <2>1
  <2> QED  BY <1>1, <2>2 DEF Covered
<1>10. Told(longer, m, k + 1)'
  BY <1>5, <1>6, <1>7, <1>8, <1>9 DEF Told
<1> QED  BY <1>5, <1>10 DEF OnPath

\* A step that leaves the clocks alone stays where it is.
LEMMA StayStep ==
  ASSUME NEW n \in Nat, NEW path, NEW k, Told(path, n, k),
         UNCHANGED <<config, run, t0, clocks>>, pc \notin {"crashed", "failed"},
         pc' \in {"crashed", "failed"} \/ (pc = "window" <=> pc' = "window"),
         pc' \in {"crashed", "failed"} \/ (pc = "output" <=> pc' = "output"),
         \A r \in 1..2 : log'[r].outputs = log[r].outputs,
         CheckpointsOn(file'.checkpoints, path, n)
  PROVE  OnPath'
<1>1. pc' \notin {"crashed", "failed"} => Here' = path[k]
  <2> HAVE pc' \notin {"crashed", "failed"}
  <2>1. (pc = "window") = (pc' = "window")
    OBVIOUS
  <2>2. Here' = Here
    BY <2>1 DEF Here, clocks
  <2> QED  BY <2>2 DEF Told
<1>2. Covered(path, k)'
  BY DEF Told, Covered
<1>3. Told(path, n, k)'
  BY <1>1, <1>2 DEF Told, clocks
<1> QED  BY <1>3 DEF OnPath

\* A checkpoint written at a window's end is on the path.
LEMMA SaveStays ==
  ASSUME ClockInv, NEW n \in Nat, NEW path, NEW k, Told(path, n, k),
         pc \notin {"window", "crashed", "failed"}, NEW label, NEW next,
         WriteCheckpoint(label, next)
  PROVE  CheckpointsOn(file'.checkpoints, path, n)
<1>1. CASE label \in DOMAIN file.checkpoints
  BY <1>1 DEF WriteCheckpoint, Told
<1>2. CASE label \notin DOMAIN file.checkpoints
  <2>1. /\ DOMAIN file'.checkpoints = DOMAIN file.checkpoints \union {label}
        /\ \A i \in DOMAIN file.checkpoints : file'.checkpoints[i] = file.checkpoints[i]
        /\ file'.checkpoints[label] = State
    BY <1>2, WrittenFile DEF ClockInv
  <2>2. k \in 0..n /\ ~path[k].inside /\ State = Saved(path[k])
    BY HereIs DEF Told
  <2>3. CheckpointsOn(file.checkpoints, path, n)
    BY DEF Told
  <2> QED  BY <2>1, <2>2, <2>3 DEF CheckpointsOn
<1> QED  BY <1>1, <1>2

\* Where the step's boundary is crossed, the output is written under its label.
LEMMA OutputStep ==
  ASSUME ClockInv, LogShape, HistoryInv, Output
  PROVE  HistoryInv'
<1>1. PICK n \in Nat : \E path, k : Told(path, n, k)
  BY DEF HistoryInv, OnPath
<1>2. PICK path, k : Told(path, n, k)
  BY <1>1
<1>3. /\ pc = "output" /\ pc' = "checkpoint"
      /\ UNCHANGED <<config, run, t0, clocks, t, dt>>
  BY DEF Output, clocks
<1>4. /\ Here = path[k] /\ k \in 0..n /\ Path(config, path, n, pace) /\ path[k] \in Positions
      /\ ~path[k].inside /\ path[k].t = t /\ path[k].dt = dt /\ Saved(path[k]) = State
      /\ \A r \in 1..2 : OutputsOn(config, log[r].outputs, path, n)
      /\ CheckpointsOn(file.checkpoints, path, n) /\ Covered(path, k)
  BY <1>2, <1>3, HereIs DEF Told, Path
<1>5. /\ config \in Configs /\ run \in 1..2 /\ t \in Nat /\ dt \in Nat /\ dt <= t
      /\ config.output \in Nat /\ config.output > 0
      /\ due \in [output : Nat, checkpoint : Nat, last : Int] /\ FileShape
  <2>1. dt <= t
    BY <1>4 DEF Positions
  <2> QED  BY <2>1, Positive DEF ClockInv, ClockTypes
<1>6. due.output = Label(config, path[k]) /\ due.output = After(t - dt, config.output)
  BY <1>3, <1>4 DEF HistoryInv, DueAt, Label
<1>7. Here' = path[k]
  <2>1. (pc = "window") = (pc' = "window")
    BY <1>3
  <2>2. Here' = Here
    BY <1>3, <2>1 DEF Here, clocks
  <2> QED  BY <1>4, <2>2
<1>8. file'.checkpoints = file.checkpoints
  BY <1>5 DEF Output, FileShape
<1>9. CASE t < due.output
  <2>1. due' = due /\ log' = log
    BY <1>9 DEF Output
  <2>2. due.output = After(t, config.output)
    <3>1. t - dt \in Nat /\ t - dt <= t
      BY <1>5
    <3> QED  BY <1>5, <1>6, <1>9, <3>1, AfterOrder
  <2>3. DueAt' /\ InitialOutput'
    BY <1>3, <2>1, <2>2 DEF DueAt, HistoryInv, InitialOutput
  <2>4. Covered(path, k)'
    <3> SUFFICES ASSUME run = 2, NEW i \in 0..k, ~path[i].inside, t0 < path[i].t,
                        Label(config, path[i]) <= path[i].t
                 PROVE  Label(config, path[i]) \in DOMAIN log[2].outputs
      BY <1>3, <2>1 DEF Covered
    <3>1. i # k
      <4>1. ~(Label(config, path[k]) <= path[k].t)
        BY <1>4, <1>5, <1>6, <1>9
      <4> QED  BY <4>1
    <3> QED  BY <1>3, <1>4, <3>1 DEF Covered
  <2>5. Told(path, n, k)'
    BY <1>3, <1>4, <1>7, <1>8, <2>1, <2>4 DEF Told, clocks
  <2> QED  BY <2>3, <2>5 DEF HistoryInv, OnPath
<1>10. CASE ~(t < due.output)
  <2> DEFINE later == After(t, config.output)
             more  == With(log[run].outputs, due.output, State)
  <2>1. /\ due' = [due EXCEPT !.output = later]
        /\ log' = [log EXCEPT ![run].outputs = more]
    BY <1>10 DEF Output
  <2>2. DueAt'
    BY <1>3, <1>5, <2>1 DEF DueAt
  <2>3. /\ DOMAIN more = DOMAIN log[run].outputs \union {due.output}
        /\ \A l \in DOMAIN log[run].outputs : more[l] = log[run].outputs[l]
        /\ due.output \notin DOMAIN log[run].outputs => more[due.output] = State
    BY DEF With
  <2> HIDE DEF more
  <2>4. log' = [log EXCEPT ![run] = [outputs |-> more, transport |-> log[run].transport]]
    BY <1>5, <2>1, EntryOfRun
  <2>5. \A r \in 1..2 : log'[r].outputs = IF r = run THEN more ELSE log[r].outputs
    BY <1>5, <2>4, LogUpdate
  <2>6. InitialOutput'
    BY <1>5, <2>3, <2>5 DEF HistoryInv, InitialOutput
  <2>7. due.output <= t
    BY <1>5, <1>10
  <2>8. ASSUME NEW r \in 1..2 PROVE OutputsOn(config, log'[r].outputs, path, n)
    <3>1. CASE r # run
      BY <1>4, <2>5, <3>1
    <3>2. CASE r = run
      <4>1. log'[r].outputs = more
        BY <2>5, <3>2
      <4>2. ASSUME NEW l \in DOMAIN more \ {0}
            PROVE  \E i \in 0..n :
                     /\ ~path[i].inside /\ more[l] = Saved(path[i])
                     /\ l = Label(config, path[i]) /\ l <= path[i].t
        <5>1. CASE l \in DOMAIN log[run].outputs
          BY <1>4, <1>5, <2>3, <4>2, <5>1 DEF OutputsOn
        <5>2. CASE l \notin DOMAIN log[run].outputs
          <6>1. l = due.output /\ more[l] = State
            BY <2>3, <5>2
          <6> QED  BY <1>4, <1>6, <2>7, <6>1
        <5> QED  BY <5>1, <5>2
      <4> QED  BY <4>1, <4>2 DEF OutputsOn
    <3> QED  BY <3>1, <3>2
  <2>9. Covered(path, k)'
    <3> SUFFICES ASSUME run = 2, NEW i \in 0..k, ~path[i].inside, t0 < path[i].t,
                        Label(config, path[i]) <= path[i].t
                 PROVE  Label(config, path[i]) \in DOMAIN log'[2].outputs
      BY <1>3 DEF Covered
    <3>1. log'[2].outputs = more
      BY <2>5
    <3>2. CASE i = k
      BY <1>6, <2>3, <3>1, <3>2
    <3>3. CASE i # k
      <4>1. Label(config, path[i]) \in DOMAIN log[2].outputs
        BY <1>3, <1>4, <3>3 DEF Covered
      <4> QED  BY <2>3, <3>1, <4>1
    <3> QED  BY <3>2, <3>3
  <2>10. Told(path, n, k)'
    BY <1>3, <1>4, <1>7, <1>8, <2>8, <2>9 DEF Told, clocks
  <2> QED  BY <2>2, <2>6, <2>10 DEF HistoryInv, OnPath
<1> QED  BY <1>9, <1>10

\* A run that resumes is put back on the path, at the checkpoint's position.
LEMMA ResumeStep ==
  ASSUME ClockInv, HistoryInv, NEW label \in DOMAIN file.checkpoints, Resume(label)
  PROVE  HistoryInv'
<1>1. PICK n \in Nat : \E path, k : Told(path, n, k)
  BY DEF HistoryInv, OnPath
<1>2. PICK path, k : Told(path, n, k)
  BY <1>1
<1> DEFINE saved == file.checkpoints[label]
<1>3. PICK i \in 0..n : ~path[i].inside /\ saved = Saved(path[i])
  BY <1>2 DEF Told, CheckpointsOn
<1>4. /\ t' = saved.t /\ dt' = saved.dt /\ tSub' = saved.tSub /\ dtg' = saved.dtg
      /\ taken' = saved.taken /\ t0' = saved.t /\ due' = Boundaries(saved.t)
      /\ pc' = "loop" /\ run' = 2 /\ file' = NoFile /\ UNCHANGED <<config, pace, log>>
  BY DEF Resume
<1>5. /\ t' = path[i].t /\ dt' = path[i].dt /\ tSub' = path[i].tSub /\ dtg' = path[i].dtg
      /\ taken' = path[i].taken /\ t0' = path[i].t /\ due' = Boundaries(path[i].t)
  BY <1>3, <1>4 DEF Saved
<1> HIDE DEF saved
<1>6. /\ Path(config, path, n, pace)
      /\ \A r \in 1..2 : OutputsOn(config, log[r].outputs, path, n)
      /\ \A j \in 0..n : path[j] \in Positions
  BY <1>2 DEF Told, Path
<1>7. Here' = path[i]
  <2>1. /\ Here'.t = path[i].t /\ Here'.dt = path[i].dt /\ Here'.tSub = path[i].tSub
        /\ Here'.dtg = path[i].dtg /\ Here'.taken = path[i].taken /\ Here'.inside = FALSE
    BY <1>4, <1>5 DEF Here
  <2>2. path[i].inside = FALSE
    BY <1>3, <1>6 DEF Positions
  <2>3. Here' = [t |-> t', dt |-> dt', tSub |-> tSub', dtg |-> dtg', taken |-> taken',
                 inside |-> FALSE]
    BY <1>4 DEF Here
  <2>4. Here' \in Positions
    <3>1. path[i] \in Positions
      BY <1>6
    <3> QED  BY <1>5, <2>3, <3>1 DEF Positions
  <2> QED  BY <1>6, <2>1, <2>2, <2>4, SamePosition DEF Saved
<1>8. DueAt'
  BY <1>4, <1>5 DEF DueAt, Boundaries
<1>9. CheckpointsOn(file'.checkpoints, path, n)
  <2>1. DOMAIN file'.checkpoints = {}
    BY <1>4 DEF NoFile
  <2> QED  BY <2>1 DEF CheckpointsOn
<1>10. Covered(path, i)'
  <2> SUFFICES ASSUME NEW j \in 0..i, ~path[j].inside, path[i].t < path[j].t PROVE FALSE
    BY <1>5 DEF Covered
  <2>1. path[j].t \in Nat /\ path[i].t \in Nat /\ j \in 0..n
    BY <1>6 DEF Positions
  <2>2. j < i => path[j].t <= path[i].t
    BY <1>6, <2>1 DEF Path, Precedes
  <2> QED  BY <2>1, <2>2
<1>11. Told(path, n, i)'
  BY <1>4, <1>6, <1>7, <1>9, <1>10 DEF Told
<1>12. InitialOutput'
  BY <1>4 DEF HistoryInv, InitialOutput
<1> QED  BY <1>8, <1>11, <1>12 DEF HistoryInv, OnPath

LEMMA InitHistory == Init /\ ClockInv => HistoryInv
<1> SUFFICES ASSUME Init, ClockInv PROVE HistoryInv
  OBVIOUS
<1>1. /\ config \in Configs /\ config.first \in Nat /\ config.first > 0
      /\ config.output \in Nat /\ config.output > 0
  BY Positive DEF Init
<1>2. /\ log = <<[outputs |-> [label \in {0} |-> State], transport |-> <<>>], NoLog>>
      /\ NoLog = [outputs |-> <<>>, transport |-> <<>>]
  BY DEF Init, NoLog
<1>f. file = [outputs |-> {0}, checkpoints |-> <<>>]
  BY DEF Init, NoFile
<1>3. /\ log[1].outputs = [label \in {0} |-> State] /\ log[2].outputs = <<>>
      /\ file.checkpoints = <<>>
  BY <1>2, <1>f
<1>4. DueAt /\ InitialOutput
  BY <1>3 DEF Init, DueAt, InitialOutput, Boundaries, State
<1> DEFINE path == [i \in 0..0 |-> Start(config)]
<1>5. Start(config) \in Positions /\ Here = Start(config) /\ Start(config).taken = 0
  <2>1. Start(config) \in Positions /\ Start(config).taken = 0
    BY <1>1 DEF Start, Positions
  <2>2. (pc = "window") = FALSE
    BY DEF Init
  <2>3. Here = [t |-> 0, dt |-> 0, tSub |-> 0, dtg |-> config.first, taken |-> 0,
                inside |-> FALSE]
    BY <2>2 DEF Init, Here
  <2> QED  BY <2>1, <2>3 DEF Start
<1>6. path \in [0..0 -> Positions] /\ path[0] = Start(config) /\ 0 \in 0..0
      /\ \A i \in 0..0 : i = 0
  BY <1>5
<1>7. Path(config, path, 0, pace)
  <2>1. Len(pace) = 0
    BY DEF Init
  <2>2. \A i \in 1..0 : FALSE
    OBVIOUS
  <2>3. \A i, j \in 0..0 : ~(j < i)
    OBVIOUS
  <2> HIDE DEF path
  <2> QED  BY <1>5, <1>6, <2>1, <2>2, <2>3 DEF Path
<1> HIDE DEF path
<1>8. Told(path, 0, 0)
  <2>1. \A r \in 1..2 : DOMAIN log[r].outputs \ {0} = {}
    BY <1>3
  <2>2. DOMAIN file.checkpoints = {}
    BY <1>3
  <2> QED  BY <1>5, <1>6, <1>7, <2>1, <2>2
           DEF Init, Told, OutputsOn, CheckpointsOn, Covered
<1> QED  BY <1>4, <1>8 DEF HistoryInv, OnPath

\* The controller's choice is the one recorded, or the next in the record.
LEMMA AdaptRecord ==
  ASSUME ClockTypes, taken <= Len(pace), NEW next \in config.steps, Adapt(next)
  PROVE  /\ Begins(pace, pace') /\ taken' = taken + 1 /\ taken' <= Len(pace')
         /\ dtg' = pace'[taken']
<1>1. pace \in Seq(config.steps) /\ taken \in Nat /\ Len(pace) \in Nat
  BY DEF ClockTypes
<1>2. dtg' = next /\ taken' = taken + 1
  BY DEF Adapt
<1>3. CASE taken < Len(pace)
  BY <1>1, <1>2, <1>3 DEF Adapt, Begins
<1>4. CASE taken = Len(pace)
  <2>1. pace' = Append(pace, next)
    BY <1>1, <1>4 DEF Adapt
  <2>2. /\ Len(pace') = Len(pace) + 1 /\ pace'[Len(pace) + 1] = next
        /\ \A i \in 1..Len(pace) : pace'[i] = pace[i]
    BY <1>1, <2>1
  <2> QED  BY <1>1, <1>2, <1>4, <2>2 DEF Begins
<1> QED  BY <1>1, <1>3, <1>4

LEMMA NextHistory ==
  ClockInv /\ ClockInv' /\ LabelInv /\ LabelInv' /\ HistoryInv /\ [Next]_vars => HistoryInv'
<1> SUFFICES ASSUME ClockInv, ClockInv', LabelInv, LabelInv', HistoryInv, [Next]_vars
             PROVE  HistoryInv'
  OBVIOUS
<1>0. PICK n \in Nat : \E path, k : Told(path, n, k)
  BY DEF HistoryInv, OnPath
<1>a. PICK path, k : Told(path, n, k)
  BY <1>0
<1>b. /\ config \in Configs /\ run \in 1..2 /\ pace \in Seq(config.steps)
      /\ config.subcycled \in BOOLEAN
      /\ t \in Nat /\ dt \in Nat /\ tSub \in Nat /\ taken \in Nat /\ dtg \in Nat /\ dtg > 0
      /\ config.dt \in Nat /\ config.dt > 0 /\ config.output \in Nat /\ config.output > 0
      /\ Len(pace) \in Nat
  <2>1. /\ config \in Configs /\ run \in 1..2 /\ pace \in Seq(config.steps)
        /\ t \in Nat /\ dt \in Nat /\ tSub \in Nat /\ taken \in Nat
        /\ dtg \in config.steps \union {config.first}
    BY DEF ClockInv, ClockTypes
  <2>2. Len(pace) \in Nat
    BY <2>1
  <2> QED  BY <2>1, <2>2, Positive
<1>c. /\ k \in 0..n /\ CheckpointsOn(file.checkpoints, path, n)
      /\ pc \notin {"crashed", "failed"} =>
           Here = path[k] /\ Here \in Positions /\ taken <= Len(pace) /\ dt <= t
  <2>1. k \in 0..n /\ Path(config, path, n, pace)
    BY <1>a DEF Told
  <2>2. path[k] \in Positions /\ path[k].taken <= Len(pace)
    BY <2>1 DEF Path
  <2> QED  BY <1>a, <2>1, <2>2, HereIs DEF Told, Positions
<1>d. Begins(pace, pace)
  BY <1>b DEF Begins
<1>e. /\ Here'.t = t' /\ Here'.dt = dt' /\ Here'.tSub = tSub' /\ Here'.dtg = dtg'
      /\ Here'.taken = taken' /\ Here'.inside = (pc' = "window")
  BY DEF Here
<1>f. dt' <= t' => Here' \in Positions
  <2>1. /\ t' \in Nat /\ dt' \in Nat /\ tSub' \in Nat /\ taken' \in Nat /\ dtg' \in Nat /\ dtg' > 0
    <3>1. config' \in Configs /\ dtg' \in config'.steps \union {config'.first}
      BY DEF ClockInv, ClockTypes
    <3>2. dtg' \in Nat /\ dtg' > 0
      BY <3>1, Positive
    <3> QED  BY <3>2 DEF ClockInv, ClockTypes
  <2> DEFINE inside == pc' = "window"
  <2>2. inside \in BOOLEAN
    OBVIOUS
  <2>3. Here' = [t |-> t', dt |-> dt', tSub |-> tSub', dtg |-> dtg', taken |-> taken',
                 inside |-> inside]
    BY DEF Here
  <2> HIDE DEF inside
  <2> QED  BY <2>1, <2>2, <2>3 DEF Positions
<1>g. InitialOutput
  BY DEF HistoryInv
<1>1. CASE Advance
  <2>1. /\ pc = "loop" /\ pc' = "window" /\ dt' = NextDt /\ t' = t + NextDt
        /\ UNCHANGED <<config, run, t0, tSub, dtg, taken, pace, due, file, log>>
    BY <1>1 DEF Advance
  <2>2. NextDt \in Nat /\ NextDt = IF config.subcycled THEN config.dt ELSE dtg
    BY <1>b DEF NextDt
  <2>3. t' - dt' = t /\ dt' <= t'
    BY <1>b, <2>1, <2>2
  <2>4. Moves(config, Here, Here', pace')
    BY <1>e, <2>1, <2>2, HereIs DEF Moves, Opens
  <2>5. OnPath'
    BY <1>a, <1>c, <1>d, <1>f, <2>1, <2>3, <2>4, MoveStep
  <2>6. DueAt' /\ InitialOutput'
    BY <1>g, <2>1, <2>3 DEF HistoryInv, DueAt, InitialOutput
  <2> QED  BY <2>5, <2>6 DEF HistoryInv
<1>2. CASE \E next \in config.steps : Lockstep(next) \/ Substep(next)
  <2>1. PICK next \in config.steps : Lockstep(next) \/ Substep(next)
    BY <1>2
  <2>2. Adapt(next) /\ pc = "window" /\ pc' = pc
        /\ UNCHANGED <<config, run, t0, t, dt, due, file, log>>
    BY <2>1 DEF Lockstep, Substep
  <2>3. /\ Begins(pace, pace') /\ taken' = taken + 1 /\ taken' <= Len(pace')
        /\ dtg' = pace'[taken']
    BY <1>c, <2>2, AdaptRecord DEF ClockInv
  <2>4. /\ Fits(config, Here)
        /\ tSub' = IF config.subcycled THEN tSub + dtg ELSE t
    BY <2>1, HereIs DEF Lockstep, Substep, Fits
  <2>5. Moves(config, Here, Here', pace')
    BY <1>e, <2>2, <2>3, <2>4, HereIs DEF Moves, Steps
  <2>6. OnPath'
    BY <1>a, <1>c, <1>f, <2>2, <2>3, <2>5, MoveStep
  <2>7. DueAt' /\ InitialOutput'
    BY <1>g, <2>2 DEF HistoryInv, DueAt, InitialOutput
  <2> QED  BY <2>6, <2>7 DEF HistoryInv
<1>3. CASE EndWindow
  <2>1. /\ log' = [log EXCEPT ![run].transport = With(log[run].transport, t, flux)]
        /\ pc = "window" /\ pc' = "output"
        /\ UNCHANGED <<config, run, t0, t, dt, tSub, dtg, taken, pace, due, file>>
    BY <1>3 DEF EndWindow, clocks
  <2>2. log' = [log EXCEPT ![run] = [outputs |-> log[run].outputs,
                                     transport |-> With(log[run].transport, t, flux)]]
    BY <1>b, <2>1, EntryOfRun DEF LabelInv
  <2>3. \A r \in 1..2 : log'[r].outputs = log[r].outputs
    BY <1>b, <2>2, LogUpdate DEF LabelInv
  <2>4. ~Fits(config, Here)
    BY <1>3, <1>b, HereIs DEF EndWindow, Fits
  <2>5. Moves(config, Here, Here', pace')
    BY <1>e, <2>1, <2>4, HereIs DEF Moves, Closes
  <2>6. OnPath'
    BY <1>a, <1>c, <1>d, <1>f, <2>1, <2>3, <2>5, MoveStep
  <2>7. DueAt' /\ InitialOutput'
    BY <1>g, <2>1, <2>3 DEF HistoryInv, DueAt, InitialOutput
  <2> QED  BY <2>6, <2>7 DEF HistoryInv
<1>4. CASE Output
  BY <1>4, OutputStep DEF LabelInv
<1>5. CASE PeriodicCheckpoint
  <2>1. /\ pc = "checkpoint" /\ pc' \in {"loop", "failed"}
        /\ UNCHANGED <<config, run, t0, clocks, t, dt, log>>
    BY <1>5 DEF PeriodicCheckpoint, WriteCheckpoint, clocks
  <2>2. due'.output = due.output
    BY <1>5 DEF PeriodicCheckpoint, ClockInv, ClockTypes
  <2>3. CheckpointsOn(file'.checkpoints, path, n)
    <3>1. CASE UNCHANGED file
      BY <1>c, <3>1
    <3>2. CASE WriteCheckpoint(due.checkpoint, "loop")
      BY <1>a, <2>1, <3>2, SaveStays
    <3> QED  BY <1>5, <3>1, <3>2 DEF PeriodicCheckpoint
  <2>4. OnPath'
    BY <1>a, <2>1, <2>3, StayStep
  <2>5. DueAt' /\ InitialOutput'
    BY <1>g, <2>1, <2>2 DEF HistoryInv, DueAt, InitialOutput
  <2> QED  BY <2>4, <2>5 DEF HistoryInv
<1>6. CASE Finish
  <2>1. /\ pc = "loop" /\ pc' \in {"done", "failed"}
        /\ UNCHANGED <<config, run, t0, clocks, t, dt, due, log>>
    BY <1>6 DEF Finish, WriteCheckpoint, clocks
  <2>2. CheckpointsOn(file'.checkpoints, path, n)
    <3>1. CASE UNCHANGED file
      BY <1>c, <3>1
    <3>2. CASE WriteCheckpoint(Nearest(t), "done")
      BY <1>a, <2>1, <3>2, SaveStays
    <3> QED  BY <1>6, <3>1, <3>2 DEF Finish
  <2>3. OnPath'
    BY <1>a, <2>1, <2>2, StayStep
  <2>4. DueAt' /\ InitialOutput'
    BY <1>g, <2>1 DEF HistoryInv, DueAt, InitialOutput
  <2> QED  BY <2>3, <2>4 DEF HistoryInv
<1>7. CASE Crash
  <2>1. /\ pc \notin {"crashed", "failed"} /\ pc' = "crashed"
        /\ UNCHANGED <<config, run, t0, clocks, due, file, log>>
    BY <1>7 DEF Crash
  <2>2. OnPath'
    BY <1>a, <1>c, <2>1, StayStep
  <2>3. DueAt' /\ InitialOutput'
    BY <1>g, <2>1 DEF HistoryInv, DueAt, InitialOutput
  <2> QED  BY <2>2, <2>3 DEF HistoryInv
<1>8. CASE \E label \in DOMAIN file.checkpoints : Resume(label)
  BY <1>8, ResumeStep
<1>9. CASE UNCHANGED vars
  <2>1. UNCHANGED <<config, pc, run, t0, t, dt, tSub, dtg, taken, pace, due, file, log>>
    BY <1>9 DEF vars, clocks
  <2>2. (pc = "window") = (pc' = "window")
    BY <2>1
  <2>3. Here' = Here
    BY <2>1, <2>2 DEF Here
  <2>4. Told(path, n, k)'
    BY <1>a, <2>1, <2>3 DEF Told, Covered
  <2>5. DueAt' /\ InitialOutput'
    BY <1>g, <2>1 DEF HistoryInv, DueAt, InitialOutput
  <2> QED  BY <2>4, <2>5 DEF HistoryInv, OnPath
<1> QED  BY <1>1, <1>2, <1>3, <1>4, <1>5, <1>6, <1>7, <1>8, <1>9 DEF Next, RunStep

\* The label tells the position: of two window's ends that crossed a boundary,
\* the later one starts past the boundary the earlier one crossed.
LEMMA LabelTells ==
  ASSUME NEW c \in Configs, NEW n \in Nat, NEW path, NEW p, Path(c, path, n, p),
         NEW i \in 0..n, NEW j \in 0..n, ~path[i].inside, ~path[j].inside, j < i,
         Label(c, path[j]) <= path[j].t
  PROVE  Label(c, path[j]) < Label(c, path[i])
<1>1. /\ path[i].t \in Nat /\ path[i].dt \in Nat /\ path[i].t - path[i].dt \in Nat
      /\ path[j].t \in Nat /\ path[j].dt \in Nat /\ path[j].t - path[j].dt \in Nat
  <2>1. path[i] \in Positions /\ path[j] \in Positions
    BY DEF Path
  <2> QED  BY <2>1, PositionTimes
<1>2. path[j].t <= path[i].t - path[i].dt
  BY DEF Path, Precedes
<1>3. /\ c.output \in Nat /\ c.output > 0
  BY Positive
<1>4. /\ Label(c, path[i]) \in Nat /\ Label(c, path[j]) \in Nat
      /\ path[i].t - path[i].dt < Label(c, path[i])
  BY <1>1, <1>3, AfterIsLater DEF Label
<1> QED  BY <1>1, <1>2, <1>4

\* A resumed run writes every output the first run wrote after the checkpoint,
\* with the state the first run wrote (restart.md:3-5): whatever the controller
\* chose, whether the first run ended or crashed, and whichever checkpoint is
\* resumed.
THEOREM RestartRepeats == Spec => []SameOutputs
<1>1. ClockInv /\ HistoryInv => SameOutputs
  <2> SUFFICES ASSUME ClockInv, HistoryInv, run = 2, pc \in {"loop", "done"},
                      NEW label \in DOMAIN log[1].outputs,
                      log[1].outputs[label].t > t0, label < due.output
               PROVE  /\ label \in DOMAIN log[2].outputs
                      /\ log[2].outputs[label] = log[1].outputs[label]
    BY DEF SameOutputs
  <2>1. PICK n \in Nat : \E path, k : Told(path, n, k)
    BY DEF HistoryInv, OnPath
  <2>2. PICK path, k : Told(path, n, k)
    BY <2>1
  <2>3. /\ k \in 0..n /\ Path(config, path, n, pace) /\ Here = path[k]
        /\ OutputsOn(config, log[1].outputs, path, n)
        /\ OutputsOn(config, log[2].outputs, path, n) /\ Covered(path, k)
    BY <2>2 DEF Told
  <2>4. path[k].t = t /\ ~path[k].inside
    BY <2>3, HereIs
  <2>5. /\ config \in Configs /\ t0 \in Nat /\ t \in Nat
        /\ config.output \in Nat /\ config.output > 0
        /\ due.output = After(t, config.output)
    BY Positive DEF ClockInv, ClockTypes, HistoryInv, DueAt
  <2>6. label # 0
    BY <2>5 DEF HistoryInv, InitialOutput
  <2>7. PICK i \in 0..n : /\ ~path[i].inside /\ log[1].outputs[label] = Saved(path[i])
                          /\ label = Label(config, path[i]) /\ label <= path[i].t
    BY <2>3, <2>6 DEF OutputsOn
  <2>8. path[i].t > t0 /\ path[i].t \in Nat /\ path[i].dt \in Nat
        /\ path[i].t - path[i].dt \in Nat
    <3>1. path[i] \in Positions
      BY <2>3 DEF Path
    <3>2. log[1].outputs[label].t = path[i].t
      BY <2>7 DEF Saved
    <3> QED  BY <3>1, <3>2, PositionTimes
  <2>9. i <= k
    <3> SUFFICES ASSUME k < i PROVE FALSE
      BY <2>3
    <3>1. t <= path[i].t - path[i].dt
      BY <2>3, <2>4 DEF Path, Precedes
    <3>2. After(t, config.output) <= label
      BY <2>5, <2>7, <2>8, <3>1, AfterOrder DEF Label
    <3>3. After(t, config.output) \in Nat /\ label \in Nat
      BY <2>5, <2>7, <2>8, AfterIsLater DEF Label
    <3> QED  BY <2>5, <3>2, <3>3
  <2>10. label \in DOMAIN log[2].outputs
    <3>1. i \in 0..k /\ t0 < path[i].t /\ pc # "output" /\ pc \notin {"crashed", "failed"}
      BY <2>3, <2>5, <2>8, <2>9
    <3> QED  BY <2>3, <2>7, <3>1 DEF Covered
  <2>11. PICK j \in 0..n : /\ ~path[j].inside /\ log[2].outputs[label] = Saved(path[j])
                           /\ label = Label(config, path[j]) /\ label <= path[j].t
    BY <2>3, <2>6, <2>10 DEF OutputsOn
  <2>12. label \in Nat
    BY <2>5, <2>7, <2>8, AfterIsLater DEF Label
  <2>13. ~(i < j)
    <3>1. i < j => Label(config, path[i]) < Label(config, path[j])
      BY <2>3, <2>5, <2>7, <2>11, LabelTells
    <3> QED  BY <2>7, <2>11, <2>12, <3>1
  <2>14. ~(j < i)
    <3>1. j < i => Label(config, path[j]) < Label(config, path[i])
      BY <2>3, <2>5, <2>7, <2>11, LabelTells
    <3> QED  BY <2>7, <2>11, <2>12, <3>1
  <2>15. i = j
    BY <2>13, <2>14
  <2> QED  BY <2>7, <2>10, <2>11, <2>15
<1>2. Spec => [](ClockInv /\ HistoryInv)
  BY InitClocks, InitLabels, InitHistory, NextClocks, NextLabels, NextHistory, PTL DEF Spec
<1> QED  BY <1>1, <1>2, PTL
=============================================================================
