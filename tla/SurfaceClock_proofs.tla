------------------------ MODULE SurfaceClock_proofs ------------------------
(***************************************************************************)
(* Proofs about SurfaceClock, for any configurations whose step divides    *)
(* the start, the end and the checkpoint interval (Aligned), which the     *)
(* schema does not ask for.                                                *)
(*                                                                         *)
(* All times then lie on the grid of steps, and what a state is, live or   *)
(* saved, follows from its time alone (Reached): it is the state of a run  *)
(* that was never interrupted.  A label within half a step of a state on   *)
(* the grid tells its time, so that two runs agree wherever both wrote.    *)
(***************************************************************************)
EXTENDS SurfaceClock, TLAPS

Aligned(c) == c.tStart % c.dt = 0 /\ c.tEnd % c.dt = 0 /\ c.checkpoint % c.dt = 0

OnGrid(c, s) == \E k \in Int : s = c.tStart + c.dt * k

\* The state an uninterrupted run has at time s.
Reached(c, s, seq) ==
  \E k \in Int : s = c.tStart + c.dt * k /\ seq = [i \in 1..k |-> c.tStart + c.dt * i]

\* Where a loop may start.  It takes no step from the end or from past it.
Starts(c, s) == s \in {c.tStart, c.tEnd} \union c.tStart..c.tEnd

ClockTypes ==
  /\ config \in Configs
  /\ pc \in {"step", "output", "checkpoint", "done", "crashed", "failed"}
  /\ run \in 1..2 /\ t0 \in Nat /\ step \in Nat
  /\ last \in [output : Int, checkpoint : Int, time : Int]
  /\ DOMAIN checkpoints = 1..2 /\ DOMAIN outputs = 1..2

LiveOnTime ==
  /\ Starts(config, t0)
  /\ step > 0 => t <= config.tEnd
  /\ pc \in {"output", "checkpoint"} => step > 0
  /\ Reached(config, t, state)

SavedOnTime ==
  \A r \in 1..2 : \A label \in DOMAIN checkpoints[r] :
    /\ label \in Nat /\ Starts(config, label)
    /\ Reached(config, label, checkpoints[r][label])

TimeInv == ClockTypes /\ LiveOnTime /\ SavedOnTime

-----------------------------------------------------------------------------
LEMMA Parameters ==
  \A c \in Configs :
    /\ c.dt \in Nat /\ c.dt > 0 /\ c.tStart \in Nat /\ c.tEnd \in Nat
    /\ c.output \in Nat /\ c.output > 0 /\ c.checkpoint \in Nat
BY ConfigsAssumption

LEMMA TimesMonotone ==
  ASSUME NEW a \in Int, NEW b \in Int, NEW c \in Nat, a <= b
  PROVE  c * a <= c * b
<1>1. PICK d \in Nat : b = a + d
  <2>1. b - a \in Nat /\ b = a + (b - a)
    OBVIOUS
  <2> QED  BY <2>1
<1>2. c * d \in Nat
  OBVIOUS
<1>3. c * b = c * a + c * d /\ c * a \in Int
  BY <1>1
<1> QED  BY <1>2, <1>3

LEMMA TimesStrict ==
  ASSUME NEW a \in Int, NEW b \in Int, NEW c \in Nat, a < b
  PROVE  c * a + c <= c * b
<1>1. c * (a + 1) <= c * b
  BY TimesMonotone
<1>2. c * (a + 1) = c * a + c
  OBVIOUS
<1> QED  BY <1>1, <1>2

LEMMA OneMore ==
  ASSUME NEW n \in Nat, NEW d \in Nat
  PROVE  (n + 1) * d = n * d + d /\ n * d \in Nat
OBVIOUS

\* A step goes on by dt.
LEMMA StepTime ==
  ASSUME config.dt \in Nat, t0 \in Nat, step \in Nat, Step
  PROVE  t' = t + config.dt /\ t0 <= t /\ step * config.dt \in Nat
<1> DEFINE passed == step * config.dt
           following == (step + 1) * config.dt
<1>1. t = t0 + passed /\ t' = t0 + following
  BY DEF Step, t
<1>2. following = passed + config.dt /\ passed \in Nat
  BY OneMore
<1>3. passed = step * config.dt
  OBVIOUS
<1> HIDE DEF passed, following
<1> QED  BY <1>1, <1>2, <1>3

LEMMA Division ==
  ASSUME NEW x \in Int, NEW y \in Nat, y > 0
  PROVE  x \div y \in Int /\ x % y \in 0..y - 1 /\ x = y * (x \div y) + (x % y)
OBVIOUS

\* Two times on the grid are a step apart.
LEMMA GridStep ==
  ASSUME NEW c \in Configs, NEW s \in Int, NEW u \in Int,
         OnGrid(c, s), OnGrid(c, u), s < u
  PROVE  s + c.dt <= u
<1>1. c.dt \in Nat /\ c.dt > 0 /\ c.tStart \in Nat
  BY Parameters
<1>2. PICK k \in Int : s = c.tStart + c.dt * k
  BY DEF OnGrid
<1>3. PICK m \in Int : u = c.tStart + c.dt * m
  BY DEF OnGrid
<1>4. c.dt * k \in Int /\ c.dt * m \in Int
  BY <1>1
<1>5. k < m
  <2> SUFFICES ASSUME m <= k PROVE FALSE
    BY <1>2, <1>3
  <2>1. c.dt * m <= c.dt * k
    BY <1>1, TimesMonotone
  <2> QED  BY <1>1, <1>2, <1>3, <1>4, <2>1
<1>6. c.dt * k + c.dt <= c.dt * m
  BY <1>1, <1>5, TimesStrict
<1> QED  BY <1>1, <1>2, <1>3, <1>4, <1>6

\* A label within half a step of a time on the grid tells it.
LEMMA LabelTells ==
  ASSUME NEW c \in Configs, NEW label \in Int, NEW s \in Int, NEW u \in Int,
         OnGrid(c, s), OnGrid(c, u),
         2 * (s - label) \in (1 - c.dt)..(c.dt - 1), 2 * (u - label) \in (1 - c.dt)..(c.dt - 1)
  PROVE  s = u
<1>1. c.dt \in Nat
  BY Parameters
<1>2. u - s < c.dt /\ s - u < c.dt
  BY <1>1
<1>3. ~(s < u)
  <2> SUFFICES ASSUME s < u PROVE FALSE
    OBVIOUS
  <2>1. s + c.dt <= u
    BY GridStep
  <2> QED  BY <1>1, <1>2, <2>1
<1>4. ~(u < s)
  <2> SUFFICES ASSUME u < s PROVE FALSE
    OBVIOUS
  <2>1. u + c.dt <= s
    BY GridStep
  <2> QED  BY <1>1, <1>2, <2>1
<1> QED  BY <1>3, <1>4

LEMMA ReachedOnGrid ==
  ASSUME NEW c \in Configs, NEW s, NEW seq, Reached(c, s, seq)
  PROVE  OnGrid(c, s) /\ s \in Int
BY Parameters DEF OnGrid, Reached

\* The state at a time is unique.
LEMMA SameState ==
  ASSUME NEW c \in Configs, NEW s, NEW a, NEW b, Reached(c, s, a), Reached(c, s, b)
  PROVE  a = b
<1>1. c.dt \in Nat /\ c.dt > 0 /\ c.tStart \in Nat
  BY Parameters
<1>2. PICK k \in Int : s = c.tStart + c.dt * k /\ a = [i \in 1..k |-> c.tStart + c.dt * i]
  BY DEF Reached
<1>3. PICK m \in Int : s = c.tStart + c.dt * m /\ b = [i \in 1..m |-> c.tStart + c.dt * i]
  BY DEF Reached
<1>4. c.dt * k \in Int /\ c.dt * m \in Int /\ c.dt * k = c.dt * m
  <2>1. c.dt * k \in Int /\ c.dt * m \in Int
    BY <1>1
  <2>2. c.tStart + c.dt * k = c.tStart + c.dt * m
    BY <1>2, <1>3
  <2>3. \A x, y, z \in Int : x + y = x + z => y = z
    OBVIOUS
  <2>4. c.dt * k = c.dt * m
    BY <1>1, <2>1, <2>2, <2>3
  <2> QED  BY <2>1, <2>4
<1>5. ~(k < m) /\ ~(m < k)
  BY <1>1, <1>4, TimesStrict
<1>6. k = m
  BY <1>5
<1> QED  BY <1>2, <1>3, <1>6

LEMMA AppendIs ==
  ASSUME NEW S, NEW seq \in Seq(S), NEW e \in S
  PROVE  /\ Append(seq, e) \in Seq(S) /\ Len(Append(seq, e)) = Len(seq) + 1
         /\ \A i \in 1..Len(seq) : Append(seq, e)[i] = seq[i]
         /\ Append(seq, e)[Len(seq) + 1] = e
OBVIOUS

\* A step from the start on reaches the state of the next time.
LEMMA NextState ==
  ASSUME NEW c \in Configs, NEW s, NEW seq, Reached(c, s, seq), s >= c.tStart
  PROVE  Reached(c, s + c.dt, Append(seq, s + c.dt))
<1>1. c.dt \in Nat /\ c.dt > 0 /\ c.tStart \in Nat
  BY Parameters
<1>2. PICK k \in Int : s = c.tStart + c.dt * k /\ seq = [i \in 1..k |-> c.tStart + c.dt * i]
  BY DEF Reached
<1>3. c.dt * k \in Int /\ c.dt * (k + 1) = c.dt * k + c.dt
  BY <1>1
<1>4. k >= 0
  <2> SUFFICES ASSUME k < 0 PROVE FALSE
    OBVIOUS
  <2>1. c.dt * k + c.dt <= c.dt * 0
    BY <1>1, TimesStrict
  <2> QED  BY <1>1, <1>2, <1>3, <2>1
<1>5. s + c.dt = c.tStart + c.dt * (k + 1)
  BY <1>1, <1>2, <1>3
<1>6. Append(seq, s + c.dt) = [i \in 1..k + 1 |-> c.tStart + c.dt * i]
  <2>1. \A i \in 1..k : c.tStart + c.dt * i \in Int
    BY <1>1
  <2>2. seq \in Seq(Int) /\ Len(seq) = k
    BY <1>2, <1>4, <2>1
  <2>3. /\ Append(seq, s + c.dt) \in Seq(Int) /\ Len(Append(seq, s + c.dt)) = k + 1
        /\ \A i \in 1..k : Append(seq, s + c.dt)[i] = seq[i]
        /\ Append(seq, s + c.dt)[k + 1] = s + c.dt
    <3>1. s + c.dt \in Int
      BY <1>1, <1>3, <1>5
    <3> QED  BY <2>2, <3>1, AppendIs
  <2>4. Append(seq, s + c.dt) = [i \in 1..k + 1 |-> Append(seq, s + c.dt)[i]]
    BY <1>4, <2>3
  <2>5. \A i \in 1..k + 1 : Append(seq, s + c.dt)[i] = c.tStart + c.dt * i
    BY <1>2, <1>4, <1>5, <2>3
  <2> QED  BY <2>4, <2>5
<1>7. k + 1 \in Int
  OBVIOUS
<1> QED  BY <1>5, <1>6, <1>7 DEF Reached

\* Up to the start no step was taken.
LEMMA NoStepBefore ==
  ASSUME NEW c \in Configs, NEW s \in Int, NEW seq,
         Reached(c, c.tStart, seq), OnGrid(c, s), s <= c.tStart
  PROVE  Reached(c, s, seq)
<1>1. c.dt \in Nat /\ c.dt > 0 /\ c.tStart \in Nat
  BY Parameters
<1>2. PICK k \in Int : /\ c.tStart = c.tStart + c.dt * k
                       /\ seq = [i \in 1..k |-> c.tStart + c.dt * i]
  BY DEF Reached
<1>3. PICK m \in Int : s = c.tStart + c.dt * m
  BY DEF OnGrid
<1>4. c.dt * k \in Int /\ c.dt * m \in Int /\ c.dt * 0 = 0
  BY <1>1
<1>5. \A j \in Int : c.dt * j <= 0 => j <= 0
  <2> SUFFICES ASSUME NEW j \in Int, c.dt * j <= 0, 0 < j PROVE FALSE
    OBVIOUS
  <2>1. c.dt * 0 + c.dt <= c.dt * j
    BY <1>1, TimesStrict
  <2> QED  BY <1>1, <1>4, <2>1
<1>6. k <= 0 /\ m <= 0
  <2>1. \A x, a \in Int : x + a <= x => a <= 0
    OBVIOUS
  <2>2. c.tStart + c.dt * k <= c.tStart
    BY <1>1, <1>2
  <2>3. c.tStart + c.dt * m <= c.tStart
    BY <1>3
  <2>4. c.tStart \in Int
    BY <1>1
  <2>5. c.dt * k <= 0
    BY <1>4, <2>1, <2>2, <2>4
  <2>6. c.dt * m <= 0
    BY <1>4, <2>1, <2>3, <2>4
  <2> QED  BY <1>5, <2>5, <2>6
<1>7. 1..k = 1..m
  BY <1>6
<1> QED  BY <1>2, <1>3, <1>7 DEF Reached

\* Past the start there is a last step, taken at the time of the state.
LEMMA LastStep ==
  ASSUME NEW c \in Configs, NEW s, NEW seq, Reached(c, s, seq), s > c.tStart
  PROVE  seq # <<>> /\ seq[Len(seq)] = s
<1>1. c.dt \in Nat /\ c.dt > 0 /\ c.tStart \in Nat
  BY Parameters
<1>2. PICK k \in Int : s = c.tStart + c.dt * k /\ seq = [i \in 1..k |-> c.tStart + c.dt * i]
  BY DEF Reached
<1>3. c.dt * k \in Int
  BY <1>1
<1>4. k >= 1
  <2> SUFFICES ASSUME k <= 0 PROVE FALSE
    OBVIOUS
  <2>1. c.dt * k <= c.dt * 0
    BY <1>1, TimesMonotone
  <2> QED  BY <1>1, <1>2, <1>3, <2>1
<1>5. Len(seq) = k /\ DOMAIN seq = 1..k
  BY <1>2, <1>4
<1> QED  BY <1>2, <1>4, <1>5

-----------------------------------------------------------------------------
LEMMA IndexIsNat ==
  ASSUME NEW s \in Nat, NEW interval \in Nat, interval > 0
  PROVE  Index(s, interval) \in Nat
<1> DEFINE x == 2 * s + interval
           y == 2 * interval
<1>1. x \in Nat /\ y \in Nat /\ y > 0 /\ Index(s, interval) = x \div y
  BY DEF Index
<1> HIDE DEF x, y
<1>2. x \div y >= 0 /\ x \div y \in Int
  BY <1>1
<1> QED  BY <1>1, <1>2

\* Multiples of an interval are times on the grid, if the step divides it.
LEMMA MultipleOnGrid ==
  ASSUME NEW c \in Configs, NEW m \in Nat, NEW interval \in Nat,
         c.tStart % c.dt = 0, interval % c.dt = 0
  PROVE  m * interval \in Nat /\ OnGrid(c, m * interval)
<1>1. c.dt \in Nat /\ c.dt > 0 /\ c.tStart \in Nat
  BY Parameters
<1> DEFINE p == c.tStart \div c.dt
           q == interval \div c.dt
<1>2. p \in Int /\ c.tStart = c.dt * p /\ q \in Int /\ interval = c.dt * q
  <2>1. c.dt * p \in Int /\ c.dt * q \in Int
    BY <1>1
  <2>2. c.tStart \in Int /\ interval \in Int
    BY <1>1
  <2>3. p \in Int /\ c.tStart = c.dt * p + (c.tStart % c.dt)
    BY <1>1, <2>2, Division, ZenonT(20)
  <2>4. q \in Int /\ interval = c.dt * q + (interval % c.dt)
    BY <1>1, <2>2, Division, ZenonT(20)
  <2> QED  BY <2>1, <2>3, <2>4
<1> HIDE DEF p, q
<1>3. m * interval \in Nat
  OBVIOUS
<1>4. m * q - p \in Int
  BY <1>2
<1>5. m * interval = m * (c.dt * q)
  BY <1>2
<1>6. m * (c.dt * q) = c.dt * (m * q)
  BY <1>1, <1>2
<1>7. c.dt * (m * q - p) = c.dt * (m * q) - c.dt * p
  BY <1>1, <1>2
<1>8. m * interval = c.tStart + c.dt * (m * q - p)
  BY <1>1, <1>2, <1>3, <1>5, <1>6, <1>7
<1> QED  BY <1>3, <1>4, <1>8 DEF OnGrid

LEMMA EndOnGrid ==
  ASSUME NEW c \in Configs, Aligned(c)
  PROVE  OnGrid(c, c.tEnd)
<1>1. c.tEnd \in Nat
  BY Parameters
<1>2. 1 * c.tEnd = c.tEnd
  BY <1>1
<1>3. OnGrid(c, 1 * c.tEnd)
  BY <1>1, MultipleOnGrid DEF Aligned
<1> QED  BY <1>2, <1>3

\* Steps is the number of steps to the first time that is not before the end.
LEMMA StepsReachEnd ==
  ASSUME config \in Configs, t0 \in Nat, step \in Nat
  PROVE  /\ t \in Nat /\ Steps \in Int
         /\ step < Steps <=> t < config.tEnd
<1>1. config.dt \in Nat /\ config.dt > 0 /\ config.tEnd \in Nat
  BY Parameters
<1> DEFINE x == config.tEnd - t0 + config.dt - 1
           q == x \div config.dt
           r == x % config.dt
           d == config.dt * step
           e == config.dt * q
<1>2. x \in Int /\ Steps = q
  BY <1>1 DEF Steps
<1>3. q \in Int /\ r \in 0..config.dt - 1 /\ x = e + r
  <2> HIDE DEF x
  <2> QED  BY <1>1, <1>2, Division
<1>4. step * config.dt = d /\ d \in Nat
  BY <1>1
<1>5. t = t0 + d /\ t \in Nat
  BY <1>4 DEF t
<1>6. x = config.tEnd - t0 + config.dt - 1
  OBVIOUS
<1> HIDE DEF x, q, r
<1>7. e \in Int
  BY <1>1, <1>3
<1>8. ASSUME step < q PROVE t < config.tEnd
  <2>1. d + config.dt <= e
    BY <1>1, <1>3, <1>8, TimesStrict
  <2> QED  BY <1>1, <1>3, <1>4, <1>5, <1>6, <1>7, <2>1
<1>9. ASSUME q <= step PROVE config.tEnd <= t
  <2>1. e <= d
    BY <1>1, <1>3, <1>9, TimesMonotone
  <2> QED  BY <1>1, <1>3, <1>4, <1>5, <1>6, <1>7, <2>1
<1> QED  BY <1>1, <1>2, <1>3, <1>5, <1>8, <1>9

\* What is written has the label the time of the state is nearest to.
LEMMA DueLabel ==
  ASSUME TimeInv, NEW interval \in Nat, interval > 0, NEW index, Due(index, interval)
  PROVE  LET label == Index(t, interval) * interval
         IN /\ Index(t, interval) \in Nat /\ label \in Nat
            /\ 2 * (t - label) \in (1 - config.dt)..(config.dt - 1)
            /\ OnGrid(config, label) => label = t
<1> DEFINE label == Index(t, interval) * interval
<1>1. t \in Nat /\ config \in Configs /\ config.dt \in Nat /\ config.dt > 0
  BY StepsReachEnd, Parameters DEF TimeInv, ClockTypes
<1>2. Index(t, interval) \in Nat
  BY <1>1, IndexIsNat
<1>3. label \in Nat
  BY <1>2
<1>4. 2 * (t - label) \in (1 - config.dt)..(config.dt - 1)
  BY DEF Due
<1>5. OnGrid(config, t)
  BY <1>1, ReachedOnGrid DEF TimeInv, LiveOnTime
<1>6. 2 * (label - label) \in (1 - config.dt)..(config.dt - 1)
  BY <1>1, <1>3
<1> HIDE DEF label
<1>7. OnGrid(config, label) => label = t
  <2> SUFFICES ASSUME OnGrid(config, label) PROVE label = t
    OBVIOUS
  <2> DEFINE u == t
  <2>1. u \in Int /\ OnGrid(config, u)
        /\ 2 * (u - label) \in (1 - config.dt)..(config.dt - 1)
    BY <1>1, <1>4, <1>5
  <2>2. label \in Int
    BY <1>3
  <2> HIDE DEF u
  <2>3. label = u
    BY <1>1, <1>6, <2>1, <2>2, LabelTells
  <2> QED  BY <2>3 DEF u
<1> QED  BY <1>2, <1>3, <1>4, <1>7 DEF label

\* What a checkpoint that is not refused adds to the file.
LEMMA WrittenFile ==
  ASSUME DOMAIN checkpoints = 1..2, run \in 1..2, NEW label, NEW next,
         WriteCheckpoint(label, next), label \notin DOMAIN checkpoints[run]
  PROVE  /\ pc' = next /\ DOMAIN checkpoints' = 1..2
         /\ DOMAIN checkpoints'[run] = DOMAIN checkpoints[run] \union {label}
         /\ checkpoints'[run][label] = state
         /\ \A k \in DOMAIN checkpoints[run] : checkpoints'[run][k] = checkpoints[run][k]
         /\ \A r \in 1..2 : r # run => checkpoints'[r] = checkpoints[r]
<1>1. pc' = next
      /\ checkpoints' = [checkpoints EXCEPT ![run] = With(checkpoints[run], label, state)]
  BY DEF WriteCheckpoint
<1>2. checkpoints'[run] = With(checkpoints[run], label, state)
  BY <1>1
<1> QED  BY <1>1, <1>2 DEF With

-----------------------------------------------------------------------------
LEMMA InitTime == Init => TimeInv
<1> SUFFICES ASSUME Init PROVE TimeInv
  OBVIOUS
<1>1. config \in Configs /\ config.dt \in Nat /\ config.dt > 0 /\ config.tStart \in Nat
      /\ config.output \in Nat /\ config.output > 0 /\ config.checkpoint \in Nat
  BY Parameters DEF Init
<1>2. last \in [output : Int, checkpoint : Int, time : Int]
  <2>1. Index(config.tStart, config.output) \in Int
    BY <1>1, IndexIsNat
  <2>2. config.checkpoint # 0 => Index(config.tStart, config.checkpoint) \in Int
    BY <1>1, IndexIsNat
  <2> QED  BY <2>1, <2>2 DEF Init, StartIndexes
<1>3. ClockTypes
  BY <1>1, <1>2 DEF Init, ClockTypes
<1>4. t = config.tStart
  BY <1>1 DEF Init, t
<1>5. Reached(config, t, state)
  <2>1. t = config.tStart + config.dt * 0 /\ 0 \in Int
    BY <1>1, <1>4
  <2>2. state = [i \in 1..0 |-> config.tStart + config.dt * i]
    BY DEF Init
  <2> QED  BY <2>1, <2>2 DEF Reached
<1>6. LiveOnTime
  BY <1>1, <1>5 DEF Init, LiveOnTime, Starts
<1>7. SavedOnTime
  <2>1. \A r \in 1..2 : DOMAIN checkpoints[r] = {}
    BY DEF Init, Empty
  <2> QED  BY <2>1 DEF SavedOnTime
<1> QED  BY <1>3, <1>6, <1>7 DEF TimeInv

\* A time at which a checkpoint is written: of its state, and possible to resume at.
Writable(label) ==
  /\ label \in Nat /\ Starts(config, label)
  /\ Reached(config, label, state)

LEMMA WriteOnTime ==
  ASSUME TimeInv, NEW label, Writable(label), NEW next,
         WriteCheckpoint(label, next), config' = config
  PROVE  DOMAIN checkpoints' = 1..2 /\ SavedOnTime'
<1>1. DOMAIN checkpoints = 1..2 /\ run \in 1..2 /\ SavedOnTime
  BY DEF TimeInv, ClockTypes
<1>2. CASE label \in DOMAIN checkpoints[run]
  BY <1>1, <1>2 DEF WriteCheckpoint, SavedOnTime
<1>3. CASE label \notin DOMAIN checkpoints[run]
  <2>1. /\ DOMAIN checkpoints' = 1..2
        /\ DOMAIN checkpoints'[run] = DOMAIN checkpoints[run] \union {label}
        /\ checkpoints'[run][label] = state
        /\ \A k \in DOMAIN checkpoints[run] : checkpoints'[run][k] = checkpoints[run][k]
        /\ \A r \in 1..2 : r # run => checkpoints'[r] = checkpoints[r]
    BY <1>1, <1>3, WrittenFile
  <2>2. ASSUME NEW r \in 1..2, NEW k \in DOMAIN checkpoints'[r]
        PROVE  /\ k \in Nat /\ Starts(config, k)
               /\ Reached(config, k, checkpoints'[r][k])
    <3>1. CASE k \in DOMAIN checkpoints[r]
      <4>1. checkpoints'[r][k] = checkpoints[r][k]
        BY <2>1, <3>1
      <4> QED  BY <1>1, <3>1, <4>1 DEF SavedOnTime
    <3>2. CASE k \notin DOMAIN checkpoints[r]
      <4>1. r = run /\ k = label
        BY <2>1, <2>2, <3>2
      <4> QED  BY <2>1, <4>1 DEF Writable
    <3> QED  BY <3>1, <3>2
  <2> QED  BY <2>1, <2>2 DEF SavedOnTime
<1> QED  BY <1>2, <1>3

\* The time a periodic checkpoint is written for is the time of its state.
LEMMA PeriodicLabel ==
  ASSUME TimeInv, Aligned(config), pc = "checkpoint", config.checkpoint > 0,
         NEW index, Due(index, config.checkpoint)
  PROVE  /\ Index(t, config.checkpoint) * config.checkpoint = t
         /\ Writable(t) /\ t0 < t
<1> DEFINE label == Index(t, config.checkpoint) * config.checkpoint
<1>1. /\ config \in Configs /\ config.checkpoint \in Nat /\ config.tStart \in Nat
      /\ config.dt \in Nat /\ config.dt > 0 /\ config.tEnd \in Nat
  BY Parameters DEF TimeInv, ClockTypes
<1>2. Index(t, config.checkpoint) \in Nat /\ (OnGrid(config, label) => label = t)
  BY <1>1, DueLabel
<1>3. OnGrid(config, label)
  BY <1>1, <1>2, MultipleOnGrid DEF Aligned
<1>4. t0 \in Nat /\ step \in Nat /\ step > 0 /\ t \in Nat
  BY <1>1, StepsReachEnd DEF TimeInv, ClockTypes, LiveOnTime
<1>5. step * config.dt > 0 /\ step * config.dt \in Nat
  BY <1>1, <1>4
<1>6. t0 < t
  BY <1>4, <1>5 DEF t
<1>7. Writable(t)
  BY <1>1, <1>4, <1>6 DEF Writable, Starts, TimeInv, LiveOnTime
<1> QED  BY <1>2, <1>3, <1>6, <1>7

\* The final checkpoint is written when the state is at the end time, or no
\* step was taken because the start is past it.
LEMMA FinalLabel ==
  ASSUME TimeInv, Aligned(config), pc = "step", step >= Steps
  PROVE  Writable(config.tEnd) /\ config.tEnd <= t /\ (step > 0 => t = config.tEnd)
<1>1. /\ config \in Configs /\ config.tStart \in Nat /\ config.dt \in Nat /\ config.dt > 0
      /\ config.tEnd \in Nat /\ t0 \in Nat /\ step \in Nat
  BY Parameters DEF TimeInv, ClockTypes
<1>2. t \in Nat /\ config.tEnd <= t
  BY <1>1, StepsReachEnd
<1>3. step > 0 => t = config.tEnd
  BY <1>1, <1>2 DEF TimeInv, LiveOnTime
<1>4. Reached(config, t, state) /\ Starts(config, t0)
  BY DEF TimeInv, LiveOnTime
<1>5. t = config.tEnd \/ t = config.tStart
  <2>1. step = 0 => t = t0
    BY <1>1 DEF t
  <2> QED  BY <1>1, <1>2, <1>3, <1>4, <2>1 DEF Starts
<1>6. Reached(config, config.tEnd, state)
  BY <1>1, <1>2, <1>4, <1>5, EndOnGrid, NoStepBefore
<1> QED  BY <1>1, <1>2, <1>3, <1>6 DEF Writable, Starts

LEMMA NextTime ==
  ASSUME \A c \in Configs : Aligned(c), TimeInv, [Next]_vars
  PROVE  TimeInv'
<1> USE DEF TimeInv
<1>1. /\ config \in Configs /\ Aligned(config) /\ config.tStart \in Nat /\ config.tEnd \in Nat
      /\ config.dt \in Nat /\ config.dt > 0 /\ config.output \in Nat /\ config.output > 0
      /\ config.checkpoint \in Nat /\ t0 \in Nat /\ step \in Nat /\ t \in Nat
  BY Parameters, StepsReachEnd DEF ClockTypes
<1>2. config' = config => config' \in Configs
  BY <1>1
<1>3. CASE UNCHANGED vars
  BY <1>3 DEF vars, ClockTypes, LiveOnTime, SavedOnTime, t
<1>4. CASE Step
  <2>1. t < config.tEnd
    BY <1>1, <1>4, StepsReachEnd DEF Step
  <2>2. t' = t + config.dt /\ step' \in Nat /\ step' > 0
    <3>1. t' = t + config.dt /\ step' = step + 1
      BY <1>1, <1>4, StepTime DEF Step
    <3> QED  BY <1>1, <3>1
  <2>3. t >= config.tStart
    <3>1. step * config.dt \in Nat
      BY <1>1
    <3> QED  BY <1>1, <2>1, <3>1 DEF LiveOnTime, Starts, t
  <2>4. t' <= config.tEnd
    <3>1. OnGrid(config, t)
      BY <1>1, ReachedOnGrid DEF LiveOnTime
    <3> DEFINE u == t
    <3>2. u \in Int /\ OnGrid(config, u) /\ u < config.tEnd
      BY <1>1, <2>1, <3>1
    <3> HIDE DEF u
    <3>3. OnGrid(config, config.tEnd) /\ config.tEnd \in Int
      BY <1>1, EndOnGrid
    <3>4. u + config.dt <= config.tEnd
      BY <1>1, <3>2, <3>3, GridStep
    <3> QED  BY <2>2, <3>4 DEF u
  <2>5. Reached(config, t + config.dt, state')
    BY <1>1, <1>4, <2>3, NextState DEF Step, LiveOnTime
  <2>6. LiveOnTime'
    BY <1>4, <2>2, <2>4, <2>5 DEF Step, LiveOnTime
  <2> QED  BY <1>4, <2>2, <2>6 DEF Step, ClockTypes, SavedOnTime
<1>5. CASE Output
  <2>1. last' \in [output : Int, checkpoint : Int, time : Int] /\ DOMAIN outputs' = 1..2
    <3>1. Index(t, config.output) \in Int
      BY <1>1, IndexIsNat
    <3> QED  BY <1>5, <3>1 DEF Output, ClockTypes
  <2>2. pc' = "checkpoint" /\ pc = "output"
        /\ UNCHANGED <<config, run, t0, step, state, checkpoints>>
    BY <1>5 DEF Output
  <2> QED  BY <2>1, <2>2 DEF ClockTypes, LiveOnTime, SavedOnTime, t
<1>6. CASE PeriodicCheckpoint
  <2>1. pc = "checkpoint" /\ UNCHANGED <<config, run, t0, step, state, outputs>>
    BY <1>6 DEF PeriodicCheckpoint
  <2>2. CASE config.checkpoint > 0 /\ Due(last.checkpoint, config.checkpoint)
    <3>1. Index(t, config.checkpoint) * config.checkpoint = t /\ Writable(t)
      BY <1>1, <2>1, <2>2, PeriodicLabel
    <3>2. WriteCheckpoint(t, "step")
          /\ last' = [last EXCEPT !.checkpoint = Index(t, config.checkpoint), !.time = t]
      BY <1>6, <2>2, <3>1 DEF PeriodicCheckpoint
    <3>3. DOMAIN checkpoints' = 1..2 /\ SavedOnTime'
      BY <2>1, <3>1, <3>2, WriteOnTime
    <3>4. last' \in [output : Int, checkpoint : Int, time : Int]
      <4>1. Index(t, config.checkpoint) \in Int
        BY <1>1, <2>2, IndexIsNat
      <4>2. last' = [output |-> last.output, checkpoint |-> Index(t, config.checkpoint),
                     time |-> t]
        BY <3>2 DEF ClockTypes
      <4>3. last.output \in Int /\ t \in Int
        BY <1>1 DEF ClockTypes
      <4> QED  BY <4>1, <4>2, <4>3
    <3>5. pc' \in {"step", "failed"}
      BY <3>2 DEF WriteCheckpoint
    <3> QED  BY <2>1, <3>3, <3>4, <3>5 DEF ClockTypes, LiveOnTime, t
  <2>3. CASE ~(config.checkpoint > 0 /\ Due(last.checkpoint, config.checkpoint))
    <3>1. pc' = "step" /\ UNCHANGED <<last, checkpoints>>
      BY <1>6, <2>3 DEF PeriodicCheckpoint
    <3> QED  BY <2>1, <3>1 DEF ClockTypes, LiveOnTime, SavedOnTime, t
  <2> QED  BY <2>2, <2>3
<1>7. CASE Finish
  <2>1. UNCHANGED <<config, run, t0, step, state, last, outputs>>
        /\ pc' \in {"done", "failed"}
    BY <1>7 DEF Finish, WriteCheckpoint
  <2>2. DOMAIN checkpoints' = 1..2 /\ SavedOnTime'
    <3>1. CASE WriteCheckpoint(config.tEnd, "done")
      <4>1. Writable(config.tEnd)
        BY <1>1, <1>7, FinalLabel DEF Finish
      <4> QED  BY <2>1, <3>1, <4>1, WriteOnTime
    <3>2. CASE UNCHANGED checkpoints
      BY <2>1, <3>2 DEF ClockTypes, SavedOnTime
    <3> QED  BY <1>7, <3>1, <3>2 DEF Finish
  <2> QED  BY <2>1, <2>2 DEF ClockTypes, LiveOnTime, t
<1>8. CASE Crash
  BY <1>8 DEF Crash, ClockTypes, LiveOnTime, SavedOnTime, t
<1>9. ASSUME NEW label \in DOMAIN checkpoints[1], Resume(label) PROVE TimeInv'
  <2>1. label \in Nat /\ Starts(config, label) /\ Reached(config, label, checkpoints[1][label])
    BY <1>9 DEF SavedOnTime
  <2>2. last' \in [output : Int, checkpoint : Int, time : Int]
    <3>1. Index(label, config.output) \in Int
      BY <1>1, <2>1, IndexIsNat
    <3>2. config.checkpoint # 0 => Index(label, config.checkpoint) \in Int
      BY <1>1, <2>1, IndexIsNat
    <3>3. last' = StartIndexes(label)
      BY <1>9 DEF Resume
    <3> QED  BY <3>1, <3>2, <3>3 DEF StartIndexes
  <2>3. pc' = "step" /\ run' = 2 /\ t0' = label /\ step' = 0 /\ state' = checkpoints[1][label]
        /\ UNCHANGED <<config, checkpoints, outputs>>
    BY <1>9 DEF Resume
  <2>4. t' = label
    BY <1>1, <2>1, <2>3 DEF t
  <2> QED  BY <2>1, <2>2, <2>3, <2>4 DEF ClockTypes, LiveOnTime, SavedOnTime
<1> QED  BY <1>3, <1>4, <1>5, <1>6, <1>7, <1>8, <1>9 DEF Next

LEMMA TimeInvariant ==
  ASSUME \A c \in Configs : Aligned(c)
  PROVE  Spec => []TimeInv
<1>1. TimeInv /\ [Next]_vars => TimeInv'
  BY NextTime
<1> QED  BY <1>1, InitTime, PTL DEF Spec

-----------------------------------------------------------------------------
(* No write is refused, and the end is saved.  The periodic checkpoints of *)
(* a run are the times of its states, which increase, and last.time is the *)
(* latest of them; a final checkpoint is either later than all of them, or *)
(* was written as the last of them, from the final state.                  *)

SaveInv ==
  /\ pc # "failed"
  /\ run = 1 => checkpoints[2] = Empty
  /\ pc \in {"step", "output", "checkpoint"} =>
       /\ last.time = -1 \/ last.time \in t0 + 1..t
       /\ pc # "step" => last.time < t
       /\ \A label \in DOMAIN checkpoints[run] : label <= last.time
       /\ last.time # -1 => last.time \in DOMAIN checkpoints[run]
  /\ EndIsSaved

LEMMA InitSave == Init => SaveInv
BY DEF Init, SaveInv, EndIsSaved, StartIndexes, Empty

LEMMA NextSave ==
  ASSUME \A c \in Configs : Aligned(c), TimeInv, TimeInv', SaveInv, [Next]_vars
  PROVE  SaveInv'
<1>1. /\ config \in Configs /\ Aligned(config) /\ config.tEnd \in Nat
      /\ config.dt \in Nat /\ config.dt > 0 /\ config.checkpoint \in Nat
      /\ t0 \in Nat /\ step \in Nat /\ t \in Nat /\ run \in 1..2
      /\ DOMAIN checkpoints = 1..2 /\ last.time \in Int
  BY Parameters, StepsReachEnd DEF TimeInv, ClockTypes
<1>2. CASE UNCHANGED vars
  BY <1>2 DEF vars, SaveInv, EndIsSaved, t
<1>3. CASE Step
  <2>1. t' = t + config.dt
    BY <1>1, <1>3, StepTime
  <2>2. /\ pc = "step" /\ pc' = "output"
        /\ UNCHANGED <<config, run, t0, last, checkpoints, outputs>>
    BY <1>3 DEF Step
  <2>3. last.time = -1 \/ last.time \in t0 + 1..t
    BY <2>2 DEF SaveInv
  <2>4. last'.time < t' /\ (last'.time = -1 \/ last'.time \in t0' + 1..t')
    BY <1>1, <2>1, <2>2, <2>3
  <2> QED  BY <2>2, <2>4 DEF SaveInv, EndIsSaved
<1>4. CASE Output
  <2>1. last'.time = last.time
    BY <1>4 DEF Output, TimeInv, ClockTypes
  <2>2. /\ pc = "output" /\ pc' = "checkpoint"
        /\ UNCHANGED <<config, run, t0, step, state, checkpoints>>
    BY <1>4 DEF Output
  <2> QED  BY <2>1, <2>2 DEF SaveInv, EndIsSaved, t
<1>5. CASE PeriodicCheckpoint
  <2>1. pc = "checkpoint" /\ UNCHANGED <<config, run, t0, step, state, outputs>>
    BY <1>5 DEF PeriodicCheckpoint
  <2>2. t' = t
    BY <2>1 DEF t
  <2>3. CASE config.checkpoint > 0 /\ Due(last.checkpoint, config.checkpoint)
    <3>1. Index(t, config.checkpoint) * config.checkpoint = t /\ t0 < t
      BY <1>1, <2>1, <2>3, PeriodicLabel
    <3>2. WriteCheckpoint(t, "step") /\ last'.time = t
      BY <1>5, <2>3, <3>1 DEF PeriodicCheckpoint, TimeInv, ClockTypes
    <3>3. t \notin DOMAIN checkpoints[run]
      <4>1. \A label \in DOMAIN checkpoints[run] : label <= last.time /\ last.time < t
        BY <2>1 DEF SaveInv
      <4> QED  BY <1>1, <4>1
    <3>4. /\ pc' = "step"
          /\ DOMAIN checkpoints'[run] = DOMAIN checkpoints[run] \union {t}
          /\ \A r \in 1..2 : r # run => checkpoints'[r] = checkpoints[r]
      BY <1>1, <3>2, <3>3, WrittenFile
    <3>5. \A label \in DOMAIN checkpoints'[run'] : label <= last'.time
      <4>1. \A label \in DOMAIN checkpoints[run] : label \in Nat /\ label <= last.time
        BY <1>1, <2>1 DEF SaveInv, TimeInv, SavedOnTime
      <4>2. last.time < t
        BY <2>1 DEF SaveInv
      <4> QED  BY <1>1, <2>1, <3>2, <3>4, <4>1, <4>2
    <3>6. last'.time \in t0' + 1..t' /\ last'.time \in DOMAIN checkpoints'[run']
      BY <1>1, <2>1, <2>2, <3>1, <3>2, <3>4
    <3> QED  BY <1>1, <2>1, <3>4, <3>5, <3>6 DEF SaveInv, EndIsSaved
  <2>4. CASE ~(config.checkpoint > 0 /\ Due(last.checkpoint, config.checkpoint))
    <3>1. pc' = "step" /\ UNCHANGED <<last, checkpoints>>
      BY <1>5, <2>4 DEF PeriodicCheckpoint
    <3> QED  BY <2>1, <2>2, <3>1 DEF SaveInv, EndIsSaved
  <2> QED  BY <2>3, <2>4
<1>6. CASE Finish
  <2>1. /\ pc = "step" /\ step >= Steps
        /\ UNCHANGED <<config, run, t0, step, state, last, outputs>>
    BY <1>6 DEF Finish
  <2>2. /\ Writable(config.tEnd) /\ config.tEnd <= t /\ (step > 0 => t = config.tEnd)
    BY <1>1, <2>1, FinalLabel
  <2>3. /\ last.time = -1 \/ last.time \in t0 + 1..t
        /\ \A label \in DOMAIN checkpoints[run] : label <= last.time /\ label \in Nat
        /\ last.time # -1 => last.time \in DOMAIN checkpoints[run]
    BY <1>1, <2>1 DEF SaveInv, TimeInv, SavedOnTime
  <2>4. last.time # -1 => t = config.tEnd
    <3>1. step = 0 => t = t0
      BY <1>1 DEF t
    <3> QED  BY <1>1, <2>2, <2>3, <3>1
  <2>5. CASE config.checkpoint > 0 /\ last.time # config.tEnd
    <3>1. config.tEnd \notin DOMAIN checkpoints[run]
      <4> SUFFICES ASSUME config.tEnd \in DOMAIN checkpoints[run] PROVE FALSE
        OBVIOUS
      <4>1. config.tEnd <= last.time
        BY <2>3
      <4> QED  BY <1>1, <2>3, <2>4, <2>5, <4>1
    <3>2. WriteCheckpoint(config.tEnd, "done")
      BY <1>6, <2>5 DEF Finish
    <3>3. /\ pc' = "done"
          /\ DOMAIN checkpoints'[run] = DOMAIN checkpoints[run] \union {config.tEnd}
          /\ checkpoints'[run][config.tEnd] = state
          /\ \A r \in 1..2 : r # run => checkpoints'[r] = checkpoints[r]
      BY <1>1, <3>1, <3>2, WrittenFile
    <3> QED  BY <1>1, <2>1, <3>3 DEF SaveInv, EndIsSaved
  <2>6. CASE ~(config.checkpoint > 0 /\ last.time # config.tEnd)
    <3>1. pc' = "done" /\ UNCHANGED checkpoints
      BY <1>6, <2>6 DEF Finish
    <3>2. ASSUME config.checkpoint > 0
          PROVE  /\ config.tEnd \in DOMAIN checkpoints[run]
                 /\ checkpoints[run][config.tEnd] = state
      <4>1. last.time = config.tEnd /\ t = config.tEnd
        BY <1>1, <2>4, <2>6, <3>2
      <4>2. config.tEnd \in DOMAIN checkpoints[run]
        BY <1>1, <2>3, <4>1
      <4>3. Reached(config, config.tEnd, checkpoints[run][config.tEnd])
        BY <1>1, <4>2 DEF TimeInv, SavedOnTime
      <4>4. Reached(config, config.tEnd, state)
        BY <2>2 DEF Writable
      <4> QED  BY <1>1, <4>2, <4>3, <4>4, SameState
    <3> QED  BY <2>1, <3>1, <3>2 DEF SaveInv, EndIsSaved
  <2> QED  BY <2>5, <2>6
<1>7. CASE Crash
  BY <1>7 DEF Crash, SaveInv, EndIsSaved
<1>8. ASSUME NEW label \in DOMAIN checkpoints[1], Resume(label) PROVE SaveInv'
  <2>1. /\ run = 1 /\ run' = 2 /\ pc' = "step" /\ checkpoints' = checkpoints
        /\ last' = StartIndexes(label)
    BY <1>8 DEF Resume
  <2>2. last'.time = -1
    BY <2>1 DEF StartIndexes
  <2>3. DOMAIN checkpoints'[run'] = {}
    BY <2>1 DEF SaveInv, Empty
  <2> QED  BY <2>1, <2>2, <2>3 DEF SaveInv, EndIsSaved
<1> QED  BY <1>2, <1>3, <1>4, <1>5, <1>6, <1>7, <1>8 DEF Next

LEMMA SaveInvariant ==
  ASSUME \A c \in Configs : Aligned(c)
  PROVE  Spec => []SaveInv
<1>1. TimeInv /\ TimeInv' /\ SaveInv /\ [Next]_vars => SaveInv'
  BY NextSave
<1>2. Spec => []TimeInv
  BY TimeInvariant
<1> QED  BY <1>1, <1>2, InitSave, PTL DEF Spec

(***************************************************************************)
(* Checkpoint::write never meets a label that exists: neither a periodic   *)
(* checkpoint nor the final one of runSurfaceLoop, in the first run or in  *)
(* one resumed from any of its checkpoints.                                *)
(***************************************************************************)
THEOREM NoWriteIsRefused ==
  ASSUME \A c \in Configs : Aligned(c)
  PROVE  Spec => []NeverFails
<1>1. SaveInv => NeverFails
  BY DEF SaveInv, NeverFails
<1> QED  BY <1>1, SaveInvariant, PTL

(***************************************************************************)
(* A run that ended with checkpointing on left its final state under the   *)
(* end time, whether the interval or the end of runSurfaceLoop wrote it.   *)
(***************************************************************************)
THEOREM EndIsKept ==
  ASSUME \A c \in Configs : Aligned(c)
  PROVE  Spec => []EndIsSaved
<1>1. SaveInv => EndIsSaved
  BY DEF SaveInv
<1> QED  BY <1>1, SaveInvariant, PTL

-----------------------------------------------------------------------------
(* The two runs agree.  An output is the state of an uninterrupted run at  *)
(* a time on the grid within half a step of its label, whichever run wrote *)
(* it, and there is one such time.                                         *)

Near(c, s, label) == 2 * (s - label) \in (1 - c.dt)..(c.dt - 1)

OutputsOnTime ==
  \A r \in 1..2 : \A label \in DOMAIN outputs[r] :
    /\ label \in Nat
    /\ \E s \in Nat : Near(config, s, label) /\ Reached(config, s, outputs[r][label])

\* What Output adds to the outputs of the run; a label that exists stays.
LEMMA WrittenOutput ==
  ASSUME TimeInv, Output, Due(last.output, config.output)
  PROVE  LET label == Index(t, config.output) * config.output
         IN /\ DOMAIN outputs'[run] = DOMAIN outputs[run] \union {label}
            /\ label \notin DOMAIN outputs[run] => outputs'[run][label] = state
            /\ \A k \in DOMAIN outputs[run] : outputs'[run][k] = outputs[run][k]
            /\ \A r \in 1..2 : r # run => outputs'[r] = outputs[r]
<1> DEFINE label == Index(t, config.output) * config.output
<1>1. run \in 1..2 /\ DOMAIN outputs = 1..2
  BY DEF TimeInv, ClockTypes
<1>2. outputs' = [outputs EXCEPT ![run] = With(outputs[run], label, state)]
  BY DEF Output
<1> HIDE DEF label
<1>3. outputs'[run] = With(outputs[run], label, state)
  BY <1>1, <1>2
<1>4. \A r \in 1..2 : r # run => outputs'[r] = outputs[r]
  BY <1>1, <1>2
<1>5. /\ DOMAIN outputs'[run] = DOMAIN outputs[run] \union {label}
      /\ label \notin DOMAIN outputs[run] => outputs'[run][label] = state
      /\ \A k \in DOMAIN outputs[run] : outputs'[run][k] = outputs[run][k]
  BY <1>3 DEF With
<1> QED  BY <1>4, <1>5 DEF label

LEMMA InitOutputs == Init => OutputsOnTime
<1> SUFFICES ASSUME Init PROVE OutputsOnTime
  OBVIOUS
<1>1. /\ config \in Configs /\ config.dt \in Nat /\ config.dt > 0 /\ config.tStart \in Nat
  BY Parameters DEF Init
<1>2. outputs[1] = With(Empty, config.tStart, <<>>) /\ outputs[2] = Empty
  BY DEF Init
<1>3. DOMAIN Empty = {}
  BY DEF Empty
<1>4. DOMAIN outputs[2] = {} /\ DOMAIN outputs[1] = {config.tStart}
      /\ outputs[1][config.tStart] = <<>>
  BY <1>2, <1>3 DEF With
<1>5. Reached(config, config.tStart, <<>>)
  <2>1. config.tStart = config.tStart + config.dt * 0 /\ 0 \in Int
    BY <1>1
  <2>2. <<>> = [i \in 1..0 |-> config.tStart + config.dt * i]
    OBVIOUS
  <2> QED  BY <2>1, <2>2 DEF Reached
<1>6. Near(config, config.tStart, config.tStart)
  BY <1>1 DEF Near
<1> QED  BY <1>1, <1>4, <1>5, <1>6 DEF OutputsOnTime

LEMMA NextOutputs ==
  ASSUME TimeInv, OutputsOnTime, [Next]_vars
  PROVE  OutputsOnTime'
<1>1. /\ config \in Configs /\ config.dt \in Nat /\ config.dt > 0
      /\ config.output \in Nat /\ config.output > 0
      /\ t0 \in Nat /\ step \in Nat /\ t \in Nat /\ run \in 1..2
  BY Parameters, StepsReachEnd DEF TimeInv, ClockTypes
<1>2. CASE UNCHANGED <<config, outputs>>
  BY <1>2 DEF OutputsOnTime
<1>3. CASE Output /\ Due(last.output, config.output)
  <2> DEFINE label == Index(t, config.output) * config.output
  <2>1. /\ DOMAIN outputs'[run] = DOMAIN outputs[run] \union {label}
        /\ label \notin DOMAIN outputs[run] => outputs'[run][label] = state
        /\ \A k \in DOMAIN outputs[run] : outputs'[run][k] = outputs[run][k]
        /\ \A r \in 1..2 : r # run => outputs'[r] = outputs[r]
    BY <1>3, WrittenOutput
  <2>2. config' = config
    BY <1>3 DEF Output
  <2>3. label \in Nat /\ Near(config, t, label) /\ Reached(config, t, state)
    BY <1>1, <1>3, DueLabel DEF Near, TimeInv, LiveOnTime
  <2> HIDE DEF label
  <2>4. ASSUME NEW r \in 1..2, NEW k \in DOMAIN outputs'[r]
        PROVE  /\ k \in Nat
               /\ \E s \in Nat : Near(config, s, k) /\ Reached(config, s, outputs'[r][k])
    <3>1. CASE k \in DOMAIN outputs[r]
      <4>1. outputs'[r][k] = outputs[r][k]
        BY <2>1, <3>1
      <4> QED  BY <3>1, <4>1 DEF OutputsOnTime
    <3>2. CASE k \notin DOMAIN outputs[r]
      <4>1. r = run /\ k = label /\ outputs'[r][k] = state
        BY <2>1, <2>4, <3>2
      <4> QED  BY <1>1, <2>3, <4>1
    <3> QED  BY <3>1, <3>2
  <2> QED  BY <2>2, <2>4 DEF OutputsOnTime
<1> QED  BY <1>2, <1>3 DEF vars, Next, Step, Output, PeriodicCheckpoint, Finish, Crash, Resume

LEMMA OutputsAgree ==
  ASSUME config \in Configs, OutputsOnTime
  PROVE  SameOutputs
<1> SUFFICES ASSUME NEW label \in DOMAIN outputs[1] \intersect DOMAIN outputs[2]
             PROVE  outputs[1][label] = outputs[2][label]
  BY DEF SameOutputs
<1>1. PICK s \in Nat : Near(config, s, label) /\ Reached(config, s, outputs[1][label])
  BY DEF OutputsOnTime
<1>2. PICK u \in Nat : Near(config, u, label) /\ Reached(config, u, outputs[2][label])
  BY DEF OutputsOnTime
<1>3. label \in Int
  BY DEF OutputsOnTime
<1>4. OnGrid(config, s) /\ OnGrid(config, u)
  BY <1>1, <1>2, ReachedOnGrid
<1>5. s = u
  BY <1>1, <1>2, <1>3, <1>4, LabelTells DEF Near
<1> QED  BY <1>1, <1>2, <1>5, SameState

(***************************************************************************)
(* restart.md:3-5, for the surface loop: wherever a run and the one resumed*)
(* from one of its checkpoints both wrote a label, they wrote the state of *)
(* the same steps, crash or not.  The output interval is free here, so the *)
(* label may be up to half a step away from its state in both.             *)
(***************************************************************************)
THEOREM RestartRepeats ==
  ASSUME \A c \in Configs : Aligned(c)
  PROVE  Spec => []SameOutputs
<1>1. TimeInv /\ OutputsOnTime /\ [Next]_vars => OutputsOnTime'
  BY NextOutputs
<1>2. Spec => []TimeInv
  BY TimeInvariant
<1>3. TimeInv /\ OutputsOnTime => SameOutputs
  BY OutputsAgree DEF TimeInv, ClockTypes
<1> QED  BY <1>1, <1>2, <1>3, InitOutputs, PTL DEF Spec

-----------------------------------------------------------------------------
(* Every output is written, when the intervals are nested: a step divides  *)
(* the output interval, and that the checkpoint interval and the start.    *)
(* A loop then starts at a label, or at the end, so the index it starts    *)
(* from is that of its start, and no index is passed before its label.     *)

Nested(c) ==
  Aligned(c) /\ c.output % c.dt = 0 /\ c.checkpoint % c.output = 0 /\ c.tStart % c.output = 0

IsLabel(c, s) == \E m \in Nat : s = c.output * m

WrittenInv ==
  /\ IsLabel(config, t0) \/ t0 >= config.tEnd
  /\ \A r \in 1..2 : \A label \in DOMAIN checkpoints[r] :
       IsLabel(config, label) \/ label >= config.tEnd
  /\ t0 < config.tEnd => config.output * last.output <= t
  /\ pc = "output" => config.output * last.output < t
  /\ pc = "done" => t >= config.tEnd
  /\ \A r \in 1..2 : \A label \in DOMAIN outputs[r] :
       Reached(config, label, outputs[r][label])
  /\ pc # "crashed" =>
       \A label \in Labels(t0, config.output) :
         label <= t /\ (pc = "output" => label # t) => label \in DOMAIN outputs[run]

LEMMA IndexOfLabel ==
  ASSUME NEW interval \in Nat, interval > 0, NEW m \in Nat
  PROVE  Index(interval * m, interval) = m
<1> DEFINE x == 2 * (interval * m) + interval
           y == 2 * interval
           q == x \div y
           r == x % y
<1>1. interval * m \in Nat /\ y \in Nat /\ y > 0 /\ x \in Int
  OBVIOUS
<1>2. x = y * m + interval
  OBVIOUS
<1>3. Index(interval * m, interval) = q
  BY DEF Index
<1>4. y = 2 * interval
  OBVIOUS
<1> HIDE DEF x, y
<1>5. q \in Int /\ r \in 0..y - 1 /\ x = y * q + r
  BY <1>1, Division
<1> HIDE DEF q, r
<1>6. y * q \in Int /\ y * m \in Int
  BY <1>1, <1>5
<1>7. ~(q < m)
  <2> SUFFICES ASSUME q < m PROVE FALSE
    OBVIOUS
  <2>1. y * q + y <= y * m
    BY <1>1, <1>5, TimesStrict
  <2> QED  BY <1>1, <1>2, <1>5, <1>6, <2>1
<1>8. ~(m < q)
  <2> SUFFICES ASSUME m < q PROVE FALSE
    OBVIOUS
  <2>1. y * m + y <= y * q
    BY <1>1, <1>5, TimesStrict
  <2> QED  BY <1>1, <1>2, <1>4, <1>5, <1>6, <2>1
<1> QED  BY <1>3, <1>5, <1>7, <1>8

LEMMA MultipleIsLabel ==
  ASSUME NEW c \in Configs, NEW s \in Nat, s % c.output = 0
  PROVE  IsLabel(c, s)
<1>1. c.output \in Nat /\ c.output > 0 /\ s \in Int
  BY Parameters
<1> DEFINE q == s \div c.output
<1>2. q \in Int /\ s = c.output * q + (s % c.output)
  BY <1>1, Division, ZenonT(20)
<1>3. q >= 0
  BY <1>1
<1> HIDE DEF q
<1>4. c.output * q \in Int
  BY <1>1, <1>2
<1>5. q \in Nat /\ s = c.output * q
  BY <1>1, <1>2, <1>3, <1>4
<1> QED  BY <1>5 DEF IsLabel

LEMMA LabelOnGrid ==
  ASSUME NEW c \in Configs, Nested(c), NEW s, IsLabel(c, s)
  PROVE  s \in Nat /\ OnGrid(c, s)
<1>1. c.output \in Nat
  BY Parameters
<1>2. PICK m \in Nat : s = c.output * m
  BY DEF IsLabel
<1>3. c.output * m = m * c.output
  BY <1>1
<1>4. m * c.output \in Nat /\ OnGrid(c, m * c.output)
  BY <1>1, MultipleOnGrid DEF Nested, Aligned
<1> QED  BY <1>2, <1>3, <1>4

\* A multiple of the checkpoint interval is a label.
LEMMA CheckpointIsLabel ==
  ASSUME NEW c \in Configs, Nested(c), NEW m \in Nat
  PROVE  IsLabel(c, m * c.checkpoint)
<1>1. c.output \in Nat /\ c.output > 0 /\ c.checkpoint \in Nat
  BY Parameters
<1>2. PICK q \in Nat : c.checkpoint = c.output * q
  BY <1>1, MultipleIsLabel DEF Nested, IsLabel
<1>3. m * (c.output * q) = c.output * (m * q) /\ m * q \in Nat
  BY <1>1
<1> QED  BY <1>2, <1>3 DEF IsLabel

\* In a loop that starts at a label, its index is that of the last output.
LEMMA StartsAtLabel ==
  ASSUME NEW s, IsLabel(config, s), config \in Configs
  PROVE  config.output * StartIndexes(s).output = s
<1>1. config.output \in Nat /\ config.output > 0
  BY Parameters
<1>2. PICK m \in Nat : s = config.output * m
  BY DEF IsLabel
<1>3. StartIndexes(s).output = m
  BY <1>1, <1>2, IndexOfLabel DEF StartIndexes
<1> QED  BY <1>2, <1>3

LEMMA InitWritten ==
  ASSUME \A c \in Configs : Nested(c), Init
  PROVE  WrittenInv
<1>1. /\ config \in Configs /\ Nested(config) /\ config.tStart \in Nat
      /\ config.dt \in Nat /\ config.dt > 0 /\ config.output \in Nat
  BY Parameters DEF Init
<1>2. IsLabel(config, config.tStart)
  BY <1>1, MultipleIsLabel DEF Nested
<1>3. t = config.tStart /\ t0 = config.tStart
  BY <1>1 DEF Init, t
<1>4. config.output * last.output = t
  BY <1>1, <1>2, <1>3, StartsAtLabel DEF Init
<1>5. \A r \in 1..2 : DOMAIN checkpoints[r] = {}
  BY DEF Init, Empty
<1>6. \A r \in 1..2 : \A label \in DOMAIN outputs[r] : Reached(config, label, outputs[r][label])
  <2>1. DOMAIN Empty = {}
    BY DEF Empty
  <2>2. outputs[1] = With(Empty, config.tStart, <<>>) /\ outputs[2] = Empty
    BY DEF Init
  <2>3. DOMAIN outputs[2] = {} /\ DOMAIN outputs[1] = {config.tStart}
        /\ outputs[1][config.tStart] = state
    BY <2>1, <2>2 DEF With, Init
  <2>4. Reached(config, t, state)
    BY InitTime DEF TimeInv, LiveOnTime
  <2> QED  BY <1>3, <2>3, <2>4
<1>7. \A label \in Labels(t0, config.output) : ~(label <= t)
  BY <1>1, <1>3 DEF Labels
<1>8. pc = "step"
  BY DEF Init
<1> QED  BY <1>1, <1>2, <1>3, <1>4, <1>5, <1>6, <1>7, <1>8 DEF WrittenInv

\* A step does not pass a label that Output has yet to write.
LEMMA StepWritten ==
  ASSUME Nested(config), TimeInv, WrittenInv, Step
  PROVE  WrittenInv'
<1>1. /\ config \in Configs /\ Aligned(config) /\ config.tEnd \in Nat
      /\ config.dt \in Nat /\ config.dt > 0 /\ config.output \in Nat /\ config.output > 0
      /\ t0 \in Nat /\ step \in Nat /\ t \in Nat /\ last.output \in Int
  BY Parameters, StepsReachEnd DEF TimeInv, ClockTypes, Nested
<1>2. t < config.tEnd
  BY <1>1, StepsReachEnd DEF Step
<1>3. /\ pc = "step" /\ pc' = "output"
      /\ UNCHANGED <<config, run, t0, last, checkpoints, outputs>>
  BY DEF Step
<1>4. t' = t + config.dt /\ t0 <= t
  BY <1>1, StepTime
<1>5. config.output * last.output < t' /\ config.output * last.output <= t'
  <2>1. config.output * last.output <= t /\ config.output * last.output \in Int
    BY <1>1, <1>2, <1>4 DEF WrittenInv
  <2> QED  BY <1>1, <1>4, <2>1
<1>6. ASSUME NEW label \in Labels(t0, config.output), label <= t', label # t'
      PROVE  label \in DOMAIN outputs[run]
  <2>1. label \in Nat /\ label \in Int /\ label % config.output = 0
    BY <1>1 DEF Labels
  <2>2. OnGrid(config, label)
    BY <1>1, <2>1, MultipleIsLabel, LabelOnGrid
  <2>3. OnGrid(config, t)
    BY <1>1, ReachedOnGrid DEF TimeInv, LiveOnTime
  <2>4. ~(t < label)
    <3> SUFFICES ASSUME t < label PROVE FALSE
      OBVIOUS
    <3> DEFINE u == t
    <3>1. u \in Int /\ OnGrid(config, u) /\ u < label
      BY <1>1, <2>3
    <3> HIDE DEF u
    <3>2. u + config.dt <= label
      BY <1>1, <2>1, <2>2, <3>1, GridStep
    <3> QED  BY <1>1, <1>4, <1>6, <2>1, <3>2 DEF u
  <2> QED  BY <1>1, <1>3, <2>1, <2>4 DEF WrittenInv
<1>7. Labels(t0, config.output)' = Labels(t0, config.output)
  BY <1>3 DEF Labels
<1> QED  BY <1>3, <1>5, <1>6, <1>7 DEF WrittenInv

\* The label of the time reached is due, and no other one is.
LEMMA OutputWritten ==
  ASSUME Nested(config), TimeInv, WrittenInv, Output
  PROVE  WrittenInv'
<1>1. /\ config \in Configs /\ config.tEnd \in Nat
      /\ config.dt \in Nat /\ config.dt > 0 /\ config.output \in Nat /\ config.output > 0
      /\ t0 \in Nat /\ step \in Nat /\ t \in Nat /\ last.output \in Int /\ run \in 1..2
      /\ Reached(config, t, state)
  BY Parameters, StepsReachEnd DEF TimeInv, ClockTypes, LiveOnTime
<1>2. /\ pc = "output" /\ pc' = "checkpoint"
      /\ UNCHANGED <<config, run, t0, step, state, checkpoints>>
  BY DEF Output
<1>3. t' = t
  BY <1>2 DEF t
<1>4. config.output * last.output < t
  BY <1>2 DEF WrittenInv
<1>5. ASSUME Due(last.output, config.output)
      PROVE  Index(t, config.output) * config.output = t /\ Index(t, config.output) \in Nat
  <2>1. Index(t, config.output) \in Nat
    BY <1>1, IndexIsNat
  <2>2. OnGrid(config, Index(t, config.output) * config.output)
    BY <1>1, <2>1, MultipleOnGrid DEF Nested, Aligned
  <2> QED  BY <1>1, <1>5, <2>1, <2>2, DueLabel
<1>6. ASSUME IsLabel(config, t) PROVE Due(last.output, config.output)
  <2>1. PICK m \in Nat : t = config.output * m
    BY <1>6 DEF IsLabel
  <2>2. Index(t, config.output) = m
    BY <1>1, <2>1, IndexOfLabel
  <2>3. last.output < m
    <3> SUFFICES ASSUME m <= last.output PROVE FALSE
      BY <1>1
    <3>1. config.output * m <= config.output * last.output
      BY <1>1, TimesMonotone
    <3>2. config.output * last.output \in Int
      BY <1>1
    <3> QED  BY <1>1, <1>4, <2>1, <3>1, <3>2
  <2>4. m * config.output = t
    BY <1>1, <2>1
  <2>5. 2 * (t - t) \in (1 - config.dt)..(config.dt - 1)
    BY <1>1
  <2> QED  BY <2>2, <2>3, <2>4, <2>5 DEF Due
<1>7. Labels(t0, config.output)' = Labels(t0, config.output)
  BY <1>2 DEF Labels
<1>8. CASE Due(last.output, config.output)
  <2>1. /\ DOMAIN outputs'[run] = DOMAIN outputs[run] \union {t}
        /\ t \notin DOMAIN outputs[run] => outputs'[run][t] = state
        /\ \A k \in DOMAIN outputs[run] : outputs'[run][k] = outputs[run][k]
        /\ \A r \in 1..2 : r # run => outputs'[r] = outputs[r]
    BY <1>5, <1>8, WrittenOutput
  <2>2. config.output * last'.output = t
    <3>1. last'.output = Index(t, config.output)
      BY <1>8 DEF Output, TimeInv, ClockTypes
    <3>2. Index(t, config.output) * config.output = config.output * Index(t, config.output)
      BY <1>1, <1>5, <1>8
    <3> QED  BY <1>5, <1>8, <3>1, <3>2
  <2>3. ASSUME NEW r \in 1..2, NEW k \in DOMAIN outputs'[r]
        PROVE  Reached(config, k, outputs'[r][k])
    <3>1. CASE k \in DOMAIN outputs[r]
      <4>1. outputs'[r][k] = outputs[r][k]
        BY <2>1, <3>1
      <4> QED  BY <3>1, <4>1 DEF WrittenInv
    <3>2. CASE k \notin DOMAIN outputs[r]
      <4>1. r = run /\ k = t /\ outputs'[r][k] = state
        BY <2>1, <2>3, <3>2
      <4> QED  BY <1>1, <4>1
    <3> QED  BY <3>1, <3>2
  <2>4. \A label \in Labels(t0, config.output) : label <= t => label \in DOMAIN outputs'[run]
    BY <1>2, <2>1 DEF WrittenInv
  <2>5. t <= t
    BY <1>1
  <2> QED  BY <1>2, <1>3, <1>7, <2>2, <2>3, <2>4, <2>5 DEF WrittenInv
<1>9. CASE ~Due(last.output, config.output)
  <2>1. UNCHANGED <<last, outputs>>
    BY <1>9 DEF Output
  <2>2. \A label \in Labels(t0, config.output) : label # t
    <3> SUFFICES ASSUME t \in Labels(t0, config.output) PROVE FALSE
      OBVIOUS
    <3>1. t % config.output = 0
      BY DEF Labels
    <3>2. IsLabel(config, t)
      BY <1>1, <3>1, MultipleIsLabel
    <3> QED  BY <1>6, <1>9, <3>2
  <2>3. config.output * last.output <= t
    <3>1. config.output * last.output \in Int
      BY <1>1
    <3> QED  BY <1>1, <1>4, <3>1
  <2> QED  BY <1>2, <1>3, <1>7, <2>1, <2>2, <2>3 DEF WrittenInv
<1> QED  BY <1>8, <1>9

\* A checkpoint is written for a label, or for the end.
LEMMA CheckpointWritten ==
  ASSUME Nested(config), TimeInv, SaveInv, SaveInv', WrittenInv,
         PeriodicCheckpoint \/ Finish
  PROVE  WrittenInv'
<1>1. /\ config \in Configs /\ Aligned(config) /\ config.tEnd \in Nat
      /\ config.checkpoint \in Nat /\ run \in 1..2 /\ DOMAIN checkpoints = 1..2
  BY Parameters DEF TimeInv, ClockTypes, Nested
<1>2. /\ pc \in {"checkpoint", "step"} /\ pc' \in {"step", "done", "failed"}
      /\ UNCHANGED <<config, run, t0, step, state, outputs>>
  BY DEF PeriodicCheckpoint, Finish, WriteCheckpoint
<1>3. t' = t /\ Labels(t0, config.output)' = Labels(t0, config.output)
  BY <1>2 DEF t, Labels
<1>4. last'.output = last.output
  BY DEF PeriodicCheckpoint, Finish, TimeInv, ClockTypes
<1>5. pc' = "done" => t >= config.tEnd
  <2> SUFFICES ASSUME pc' = "done" PROVE t >= config.tEnd
    OBVIOUS
  <2>1. Finish
    BY DEF PeriodicCheckpoint, WriteCheckpoint
  <2>2. config.tEnd <= t /\ t \in Nat
    BY <1>1, <2>1, FinalLabel, StepsReachEnd DEF Finish, TimeInv, ClockTypes
  <2> QED  BY <1>1, <2>2
<1>6. ASSUME NEW label, NEW next, WriteCheckpoint(label, next),
             IsLabel(config, label) \/ label >= config.tEnd
      PROVE  \A r \in 1..2 : \A k \in DOMAIN checkpoints'[r] :
               IsLabel(config, k) \/ k >= config.tEnd
  <2>1. label \notin DOMAIN checkpoints[run]
    BY <1>6 DEF WriteCheckpoint, SaveInv
  <2>2. /\ DOMAIN checkpoints'[run] = DOMAIN checkpoints[run] \union {label}
        /\ \A r \in 1..2 : r # run => checkpoints'[r] = checkpoints[r]
    BY <1>1, <1>6, <2>1, WrittenFile
  <2> QED  BY <1>6, <2>2 DEF WrittenInv
<1>7. \A r \in 1..2 : \A k \in DOMAIN checkpoints'[r] :
        IsLabel(config, k) \/ k >= config.tEnd
  <2>1. CASE UNCHANGED checkpoints
    BY <2>1 DEF WrittenInv
  <2>2. CASE Finish /\ ~UNCHANGED checkpoints
    <3>1. WriteCheckpoint(config.tEnd, "done") /\ config.tEnd >= config.tEnd
      BY <1>1, <2>2 DEF Finish
    <3> QED  BY <1>6, <3>1
  <2>3. CASE PeriodicCheckpoint /\ ~UNCHANGED checkpoints
    <3> DEFINE index == Index(t, config.checkpoint)
    <3>1. /\ config.checkpoint > 0 /\ Due(last.checkpoint, config.checkpoint)
          /\ WriteCheckpoint(index * config.checkpoint, "step")
      BY <2>3 DEF PeriodicCheckpoint
    <3>2. index \in Nat
      BY <1>1, <3>1, DueLabel
    <3>3. IsLabel(config, index * config.checkpoint)
      BY <1>1, <3>2, CheckpointIsLabel
    <3> HIDE DEF index
    <3> QED  BY <1>6, <3>1, <3>3
  <2> QED  BY <2>1, <2>2, <2>3
<1>8. pc # "output" /\ pc # "crashed" /\ pc' # "output" /\ pc' # "crashed"
  BY <1>2
<1> QED  BY <1>2, <1>3, <1>4, <1>5, <1>7, <1>8 DEF WrittenInv

\* A resumed run owes the labels after its start only.
LEMMA ResumeWritten ==
  ASSUME TimeInv, WrittenInv, NEW label \in DOMAIN checkpoints[1], Resume(label)
  PROVE  WrittenInv'
<1>1. /\ config \in Configs /\ config.tEnd \in Nat /\ config.dt \in Nat /\ label \in Nat
  BY Parameters DEF TimeInv, ClockTypes, SavedOnTime
<1>2. /\ pc' = "step" /\ run' = 2 /\ t0' = label /\ step' = 0
      /\ last' = StartIndexes(label) /\ UNCHANGED <<config, checkpoints, outputs>>
  BY DEF Resume
<1>3. t' = label
  BY <1>1, <1>2 DEF t
<1>4. IsLabel(config, label) \/ label >= config.tEnd
  BY DEF WrittenInv
<1>5. label < config.tEnd => config.output * last'.output <= label
  <2> SUFFICES ASSUME label < config.tEnd PROVE config.output * last'.output <= label
    OBVIOUS
  <2>1. IsLabel(config, label)
    BY <1>1, <1>4
  <2>2. config.output * last'.output = label
    BY <1>1, <1>2, <2>1, StartsAtLabel
  <2> QED  BY <1>1, <2>2
<1>6. \A k \in Labels(t0, config.output)' : ~(k <= t')
  BY <1>1, <1>2, <1>3 DEF Labels
<1> QED  BY <1>2, <1>3, <1>4, <1>5, <1>6 DEF WrittenInv

LEMMA NextWritten ==
  ASSUME \A c \in Configs : Nested(c), TimeInv, SaveInv, SaveInv', WrittenInv, [Next]_vars
  PROVE  WrittenInv'
<1>1. Nested(config)
  BY DEF TimeInv, ClockTypes
<1>2. CASE UNCHANGED vars
  BY <1>2 DEF vars, WrittenInv, Labels, t
<1>3. CASE Step
  BY <1>1, <1>3, StepWritten
<1>4. CASE Output
  BY <1>1, <1>4, OutputWritten
<1>5. CASE PeriodicCheckpoint \/ Finish
  BY <1>1, <1>5, CheckpointWritten
<1>6. CASE Crash
  BY <1>6 DEF Crash, WrittenInv, Labels, t
<1>7. CASE \E label \in DOMAIN checkpoints[1] : Resume(label)
  BY <1>7, ResumeWritten
<1> QED  BY <1>2, <1>3, <1>4, <1>5, <1>6, <1>7 DEF Next

(***************************************************************************)
(* A run of runSurfaceLoop that ended wrote every output label after its   *)
(* start, from the state whose last step was taken at that time: the round *)
(* trip of a time through llround loses and shifts no label, in the first  *)
(* run and in one resumed from any of its checkpoints.                     *)
(***************************************************************************)
THEOREM EveryOutputIsWritten ==
  ASSUME \A c \in Configs : Nested(c)
  PROVE  Spec => []EveryOutput
<1>1. \A c \in Configs : Aligned(c)
  BY DEF Nested
<1>2. Spec => []TimeInv
  BY <1>1, TimeInvariant
<1>3. Spec => []SaveInv
  BY <1>1, SaveInvariant
<1>4. Init => WrittenInv
  BY InitWritten
<1>5. TimeInv /\ SaveInv /\ SaveInv' /\ WrittenInv /\ [Next]_vars => WrittenInv'
  BY NextWritten
<1>6. TimeInv /\ WrittenInv => EveryOutput
  <2> SUFFICES ASSUME TimeInv, WrittenInv, pc = "done",
                      NEW label \in Labels(t0, config.output)
               PROVE  /\ label \in DOMAIN outputs[run]
                      /\ outputs[run][label] # <<>>
                      /\ outputs[run][label][Len(outputs[run][label])] = label
    BY DEF EveryOutput
  <2>1. /\ config \in Configs /\ config.tEnd \in Nat /\ config.tStart \in Nat /\ t0 \in Nat
        /\ run \in 1..2 /\ t \in Nat
    BY Parameters, StepsReachEnd DEF TimeInv, ClockTypes
  <2>2. label \in Nat /\ t0 < label /\ label <= config.tEnd
    BY <2>1 DEF Labels
  <2>3. label <= t
    BY <2>1, <2>2 DEF WrittenInv
  <2>4. label \in DOMAIN outputs[run]
    BY <2>3 DEF WrittenInv
  <2>5. Reached(config, label, outputs[run][label])
    BY <2>1, <2>4 DEF WrittenInv
  <2>6. label > config.tStart
    BY <2>1, <2>2 DEF TimeInv, LiveOnTime, Starts
  <2> QED  BY <2>1, <2>4, <2>5, <2>6, LastStep
<1> QED  BY <1>2, <1>3, <1>4, <1>5, <1>6, PTL DEF Spec

=============================================================================
