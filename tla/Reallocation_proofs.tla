------------------------ MODULE Reallocation_proofs ------------------------
(***************************************************************************)
(* Proofs about Reallocation, for any row of columns and any soil: the     *)
(* type invariant, that no walk overfills a cell, so that the final clamp  *)
(* has nothing to cut, that the outlets are the last resort, that the      *)
(* order of the threads takes no cell out of contact with saturation, and  *)
(* that no water is lost or created that the audit does not measure.       *)
(***************************************************************************)
EXTENDS Reallocation, SumTheorems, TLAPS

\* Where a walk may stand relative to its sender; a column is done past NZ.
WalkOrder ==
  \A col \in Columns :
    /\ Top[col] <= sender[col] /\ Top[col] <= at[col]
    /\ leg[col] = "up" => at[col] <= sender[col]
    /\ leg[col] = "down" => sender[col] <= at[col]
    /\ left[col] > 0 => sender[col] <= NZ /\ at[col] <= NZ

\* The pass precedes the sweep.
PhaseOrder ==
  /\ phase = "classify" => \A col \in Columns : left[col] = 0
  /\ phase = "classify" => sender = Top /\ at = Top /\ leg = [col \in Columns |-> "up"]
  /\ phase # "classify" => todo = {}

\* While the pass runs, moisture it has not visited is what it was, and a cell
\* that was saturated still is.
SaturatedStays ==
  /\ before \in [Cells -> Nat]
  /\ phase = "classify" =>
       \A c \in Cells : (c \in todo => wc[c] = before[c])
                        /\ (before[c] >= Saturated => wc[c] >= Saturated)

Inv ==
  /\ TypeOK /\ WalkOrder /\ PhaseOrder /\ SaturatedStays
  /\ RoomIsFree /\ NothingClamped /\ OutletOnlyWhenFull /\ ContactIsKept

LEMMA CellsOf ==
  /\ \A c \in Cells : c = <<c[1], c[2]>> /\ c[1] \in Columns /\ c[2] \in Top[c[1]]..NZ
  /\ \A col \in Columns, l \in Int :
       l >= Top[col] /\ l <= NZ => <<col, l>> \in Cells
  /\ \A col \in Columns : Top[col] \in 1..NZ /\ <<col, Top[col]>> \in Cells
BY ReallocationAssumption DEF Cells

LEMMA InitInv == Init => Inv
<1> SUFFICES ASSUME Init PROVE Inv
  OBVIOUS
<1> USE CellsOf, ReallocationAssumption
<1>1. before \in [Cells -> Nat] /\ wc = before
  BY DEF Init
<1>2. TypeOK
  <2>1. sender \in [Columns -> 1..NZ + 1] /\ at \in [Columns -> 1..NZ + 1]
    BY DEF Init
  <2>2. pond \in [Columns -> Nat]
    BY DEF Init
  <2> QED
    BY <1>1, <2>1, <2>2 DEF Init, TypeOK
<1>3. WalkOrder /\ PhaseOrder /\ OutletOnlyWhenFull
  BY DEF Init, WalkOrder, PhaseOrder, OutletOnlyWhenFull
<1>4. SaturatedStays /\ RoomIsFree /\ NothingClamped /\ ContactIsKept
  BY <1>1 DEF Init, SaturatedStays, RoomIsFree, NothingClamped, ContactIsKept
<1> QED
  BY <1>2, <1>3, <1>4 DEF Inv

\* The pass leaves cell c with moisture w and room r.
Leaves(c, w, r) ==
  /\ w \in Nat /\ r \in Nat /\ w + r = Saturated
  /\ wc' = [wc EXCEPT ![c] = w] /\ room' = [room EXCEPT ![c] = r]
  /\ wc[c] >= Saturated => w = Saturated

\* What the three branches of the pass do to a cell's moisture and room.
LEMMA PassCell ==
  ASSUME Inv, NEW c \in Cells, NEW up \in Nat, NEW down \in Nat, Classify(c, up, down)
  PROVE  \E w, r : Leaves(c, w, r)
<1> USE ReallocationAssumption
<1>1. wc \in [Cells -> Nat] /\ room \in [Cells -> Nat] /\ h \in [Cells -> Heads]
  BY DEF Inv, TypeOK
<1>2. CASE Oversaturated(c, up, down)
  <2>1. wc' = [wc EXCEPT ![c] = Saturated] /\ room' = [room EXCEPT ![c] = 0]
    BY <1>2 DEF Oversaturated
  <2>2. Leaves(c, Saturated, 0)
    BY <2>1 DEF Leaves
  <2> QED
    BY <2>2
<1>3. CASE InContact(c, up, down)
  <2> DEFINE after == Retention[h[c]]
  <2>1. after \in Nat /\ Saturated - after \in Nat
    BY <1>1
  <2>2. wc' = [wc EXCEPT ![c] = after] /\ room' = [room EXCEPT ![c] = Saturated - after]
        /\ wc[c] < Saturated
    BY <1>3 DEF InContact
  <2> HIDE DEF after
  <2>3. after + (Saturated - after) = Saturated /\ ~(wc[c] >= Saturated)
    BY <1>1, <2>1, <2>2
  <2>4. Leaves(c, after, Saturated - after)
    BY <2>1, <2>2, <2>3 DEF Leaves
  <2> QED
    BY <2>4
<1>4. CASE Isolated(c)
  <2>1. /\ wc[c] \in Nat /\ wc[c] < Saturated /\ wc' = wc
        /\ room' = [room EXCEPT ![c] = Saturated - wc[c]]
    BY <1>1, <1>4 DEF Isolated
  <2>2. wc' = [wc EXCEPT ![c] = wc[c]] /\ Saturated - wc[c] \in Nat
    BY <1>1, <2>1
  <2>3. wc[c] + (Saturated - wc[c]) = Saturated /\ ~(wc[c] >= Saturated)
    BY <2>1
  <2>4. Leaves(c, wc[c], Saturated - wc[c])
    BY <2>1, <2>2, <2>3 DEF Leaves
  <2> QED
    BY <2>4
<1> QED
  BY <1>2, <1>3, <1>4 DEF Classify

\* And to the rest of the state.
LEMMA PassRest ==
  ASSUME Inv, NEW c \in Cells, NEW up \in Nat, NEW down \in Nat, Classify(c, up, down)
  PROVE  /\ phase = "classify" /\ c \in todo /\ todo' = todo \ {c}
         /\ UNCHANGED <<phase, before, sender, leg, at, left, pond, lost, vented, released,
                        clamped>>
         /\ contact' \in {contact, contact \union {c}}
         /\ sendUp' \in [Cells -> Nat] /\ sendDown' \in [Cells -> Nat]
         /\ adjusted' \in Int /\ h' \in [Cells -> Heads]
<1> USE ReallocationAssumption
<1>1. /\ wc \in [Cells -> Nat] /\ h \in [Cells -> Heads] /\ adjusted \in Int
      /\ sendUp \in [Cells -> Nat] /\ sendDown \in [Cells -> Nat]
  BY DEF Inv, TypeOK
<1>2. /\ phase = "classify" /\ todo' = todo \ {c}
      /\ UNCHANGED <<phase, before, sender, leg, at, left, pond, lost, vented, released, clamped>>
  BY DEF Classify, walk
<1>3. CASE Oversaturated(c, up, down)
  <2>1. sendUp' = [sendUp EXCEPT ![c] = up] /\ sendDown' = [sendDown EXCEPT ![c] = down]
        /\ adjusted' = adjusted - (wc[c] - Saturated - up - down)
    BY <1>3 DEF Oversaturated, Send
  <2>2. wc[c] \in Int
    BY <1>1
  <2>3. adjusted' \in Int
    BY <1>1, <2>1, <2>2
  <2> QED
    BY <1>1, <1>2, <1>3, <2>1, <2>3 DEF Oversaturated
<1>4. CASE InContact(c, up, down)
  <2> DEFINE after == Retention[h[c]]
  <2>1. after \in Int /\ wc[c] \in Int
    BY <1>1
  <2> HIDE DEF after
  <2>2. CASE Send(c, wc[c] - after, up, down)
    <3>1. sendUp' = [sendUp EXCEPT ![c] = up] /\ sendDown' = [sendDown EXCEPT ![c] = down]
          /\ adjusted' = adjusted - (wc[c] - after - up - down)
      BY <2>2 DEF Send
    <3>2. adjusted' \in Int
      BY <1>1, <2>1, <3>1
    <3> QED
      BY <1>1, <1>2, <1>4, <3>1, <3>2 DEF InContact
  <2>3. CASE adjusted' = adjusted + after - wc[c] /\ UNCHANGED <<sendUp, sendDown>>
    <3>1. adjusted' \in Int
      BY <1>1, <2>1, <2>3
    <3> QED
      BY <1>1, <1>2, <1>4, <2>3, <3>1 DEF InContact
  <2> QED
    BY <1>4, <2>2, <2>3 DEF InContact, after
<1>5. CASE Isolated(c)
  <2>1. wc[c] \in 0..Saturated - 1
    BY <1>1, <1>5 DEF Isolated
  <2>2. HeadOf[wc[c]] \in Heads
    BY <2>1
  <2>3. h' \in [Cells -> Heads]
    BY <1>1, <1>5, <2>2 DEF Isolated
  <2> QED
    BY <1>1, <1>2, <1>5, <2>3 DEF Isolated
<1> QED
  BY <1>3, <1>4, <1>5 DEF Classify

LEMMA PassStep ==
  ASSUME Inv, NEW c \in Cells, NEW up \in Nat, NEW down \in Nat, Classify(c, up, down)
  PROVE  Inv'
<1> USE ReallocationAssumption
<1>1. /\ phase = "classify" /\ c \in todo /\ todo' = todo \ {c}
      /\ UNCHANGED <<phase, before, sender, leg, at, left, pond, lost, vented, released, clamped>>
      /\ contact' \in {contact, contact \union {c}}
      /\ sendUp' \in [Cells -> Nat] /\ sendDown' \in [Cells -> Nat]
      /\ adjusted' \in Int /\ h' \in [Cells -> Heads]
  BY PassRest
<1>2. /\ wc \in [Cells -> Nat] /\ room \in [Cells -> Nat] /\ before \in [Cells -> Nat]
      /\ wc[c] = before[c]
  BY <1>1 DEF Inv, TypeOK, SaturatedStays
<1>3. PICK w \in Nat, r \in Nat :
        /\ w + r = Saturated
        /\ wc' = [wc EXCEPT ![c] = w] /\ room' = [room EXCEPT ![c] = r]
        /\ wc[c] >= Saturated => w = Saturated
  BY PassCell DEF Leaves
<1>4. TypeOK'
  <2>1. wc' \in [Cells -> Nat] /\ room' \in [Cells -> Nat]
    BY <1>2, <1>3
  <2>2. todo' \subseteq Cells /\ contact' \subseteq Cells
    BY <1>1 DEF Inv, TypeOK
  <2> QED
    BY <1>1, <2>1, <2>2 DEF Inv, TypeOK
<1>5. (WalkOrder /\ PhaseOrder /\ NothingClamped)'
  BY <1>1 DEF Inv, WalkOrder, PhaseOrder, NothingClamped
<1>6. SaturatedStays'
  <2> SUFFICES ASSUME NEW d \in Cells
               PROVE  /\ d \in todo' => wc'[d] = before[d]
                      /\ before[d] >= Saturated => wc'[d] >= Saturated
    BY <1>1, <1>2 DEF SaturatedStays
  <2>1. CASE d = c
    BY <1>1, <1>2, <1>3, <2>1
  <2>2. CASE d # c
    BY <1>1, <1>2, <1>3, <2>2 DEF Inv, SaturatedStays
  <2> QED
    BY <2>1, <2>2
<1>7. RoomIsFree'
  <2> SUFFICES ASSUME NEW d \in Cells, d \notin todo' PROVE wc'[d] + room'[d] = Saturated
    BY DEF RoomIsFree
  <2>1. CASE d = c
    BY <1>2, <1>3, <2>1
  <2>2. CASE d # c
    BY <1>1, <1>2, <1>3, <2>2 DEF Inv, RoomIsFree
  <2> QED
    BY <2>1, <2>2
<1>8. OutletOnlyWhenFull'
  BY <1>1 DEF Inv, PhaseOrder, OutletOnlyWhenFull
<1>9. ContactIsKept'
  <2> SUFFICES ASSUME NEW d \in Cells, d \notin todo', ContactBefore(d)' PROVE d \in contact'
    BY DEF ContactIsKept
  <2>1. ContactBefore(d)
    BY <1>1 DEF ContactBefore, WetTop
  <2>2. CASE d # c
    BY <1>1, <2>1, <2>2 DEF Inv, ContactIsKept
  <2>3. CASE d = c
    <3>1. wc[c] < Saturated
      BY <1>2, <2>1, <2>3 DEF ContactBefore
    <3>2. AdjSat(c)
      <4>1. CASE WetTop(c)
        BY <4>1 DEF AdjSat
      <4>2. ASSUME NEW n \in Neighbours(c), before[n] >= Saturated PROVE AdjSat(c)
        <5>1. n \in Cells
          BY DEF Neighbours
        <5>2. wc[n] >= Saturated
          BY <1>1, <4>2, <5>1 DEF Inv, SaturatedStays
        <5>3. Seen(c, n) >= Saturated
          BY <4>2, <5>2 DEF Seen
        <5> QED
          BY <4>2, <5>3 DEF AdjSat
      <4> QED
        BY <2>1, <2>3, <4>1, <4>2 DEF ContactBefore
    <3>3. ~(wc[c] >= Saturated)
      BY <1>2, <3>1
    <3>4. InContact(c, up, down)
      BY <3>2, <3>3 DEF Classify, Oversaturated, Isolated
    <3> QED
      BY <2>3, <3>4 DEF InContact
  <2> QED
    BY <2>2, <2>3
<1> QED
  BY <1>4, <1>5, <1>6, <1>7, <1>8, <1>9 DEF Inv

LEMMA EndClassifyStep == ASSUME Inv, EndClassify PROVE Inv'
<1> USE CellsOf, ReallocationAssumption
<1>1. /\ phase = "classify" /\ todo = {} /\ phase' = "send"
      /\ left' = [col \in Columns |-> sendUp[<<col, Top[col]>>]]
      /\ UNCHANGED <<before, wc, h, room, sendUp, sendDown, todo, sender, leg, at, pond, adjusted,
                     lost, vented, released, contact, clamped>>
  BY DEF EndClassify
<1>2. sender = Top /\ at = Top /\ leg = [col \in Columns |-> "up"]
  BY <1>1 DEF Inv, PhaseOrder
<1>3. left' \in [Columns -> Nat]
  BY <1>1 DEF Inv, TypeOK
<1>4. TypeOK'
  BY <1>1, <1>3 DEF Inv, TypeOK
<1>5. (WalkOrder /\ OutletOnlyWhenFull)'
  BY <1>1, <1>2, <1>3 DEF WalkOrder, OutletOnlyWhenFull
<1>6. (PhaseOrder /\ SaturatedStays /\ ContactIsKept /\ RoomIsFree /\ NothingClamped)'
  BY <1>1 DEF Inv, PhaseOrder, SaturatedStays, ContactIsKept, RoomIsFree, NothingClamped
<1> QED
  BY <1>4, <1>5, <1>6 DEF Inv

\* A walk that moves one cell on and leaves there what has room.
LEMMA DepositStep ==
  ASSUME Inv, phase = "send", NEW col \in Columns, NEW layer \in Int,
         left[col] > 0, Deposit(col, layer),
         \/ leg[col] = "up" /\ layer = at[col] - 1 /\ layer >= Top[col]
         \/ leg[col] # "up" /\ layer = at[col] + 1 /\ layer <= NZ
  PROVE  Inv'
<1> USE ReallocationAssumption
<1> DEFINE c == <<col, layer>>
<1>1. /\ sender \in [Columns -> 1..NZ + 1] /\ leg \in [Columns -> {"up", "back", "down"}]
      /\ at \in [Columns -> 1..NZ + 1] /\ left \in [Columns -> Nat]
      /\ wc \in [Cells -> Nat] /\ room \in [Cells -> Nat]
      /\ Top[col] <= sender[col] /\ Top[col] <= at[col]
      /\ leg[col] = "up" => at[col] <= sender[col]
      /\ leg[col] = "down" => sender[col] <= at[col]
      /\ sender[col] <= NZ /\ at[col] <= NZ
  BY DEF Inv, TypeOK, WalkOrder
<1>2. layer \in Top[col]..NZ /\ layer \in 1..NZ + 1
  BY <1>1, CellsOf
<1>3. c \in Cells
  BY <1>2, CellsOf
<1>4. room[c] \in Nat /\ left[col] \in Nat /\ wc[c] \in Nat
  BY <1>1, <1>3
<1>5. PICK x \in Nat : /\ x = Smaller(room[c], left[col]) /\ x <= room[c] /\ x <= left[col]
                       /\ x = room[c] \/ x = left[col]
  BY <1>4 DEF Smaller
<1>6. /\ wc' = [wc EXCEPT ![c] = wc[c] + x] /\ room' = [room EXCEPT ![c] = room[c] - x]
      /\ at' = [at EXCEPT ![col] = layer] /\ left' = [left EXCEPT ![col] = left[col] - x]
      /\ UNCHANGED <<phase, before, h, sendUp, sendDown, todo, sender, leg, pond, adjusted, lost,
                     vented, released, contact, clamped>>
  BY <1>5 DEF Deposit
<1>7. wc[c] + x \in Nat /\ room[c] - x \in Nat /\ left[col] - x \in Nat
  <2> DEFINE w == wc[c]
             m == room[c]
             n == left[col]
  <2>1. w \in Nat /\ m \in Nat /\ n \in Nat /\ x <= m /\ x <= n
    BY <1>4, <1>5
  <2> HIDE DEF w, m, n
  <2>2. w + x \in Nat /\ m - x \in Nat /\ n - x \in Nat
    BY <2>1
  <2> QED
    BY <2>2 DEF w, m, n
<1>8. TypeOK'
  <2>1. wc' \in [Cells -> Nat] /\ room' \in [Cells -> Nat]
    BY <1>1, <1>6, <1>7
  <2>2. at' \in [Columns -> 1..NZ + 1] /\ left' \in [Columns -> Nat]
    BY <1>1, <1>2, <1>6, <1>7
  <2> QED
    BY <1>6, <2>1, <2>2 DEF Inv, TypeOK
<1>9. WalkOrder'
  <2> SUFFICES ASSUME NEW e \in Columns
               PROVE  /\ Top[e] <= sender[e] /\ Top[e] <= at'[e]
                      /\ leg[e] = "up" => at'[e] <= sender[e]
                      /\ leg[e] = "down" => sender[e] <= at'[e]
                      /\ left'[e] > 0 => sender[e] <= NZ /\ at'[e] <= NZ
    BY <1>6 DEF WalkOrder
  <2>1. CASE e # col
    BY <1>1, <1>6, <2>1 DEF Inv, WalkOrder
  <2>2. CASE e = col
    <3>1. at'[e] = layer
      BY <1>1, <1>6, <2>2
    <3> QED
      BY <1>1, <1>2, <2>2, <3>1, CellsOf
  <2> QED
    BY <2>1, <2>2
<1>10. (PhaseOrder /\ SaturatedStays /\ NothingClamped /\ ContactIsKept)'
  BY <1>6 DEF Inv, PhaseOrder, SaturatedStays, NothingClamped, ContactIsKept
<1>11. RoomIsFree'
  <2> SUFFICES ASSUME NEW d \in Cells, d \notin todo PROVE wc'[d] + room'[d] = Saturated
    BY <1>6 DEF RoomIsFree
  <2>1. wc[d] + room[d] = Saturated
    BY DEF Inv, RoomIsFree
  <2>2. CASE d = c
    BY <1>1, <1>4, <1>5, <1>6, <2>1, <2>2
  <2>3. CASE d # c
    BY <1>1, <1>6, <2>1, <2>3
  <2> QED
    BY <2>2, <2>3
<1>12. OutletOnlyWhenFull'
  <2> SUFFICES ASSUME NEW e \in Columns, left'[e] > 0
               PROVE  /\ leg[e] = "up" => \A l \in at'[e]..sender[e] - 1 : room'[<<e, l>>] = 0
                      /\ leg[e] = "down" => \A l \in sender[e] + 1..at'[e] : room'[<<e, l>>] = 0
                      /\ leg[e] = "back" =>
                           \A l \in Top[e]..at'[e] : l = sender[e] \/ room'[<<e, l>>] = 0
    <3>1. sender' = sender /\ leg' = leg
      BY <1>6
    <3> QED
      BY <3>1 DEF OutletOnlyWhenFull
  <2>1. CASE e # col
    <3>1. at'[e] = at[e] /\ left'[e] = left[e]
      BY <1>1, <1>6, <2>1
    <3>2. \A l : room[<<e, l>>] = 0 => room'[<<e, l>>] = 0
      BY <1>1, <1>6, <2>1
    <3> QED
      BY <3>1, <3>2 DEF Inv, OutletOnlyWhenFull
  <2>2. CASE e = col
    <3>1. at'[e] = layer /\ left'[e] = left[e] - x
      BY <1>1, <1>6, <2>2
    <3>2. room'[<<e, layer>>] = 0
      <4>1. x # left[col]
        BY <1>4, <2>2, <3>1
      <4>2. room[c] - x = 0
        BY <1>4, <1>5, <4>1
      <4>3. room'[c] = room[c] - x
        BY <1>1, <1>3, <1>6
      <4> QED
        BY <2>2, <4>2, <4>3
    <3>3. \A l : l # layer /\ room[<<e, l>>] = 0 => room'[<<e, l>>] = 0
      BY <1>1, <1>6, <2>2
    <3>4. left[e] > 0
      BY <2>2
    <3>5. CASE leg[e] = "up"
      <4>1. \A l \in at[e]..sender[e] - 1 : room[<<e, l>>] = 0
        BY <3>4, <3>5 DEF Inv, OutletOnlyWhenFull
      <4>2. \A l \in layer..sender[e] - 1 : l = layer \/ l \in at[e]..sender[e] - 1
        BY <1>1, <2>2, <3>5
      <4> QED
        BY <3>1, <3>2, <3>3, <3>5, <4>1, <4>2
    <3>6. CASE leg[e] = "down"
      <4>1. \A l \in sender[e] + 1..at[e] : room[<<e, l>>] = 0
        BY <3>4, <3>6 DEF Inv, OutletOnlyWhenFull
      <4>2. \A l \in sender[e] + 1..layer : l = layer \/ l \in sender[e] + 1..at[e]
        BY <1>1, <2>2, <3>6
      <4> QED
        BY <3>1, <3>2, <3>3, <3>6, <4>1, <4>2
    <3>7. CASE leg[e] = "back"
      <4>1. \A l \in Top[e]..at[e] : l = sender[e] \/ room[<<e, l>>] = 0
        BY <3>4, <3>7 DEF Inv, OutletOnlyWhenFull
      <4>2. \A l \in Top[e]..layer : l = layer \/ l \in Top[e]..at[e]
        BY <1>1, <2>2, <3>7
      <4> QED
        BY <3>1, <3>2, <3>3, <3>7, <4>1, <4>2
    <3> QED
      BY <3>5, <3>6, <3>7
  <2> QED
    BY <2>1, <2>2
<1> QED
  BY <1>8, <1>9, <1>10, <1>11, <1>12 DEF Inv

\* A walk that changes direction, ends, or starts, without touching a cell.
Turns(col, k, l, a, v) ==
  /\ SameCells
  /\ sender' = [sender EXCEPT ![col] = k] /\ leg' = [leg EXCEPT ![col] = l]
  /\ at' = [at EXCEPT ![col] = a] /\ left' = [left EXCEPT ![col] = v]

\* It turns at the top or at its sender, or carries nothing.
TurnsAt(col, k, l, a, v) ==
  /\ k \in 1..NZ + 1 /\ l \in {"up", "back", "down"} /\ a \in 1..NZ + 1 /\ v \in Nat
  /\ Top[col] <= k /\ Top[col] <= a
  /\ l = "up" => a <= k
  /\ l = "down" => k <= a
  /\ v > 0 => /\ k <= NZ /\ a <= NZ
              /\ l = "back" => a = Top[col] /\ (a = k \/ room[<<col, a>>] = 0)
              /\ l # "back" => a = k

Tallies ==
  pond' \in [Columns -> Nat] /\ lost' \in Nat /\ vented' \in Nat /\ released' \in Nat

LEMMA TurnStep ==
  ASSUME Inv, phase = "send", NEW col \in Columns, NEW k, NEW l, NEW a, NEW v,
         Turns(col, k, l, a, v), TurnsAt(col, k, l, a, v), Tallies
  PROVE  Inv'
<1> USE DEF Turns, TurnsAt, Tallies
<1> USE ReallocationAssumption
<1>1. /\ sender \in [Columns -> 1..NZ + 1] /\ leg \in [Columns -> {"up", "back", "down"}]
      /\ at \in [Columns -> 1..NZ + 1] /\ left \in [Columns -> Nat]
      /\ Top[col] \in 1..NZ
  BY DEF Inv, TypeOK
<1>2. /\ sender'[col] = k /\ leg'[col] = l /\ at'[col] = a /\ left'[col] = v
      /\ \A e \in Columns : e # col =>
           sender'[e] = sender[e] /\ leg'[e] = leg[e] /\ at'[e] = at[e] /\ left'[e] = left[e]
  BY <1>1
<1>3. TypeOK'
  <2>1. /\ sender' \in [Columns -> 1..NZ + 1] /\ leg' \in [Columns -> {"up", "back", "down"}]
        /\ at' \in [Columns -> 1..NZ + 1] /\ left' \in [Columns -> Nat]
    BY <1>1
  <2> QED
    BY <2>1 DEF Inv, TypeOK, SameCells
<1>4. WalkOrder'
  <2> SUFFICES ASSUME NEW e \in Columns
               PROVE  /\ Top[e] <= sender'[e] /\ Top[e] <= at'[e]
                      /\ leg'[e] = "up" => at'[e] <= sender'[e]
                      /\ leg'[e] = "down" => sender'[e] <= at'[e]
                      /\ left'[e] > 0 => sender'[e] <= NZ /\ at'[e] <= NZ
    BY DEF WalkOrder
  <2>1. CASE e # col
    BY <1>2, <2>1 DEF Inv, WalkOrder
  <2>2. CASE e = col
    BY <1>2, <2>2
  <2> QED
    BY <2>1, <2>2
<1>5. (PhaseOrder /\ SaturatedStays /\ RoomIsFree /\ NothingClamped /\ ContactIsKept)'
  BY DEF Inv, PhaseOrder, SaturatedStays, RoomIsFree, NothingClamped, ContactIsKept, SameCells
<1>6. OutletOnlyWhenFull'
  <2> SUFFICES ASSUME NEW e \in Columns, left'[e] > 0
               PROVE  /\ leg'[e] = "up" => \A i \in at'[e]..sender'[e] - 1 : room[<<e, i>>] = 0
                      /\ leg'[e] = "down" => \A i \in sender'[e] + 1..at'[e] : room[<<e, i>>] = 0
                      /\ leg'[e] = "back" =>
                           \A i \in Top[e]..at'[e] : i = sender'[e] \/ room[<<e, i>>] = 0
    BY DEF OutletOnlyWhenFull, SameCells
  <2>1. CASE e # col
    BY <1>2, <2>1 DEF Inv, OutletOnlyWhenFull
  <2>2. CASE e = col
    <3>1. v > 0
      BY <1>2, <2>2
    <3>2. CASE l = "back"
      <4>1. a = Top[col] /\ (a = k \/ room[<<col, a>>] = 0)
        BY <3>1, <3>2
      <4>2. \A i \in Top[col]..a : i = a
        BY <1>1, <4>1
      <4>3. \A i \in Top[col]..a : i = k \/ room[<<col, i>>] = 0
        BY <4>1, <4>2
      <4> QED
        BY <1>2, <2>2, <3>2, <4>3
    <3>3. CASE l # "back"
      <4>1. a = k
        BY <3>1, <3>3
      <4>2. a..k - 1 = {} /\ k + 1..a = {}
        BY <4>1
      <4> QED
        BY <1>2, <2>2, <3>3, <4>2
    <3> QED
      BY <3>2, <3>3
  <2> QED
    BY <2>1, <2>2
<1> QED
  BY <1>3, <1>4, <1>5, <1>6 DEF Inv

LEMMA SweepStep == ASSUME Inv, NEW col \in Columns, Sweep(col) PROVE Inv'
<1> USE ReallocationAssumption
<1>1. /\ sender \in [Columns -> 1..NZ + 1] /\ leg \in [Columns -> {"up", "back", "down"}]
      /\ at \in [Columns -> 1..NZ + 1] /\ left \in [Columns -> Nat]
      /\ Top[col] \in 1..NZ /\ Top[col] <= sender[col] /\ Top[col] <= at[col]
      /\ leg[col] = "up" => at[col] <= sender[col]
      /\ leg[col] = "down" => sender[col] <= at[col]
      /\ left[col] > 0 => sender[col] <= NZ /\ at[col] <= NZ
  BY DEF Inv, TypeOK, WalkOrder
<1>2. pond \in [Columns -> Nat] /\ lost \in Nat /\ vented \in Nat /\ released \in Nat
  BY DEF Inv, TypeOK
<1>3. /\ sender = [sender EXCEPT ![col] = sender[col]] /\ leg = [leg EXCEPT ![col] = leg[col]]
      /\ at = [at EXCEPT ![col] = at[col]] /\ left = [left EXCEPT ![col] = left[col]]
      /\ sender[col] \in 1..NZ + 1 /\ leg[col] \in {"up", "back", "down"}
      /\ at[col] \in 1..NZ + 1 /\ left[col] \in Nat
  BY <1>1
<1>4. CASE Climb(col)
  <2>1. at[col] - 1 \in Int /\ at[col] - 1 >= Top[col]
    BY <1>1, <1>3, <1>4 DEF Climb
  <2> QED
    BY <1>4, <2>1, DepositStep DEF Climb
<1>5. CASE Sink(col)
  <2>1. at[col] + 1 \in Int /\ at[col] + 1 <= NZ /\ leg[col] # "up"
    BY <1>1, <1>3, <1>5 DEF Sink
  <2> QED
    BY <1>5, <2>1, DepositStep DEF Sink
<1>6. ASSUME SetDown(col), SameCells, phase = "send", Tallies
      PROVE  Inv'
  <2>1. Turns(col, sender[col], leg[col], at[col], 0)
    BY <1>1, <1>6 DEF SetDown, Turns
  <2>2. TurnsAt(col, sender[col], leg[col], at[col], 0)
    BY <1>1, <1>3 DEF TurnsAt
  <2> QED
    BY <1>6, <2>1, <2>2, TurnStep
<1>7. CASE Outlet(col)
  <2>1. SameCells /\ phase = "send" /\ left[col] \in Nat /\ left[col] > 0 /\ leg[col] = "up"
        /\ at[col] = Top[col]
    BY <1>1, <1>7 DEF Outlet
  <2>2. CASE TopKind[col] = "closed"
    <3>1. /\ leg' = [leg EXCEPT ![col] = "back"]
          /\ UNCHANGED <<sender, at, left, pond, lost, vented, released>>
      BY <1>7, <2>2 DEF Outlet
    <3>2. at[col] = sender[col] \/ room[<<col, at[col]>>] = 0
      BY <1>1, <2>1 DEF Inv, OutletOnlyWhenFull
    <3>3. Turns(col, sender[col], "back", at[col], left[col])
      BY <1>1, <2>1, <3>1 DEF Turns
    <3>4. TurnsAt(col, sender[col], "back", at[col], left[col])
      BY <1>1, <1>3, <2>1, <3>2 DEF TurnsAt
    <3>5. Tallies
      BY <1>2, <3>1 DEF Tallies
    <3> QED
      BY <2>1, <3>3, <3>4, <3>5, TurnStep
  <2>3. CASE TopKind[col] # "closed"
    <3>1. SetDown(col)
      BY <1>7, <2>3 DEF Outlet
    <3>2. /\ pond' = pond \/ pond' = [pond EXCEPT ![col] = pond[col] + left[col]]
          /\ lost' = lost \/ lost' = lost + left[col]
          /\ vented' = vented \/ vented' = vented + left[col]
          /\ released' = released \/ released' = released + left[col]
      BY <1>7, <2>3 DEF Outlet
    <3>3. pond' \in [Columns -> Nat]
      BY <1>2, <2>1, <3>2
    <3>4. lost' \in Nat /\ vented' \in Nat /\ released' \in Nat
      <4>1. lost + left[col] \in Nat /\ vented + left[col] \in Nat /\ released + left[col] \in Nat
        <5> DEFINE v == left[col]
        <5>1. v \in Nat
          BY <2>1
        <5> HIDE DEF v
        <5>2. lost + v \in Nat /\ vented + v \in Nat /\ released + v \in Nat
          BY <1>2, <5>1
        <5> QED
          BY <5>2 DEF v
      <4>2. lost' \in Nat
        BY <1>2, <3>2, <4>1
      <4>3. vented' \in Nat
        BY <1>2, <3>2, <4>1
      <4>4. released' \in Nat
        BY <1>2, <3>2, <4>1
      <4> QED
        BY <4>2, <4>3, <4>4
    <3>5. Tallies
      BY <3>3, <3>4 DEF Tallies
    <3> QED
      BY <1>6, <2>1, <3>1, <3>5
  <2> QED
    BY <2>2, <2>3
<1>8. CASE Drop(col)
  <2>1. SetDown(col) /\ SameCells /\ phase = "send" /\ lost' = lost + left[col]
        /\ UNCHANGED <<pond, vented, released>>
    BY <1>8 DEF Drop
  <2>2. lost + left[col] \in Nat
    <3>1. lost \in Nat /\ left[col] \in Nat
      BY <1>2, <1>3
    <3> QED
      BY <3>1
  <2>3. Tallies
    BY <1>2, <2>1, <2>2 DEF Tallies
  <2> QED
    BY <1>6, <2>1, <2>3
<1>9. CASE ThenDown(col)
  <2>1. /\ phase = "send" /\ SameCells /\ UNCHANGED <<sender, pond, lost, vented, released>>
        /\ leg' = [leg EXCEPT ![col] = "down"] /\ at' = [at EXCEPT ![col] = sender[col]]
        /\ left' = [left EXCEPT ![col] = sendDown[<<col, sender[col]>>]]
        /\ sender[col] <= NZ
    BY <1>9 DEF ThenDown
  <2>2. <<col, sender[col]>> \in Cells
    BY <1>1, <1>3, <2>1, CellsOf
  <2>3. sendDown[<<col, sender[col]>>] \in Nat
    BY <2>2 DEF Inv, TypeOK
  <2> DEFINE share == sendDown[<<col, sender[col]>>]
  <2>4. share \in Nat
    BY <2>3
  <2> HIDE DEF share
  <2>5. Turns(col, sender[col], "down", sender[col], share)
    BY <1>1, <2>1 DEF Turns, share
  <2>6. TurnsAt(col, sender[col], "down", sender[col], share)
    BY <1>1, <1>3, <2>1, <2>4 DEF TurnsAt
  <2>7. Tallies
    BY <1>2, <2>1 DEF Tallies
  <2> QED
    BY <2>1, <2>5, <2>6, <2>7, TurnStep
<1>10. CASE NextSender(col)
  <2> DEFINE k == sender[col] + 1
             share == IF k <= NZ THEN sendUp[<<col, k>>] ELSE 0
  <2>1. /\ phase = "send" /\ SameCells /\ UNCHANGED <<pond, lost, vented, released>>
        /\ sender' = [sender EXCEPT ![col] = k] /\ at' = [at EXCEPT ![col] = k]
        /\ leg' = [leg EXCEPT ![col] = "up"] /\ left' = [left EXCEPT ![col] = share]
        /\ sender[col] <= NZ
    BY <1>10 DEF NextSender
  <2>2. k \in 1..NZ + 1 /\ Top[col] <= k
    BY <1>1, <1>3, <2>1
  <2>3. k <= NZ => <<col, k>> \in Cells
    BY <2>2, CellsOf
  <2>4. share \in Nat /\ (share > 0 => k <= NZ)
    BY <2>3 DEF Inv, TypeOK
  <2> HIDE DEF k, share
  <2>5. Turns(col, k, "up", k, share)
    BY <2>1 DEF Turns
  <2>6. TurnsAt(col, k, "up", k, share)
    BY <2>2, <2>4 DEF TurnsAt
  <2>7. Tallies
    BY <1>2, <2>1 DEF Tallies
  <2> QED
    BY <2>1, <2>5, <2>6, <2>7, TurnStep
<1> QED
  BY <1>4, <1>5, <1>7, <1>8, <1>9, <1>10 DEF Sweep

\* The room the sweep fills is free, so the clamp changes no cell.
LEMMA FinalizeKeeps == ASSUME Inv, Finalize PROVE clamped' = {} /\ wc' = wc
<1>1. /\ phase = "send" /\ wc' = [c \in Cells |-> Smaller(wc[c], Saturated)]
      /\ clamped' = {c \in Cells : wc[c] > Saturated}
  BY DEF Finalize
<1>2. todo = {} /\ wc \in [Cells -> Nat] /\ room \in [Cells -> Nat]
  BY <1>1 DEF Inv, TypeOK, PhaseOrder
<1>3. \A c \in Cells : wc[c] \in Nat /\ wc[c] <= Saturated
  BY <1>2, ReallocationAssumption DEF Inv, RoomIsFree
<1>4. \A c \in Cells : Smaller(wc[c], Saturated) = wc[c] /\ ~(wc[c] > Saturated)
  BY <1>3, ReallocationAssumption DEF Smaller
<1> QED
  BY <1>1, <1>2, <1>4

LEMMA FinalizeStep == ASSUME Inv, Finalize PROVE Inv'
<1>1. /\ phase = "send" /\ phase' = "done" /\ clamped' = {} /\ wc' = wc
      /\ UNCHANGED <<before, h, room, sendUp, sendDown, todo, sender, leg, at, left, pond,
                     adjusted, lost, vented, released, contact>>
  BY FinalizeKeeps DEF Finalize, walk
<1>2. TypeOK'
  BY <1>1 DEF Inv, TypeOK
<1> QED
  BY <1>1, <1>2 DEF Inv, WalkOrder, PhaseOrder, SaturatedStays, RoomIsFree, NothingClamped,
                    OutletOnlyWhenFull, ContactIsKept

LEMMA StepInv == Inv /\ [Next]_vars => Inv'
<1> SUFFICES ASSUME Inv, [Next]_vars PROVE Inv'
  OBVIOUS
<1>1. ASSUME NEW c \in todo, NEW up \in 0..Larger(MaxTheta, Saturated),
             NEW down \in 0..Larger(MaxTheta, Saturated), Classify(c, up, down)
      PROVE  Inv'
  <2>1. c \in Cells /\ up \in Nat /\ down \in Nat
    BY DEF Inv, TypeOK
  <2> QED
    BY <1>1, <2>1, PassStep
<1>2. CASE EndClassify
  BY <1>2, EndClassifyStep
<1>3. ASSUME NEW col \in Columns, Sweep(col) PROVE Inv'
  BY <1>3, SweepStep
<1>4. CASE Finalize
  BY <1>4, FinalizeStep
<1>5. CASE UNCHANGED vars
  BY <1>5 DEF vars, walk, Inv, TypeOK, WalkOrder, PhaseOrder, SaturatedStays, RoomIsFree,
              NothingClamped, OutletOnlyWhenFull, ContactIsKept, ContactBefore, WetTop
<1> QED
  BY <1>1, <1>2, <1>3, <1>4, <1>5 DEF Next

\* The conjunction of the module's invariants with what they need to be inductive.
THEOREM Invariance == Spec => []Inv
BY InitInv, StepInv, PTL DEF Spec

\* Moisture, room and the walks stay in their ranges; in particular no room and
\* no volume carried is ever negative.
THEOREM TypeCorrect == Spec => []TypeOK
<1>1. Inv => TypeOK
  BY DEF Inv
<1> QED
  BY <1>1, Invariance, PTL

\* No walk overfills a cell: the room the sweep fills is the room there is.
THEOREM NoOverfill == Spec => []RoomIsFree
<1>1. Inv => RoomIsFree
  BY DEF Inv
<1> QED
  BY <1>1, Invariance, PTL

\* The final clamp of finalizeWaterContent has no delivery of the sweep to cut.
THEOREM ClampCutsNothing == Spec => []NothingClamped
<1>1. Inv => NothingClamped
  BY DEF Inv
<1> QED
  BY <1>1, Invariance, PTL

\* Water is vented, released or dropped only when the cells on the way are full.
THEOREM OutletsAreLastResort == Spec => []OutletOnlyWhenFull
<1>1. Inv => OutletOnlyWhenFull
  BY DEF Inv
<1> QED
  BY <1>1, Invariance, PTL

\* The race between the threads of the pass only ever adds cells in contact.
THEOREM RaceIsOneSided == Spec => []ContactIsKept
<1>1. Inv => ContactIsKept
  BY DEF Inv
<1> QED
  BY <1>1, Invariance, PTL

----------------------------------------------------------------------------
(* The account of the water.  Every step moves volume between a cell, a     *)
(* walk and a tally, so it changes at most two of the summands.             *)

\* A cell the pass has not visited sends nothing yet.
NothingSentYet == phase = "classify" => \A c \in todo : sendUp[c] = 0 /\ sendDown[c] = 0

Total == SumFunctionOnSet(Balance, Cells)

LEMMA CellsFinite == IsFiniteSet(Cells)
<1>1. IsFiniteSet(Columns) /\ NZ \in Int
  BY ReallocationAssumption
<1>2. IsFiniteSet(1..NZ)
  BY <1>1, FS_Interval
<1>3. IsFiniteSet(Columns \X (1..NZ))
  BY <1>1, <1>2, FS_Product
<1> QED
  BY <1>3, FS_Subset DEF Cells

Balanced == \A c \in Cells : Balance[c] \in Int

LEMMA BalanceType == Inv => Balanced
<1> SUFFICES ASSUME Inv, NEW c \in Cells PROVE Balance[c] \in Int
  BY DEF Balanced
<1>1. c[1] \in Columns
  BY CellsOf
<1>2. /\ wc[c] \in Nat /\ before[c] \in Nat /\ sendUp[c] \in Nat /\ sendDown[c] \in Nat
      /\ left[c[1]] \in Nat
  BY <1>1 DEF Inv, TypeOK, SaturatedStays
<1>3. Waiting(c) \in Int
  BY <1>2 DEF Waiting
<1> QED
  BY <1>2, <1>3 DEF Balance

\* A step that changes the balance of one cell changes the total by as much.
LEMMA OneCell ==
  ASSUME Inv, Inv', NEW s \in Cells, NEW x \in Int, Balance'[s] = Balance[s] + x,
         \A d \in Cells : d # s => Balance'[d] = Balance[d]
  PROVE  Total' = Total + x /\ Total \in Int
<1>1. /\ \A d \in Cells : Balance[d] \in Int /\ Balance'[d] \in Int
  <2>1. Balanced /\ Balanced'
    BY BalanceType, PTL
  <2> QED
    BY <2>1 DEF Balanced
<1> DEFINE f == Balance
           g == Balance'
<1>2. Total = SumFunctionOnSet(f, Cells) /\ Total' = SumFunctionOnSet(g, Cells)
  BY DEF Total
<1>3. /\ \A d \in Cells : f[d] \in Int /\ g[d] \in Int
      /\ \A d \in Cells \ {s} : g[d] = f[d]
      /\ g[s] = f[s] + x
  BY <1>1
<1> HIDE DEF f, g
<1>4. SumFunctionOnSet(g, Cells) = SumFunctionOnSet(f, Cells) + g[s] - f[s]
  BY <1>3, CellsFinite, SumChange
<1>5. SumFunctionOnSet(f, Cells) \in Int
  BY <1>3, CellsFinite, SumType
<1> QED
  BY <1>2, <1>3, <1>4, <1>5

\* A step that takes x from what one cell has under way and leaves it in a cell,
\* the same one or another, changes nothing in the total.
LEMMA TwoCells ==
  ASSUME Inv, Inv', NEW s \in Cells, NEW c \in Cells, NEW x \in Int,
         \A d \in Cells : Balance'[d] = Balance[d] + (IF d = c THEN x ELSE 0)
                                                   - (IF d = s THEN x ELSE 0)
  PROVE  Total' = Total
<1>1. /\ \A d \in Cells : Balance[d] \in Int /\ Balance'[d] \in Int
  <2>1. Balanced /\ Balanced'
    BY BalanceType, PTL
  <2> QED
    BY <2>1 DEF Balanced
<1> DEFINE f == Balance
           g == Balance'
           m == [d \in Cells |-> IF d = c THEN f[d] + x ELSE f[d]]
<1>2. Total = SumFunctionOnSet(f, Cells) /\ Total' = SumFunctionOnSet(g, Cells)
  BY DEF Total
<1>3. /\ \A d \in Cells : f[d] \in Int /\ g[d] \in Int
      /\ \A d \in Cells : g[d] = f[d] + (IF d = c THEN x ELSE 0) - (IF d = s THEN x ELSE 0)
  BY <1>1
<1> HIDE DEF f, g
<1>4. /\ \A d \in Cells : m[d] \in Int
      /\ m[c] = f[c] + x /\ \A d \in Cells \ {c} : m[d] = f[d]
      /\ g[s] = m[s] - x /\ \A d \in Cells \ {s} : g[d] = m[d]
  BY <1>3
<1> HIDE DEF m
<1>5. SumFunctionOnSet(m, Cells) = SumFunctionOnSet(f, Cells) + m[c] - f[c]
  BY <1>3, <1>4, CellsFinite, SumChange
<1>6. SumFunctionOnSet(g, Cells) = SumFunctionOnSet(m, Cells) + g[s] - m[s]
  BY <1>3, <1>4, CellsFinite, SumChange
<1>7. SumFunctionOnSet(f, Cells) \in Int /\ m[s] \in Int /\ f[c] \in Int
  BY <1>3, <1>4, CellsFinite, SumType
<1> QED
  BY <1>2, <1>4, <1>5, <1>6, <1>7

\* A step that changes no balance leaves the total.
LEMMA NoCell ==
  ASSUME \A d \in Cells : Balance'[d] = Balance[d]
  PROVE  Total' = Total
<1> DEFINE f == Balance
           g == Balance'
<1>1. Total = SumFunctionOnSet(f, Cells) /\ Total' = SumFunctionOnSet(g, Cells)
  BY DEF Total
<1>2. \A d \in Cells : g[d] = f[d]
  OBVIOUS
<1> HIDE DEF f, g
<1> QED
  BY <1>1, <1>2, CellsFinite, SumSame

\* The pass takes from a cell what it leaves to be sent, and measures the rest.
LEMMA PassTotal ==
  ASSUME Inv, Inv', NothingSentYet, NEW c \in Cells, NEW up \in Nat, NEW down \in Nat,
         Classify(c, up, down)
  PROVE  Total' = Total + adjusted' - adjusted
<1> USE ReallocationAssumption
<1>1. /\ phase = "classify" /\ c \in todo
      /\ UNCHANGED <<phase, before, sender, leg, left>>
  BY PassRest
<1>2. /\ wc \in [Cells -> Nat] /\ h \in [Cells -> Heads] /\ adjusted \in Int
      /\ sendUp \in [Cells -> Nat] /\ sendDown \in [Cells -> Nat]
      /\ before \in [Cells -> Nat] /\ sendUp[c] = 0 /\ sendDown[c] = 0
  BY <1>1 DEF Inv, TypeOK, SaturatedStays, NothingSentYet
<1>3. \A d \in Cells : /\ Balance[d] = wc[d] + (sendUp[d] + sendDown[d]) - before[d]
                       /\ Balance'[d] = wc'[d] + (sendUp'[d] + sendDown'[d]) - before[d]
  <2> SUFFICES ASSUME NEW d \in Cells
               PROVE  /\ Balance[d] = wc[d] + (sendUp[d] + sendDown[d]) - before[d]
                      /\ Balance'[d] = wc'[d] + (sendUp'[d] + sendDown'[d]) - before[d]
    OBVIOUS
  <2>1. Waiting(d) = sendUp[d] + sendDown[d] /\ Waiting(d)' = sendUp'[d] + sendDown'[d]
    BY <1>1 DEF Waiting
  <2> QED
    BY <1>1, <2>1 DEF Balance
<1>4. ASSUME NEW w \in Nat, NEW u \in Nat, NEW v \in Nat,
             wc' = [wc EXCEPT ![c] = w], sendUp' = [sendUp EXCEPT ![c] = u],
             sendDown' = [sendDown EXCEPT ![c] = v], adjusted' = adjusted + w + u + v - wc[c]
      PROVE  Total' = Total + adjusted' - adjusted
  <2>1. \A d \in Cells : d # c => Balance'[d] = Balance[d]
    BY <1>2, <1>3, <1>4
  <2> DEFINE x == w + u + v - wc[c]
  <2>2. x \in Int /\ wc'[c] = w /\ sendUp'[c] = u /\ sendDown'[c] = v
    BY <1>2, <1>4
  <2>3. Balance'[c] = Balance[c] + x
    <3>1. Balance[c] = wc[c] + (sendUp[c] + sendDown[c]) - before[c]
      BY <1>3
    <3>2. Balance'[c] = w + (u + v) - before[c]
      BY <1>3, <2>2
    <3>3. wc[c] \in Int /\ before[c] \in Int /\ sendUp[c] = 0 /\ sendDown[c] = 0
      BY <1>2
    <3> QED
      BY <3>1, <3>2, <3>3
  <2>4. adjusted' = adjusted + x
    BY <1>2, <1>4
  <2> HIDE DEF x
  <2>5. Total' = Total + x /\ Total \in Int
    BY <2>1, <2>2, <2>3, OneCell
  <2> QED
    BY <1>2, <2>2, <2>4, <2>5
<1>5. CASE Oversaturated(c, up, down)
  <2>1. /\ wc' = [wc EXCEPT ![c] = Saturated]
        /\ sendUp' = [sendUp EXCEPT ![c] = up] /\ sendDown' = [sendDown EXCEPT ![c] = down]
        /\ adjusted' = adjusted - (wc[c] - Saturated - up - down)
    BY <1>5 DEF Oversaturated, Send
  <2>2. adjusted' = adjusted + Saturated + up + down - wc[c]
    <3>1. wc[c] \in Int
      BY <1>2
    <3> QED
      BY <1>2, <2>1, <3>1
  <2> QED
    BY <1>4, <2>1, <2>2
<1>6. CASE InContact(c, up, down)
  <2> DEFINE after == Retention[h[c]]
  <2>1. after \in Nat
    BY <1>2
  <2>2. wc' = [wc EXCEPT ![c] = after]
    BY <1>6 DEF InContact
  <2>3. CASE Send(c, wc[c] - after, up, down)
    <3> HIDE DEF after
    <3>1. adjusted' = adjusted + after + up + down - wc[c]
      BY <1>2, <2>1, <2>3 DEF Send
    <3> QED
      BY <1>4, <2>1, <2>2, <2>3, <3>1 DEF Send
  <2>4. CASE adjusted' = adjusted + after - wc[c] /\ UNCHANGED <<sendUp, sendDown>>
    <3> HIDE DEF after
    <3>1. sendUp' = [sendUp EXCEPT ![c] = 0] /\ sendDown' = [sendDown EXCEPT ![c] = 0]
      BY <1>2, <2>4
    <3>2. adjusted' = adjusted + after + 0 + 0 - wc[c]
      BY <1>2, <2>1, <2>4
    <3> QED
      BY <1>4, <2>1, <2>2, <3>1, <3>2
  <2> QED
    BY <1>6, <2>3, <2>4 DEF InContact
<1>7. CASE Isolated(c)
  <2>1. Total' = Total
    BY <1>3, <1>7, NoCell DEF Isolated
  <2>2. adjusted' = adjusted /\ Total \in Int
    <3>1. \A d \in Cells : Balance[d] \in Int
      BY BalanceType DEF Balanced
    <3> QED
      BY <1>7, <3>1, CellsFinite, SumType DEF Isolated, Total
  <2> QED
    BY <1>2, <2>1, <2>2
<1> QED
  BY <1>5, <1>6, <1>7 DEF Classify

\* What a sender has under way: the volume carried and the share still to come.
LEMMA SenderWaits ==
  ASSUME Inv, phase = "send", NEW col \in Columns, left[col] > 0
  PROVE  /\ <<col, sender[col]>> \in Cells /\ left[col] \in Nat
         /\ \A d \in Cells : d # <<col, sender[col]>> => (d[1] # col \/ d[2] # sender[col])
<1>1. /\ Top[col] <= sender[col] /\ sender[col] <= NZ /\ sender[col] \in Int /\ left[col] \in Nat
  BY ReallocationAssumption DEF Inv, TypeOK, WalkOrder
<1> QED
  BY <1>1, CellsOf

\* A deposit takes from the sender what it leaves in the cell reached.
LEMMA DepositTotal ==
  ASSUME Inv, Inv', phase = "send", NEW col \in Columns, NEW layer \in Int, left[col] > 0,
         Deposit(col, layer), <<col, layer>> \in Cells
  PROVE  Total' = Total
<1> DEFINE c == <<col, layer>>
           s == <<col, sender[col]>>
           take == Smaller(room[c], left[col])
<1>1. /\ s \in Cells /\ left[col] \in Nat
      /\ \A d \in Cells : d # s => (d[1] # col \/ d[2] # sender[col])
  BY SenderWaits
<1>2. take \in Int
  BY <1>1 DEF Inv, TypeOK, Smaller
<1>3. /\ wc' = [wc EXCEPT ![c] = wc[c] + take] /\ left' = [left EXCEPT ![col] = left[col] - take]
      /\ UNCHANGED <<phase, before, sendUp, sendDown, sender, leg>>
  BY DEF Deposit
<1>4. /\ wc \in [Cells -> Nat] /\ before \in [Cells -> Nat] /\ left \in [Columns -> Nat]
      /\ sendUp \in [Cells -> Nat] /\ sendDown \in [Cells -> Nat]
  BY DEF Inv, TypeOK, SaturatedStays
<1> HIDE DEF take
<1>5. ASSUME NEW d \in Cells
      PROVE  Balance'[d] = Balance[d] + (IF d = c THEN take ELSE 0) - (IF d = s THEN take ELSE 0)
  <2>1. wc[d] \in Int /\ before[d] \in Int /\ d[1] \in Columns
    BY <1>4, CellsOf
  <2>2. wc'[d] = wc[d] + (IF d = c THEN take ELSE 0)
    BY <1>2, <1>3, <1>4, <2>1
  <2>3. Waiting(d) \in Int /\ Waiting(d)' = Waiting(d) - (IF d = s THEN take ELSE 0)
    <3>1. sendUp[d] \in Int /\ sendDown[d] \in Int /\ left[d[1]] \in Int
      BY <1>4, <2>1
    <3>2. CASE d = s
      <4>1. d[1] = col /\ d[2] = sender[col] /\ left'[col] = left[col] - take
            /\ sender[col] \in Int
        BY <1>3, <1>4, <3>2 DEF Inv, TypeOK
      <4>2. /\ Waiting(d) = left[col] + (IF leg[col] = "down" THEN 0 ELSE sendDown[d])
            /\ Waiting(d)' = left'[col] + (IF leg[col] = "down" THEN 0 ELSE sendDown[d])
        BY <1>3, <4>1 DEF Waiting
      <4> QED
        BY <1>2, <3>1, <3>2, <4>1, <4>2
    <3>3. CASE d # s
      <4>1. d[1] = col => d[2] # sender[col]
        BY <1>1, <3>3
      <4>2. d[1] # col => left'[d[1]] = left[d[1]]
        BY <1>3, <1>4, <2>1
      <4>3. Waiting(d)' = Waiting(d)
        BY <1>3, <4>1, <4>2 DEF Waiting
      <4>4. Waiting(d) \in Int
        BY <3>1 DEF Waiting
      <4> QED
        BY <3>3, <4>3, <4>4
    <3> QED
      BY <3>2, <3>3
  <2> DEFINE w == Waiting(d)
             v == Waiting(d)'
  <2>4. Balance[d] = wc[d] + w - before[d] /\ Balance'[d] = wc'[d] + v - before[d]
    BY <1>3 DEF Balance
  <2>5. w \in Int /\ v = w - (IF d = s THEN take ELSE 0)
    BY <2>3
  <2> HIDE DEF w, v
  <2>6. Balance'[d] = (wc[d] + (IF d = c THEN take ELSE 0)) + (w - (IF d = s THEN take ELSE 0))
                      - before[d]
    BY <2>2, <2>4, <2>5
  <2> QED
    BY <1>2, <2>1, <2>4, <2>5, <2>6
<1> HIDE DEF c, s
<1>6. c \in Cells
  BY DEF c
<1> QED
  BY <1>1, <1>2, <1>5, <1>6, TwoCells

\* What leaves the columns leaves the sender's balance.
LEMMA LeaveTotal ==
  ASSUME Inv, Inv', phase = "send", NEW col \in Columns, left[col] > 0, SetDown(col), SameCells
  PROVE  Total' = Total - left[col] /\ Total \in Int
<1> DEFINE s == <<col, sender[col]>>
<1>1. /\ s \in Cells /\ left[col] \in Nat
      /\ \A d \in Cells : d # s => (d[1] # col \/ d[2] # sender[col])
  BY SenderWaits
<1>2. /\ left' = [left EXCEPT ![col] = 0]
      /\ UNCHANGED <<phase, before, wc, sendUp, sendDown, sender, leg>>
  BY DEF SetDown, SameCells
<1>3. /\ wc \in [Cells -> Nat] /\ before \in [Cells -> Nat] /\ left \in [Columns -> Nat]
      /\ sendDown \in [Cells -> Nat] /\ sender[col] \in Int
  BY DEF Inv, TypeOK, SaturatedStays
<1>4. ASSUME NEW d \in Cells, d # s PROVE Balance'[d] = Balance[d]
  <2>1. d[1] = col => d[2] # sender[col]
    BY <1>1, <1>4
  <2>2. d[1] # col => left'[d[1]] = left[d[1]]
    BY <1>2, <1>3, CellsOf
  <2>3. Waiting(d)' = Waiting(d)
    BY <1>2, <2>1, <2>2 DEF Waiting
  <2> QED
    BY <1>2, <2>3 DEF Balance
<1>5. Balance'[s] = Balance[s] + (0 - left[col])
  <2>1. s[1] = col /\ s[2] = sender[col] /\ left'[col] = 0
    BY <1>2, <1>3
  <2> DEFINE rest == IF leg[col] = "down" THEN 0 ELSE sendDown[s]
  <2>2. Waiting(s) = left[col] + rest /\ Waiting(s)' = 0 + rest
    BY <1>2, <1>3, <2>1 DEF Waiting
  <2>3. rest \in Int /\ wc[s] \in Int /\ before[s] \in Int
    BY <1>1, <1>3
  <2> HIDE DEF rest
  <2>4. Balance[s] = wc[s] + (left[col] + rest) - before[s]
        /\ Balance'[s] = wc[s] + (0 + rest) - before[s]
    BY <1>1, <1>2, <2>2 DEF Balance
  <2> HIDE DEF s
  <2> QED
    BY <1>1, <2>3, <2>4
<1> HIDE DEF s
<1>6. 0 - left[col] \in Int
  BY <1>1
<1>7. Total' = Total + (0 - left[col]) /\ Total \in Int
  BY <1>1, <1>4, <1>5, <1>6, OneCell
<1> QED
  BY <1>1, <1>7

Account == Total = adjusted - lost - vented - released

\* A turn of a walk or the start of the sweep renames what waits.
LEMMA SameTotal ==
  ASSUME Inv, UNCHANGED <<wc, before>>, \A d \in Cells : Waiting(d)' = Waiting(d)
  PROVE  Total' = Total
<1>1. \A d \in Cells : Balance'[d] = Balance[d]
  BY DEF Balance
<1> QED
  BY <1>1, NoCell

LEMMA EndClassifyTotal == ASSUME Inv, EndClassify PROVE Total' = Total
<1>1. /\ phase = "classify" /\ phase' = "send"
      /\ left' = [col \in Columns |-> sendUp[<<col, Top[col]>>]]
      /\ UNCHANGED <<before, wc, sendUp, sendDown, sender, leg>>
  BY DEF EndClassify
<1>2. sender = Top /\ leg = [col \in Columns |-> "up"]
  BY <1>1 DEF Inv, PhaseOrder
<1>3. ASSUME NEW d \in Cells PROVE Waiting(d)' = Waiting(d)
  <2>1. /\ d = <<d[1], d[2]>> /\ d[1] \in Columns /\ d[2] \in Int /\ Top[d[1]] \in Int
        /\ Top[d[1]] <= d[2]
    BY CellsOf, ReallocationAssumption
  <2>2. Waiting(d) = sendUp[d] + sendDown[d]
    BY <1>1 DEF Waiting
  <2>3. leg[d[1]] = "up" /\ left'[d[1]] = sendUp[<<d[1], Top[d[1]]>>]
    BY <1>1, <1>2, <2>1
  <2>4. CASE Top[d[1]] = d[2]
    <3>1. left'[d[1]] = sendUp[d]
      BY <2>1, <2>3, <2>4
    <3> QED
      BY <1>1, <1>2, <2>2, <2>3, <2>4, <3>1 DEF Waiting
  <2>5. CASE Top[d[1]] < d[2]
    BY <1>1, <1>2, <2>1, <2>2, <2>5 DEF Waiting
  <2> QED
    BY <2>1, <2>4, <2>5
<1> QED
  BY <1>1, <1>3, SameTotal

LEMMA ThenDownTotal == ASSUME Inv, NEW col \in Columns, ThenDown(col) PROVE Total' = Total
<1>1. /\ phase = "send" /\ left[col] = 0 /\ leg[col] # "down"
      /\ leg' = [leg EXCEPT ![col] = "down"]
      /\ left' = [left EXCEPT ![col] = sendDown[<<col, sender[col]>>]]
      /\ UNCHANGED <<phase, before, wc, sendUp, sendDown, sender>>
  BY DEF ThenDown, SameCells
<1>2. /\ left \in [Columns -> Nat] /\ leg \in [Columns -> {"up", "back", "down"}]
      /\ sendDown \in [Cells -> Nat]
  BY DEF Inv, TypeOK
<1>3. ASSUME NEW d \in Cells PROVE Waiting(d)' = Waiting(d)
  <2>1. d = <<d[1], d[2]>> /\ d[1] \in Columns /\ sendDown[d] \in Nat
    BY <1>2, CellsOf
  <2>2. CASE d[1] # col
    BY <1>1, <1>2, <2>1, <2>2 DEF Waiting
  <2>3. CASE d[1] = col /\ d[2] = sender[col]
    <3>1. left'[col] = sendDown[d] /\ leg'[col] = "down"
      BY <1>1, <1>2, <2>1, <2>3
    <3>2. ~(sender[col] < d[2])
      BY <2>1, <2>3, ReallocationAssumption DEF Inv, TypeOK
    <3>3. Waiting(d) = 0 + sendDown[d]
      BY <1>1, <2>3, <3>2 DEF Waiting
    <3>4. Waiting(d)' = sendDown[d] + 0
      BY <1>1, <2>3, <3>1, <3>2 DEF Waiting
    <3> QED
      BY <2>1, <3>3, <3>4
  <2>4. CASE d[1] = col /\ d[2] # sender[col]
    BY <1>1, <2>4 DEF Waiting
  <2> QED
    BY <2>2, <2>3, <2>4
<1> QED
  BY <1>1, <1>3, SameTotal

LEMMA NextSenderTotal == ASSUME Inv, NEW col \in Columns, NextSender(col) PROVE Total' = Total
<1> DEFINE k == sender[col] + 1
<1>1. /\ phase = "send" /\ left[col] = 0 /\ leg[col] = "down"
      /\ sender' = [sender EXCEPT ![col] = k] /\ leg' = [leg EXCEPT ![col] = "up"]
      /\ left' = [left EXCEPT ![col] = IF k <= NZ THEN sendUp[<<col, k>>] ELSE 0]
      /\ UNCHANGED <<phase, before, wc, sendUp, sendDown>>
  BY DEF NextSender, SameCells
<1>2. /\ left \in [Columns -> Nat] /\ leg \in [Columns -> {"up", "back", "down"}]
      /\ sender \in [Columns -> 1..NZ + 1] /\ sender[col] \in Int /\ k \in Int
      /\ sendUp \in [Cells -> Nat] /\ sendDown \in [Cells -> Nat]
  BY ReallocationAssumption DEF Inv, TypeOK
<1>3. ASSUME NEW d \in Cells PROVE Waiting(d)' = Waiting(d)
  <2>1. /\ d = <<d[1], d[2]>> /\ d[1] \in Columns /\ d[2] \in Int /\ d[2] <= NZ
        /\ sendUp[d] \in Nat /\ sendDown[d] \in Nat
    BY <1>2, CellsOf, ReallocationAssumption
  <2>2. CASE d[1] # col
    BY <1>1, <1>2, <2>1, <2>2 DEF Waiting
  <2>3. CASE d[1] = col
    <3>1. /\ sender'[col] = k /\ leg'[col] = "up"
          /\ left'[col] = IF k <= NZ THEN sendUp[<<col, k>>] ELSE 0
      BY <1>1, <1>2
    <3>2. CASE d[2] > k
      <4>1. sender[col] < d[2] /\ k < d[2]
        BY <1>2, <2>1, <3>2
      <4> QED
        BY <1>1, <2>3, <3>1, <4>1 DEF Waiting
    <3>3. CASE d[2] = k
      <4>1. sender[col] < d[2] /\ ~(k < d[2]) /\ left'[col] = sendUp[d]
        BY <1>2, <2>1, <2>3, <3>1, <3>3
      <4>2. Waiting(d) = sendUp[d] + sendDown[d]
        BY <2>3, <4>1 DEF Waiting
      <4>3. Waiting(d)' = sendUp[d] + sendDown[d]
        BY <1>1, <2>3, <3>1, <3>3, <4>1 DEF Waiting
      <4> QED
        BY <4>2, <4>3
    <3>4. CASE d[2] < k
      <4>1. ~(sender[col] < d[2]) /\ ~(k < d[2]) /\ k # d[2]
        BY <1>2, <2>1, <3>4
      <4>2. Waiting(d) = 0
        BY <1>1, <2>3, <4>1 DEF Waiting
      <4>3. Waiting(d)' = 0
        BY <1>1, <2>3, <3>1, <4>1 DEF Waiting
      <4> QED
        BY <4>2, <4>3
    <3> QED
      BY <1>2, <2>1, <3>2, <3>3, <3>4
  <2> QED
    BY <2>2, <2>3
<1> QED
  BY <1>1, <1>3, SameTotal

\* Every step of a column's sweep keeps the account.
LEMMA SweepAccount ==
  ASSUME Inv, Inv', Account, NEW col \in Columns, Sweep(col)
  PROVE  Account'
<1>1. /\ left \in [Columns -> Nat] /\ left[col] \in Int /\ adjusted \in Int
      /\ lost \in Int /\ vented \in Int /\ released \in Int
      /\ Top[col] <= sender[col] /\ Top[col] <= at[col] /\ at[col] \in Int
      /\ left[col] > 0 => at[col] <= NZ
  <2>1. TypeOK /\ WalkOrder
    BY DEF Inv
  <2>2. left \in [Columns -> Nat] /\ at \in [Columns -> 1..NZ + 1]
    BY <2>1 DEF TypeOK
  <2>3. left[col] \in Int /\ at[col] \in Int
    BY <2>2, ReallocationAssumption
  <2>4. adjusted \in Int /\ lost \in Int /\ vented \in Int /\ released \in Int
    BY <2>1 DEF TypeOK
  <2>5. /\ Top[col] <= sender[col] /\ Top[col] <= at[col]
        /\ left[col] > 0 => at[col] <= NZ
    BY <2>1 DEF WalkOrder
  <2> QED
    BY <2>2, <2>3, <2>4, <2>5
<1>2. ASSUME Total' = Total, UNCHANGED <<adjusted, lost, vented, released>> PROVE Account'
  BY <1>2 DEF Account
<1>3. ASSUME NEW layer \in Int, phase = "send", left[col] > 0, Deposit(col, layer),
             Top[col] <= layer, layer <= NZ
      PROVE  Account'
  <2>1. Total' = Total
    BY <1>3, CellsOf, DepositTotal
  <2> QED
    BY <1>2, <1>3, <2>1 DEF Deposit
<1>4. CASE Climb(col)
  <2>1. /\ phase = "send" /\ left[col] > 0 /\ Deposit(col, at[col] - 1)
        /\ at[col] > Top[col]
    BY <1>4 DEF Climb
  <2>2. at[col] - 1 \in Int /\ Top[col] <= at[col] - 1 /\ at[col] - 1 <= NZ
    BY <1>1, <2>1, ReallocationAssumption
  <2> QED
    BY <1>3, <2>1, <2>2
<1>5. CASE Sink(col)
  <2>1. /\ phase = "send" /\ left[col] > 0 /\ Deposit(col, at[col] + 1)
        /\ at[col] < NZ
    BY <1>5 DEF Sink
  <2>2. at[col] + 1 \in Int /\ Top[col] <= at[col] + 1 /\ at[col] + 1 <= NZ
    BY <1>1, <2>1, ReallocationAssumption
  <2> QED
    BY <1>3, <2>1, <2>2
<1>6. ASSUME phase = "send", left[col] > 0, SetDown(col), SameCells,
             \/ lost' = lost + left[col] /\ UNCHANGED <<vented, released>>
             \/ vented' = vented + left[col] /\ UNCHANGED <<lost, released>>
             \/ released' = released + left[col] /\ UNCHANGED <<lost, vented>>
      PROVE  Account'
  <2> DEFINE v == left[col]
  <2>1. Total' = Total - v /\ Total \in Int
    BY <1>6, LeaveTotal
  <2>2. v \in Int /\ adjusted' = adjusted
    BY <1>1, <1>6 DEF SameCells
  <2>3. \/ lost' = lost + v /\ vented' = vented /\ released' = released
        \/ vented' = vented + v /\ lost' = lost /\ released' = released
        \/ released' = released + v /\ lost' = lost /\ vented' = vented
    BY <1>6
  <2> HIDE DEF v
  <2>4. Total' = adjusted' - lost' - vented' - released'
    BY <1>1, <2>1, <2>2, <2>3 DEF Account
  <2> QED
    BY <2>4 DEF Account
<1>7. CASE Outlet(col)
  <2>1. phase = "send" /\ left[col] > 0 /\ SameCells
    BY <1>7 DEF Outlet
  <2>2. CASE TopKind[col] = "closed"
    <3>1. /\ leg' = [leg EXCEPT ![col] = "back"] /\ leg[col] = "up"
          /\ UNCHANGED <<sender, at, left, lost, vented, released>>
      BY <1>7, <2>2 DEF Outlet
    <3>2. leg \in [Columns -> {"up", "back", "down"}]
      BY DEF Inv, TypeOK
    <3>3. \A e \in Columns : leg'[e] = "down" <=> leg[e] = "down"
      BY <3>1, <3>2
    <3>4. \A d \in Cells : Waiting(d)' = Waiting(d)
      BY <2>1, <3>1, <3>3, CellsOf DEF Waiting, SameCells
    <3>5. Total' = Total
      BY <2>1, <3>4, SameTotal DEF SameCells
    <3> QED
      BY <1>2, <2>1, <3>1, <3>5 DEF SameCells
  <2>3. CASE TopKind[col] # "closed"
    BY <1>6, <1>7, <2>1, <2>3 DEF Outlet
  <2> QED
    BY <2>2, <2>3
<1>8. CASE Drop(col)
  BY <1>6, <1>8 DEF Drop
<1>9. CASE ThenDown(col)
  BY <1>2, <1>9, ThenDownTotal DEF ThenDown, SameCells
<1>10. CASE NextSender(col)
  BY <1>2, <1>10, NextSenderTotal DEF NextSender, SameCells
<1> QED
  BY <1>4, <1>5, <1>7, <1>8, <1>9, <1>10 DEF Sweep

\* The pass only gives a cell something to send when it visits it.
LEMMA SentByTheVisited ==
  ASSUME Inv, NothingSentYet, NEW c \in Cells, NEW up \in Nat, NEW down \in Nat,
         Classify(c, up, down)
  PROVE  NothingSentYet'
<1>1. /\ phase = "classify" /\ todo' = todo \ {c}
      /\ \A d \in Cells : d # c => sendUp'[d] = sendUp[d] /\ sendDown'[d] = sendDown[d]
  <2>1. \/ UNCHANGED <<sendUp, sendDown>>
        \/ sendUp' = [sendUp EXCEPT ![c] = up] /\ sendDown' = [sendDown EXCEPT ![c] = down]
    BY DEF Classify, Oversaturated, InContact, Isolated, Send
  <2>2. sendUp \in [Cells -> Nat] /\ sendDown \in [Cells -> Nat]
    BY DEF Inv, TypeOK
  <2> QED
    BY <2>1, <2>2, PassRest
<1> QED
  BY <1>1 DEF NothingSentYet, Inv, TypeOK

\* What makes the account inductive.
AccountInv == Inv /\ NothingSentYet /\ Account

LEMMA InitAccount == Init => AccountInv
<1> SUFFICES ASSUME Init PROVE AccountInv
  OBVIOUS
<1>1. Inv
  BY InitInv
<1>2. NothingSentYet
  BY DEF Init, NothingSentYet
<1>3. \A d \in Cells : Balance[d] = 0
  <2>1. \A d \in Cells : Waiting(d) = 0
    BY DEF Init, Waiting
  <2>2. \A d \in Cells : wc[d] = before[d] /\ before[d] \in Int
    BY <1>1 DEF Init, Inv, SaturatedStays
  <2> QED
    BY <2>1, <2>2 DEF Balance
<1>4. Total = 0
  BY <1>3, CellsFinite, SumZero DEF Total
<1> QED
  BY <1>1, <1>2, <1>4 DEF Init, Account, AccountInv

LEMMA StepAccount == AccountInv /\ [Next]_vars => AccountInv'
<1> SUFFICES ASSUME AccountInv, [Next]_vars PROVE AccountInv'
  OBVIOUS
<1>1. Inv /\ Inv' /\ NothingSentYet /\ Account
  BY StepInv DEF AccountInv
<1>2. ASSUME NEW c \in todo, NEW up \in 0..Larger(MaxTheta, Saturated),
             NEW down \in 0..Larger(MaxTheta, Saturated), Classify(c, up, down)
      PROVE  AccountInv'
  <2>1. c \in Cells /\ up \in Nat /\ down \in Nat
    BY <1>1 DEF Inv, TypeOK
  <2>2. Total' = Total + adjusted' - adjusted /\ NothingSentYet'
    BY <1>1, <1>2, <2>1, PassTotal, SentByTheVisited
  <2>3. UNCHANGED <<lost, vented, released>>
    BY <1>2 DEF Classify
  <2>4. /\ adjusted \in Int /\ lost \in Int /\ vented \in Int /\ released \in Int
        /\ adjusted' \in Int
    BY <1>1 DEF Inv, TypeOK
  <2>5. Account'
    BY <1>1, <2>2, <2>3, <2>4 DEF Account
  <2> QED
    BY <1>1, <2>2, <2>5 DEF AccountInv
<1>3. CASE EndClassify
  <2>1. Total' = Total /\ phase' = "send" /\ UNCHANGED <<adjusted, lost, vented, released>>
    BY <1>1, <1>3, EndClassifyTotal DEF EndClassify
  <2> QED
    BY <1>1, <2>1 DEF AccountInv, Account, NothingSentYet
<1>4. ASSUME NEW col \in Columns, Sweep(col) PROVE AccountInv'
  <2>1. phase' = "send"
    BY <1>4 DEF Sweep, Climb, Sink, Deposit, Outlet, Drop, ThenDown, NextSender, SameCells
  <2> QED
    BY <1>1, <1>4, <2>1, SweepAccount DEF AccountInv, NothingSentYet
<1>5. CASE Finalize
  <2>1. /\ phase = "send" /\ phase' = "done"
        /\ UNCHANGED <<before, sendUp, sendDown, sender, leg, left, adjusted, lost, vented,
                       released>>
    BY <1>5 DEF Finalize, walk
  <2>2. wc' = wc
    BY <1>1, <1>5, FinalizeKeeps
  <2>3. \A d \in Cells : Waiting(d)' = Waiting(d)
    BY <2>1 DEF Waiting
  <2>4. Total' = Total
    BY <1>1, <2>1, <2>2, <2>3, SameTotal
  <2> QED
    BY <1>1, <2>1, <2>4 DEF AccountInv, Account, NothingSentYet
<1>6. CASE UNCHANGED vars
  <2>1. UNCHANGED <<phase, before, wc, sendUp, sendDown, todo, sender, leg, left, adjusted, lost,
                    vented, released>>
    BY <1>6 DEF vars, walk
  <2>2. \A d \in Cells : Waiting(d)' = Waiting(d)
    BY <2>1 DEF Waiting
  <2>3. Total' = Total
    BY <1>1, <2>1, <2>2, SameTotal
  <2> QED
    BY <1>1, <2>1, <2>3 DEF AccountInv, Account, NothingSentYet
<1> QED
  BY <1>2, <1>3, <1>4, <1>5, <1>6 DEF Next

\* No water is created or lost in the pass, the sweep or the clamp but what the
\* audit measured: at every step, for any number of columns and any order of the
\* threads and of the columns' walks, what the cells hold and the walks carry is
\* the moisture before the pass, less what was lost, vented and released and plus
\* what the pass adjusted.
THEOREM WaterIsAccounted == Spec => []Accounted
<1>1. Spec => []AccountInv
  BY InitAccount, StepAccount, PTL DEF Spec
<1>2. AccountInv => Accounted
  BY DEF AccountInv, Account, Accounted, Total
<1> QED
  BY <1>1, <1>2, PTL
=============================================================================
