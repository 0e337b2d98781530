---------------------------- MODULE Reallocation ----------------------------
(***************************************************************************)
(* RichardsSolver::reallocateWaterContent on a row of columns: a pass over *)
(* the cells, in the order the threads happen to take, that restores the   *)
(* consistency of moisture and head and collects what each cell must give  *)
(* away; then one sequential sweep per column that carries it up and down  *)
(* into free pore room, out of the column's top, or drops it; then the     *)
(* final clamp.                                                            *)
(*                                                                         *)
(* Moisture is a volume in integer units, the same pore space in every     *)
(* cell.  How a cell splits what it gives away between up, down and        *)
(* sideways follows from the heads around it and is chosen here.           *)
(***************************************************************************)
EXTENDS Integers, FiniteSets, Functions

CONSTANTS
  Columns, NZ,   \* the row of columns 1..n, and the layers 1 (top) to NZ
  Top,           \* the uppermost active layer of each column
  Owner,         \* the rank of each column
  Saturated,     \* pore volume of a cell, theta_s
  EffSat,        \* the effective-saturation mark, 0.9999 theta_s
  Heads,         \* predicted heads
  Retention,     \* theta(h)
  HeadOf,        \* h(theta)
  MaxTheta,      \* bound: wettest cell the corrector may leave
  Ponds,         \* surface depths
  TopKind,       \* top of each column: "coupled", "head" (prescribed, >= 0) or "closed"
  MinDepth,      \* surface_water.min_depth
  Redistribute   \* the surplus of a cell in contact is sent, not discarded

ASSUME ReallocationAssumption ==
  /\ Columns \subseteq Int /\ IsFiniteSet(Columns) /\ NZ \in Nat
  /\ Top \in [Columns -> 1..NZ]
  /\ DOMAIN Owner = Columns
  /\ Saturated \in Nat /\ EffSat \in 0..Saturated /\ MaxTheta \in Nat /\ MinDepth \in Nat
  /\ Retention \in [Heads -> 0..Saturated] /\ HeadOf \in [0..Saturated - 1 -> Heads]
  /\ Ponds \subseteq Nat
  /\ TopKind \in [Columns -> {"coupled", "head", "closed"}] /\ Redistribute \in BOOLEAN

Cells == {c \in Columns \X (1..NZ) : c[2] >= Top[c[1]]}

VARIABLES
  phase,         \* "classify", "send" or "done"
  before,        \* moisture when the pass began, and in the halos of the ranks
  wc, h,         \* moisture and head
  room,          \* free pore volume the sweep may fill
  sendUp, sendDown,
  todo,          \* cells the pass has not visited
  sender, leg,   \* of each column's walk: the sending layer, "up", "back" or "down",
  at, left,      \* the layer reached, and the volume still carried
  pond,          \* surface depth above each column
  adjusted,      \* volume the pass created, less what it dropped
  lost, vented, released,
  contact,       \* cells the pass treated as in contact with saturation
  clamped        \* cells the final clamp cut (vloss)

walk == <<sender, leg, at, left>>
vars == <<phase, before, wc, h, room, sendUp, sendDown, todo, walk, pond,
          adjusted, lost, vented, released, contact, clamped>>

Larger(a, b) == IF a >= b THEN a ELSE b
Smaller(a, b) == IF a <= b THEN a ELSE b

Init ==
  /\ phase = "classify"
  /\ before \in [Cells -> 0..MaxTheta] /\ wc = before
  /\ h \in [Cells -> Heads]
  /\ pond \in [Columns -> Ponds]
  /\ room = [c \in Cells |-> 0]
  /\ sendUp = [c \in Cells |-> 0] /\ sendDown = [c \in Cells |-> 0]
  /\ todo = Cells /\ contact = {}
  /\ sender = Top /\ at = Top
  /\ leg = [col \in Columns |-> "up"] /\ left = [col \in Columns |-> 0]
  /\ adjusted = 0 /\ lost = 0 /\ vented = 0 /\ released = 0 /\ clamped = {}

----------------------------------------------------------------------------
(* The pass over the cells. *)

Neighbours(c) ==
  {n \in Cells : \/ n[1] = c[1] /\ n[2] \in {c[2] - 1, c[2] + 1}
                 \/ n[2] = c[2] /\ n[1] \in {c[1] - 1, c[1] + 1}}

\* A neighbour on the same rank is read as it is, one in the halo as it was.
Seen(c, n) == IF Owner[n[1]] = Owner[c[1]] THEN wc[n] ELSE before[n]

WetTop(c) ==
  /\ c[2] = Top[c[1]]
  /\ TopKind[c[1]] = "head" \/ (TopKind[c[1]] = "coupled" /\ pond[c[1]] > 0)

\* check_adj_sat.
\* Mutant: the top cell is tested against the surface only.
AdjSatTop(c) ==
  IF c[2] = Top[c[1]] THEN WetTop(c) ELSE \E n \in Neighbours(c) : Seen(c, n) >= Saturated

AdjSat(c) == WetTop(c) \/ \E n \in Neighbours(c) : Seen(c, n) >= Saturated

\* Mutant: the dropped part is not measured.
SendUnmeasured(c, volume, up, down) ==
  /\ up + down <= volume
  /\ sendUp' = [sendUp EXCEPT ![c] = up] /\ sendDown' = [sendDown EXCEPT ![c] = down]
  /\ UNCHANGED adjusted

\* A cell gives away volume: up and down go to the sweep, the rest is dropped.
Send(c, volume, up, down) ==
  /\ up + down <= volume
  /\ sendUp' = [sendUp EXCEPT ![c] = up] /\ sendDown' = [sendDown EXCEPT ![c] = down]
  /\ adjusted' = adjusted - (volume - up - down)

Oversaturated(c, up, down) ==
  /\ c \in todo /\ wc[c] >= Saturated
  /\ Send(c, wc[c] - Saturated, up, down)
  /\ wc' = [wc EXCEPT ![c] = Saturated]
  /\ room' = [room EXCEPT ![c] = 0]
  /\ UNCHANGED <<h, contact>>

Isolated(c) ==
  /\ c \in todo /\ wc[c] < Saturated /\ ~AdjSat(c)
  /\ room' = [room EXCEPT ![c] = Saturated - wc[c]]
  /\ h' = IF wc[c] < EffSat THEN [h EXCEPT ![c] = HeadOf[wc[c]]] ELSE h
  /\ UNCHANGED <<wc, sendUp, sendDown, adjusted, contact>>

\* Mutant: the room of a cell whose moisture the head replaced is not renewed.
InContactStaleRoom(c, up, down) ==
  LET after == Retention[h[c]]
  IN /\ c \in todo /\ wc[c] < Saturated /\ AdjSat(c)
     /\ contact' = contact \union {c}
     /\ wc' = [wc EXCEPT ![c] = after]
     /\ room' = [room EXCEPT ![c] = Saturated - wc[c]]
     /\ \/ Redistribute /\ after < wc[c] /\ Send(c, wc[c] - after, up, down)
        \/ /\ ~(Redistribute /\ after < wc[c]) /\ up = 0 /\ down = 0
           /\ adjusted' = adjusted + after - wc[c]
           /\ UNCHANGED <<sendUp, sendDown>>
     /\ UNCHANGED h

InContact(c, up, down) ==
  LET after == Retention[h[c]]
  IN /\ c \in todo /\ wc[c] < Saturated /\ AdjSat(c)
     /\ contact' = contact \union {c}
     /\ wc' = [wc EXCEPT ![c] = after]
     /\ room' = [room EXCEPT ![c] = Saturated - after]
     /\ \/ Redistribute /\ after < wc[c] /\ Send(c, wc[c] - after, up, down)
        \/ /\ ~(Redistribute /\ after < wc[c]) /\ up = 0 /\ down = 0
           /\ adjusted' = adjusted + after - wc[c]
           /\ UNCHANGED <<sendUp, sendDown>>
     /\ UNCHANGED h

Classify(c, up, down) ==
  /\ phase = "classify"
  /\ Oversaturated(c, up, down) \/ InContact(c, up, down) \/ (Isolated(c) /\ up = 0 /\ down = 0)
  /\ todo' = todo \ {c}
  /\ UNCHANGED <<phase, before, walk, pond, lost, vented, released, clamped>>

EndClassify ==
  /\ phase = "classify" /\ todo = {}
  /\ phase' = "send"
  /\ left' = [col \in Columns |-> sendUp[<<col, Top[col]>>]]
  /\ UNCHANGED <<before, wc, h, room, sendUp, sendDown, todo, sender, leg, at, pond, adjusted,
                 lost, vented, released, contact, clamped>>

----------------------------------------------------------------------------
(* The sweep of one column. *)

\* Mutant: a cell takes what is carried whatever its room.
DepositAll(col, layer) ==
  LET c == <<col, layer>>
      take == left[col]
  IN /\ wc' = [wc EXCEPT ![c] = @ + take]
     /\ room' = [room EXCEPT ![c] = @ - take]
     /\ at' = [at EXCEPT ![col] = layer] /\ left' = [left EXCEPT ![col] = @ - take]
     /\ UNCHANGED <<phase, before, h, sendUp, sendDown, todo, sender, leg, pond, adjusted, lost,
                    vented, released, contact, clamped>>

\* The walk reaches the cell below or above and leaves there what has room.
Deposit(col, layer) ==
  LET c == <<col, layer>>
      take == Smaller(room[c], left[col])
  IN /\ wc' = [wc EXCEPT ![c] = @ + take]
     /\ room' = [room EXCEPT ![c] = @ - take]
     /\ at' = [at EXCEPT ![col] = layer] /\ left' = [left EXCEPT ![col] = @ - take]
     /\ UNCHANGED <<phase, before, h, sendUp, sendDown, todo, sender, leg, pond, adjusted, lost,
                    vented, released, contact, clamped>>

\* Mutant: the walk goes to the top at once.
ClimbToTop(col) ==
  /\ phase = "send" /\ leg[col] = "up" /\ left[col] > 0
  /\ at[col] > Top[col]
  /\ Deposit(col, Top[col])

Climb(col) ==
  /\ phase = "send" /\ leg[col] = "up" /\ left[col] > 0
  /\ at[col] > Top[col]
  /\ Deposit(col, at[col] - 1)

\* The downward walk of the sender, or of what a closed top sent back.
Sink(col) ==
  /\ phase = "send" /\ leg[col] \in {"back", "down"} /\ left[col] > 0
  /\ at[col] < NZ
  /\ Deposit(col, at[col] + 1)

SameCells ==
  UNCHANGED <<phase, before, wc, h, room, sendUp, sendDown, todo, adjusted, contact, clamped>>

SetDown(col) == left' = [left EXCEPT ![col] = 0] /\ UNCHANGED <<sender, leg, at>>

\* What the cells above could not hold leaves through the top.
Outlet(col) ==
  /\ phase = "send" /\ leg[col] = "up" /\ left[col] > 0 /\ at[col] = Top[col]
  /\ \/ /\ TopKind[col] = "coupled" /\ (pond[col] > 0 \/ left[col] > MinDepth)
        /\ pond' = [pond EXCEPT ![col] = @ + left[col]] /\ vented' = vented + left[col]
        /\ SetDown(col) /\ UNCHANGED <<lost, released>>
     \/ /\ TopKind[col] = "coupled" /\ pond[col] = 0 /\ left[col] <= MinDepth
        /\ lost' = lost + left[col]
        /\ SetDown(col) /\ UNCHANGED <<pond, vented, released>>
     \/ /\ TopKind[col] = "head"
        /\ released' = released + left[col]
        /\ SetDown(col) /\ UNCHANGED <<pond, lost, vented>>
     \/ /\ TopKind[col] = "closed"
        /\ leg' = [leg EXCEPT ![col] = "back"]
        /\ UNCHANGED <<sender, at, left, pond, lost, vented, released>>
  /\ SameCells

\* What reaches the bottom is dropped.
Drop(col) ==
  /\ phase = "send" /\ leg[col] \in {"back", "down"} /\ left[col] > 0
  /\ at[col] = NZ
  /\ lost' = lost + left[col]
  /\ SetDown(col) /\ SameCells /\ UNCHANGED <<pond, vented, released>>

\* The sender's upward share is placed: its downward share is next.
ThenDown(col) ==
  /\ phase = "send" /\ left[col] = 0 /\ leg[col] # "down" /\ sender[col] <= NZ
  /\ leg' = [leg EXCEPT ![col] = "down"] /\ at' = [at EXCEPT ![col] = sender[col]]
  /\ left' = [left EXCEPT ![col] = sendDown[<<col, sender[col]>>]]
  /\ SameCells /\ UNCHANGED <<sender, pond, lost, vented, released>>

\* The sender is done: the next layer sends.
NextSender(col) ==
  LET k == sender[col] + 1 IN
  /\ phase = "send" /\ left[col] = 0 /\ leg[col] = "down" /\ sender[col] <= NZ
  /\ sender' = [sender EXCEPT ![col] = k] /\ at' = [at EXCEPT ![col] = k]
  /\ leg' = [leg EXCEPT ![col] = "up"]
  /\ left' = [left EXCEPT ![col] = IF k <= NZ THEN sendUp[<<col, k>>] ELSE 0]
  /\ SameCells /\ UNCHANGED <<pond, lost, vented, released>>

Sweep(col) == Climb(col) \/ Sink(col) \/ Outlet(col) \/ Drop(col)
              \/ ThenDown(col) \/ NextSender(col)

\* finalizeWaterContent: the clamp into the pore space.
Finalize ==
  /\ phase = "send" /\ \A col \in Columns : sender[col] > NZ
  /\ phase' = "done"
  /\ wc' = [c \in Cells |-> Smaller(wc[c], Saturated)]
  /\ clamped' = {c \in Cells : wc[c] > Saturated}
  /\ UNCHANGED <<before, h, room, sendUp, sendDown, todo, walk, pond, adjusted, lost, vented,
                 released, contact>>

Next ==
  \/ \E c \in todo : \E up, down \in 0..Larger(MaxTheta, Saturated) : Classify(c, up, down)
  \/ EndClassify
  \/ \E col \in Columns : Sweep(col)
  \/ Finalize

Spec == Init /\ [][Next]_vars

----------------------------------------------------------------------------
TypeOK ==
  /\ phase \in {"classify", "send", "done"}
  /\ wc \in [Cells -> Nat] /\ room \in [Cells -> Nat] /\ h \in [Cells -> Heads]
  /\ sendUp \in [Cells -> Nat] /\ sendDown \in [Cells -> Nat]
  /\ todo \subseteq Cells /\ contact \subseteq Cells /\ clamped \subseteq Cells
  /\ sender \in [Columns -> 1..NZ + 1] /\ leg \in [Columns -> {"up", "back", "down"}]
  /\ at \in [Columns -> 1..NZ + 1] /\ left \in [Columns -> Nat]
  /\ pond \in [Columns -> Nat]
  /\ adjusted \in Int /\ lost \in Nat /\ vented \in Nat /\ released \in Nat

\* The room the sweep fills is the room there is, although moisture, room and
\* head of a cell were written by the pass and its neighbours' walks have
\* visited it since; no walk overfills a cell (Reallocate.cpp:28-31).
RoomIsFree == \A c \in Cells \ todo : wc[c] + room[c] = Saturated

\* Of what the sweep delivers, the final clamp never cuts anything.
NothingClamped == clamped = {}

\* Water leaves a column, by whichever outlet, only when the walk found every
\* cell between the sender and the outlet full.
OutletOnlyWhenFull ==
  \A col \in Columns : left[col] > 0 =>
    /\ leg[col] = "up" => \A l \in at[col]..sender[col] - 1 : room[<<col, l>>] = 0
    /\ leg[col] = "down" => \A l \in sender[col] + 1..at[col] : room[<<col, l>>] = 0
    /\ leg[col] = "back" =>
         \A l \in Top[col]..at[col] : l = sender[col] \/ room[<<col, l>>] = 0

\* What the senders ahead of a column's walk still have to give away.
Waiting(c) ==
  LET k == sender[c[1]] IN
  IF phase = "classify" \/ k < c[2] THEN sendUp[c] + sendDown[c]
  ELSE IF k = c[2] THEN left[c[1]] + (IF leg[c[1]] = "down" THEN 0 ELSE sendDown[c])
  ELSE 0

\* What each cell holds or still has under way, over what it held.
Balance == [c \in Cells |-> wc[c] + Waiting(c) - before[c]]

\* No water is created or lost but what the audit measured: cells, walks and
\* shares not yet sent add up to the moisture before the pass, at every step.
Accounted == SumFunctionOnSet(Balance, Cells) = adjusted - lost - vented - released

\* The order of the threads can only add cells to those in contact with
\* saturation, never take one away: a cell in contact before the pass is
\* treated as one in every order.
ContactBefore(c) ==
  before[c] < Saturated /\ (WetTop(c) \/ \E n \in Neighbours(c) : before[n] >= Saturated)

ContactIsKept ==
  phase = "classify" => \A c \in Cells \ todo : ContactBefore(c) => c \in contact

(***************************************************************************)
(* What the file's comment says and a run refutes.                         *)
(***************************************************************************)

\* Reallocate.cpp:21-27: cells are classified against the state before the
\* pass, so that the result does not depend on the order of the threads or on
\* the decomposition.
ClassifiedBefore ==
  phase = "send" => contact = {c \in Cells : ContactBefore(c)}
=============================================================================
