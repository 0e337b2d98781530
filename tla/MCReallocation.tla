--------------------------- MODULE MCReallocation ---------------------------
(***************************************************************************)
(* Small instances of Reallocation: one column of three cells for the      *)
(* sweep, and a row of columns, on one rank or two, for the pass.          *)
(***************************************************************************)
EXTENDS Reallocation

OneColumn == {1}
TwoColumns == {1, 2}
ThreeColumns == {1, 2, 3}

FlatTop == [col \in Columns |-> 1]
SteppedTop == [col \in Columns |-> IF col = 1 THEN 1 ELSE 2]
OneRank == [col \in Columns |-> 0]
TwoRanks == [col \in Columns |-> IF col = 1 THEN 0 ELSE 1]

CoupledTop == [col \in Columns |-> "coupled"]
ClosedTop == [col \in Columns |-> "closed"]
HeadOrClosed == [col \in Columns |-> IF col = 1 THEN "head" ELSE "closed"]

\* A predicted head of 0 or above is saturation.
MCHeads == {-2, -1, 0}
MCRetention == [x \in MCHeads |-> IF x >= 0 THEN Saturated ELSE Saturated + x]
MCHeadOf == [w \in 0..Saturated - 1 |-> w - Saturated]

DryOrWet == {0, 2}
=============================================================================
