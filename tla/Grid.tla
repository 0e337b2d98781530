-------------------------------- MODULE Grid --------------------------------
(***************************************************************************)
(* The grid every field lives on (src/src/core/Grid.cpp): the choice of a  *)
(* process layout, the block of each rank, its neighbours, and the         *)
(* compressed global ids of the active cells.                              *)
(*                                                                         *)
(* Ranks, blocks and cells are counted from 0 as in the code; the local    *)
(* indices of a block run from 1, with its halo at 0 and n + 1.            *)
(***************************************************************************)
EXTENDS Integers, FiniteSetsExt

Smaller(a, b) == IF a <= b THEN a ELSE b

----------------------------------------------------------------------------
(* Blocks. *)

BlockSize(N, P, p) == (N \div P) + (IF p < N % P THEN 1 ELSE 0)
BlockStart(N, P, p) == p * (N \div P) + Smaller(p, N % P)

----------------------------------------------------------------------------
(* The layout, of nx by ny cells on size ranks. *)

Divisors(size) == {x \in 1..size : size % x = 0}

\* MPI_Dims_create in two dimensions: as square as possible, the larger first.
DimsCreate(size) ==
  LET small == Max({x \in Divisors(size) : x * x <= size})
  IN [large |-> size \div small, small |-> small]

Fits(nx, ny, layout) == layout.px <= nx /\ layout.py <= ny

\* The factorizations that leave no block empty, and the smaller extent of
\* their blocks.
Candidates(nx, ny, size) ==
  {l \in {[px |-> x, py |-> size \div x] : x \in Divisors(size)} : Fits(nx, ny, l)}
Extent(nx, ny, layout) == Smaller(nx \div layout.px, ny \div layout.py)

\* The first candidate of the largest extent, by px.
Best(nx, ny, candidates) ==
  CHOOSE l \in candidates :
    \A m \in candidates : \/ Extent(nx, ny, l) > Extent(nx, ny, m)
                          \/ Extent(nx, ny, l) = Extent(nx, ny, m) /\ l.px <= m.px

\* Mutant: the counts are given out without a look at the extents.
AutomaticUnchecked(nx, ny, size) ==
  LET dims == DimsCreate(size)
  IN IF nx >= ny THEN [px |-> dims.large, py |-> dims.small]
                 ELSE [px |-> dims.small, py |-> dims.large]

Automatic(nx, ny, size) ==
  LET dims     == DimsCreate(size)
      balanced == IF nx >= ny THEN [px |-> dims.large, py |-> dims.small]
                              ELSE [px |-> dims.small, py |-> dims.large]
  IN IF Fits(nx, ny, balanced) \/ Candidates(nx, ny, size) = {} THEN balanced
     ELSE Best(nx, ny, Candidates(nx, ny, size))

\* Explicit counts must make up the size, a single one must divide it.
Requested(size, mpiNx, mpiNy) ==
  IF mpiNx > 0 /\ mpiNy > 0 THEN [px |-> mpiNx, py |-> mpiNy]
  ELSE IF mpiNx > 0 THEN [px |-> mpiNx, py |-> size \div mpiNx]
  ELSE [px |-> size \div mpiNy, py |-> mpiNy]

ChooseDecomposition(nx, ny, size, mpiNx, mpiNy) ==
  IF mpiNx = 0 /\ mpiNy = 0 THEN Automatic(nx, ny, size) ELSE Requested(size, mpiNx, mpiNy)

\* chooseDecomposition and the empty-block test of the constructor: the run
\* goes on with the layout, or ends.
Accepted(nx, ny, size, layout) == layout.px * layout.py = size /\ Fits(nx, ny, layout)

----------------------------------------------------------------------------
(* A rank's place in a layout. *)

Pi(layout, rank) == rank % layout.px
Pj(layout, rank) == rank \div layout.px

West == 0
East == 1
South == 2
North == 3
Directions == {West, East, South, North}
ProcNull == -1  \* MPI_PROC_NULL

Neighbor(layout, rank, d) ==
  IF d = West THEN IF Pi(layout, rank) > 0 THEN rank - 1 ELSE ProcNull
  ELSE IF d = East THEN IF Pi(layout, rank) + 1 < layout.px THEN rank + 1 ELSE ProcNull
  ELSE IF d = South THEN IF Pj(layout, rank) > 0 THEN rank - layout.px ELSE ProcNull
  ELSE IF Pj(layout, rank) + 1 < layout.py THEN rank + layout.px ELSE ProcNull

Block(nx, ny, layout, rank) ==
  [i0  |-> BlockStart(nx, layout.px, Pi(layout, rank)),
   j0  |-> BlockStart(ny, layout.py, Pj(layout, rank)),
   nxl |-> BlockSize(nx, layout.px, Pi(layout, rank)),
   nyl |-> BlockSize(ny, layout.py, Pj(layout, rank))]

\* The global column of a local one.
Global(block, cell) == <<block.i0 + cell[1] - 1, block.j0 + cell[2] - 1>>

Interior(block) == (1..block.nxl) \X (1..block.nyl)
WithHalo(block) == (0..block.nxl + 1) \X (0..block.nyl + 1)

----------------------------------------------------------------------------
(* Compressed ids: a block's active cells in (j, i, k) order, from the     *)
(* number of active cells of the lower ranks.                              *)

\* The active cells of a block, in local columns, below the first active
\* layer ktop of each; ktop = nz is an inactive column.
Active(block, ktop, nz) ==
  {c \in (1..block.nxl) \X (1..block.nyl) \X (0..nz - 1) :
     c[3] >= ktop[Global(block, <<c[1], c[2]>>)]}
Columns(cells) == {<<c[1], c[2]>> : c \in cells}

Earlier(a, b) == a[2] < b[2] \/ (a[2] = b[2] /\ a[1] < b[1])

Inactive == -1

\* The ids of a column: of its surface cell and of its layers.
ColumnIds(column, offset2, offset3, cells, nz) ==
  LET before == {c \in cells : Earlier(c, column)}
      first  == nz - Cardinality({c \in cells : c[1] = column[1] /\ c[2] = column[2]})
  IN IF column \notin Columns(cells)
     THEN [gid2 |-> Inactive, gid3 |-> [k \in 0..nz - 1 |-> Inactive]]
     ELSE [gid2 |-> offset2 + Cardinality(Columns(before)),
           gid3 |-> [k \in 0..nz - 1 |->
                       IF k < first THEN Inactive
                       ELSE offset3 + Cardinality(before) + k - first]]
=============================================================================
