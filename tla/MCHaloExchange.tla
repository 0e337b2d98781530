--------------------------- MODULE MCHaloExchange ---------------------------
(***************************************************************************)
(* Small instances of HaloExchange: up to four ranks on up to three by     *)
(* three columns or a strip of four, so that blocks have one cell or       *)
(* several, with and without a remainder, in a row, a column or a square   *)
(* of ranks whose corners meet.                                            *)
(***************************************************************************)
EXTENDS HaloExchange

\* A sloping mask: the first column is full, the columns beyond the first
\* two diagonals are inactive.
Slope(nx, ny) == [c \in (0..nx - 1) \X (0..ny - 1) |-> Smaller(2, c[1] + c[2])]

Request(nx, ny, size, mpiNx, mpiNy, buffered) ==
  [nx |-> nx, ny |-> ny, nz |-> 2, size |-> size, mpiNx |-> mpiNx, mpiNy |-> mpiNy,
   ktop |-> Slope(nx, ny), buffered |-> buffered]

\* Automatic layouts, some of which no factorization fits and one that only the
\* fallback fits, and requested ones, most of which do not make up the ranks.
MCRequests ==
  {Request(1, 4, 4, 0, 0, FALSE)}
    \union {Request(nx, ny, size, 0, 0, FALSE) : nx \in 1..3, ny \in 1..3, size \in 1..4}
    \union {Request(3, 2, size, x, y, TRUE) : size \in 1..4, x \in 0..3, y \in 0..2}

MCFields == {"eta", "uu"}
MCCalls == <<[fields |-> {"eta"}, corners |-> FALSE],
             [fields |-> {"eta", "uu"}, corners |-> TRUE],
             [fields |-> {"uu"}, corners |-> FALSE]>>
=============================================================================
