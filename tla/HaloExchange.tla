---------------------------- MODULE HaloExchange ----------------------------
(***************************************************************************)
(* The ranks of a run and the messages between them, from the Grid         *)
(* constructor to the halo exchanges of the solvers                        *)
(* (src/src/core/Grid.cpp, src/src/core/HaloExchanger.cpp).                *)
(*                                                                         *)
(* All ranks run one program: two numberings of the active cells (all      *)
(* cells first, then the real mask), each a collective sum and four        *)
(* MPI_Sendrecv, then a sequence of halo exchanges, each after kernels     *)
(* that wrote the cells a rank owns.  A rank waits only inside a phase, so *)
(* what it does up to its sends is one step and what follows its waits is  *)
(* another.  Messages of one sender, receiver and tag stay in order; the   *)
(* MPI library may buffer a message or hold its sender until it is wanted. *)
(***************************************************************************)
EXTENDS Grid, Sequences, Functions

CONSTANTS
  Requests,  \* nx, ny, nz; size: ranks; mpiNx, mpiNy: requested layout, 0 for
             \* automatic; ktop: the mask; buffered: the library buffers
  Fields,    \* the registered fields
  Calls      \* the exchanges: [fields |-> their names, corners |-> BOOLEAN]

ASSUME HaloAssumption ==
  /\ \A q \in Requests :
       /\ {q.nx, q.ny, q.nz, q.size} \subseteq Nat \ {0} /\ {q.mpiNx, q.mpiNy} \subseteq Nat
       /\ q.ktop \in [(0..q.nx - 1) \X (0..q.ny - 1) -> 0..q.nz]
       /\ q.buffered \in BOOLEAN
  /\ "gid" \notin Fields
  /\ Calls \in Seq([fields : SUBSET Fields, corners : BOOLEAN])

VARIABLES
  request, status,
  block,     \* each rank's block of the grid
  neighbor,  \* and the ranks beside it
  at,        \* the phase each rank is in
  posted,    \* it has posted the phase's messages and waits
  field,     \* what each rank has in its block and halo, the ids included
  wire       \* messages in transit, by sender, receiver and tag

grid == <<request, status, block, neighbor>>
vars == <<grid, at, posted, field, wire>>

Ranks == 0..request.size - 1

----------------------------------------------------------------------------
(* The program. *)

\* dir ^ 1
Opposite(d) == IF d \in {West, South} THEN d + 1 ELSE d - 1

\* A phase: the tags it sends and receives under, by direction, and what of.
\* MPI_Sendrecv toward d and from the other side, under one tag.  The code
\* packs both sides of an axis before its two calls and unpacks after both: a
\* pack reads the block and an unpack writes the halo, so their order is free.
SendRecv(d, tag) ==
  [kind |-> "ids", sends |-> [e \in {d} |-> tag], receives |-> [e \in {Opposite(d)} |-> tag],
   fields |-> {"gid"}, wide |-> FALSE, call |-> 0]

\* buildGlobalIds and exchangeGidHalos.
Build(round) ==
  <<[kind |-> "sum", sends |-> <<>>, receives |-> <<>>, fields |-> {}, wide |-> FALSE,
     call |-> round],
    SendRecv(West, 100), SendRecv(East, 101), SendRecv(South, 102), SendRecv(North, 103)>>

\* Mutant: both ends use their own direction's tag.
ExchangeUnpaired(n, directions, wide, first) ==
  [kind |-> IF first THEN "first" ELSE "next",
   sends |-> [d \in directions |-> 200 + d],
   receives |-> [d \in directions |-> 200 + d],
   fields |-> Calls[n].fields, wide |-> wide, call |-> n]

\* exchangeSelected: what is sent west arrives as the neighbour's east message.
Exchange(n, directions, wide, first) ==
  [kind |-> IF first THEN "first" ELSE "next",
   sends |-> [d \in directions |-> 200 + Opposite(d)],
   receives |-> [d \in directions |-> 200 + d],
   fields |-> Calls[n].fields, wide |-> wide, call |-> n]

\* Mutant: the rows of the second phase leave the corners out.
PhasesNarrow(n) ==
  IF Calls[n].corners
  THEN <<Exchange(n, {West, East}, FALSE, TRUE), Exchange(n, {South, North}, FALSE, FALSE)>>
  ELSE <<Exchange(n, Directions, FALSE, TRUE)>>

\* exchangeWithCorners takes two phases, the second with rows that carry the
\* columns the first one brought.
Phases(n) ==
  IF Calls[n].corners
  THEN <<Exchange(n, {West, East}, FALSE, TRUE), Exchange(n, {South, North}, TRUE, FALSE)>>
  ELSE <<Exchange(n, Directions, FALSE, TRUE)>>

\* The program in parts: two builds, then the calls.
Parts == 2 + Len(Calls)
Program == [part \in 1..Parts |-> IF part <= 2 THEN Build(part) ELSE Phases(part - 2)]

PhaseOf(r) == Program[at[r].part][at[r].phase]

\* The phase after the one r is in.
Onward(r) ==
  IF at[r].phase < Len(Program[at[r].part]) THEN [at[r] EXCEPT !.phase = @ + 1]
  ELSE [part |-> at[r].part + 1, phase |-> 1]

Done(r) == at[r].part > Parts

----------------------------------------------------------------------------
(* Packing and unpacking. *)

AlongX(d) == d \in {West, East}
RowCells(b, d, wide) == IF AlongX(d) THEN b.nyl ELSE IF wide THEN b.nxl + 2 ELSE b.nxl
RowStart(d, wide) == IF wide /\ ~AlongX(d) THEN 0 ELSE 1

SendPlane(b, d) == IF d = East THEN b.nxl ELSE IF d = North THEN b.nyl ELSE 1
ReceivePlane(b, d) == IF d = East THEN b.nxl + 1 ELSE IF d = North THEN b.nyl + 1 ELSE 0

\* The cell of the plane that a row of a message comes from.
SendCell(b, d, row, wide) ==
  LET place == row + RowStart(d, wide)
  IN IF AlongX(d) THEN <<SendPlane(b, d), place>> ELSE <<place, SendPlane(b, d)>>

\* packEntry for each selected field: the plane's values by row.  All ranks
\* select the same fields in the same order, so a value's place in the
\* coalesced message is its field, row and layer on both ends.
Pack(values, b, d, phase) ==
  [f \in phase.fields |->
     [row \in 0..RowCells(b, d, phase.wide) - 1 |-> values[f][SendCell(b, d, row, phase.wide)]]]

\* unpackEntry: the plane a cell lies in and its row there.
Across(d, c) == IF AlongX(d) THEN c[1] ELSE c[2]
Row(d, c, wide) == (IF AlongX(d) THEN c[2] ELSE c[1]) - RowStart(d, wide)
Receives(b, d, c, wide) ==
  Across(d, c) = ReceivePlane(b, d) /\ Row(d, c, wide) \in 0..RowCells(b, d, wide) - 1

----------------------------------------------------------------------------
(* What the fields hold.  A value is the place it belongs to and the call  *)
(* whose kernels wrote it; a cell of the ids holds the ids of its column.  *)

NoValue == [cell |-> <<-1, -1>>, call |-> 0]
InDomain(cell) == cell[1] \in 0..request.nx - 1 /\ cell[2] \in 0..request.ny - 1
Corner(b, c) == c[1] \in {0, b.nxl + 1} /\ c[2] \in {0, b.nyl + 1}

\* The cells a rank's kernels and boundary fills write: its block, and the
\* halo beyond the domain's edge except for its corners.
Written(b) ==
  {c \in WithHalo(b) : c \in Interior(b) \/ (~InDomain(Global(b, c)) /\ ~Corner(b, c))}

Fresh(r, n) ==
  [f \in DOMAIN field[r] |->
     IF f = "gid" THEN field[r][f]
     ELSE [c \in WithHalo(block[r]) |->
             IF c \in Written(block[r]) THEN [cell |-> Global(block[r], c), call |-> n]
             ELSE field[r][f][c]]]

\* The mask of a numbering: the constructor's has every cell active.
Mask(round) == IF round = 1 THEN [c \in DOMAIN request.ktop |-> 0] ELSE request.ktop
ActiveOf(r, round) == Active(block[r], Mask(round), request.nz)

\* What each rank counts: its active columns, or its active cells.
Columns2Of(round) == [q \in Ranks |-> Cardinality(Columns(ActiveOf(q, round)))]
Cells3Of(round) == [q \in Ranks |-> Cardinality(ActiveOf(q, round))]

\* Mutants: an inclusive sum, and one sum for both kinds of ids.
Offset2Inclusive(r, round) == SumFunctionOnSet(Columns2Of(round), 0..r)
Offset3Columns(r, round) == SumFunctionOnSet(Columns2Of(round), 0..r - 1)

\* MPI_Exscan of the counts: what the lower ranks have.
Offset2(r, round) == SumFunctionOnSet(Columns2Of(round), 0..r - 1)
Offset3(r, round) == SumFunctionOnSet(Cells3Of(round), 0..r - 1)

NoIds == [gid2 |-> Inactive, gid3 |-> [k \in 0..request.nz - 1 |-> Inactive]]

Numbered(r, round) ==
  LET cells   == ActiveOf(r, round)
      offset2 == Offset2(r, round)
      offset3 == Offset3(r, round)
  IN [c \in WithHalo(block[r]) |->
        IF c \in Interior(block[r]) THEN ColumnIds(c, offset2, offset3, cells, request.nz)
        ELSE NoIds]

----------------------------------------------------------------------------
(* The steps of a rank. *)

Tags == 100..103 \union 200..203

Init ==
  /\ request \in Requests
  /\ status = "starting" /\ block = <<>> /\ neighbor = <<>>
  /\ at = [r \in Ranks |-> [part |-> 1, phase |-> 1]]
  /\ posted = [r \in Ranks |-> FALSE]
  /\ field = [r \in Ranks |-> <<>>]
  /\ wire = [k \in Ranks \X Ranks \X Tags |-> <<>>]

Unset(b) ==
  [f \in Fields \union {"gid"} |-> [c \in WithHalo(b) |-> IF f = "gid" THEN NoIds ELSE NoValue]]

\* The constructor up to the first numbering, the same on every rank.
Construct ==
  LET layout == ChooseDecomposition(request.nx, request.ny, request.size,
                                    request.mpiNx, request.mpiNy)
  IN /\ status = "starting"
     /\ IF Accepted(request.nx, request.ny, request.size, layout)
        THEN /\ status' = "running"
             /\ block' = [r \in Ranks |-> Block(request.nx, request.ny, layout, r)]
             /\ neighbor' = [r \in Ranks |-> [d \in Directions |-> Neighbor(layout, r, d)]]
             /\ field' = [r \in Ranks |-> Unset(block'[r])]
        ELSE status' = "fatal" /\ UNCHANGED <<block, neighbor, field>>
     /\ UNCHANGED <<request, at, posted, wire>>

\* A rank's next phase, or the one it waits in.
In(r, kinds) == status = "running" /\ ~Done(r) /\ PhaseOf(r).kind \in kinds

EnterSum(r) ==
  /\ In(r, {"sum"}) /\ ~posted[r]
  /\ posted' = [posted EXCEPT ![r] = TRUE]
  /\ UNCHANGED <<grid, at, field, wire>>

Entered(q, round) ==
  at[q].part > round \/ (at[q].part = round /\ (at[q].phase > 1 \/ posted[q]))

\* The collective sums end once every rank has entered; the ids are assigned.
LeaveSum(r) ==
  /\ In(r, {"sum"}) /\ posted[r]
  /\ \A q \in Ranks : Entered(q, at[r].part)
  /\ field' = [field EXCEPT ![r].gid = Numbered(r, at[r].part)]
  /\ posted' = [posted EXCEPT ![r] = FALSE] /\ at' = [at EXCEPT ![r] = Onward(r)]
  /\ UNCHANGED <<grid, wire>>

\* The channels a phase sends to and waits for; MPI_PROC_NULL ends nowhere.
Outgoing(r) ==
  [d \in {e \in DOMAIN PhaseOf(r).sends : neighbor[r][e] # ProcNull} |->
     <<r, neighbor[r][d], PhaseOf(r).sends[d]>>]
Incoming(r) ==
  [d \in {e \in DOMAIN PhaseOf(r).receives : neighbor[r][e] # ProcNull} |->
     <<neighbor[r][d], r, PhaseOf(r).receives[d]>>]

\* The kernels before a call; then its receives, its packs and its sends.
Post(r) ==
  LET phase  == PhaseOf(r)
      values == IF phase.kind = "first" THEN Fresh(r, phase.call) ELSE field[r]
      out    == Outgoing(r)
  IN /\ In(r, {"ids", "first", "next"}) /\ ~posted[r]
     /\ field' = [field EXCEPT ![r] = values]
     /\ wire' = [k \in DOMAIN wire |->
                   IF k \notin Range(out) THEN wire[k]
                   ELSE LET d == CHOOSE d \in DOMAIN out : out[d] = k
                        IN Append(wire[k], Pack(values, block[r], d, phase))]
     /\ posted' = [posted EXCEPT ![r] = TRUE]
     /\ UNCHANGED <<grid, at>>

\* A held message leaves its sender when its receiver waits for it.
Wanted(k) == wire[k] = <<>> \/ (posted[k[2]] /\ k \in Range(Incoming(k[2])))

\* MPI_Waitall, or the return of MPI_Sendrecv, and the unpacks.
Complete(r) ==
  LET phase == PhaseOf(r)
      in    == Incoming(r)
      Side(c) == {d \in DOMAIN in : Receives(block[r], d, c, phase.wide)}
      Unpacked(f, c) ==
        LET d == CHOOSE d \in Side(c) : TRUE
        IN Head(wire[in[d]])[f][Row(d, c, phase.wide)]
  IN /\ In(r, {"ids", "first", "next"}) /\ posted[r]
     /\ \A k \in Range(in) : wire[k] # <<>>
     /\ request.buffered \/ \A k \in Range(Outgoing(r)) : Wanted(k)
     /\ field' = [field EXCEPT ![r] =
                    [f \in DOMAIN field[r] |->
                       IF f \notin phase.fields THEN field[r][f]
                       ELSE [c \in WithHalo(block[r]) |->
                               IF Side(c) = {} THEN field[r][f][c] ELSE Unpacked(f, c)]]]
     /\ wire' = [k \in DOMAIN wire |-> IF k \in Range(in) THEN Tail(wire[k]) ELSE wire[k]]
     /\ posted' = [posted EXCEPT ![r] = FALSE] /\ at' = [at EXCEPT ![r] = Onward(r)]
     /\ UNCHANGED grid

RankStep(r) == EnterSum(r) \/ LeaveSum(r) \/ Post(r) \/ Complete(r)

Next == Construct \/ \E r \in Ranks : RankStep(r)

Spec == Init /\ [][Next]_vars

\* Every process keeps running, and the MPI library delivers what was sent.
FairSpec == Spec /\ WF_vars(Next)

----------------------------------------------------------------------------
TypeOK ==
  /\ request \in Requests /\ status \in {"starting", "running", "fatal"}
  /\ \A r \in Ranks : at[r].part \in 1..Parts + 1 /\ posted[r] \in BOOLEAN
  /\ \A r \in Ranks : status = "running" => \A c \in WithHalo(block[r]) :
       /\ field[r].gid[c].gid2 \in Inactive..request.nx * request.ny - 1
       /\ \A k \in 0..request.nz - 1 :
            field[r].gid[c].gid3[k] \in Inactive..request.nx * request.ny * request.nz - 1
  /\ \A k \in DOMAIN wire : Len(wire[k]) <= 2

(***************************************************************************)
(* The blocks tile the domain, none of them empty, and the neighbour of a  *)
(* rank is the owner of the cells beyond its side.  The constructor gives  *)
(* up on an automatic layout only when no factorization of the ranks fits  *)
(* the extents.                                                            *)
(***************************************************************************)
Owners(cell) ==
  {r \in Ranks : \E c \in Interior(block[r]) : Global(block[r], c) = cell}

LayoutSound ==
  /\ status = "running" =>
       /\ \A cell \in DOMAIN request.ktop : Cardinality(Owners(cell)) = 1
       /\ \A r \in Ranks : Interior(block[r]) # {}
       /\ \A r \in Ranks, d \in Directions :
            \A c \in {c \in WithHalo(block[r]) : Receives(block[r], d, c, FALSE)} :
              LET cell == Global(block[r], c)
              IN IF neighbor[r][d] = ProcNull THEN ~InDomain(cell)
                 ELSE Owners(cell) = {neighbor[r][d]}
  /\ (status = "fatal" /\ request.mpiNx = 0 /\ request.mpiNy = 0) =>
       \A x, y \in 1..request.size :
         x * y = request.size => x > request.nx \/ y > request.ny

(***************************************************************************)
(* After the second numbering the active cells have the ids 0 to n - 1,    *)
(* each once, those of a rank below those of the next (PETSc's contiguous  *)
(* row ownership), for the surface columns and for the soil cells, and no  *)
(* inactive cell has one.                                                  *)
(***************************************************************************)
Columns2(r) == {field[r].gid[c].gid2 : c \in Interior(block[r])} \ {Inactive}
Layers3(r) ==
  (UNION {Range(field[r].gid[c].gid3) : c \in Interior(block[r])}) \ {Inactive}
ActiveColumns == {c \in DOMAIN request.ktop : request.ktop[c] < request.nz}
ActiveCells ==
  {c \in (0..request.nx - 1) \X (0..request.ny - 1) \X (0..request.nz - 1) :
     c[3] >= request.ktop[<<c[1], c[2]>>]}

Renumbered == \A r \in Ranks : at[r].part > 2 \/ (at[r].part = 2 /\ at[r].phase > 1)

IdsAreRows ==
  (status = "running" /\ Renumbered) =>
    /\ UNION {Columns2(r) : r \in Ranks} = 0..Cardinality(ActiveColumns) - 1
    /\ UNION {Layers3(r) : r \in Ranks} = 0..Cardinality(ActiveCells) - 1
    /\ \A r, q \in Ranks : r < q =>
         /\ \A a \in Columns2(r), b \in Columns2(q) : a < b
         /\ \A a \in Layers3(r), b \in Layers3(q) : a < b
    /\ \A r \in Ranks : \A c \in Interior(block[r]) :
         LET ids == field[r].gid[c]
             top == request.ktop[Global(block[r], c)]
         IN /\ ids.gid2 # Inactive <=> top < request.nz
            /\ \A k \in 0..request.nz - 1 : ids.gid3[k] # Inactive <=> k >= top

(***************************************************************************)
(* When a call returns on a rank, whatever the others have done since,     *)
(* every halo cell inside the domain holds what its owner had after the    *)
(* kernels before that very call; a cell beyond the edge holds the rank's  *)
(* own boundary fill.  The corners are current only after a call that asks *)
(* for them, and never hold another place's value.  After a numbering the  *)
(* halo holds the owners' ids.                                             *)
(***************************************************************************)
IdsCurrent(r) ==
  \A c \in WithHalo(block[r]) \ Interior(block[r]) :
    LET cell == Global(block[r], c) IN
    IF Corner(block[r], c) \/ ~InDomain(cell) THEN field[r].gid[c] = NoIds
    ELSE \E q \in Ranks : \E own \in Interior(block[q]) :
           Global(block[q], own) = cell /\ field[q].gid[own] = field[r].gid[c]

CallCurrent(r, n) ==
  \A f \in Calls[n].fields : \A c \in WithHalo(block[r]) :
    LET cell == Global(block[r], c) IN
    IF ~Corner(block[r], c) \/ (Calls[n].corners /\ InDomain(cell))
    THEN field[r][f][c] = [cell |-> cell, call |-> n]
    ELSE field[r][f][c].cell \in {cell, NoValue.cell}

HaloCurrent ==
  status = "running" =>
    \A r \in Ranks : (~posted[r] /\ at[r].phase = 1) =>
      /\ at[r].part \in 2..3 => IdsCurrent(r)
      /\ at[r].part > 3 => CallCurrent(r, at[r].part - 3)

\* Every rank gets through the program, whether or not messages are buffered.
Completes == <>(status = "fatal" \/ \A r \in Ranks : Done(r))
=============================================================================
