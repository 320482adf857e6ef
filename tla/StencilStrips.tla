---------------------------- MODULE StencilStrips ----------------------------
(***************************************************************************)
(* The STENCIL_STRIPS algorithm (reordering_algorithms/stencil_strips):    *)
(* every dimension but the longest is cut into strips, and the ranks run   *)
(* along the longest one inside a bundle of strips, then through the next  *)
(* bundle in the opposite direction, and so on like a snake.               *)
(*                                                                         *)
(* A step is one iteration of the loop over the dimensions in every        *)
(* process.  The processes compute from the same arguments and without     *)
(* communicating, so that dim_index is the same in all of them.            *)
(*                                                                         *)
(* The height aimed at is a floating-point root of a volume distorted by   *)
(* the stencil's bounding box.  The model takes it for an input, roots:    *)
(* what holds for every value of roots owes nothing to how pow rounds.     *)
(***************************************************************************)
EXTENDS Grid

CONSTANTS
  ndims,
  Inputs   \* the arguments considered: [dims, roots, world_size]

Dims == 0 .. ndims-1

Extents == [Dims -> Nat \ {0}]

ASSUME NdimsAssumption == ndims \in Nat \ {0}
\* MPI_Cart_create is given no grid with more cells than there are processes.
ASSUME InputAssumption ==
  \A in \in Inputs : /\ in.dims \in Extents
                     /\ in.roots \in [Dims -> Nat]
                     /\ in.world_size \in Nat \ {0}
                     /\ Volume(in.dims, ndims) <= in.world_size

VARIABLES
  input,
  dim_index,   \* iterations of the loop that are over; ndims+1 after compute_coord
  walk         \* the local variables of compute_stencil_strip, by rank in old_comm

vars == <<input, dim_index, walk>>

Ranks == 0 .. input.world_size-1

\* max_index: the first dimension of the largest extent.
max_dim ==
  Min({i \in Dims : \A j \in Dims : input.dims[j] <= input.dims[i]})

\* compute_dim_order: the longest dimension comes last.
dim_order ==
  [i \in Dims |-> IF i = ndims-1 THEN max_dim ELSE IF i < max_dim THEN i ELSE i+1]

----------------------------------------------------------------------------
(***************************************************************************)
(* compute_stencil_strip_heights.  big strips are one row higher than the  *)
(* small ones, and come first.                                             *)
(***************************************************************************)
nroot(dim) ==
  IF dim = max_dim \/ input.roots[dim] = 0 THEN 1 ELSE input.roots[dim]

num_strips(dim) == Max({1, input.dims[dim] \div nroot(dim)})

remainder(dim) == input.dims[dim] - num_strips(dim) * nroot(dim)

\* Mutant: the rows left over are not shared out.
small_strip_height_Root(dim) == nroot(dim)

small_strip_height(dim) == nroot(dim) + (remainder(dim) \div num_strips(dim))

num_big_strips(dim) == remainder(dim) % num_strips(dim)

num_small_strips(dim) == num_strips(dim) - num_big_strips(dim)

\* The number of strips of one kind, the height of each, and the first of them.
Count(dim, big) == IF big THEN num_big_strips(dim) ELSE num_small_strips(dim)

Height(dim, big) == small_strip_height(dim) + (IF big THEN 1 ELSE 0)

First(dim, big) == IF big THEN 0 ELSE num_big_strips(dim)

\* The lowest row of a strip: that many small strips up, and one row more for each
\* big one among them.
LowestRow(dim, big, strip) ==
  strip * small_strip_height(dim) + (IF big THEN strip ELSE num_big_strips(dim))

----------------------------------------------------------------------------
nodes_per_row(w, dim) == w.total_nodes \div input.dims[dim]

big_strip_nodes(w, dim) == Height(dim, TRUE) * num_big_strips(dim) * nodes_per_row(w, dim)

small_strip_nodes(w, dim) == w.total_nodes - big_strip_nodes(w, dim)

\* Mutant: the first rank after the big strips counts as one of theirs.
InBigStrip_AtMost(w, dim) ==
  IF w.flip_next THEN w.target_rank >= small_strip_nodes(w, dim)
                 ELSE w.target_rank <= big_strip_nodes(w, dim)

\* Whether the rank lies in a big strip: those are filled first, unless the
\* direction is flipped.
InBigStrip(w, dim) ==
  IF w.flip_next THEN w.target_rank >= small_strip_nodes(w, dim)
                 ELSE w.target_rank < big_strip_nodes(w, dim)

\* The ranks in the strips of the other kind, where those are filled first.
Surpassed(w, dim) ==
  IF InBigStrip(w, dim) # w.flip_next
  THEN 0
  ELSE IF w.flip_next THEN small_strip_nodes(w, dim) ELSE big_strip_nodes(w, dim)

strip_nodes(w, dim) == Height(dim, InBigStrip(w, dim)) * nodes_per_row(w, dim)

\* The strip the rank lies in is the nth of its kind in the direction of travel.
nth(w, dim) == (w.target_rank - Surpassed(w, dim)) \div strip_nodes(w, dim)

\* Mutants: the strips of the same kind before this one are not counted off; they are
\* counted off together with this one.
target_rank_Kind(w, dim) == w.target_rank - Surpassed(w, dim)

target_rank_Inclusive(w, dim) ==
  w.target_rank - Surpassed(w, dim) - (nth(w, dim) + 1) * strip_nodes(w, dim)

\* The index of the rank among those of its strip.
target_rank(w, dim) == w.target_rank - Surpassed(w, dim) - nth(w, dim) * strip_nodes(w, dim)

\* Mutant: an odd strip sets the flag where it should toggle it.
flip_next_Set(w, strip) == strip > 0 /\ strip % 2 = 1

\* The direction of travel is reversed in every second strip.  (C's % is negative
\* for a strip below 0.)
flip_next(w, strip) == IF strip > 0 /\ strip % 2 = 1 THEN ~ w.flip_next ELSE w.flip_next

\* The body of compute_stencil_strip's loop.
EnterStrip(w, dim) ==
  LET big == InBigStrip(w, dim)
      strip == First(dim, big) + (IF w.flip_next THEN Count(dim, big) - (nth(w, dim)+1)
                                                 ELSE nth(w, dim))
  IN [w EXCEPT !.flipped_dim[dim] = w.flip_next,
               !.target_rank = target_rank(w, dim),
               !.coord[dim] = @ + LowestRow(dim, big, strip),
               !.strip_sizes[dim] = Height(dim, big),
               !.strip_coord[dim] = strip,
               !.flip_next = flip_next(w, strip),
               !.total_nodes = strip_nodes(w, dim)]

\* Mutant: a flipped row is counted from one above the strip.
Mirrored_FromAbove(row, height) == height - row

\* A row of a strip that is filled from its highest row downwards.
Mirrored(row, height) == height - (row + 1)

\* compute_coord: the cells of a bundle are numbered with the longest dimension
\* varying fastest, backwards in the flipped ones.
compute_coord(w) ==
  LET inner(dim) == {dim_order[i] : i \in {i \in Dims : \E k \in 0 .. i-1 : dim_order[k] = dim}}
      coord_component(dim) ==
        w.target_rank \div ProductOver(w.strip_sizes, inner(dim))
      row(dim) == coord_component(dim) % w.strip_sizes[dim]
  IN [dim \in Dims |-> w.coord[dim] +
        (IF w.flipped_dim[dim] THEN Mirrored(row(dim), w.strip_sizes[dim]) ELSE row(dim))]

----------------------------------------------------------------------------
\* The variables of rank p before the loop.
EntryWalk(p) ==
  [target_rank |-> p, total_nodes |-> input.world_size, flip_next |-> FALSE,
   coord |-> [d \in Dims |-> 0], strip_sizes |-> [d \in Dims |-> 0],
   strip_coord |-> [d \in Dims |-> 0], flipped_dim |-> [d \in Dims |-> FALSE]]

Init ==
  /\ input \in Inputs
  /\ dim_index = 0
  /\ walk = [p \in Ranks |-> EntryWalk(p)]

ChooseStrip ==
  /\ dim_index < ndims
  /\ walk' = [p \in Ranks |-> EnterStrip(walk[p], dim_order[dim_index])]
  /\ dim_index' = dim_index + 1
  /\ UNCHANGED input

ComputeCoord ==
  /\ dim_index = ndims
  /\ walk' = [p \in Ranks |-> [walk[p] EXCEPT !.coord = compute_coord(walk[p])]]
  /\ dim_index' = dim_index + 1
  /\ UNCHANGED input

Done == dim_index = ndims+1

Next == ChooseStrip \/ ComputeCoord \/ (Done /\ UNCHANGED vars)

Spec == Init /\ [][Next]_vars

\* The key each process passes to MPI_Comm_split.
NewRank(p) == RowMajorRank(walk[p].coord, input.dims, ndims)
----------------------------------------------------------------------------
\* The local variables are of their C types, ranks and counts never negative.
TypeOK ==
  /\ input.dims \in Extents
  /\ dim_index \in 0 .. ndims+1
  /\ \A p \in Ranks :
       /\ walk[p].target_rank \in Nat
       /\ walk[p].total_nodes \in Nat
       /\ walk[p].flip_next \in BOOLEAN
       /\ walk[p].coord \in [Dims -> Int]
       /\ walk[p].strip_sizes \in [Dims -> Nat]
       /\ walk[p].strip_coord \in [Dims -> Int]
       /\ walk[p].flipped_dim \in [Dims -> BOOLEAN]

\* The communicator has as many processes as the grid has cells.
GridIsFull == input.world_size = Volume(input.dims, ndims)

\* The dimensions the loop has dealt with.
Cut == {dim_order[k] : k \in {k \in Dims : k < dim_index}}

\* The strips of a dimension, big and small, cover its rows exactly, whatever height
\* the root asks for: more than the extent, zero, or one that does not divide it
\* (stencil_strips.cpp:41-61).
StripsTile ==
  \A d \in Dims :
    /\ small_strip_height(d) >= 1
    /\ num_small_strips(d) >= 1
    /\ num_big_strips(d) * Height(d, TRUE) + num_small_strips(d) * Height(d, FALSE) = input.dims[d]

\* The count of nodes that is carried along is the size of the bundle of strips the
\* process is in, and it looks for one of its cells (stencil_strips.cpp:118-173).
BundleExact ==
  GridIsFull => \A p \in Ranks :
    LET extent == [d \in Dims |-> IF d \in Cut THEN walk[p].strip_sizes[d] ELSE input.dims[d]]
    IN /\ walk[p].total_nodes = Volume(extent, ndims)
       /\ walk[p].target_rank < walk[p].total_nodes

\* The processes of one bundle of strips have consecutive ranks, as many as the
\* bundle has cells, whichever directions the bundle is filled in.
BundlesConsecutive ==
  GridIsFull => \A p \in Ranks :
    {q \in Ranks : walk[q].strip_coord = walk[p].strip_coord}
      = (p - walk[p].target_rank) .. (p - walk[p].target_rank + walk[p].total_nodes - 1)

\* The processes end in the grid, and the keys of the split are its ranks, each once:
\* no two processes meet on a cell, and the one with key k becomes rank k, and so
\* sits on the cell it computed (stencil_strips.cpp:190-201).
KeysAreRanks ==
  GridIsFull /\ Done =>
    /\ \A p \in Ranks : InGrid(walk[p].coord, input.dims)
    /\ {NewRank(p) : p \in Ranks} = Ranks

\* The ranks wind through the grid without a jump: the next rank is in the same
\* bundle of strips or in one next to it, and at most one row away along the longest
\* dimension, so that the processes of a node stay together.  This is what flip_next
\* is for (stencil_strips.cpp:145-172).
SnakeContinuity ==
  GridIsFull /\ Done => \A p \in Ranks \ {0} :
    LET moved == {d \in Dims : walk[p].strip_coord[d] # walk[p-1].strip_coord[d]}
    IN /\ Cardinality(moved) <= 1
       /\ \A d \in moved : walk[p].strip_coord[d] - walk[p-1].strip_coord[d] \in {-1, 1}
=============================================================================
