----------------------------- MODULE Hyperplane -----------------------------
(***************************************************************************)
(* The HYPERPLANE algorithm (reordering_algorithms/hyperplane): the grid   *)
(* is cut by hyperplanes into subgrids whose sizes are multiples of the    *)
(* number of processes per node, until a subgrid holds one or two such     *)
(* partitions; that subgrid is then filled in the order of the ranks.      *)
(*                                                                         *)
(* As in KdTree the processes compute without communicating, and a step is *)
(* one level of the recursion in every process that is still in it.        *)
(*                                                                         *)
(* The sums of squared cosines that order the dimensions are used only in  *)
(* comparisons: angle_values is an input that ranges over their orderings. *)
(* std::sort leaves the order of equivalent dimensions open; it is the     *)
(* input tie, the same for all processes as they run the same code.        *)
(***************************************************************************)
EXTENDS Grid

CONSTANTS
  ndims,
  Inputs   \* [dims, angle_values, tie, w_size, ppn]: the arguments considered

Dims == 0 .. ndims-1

Extents == [Dims -> Nat \ {0}]

ASSUME NdimsAssumption == ndims \in Nat \ {0}
ASSUME InputAssumption ==
  \A in \in Inputs : /\ in.dims \in Extents
                     /\ in.angle_values \in [Dims -> Nat]
                     /\ in.tie \in [Dims -> Dims]
                     /\ \A i, j \in Dims : in.tie[i] = in.tie[j] => i = j
                     /\ in.w_size \in Nat \ {0}
                     /\ in.ppn \in 1 .. in.w_size

VARIABLES
  input,
  n_processes_p_node,   \* the largest divisor of w_size up to the aggregate ppn
  call                  \* the innermost hyperplane_internal call of each process

vars == <<input, n_processes_p_node, call>>

Ranks == 0 .. input.w_size-1

my_partition(p) == p \div n_processes_p_node

\* dimension_order: the order hyperplane_dimension_order sorts the dimensions in,
\* made total by tie.
SortsBefore(dims, i, j) ==
  \/ input.angle_values[i] < input.angle_values[j]
  \/ /\ input.angle_values[i] = input.angle_values[j]
     /\ \/ dims[i] > dims[j]
        \/ dims[i] = dims[j] /\ input.tie[i] < input.tie[j]

----------------------------------------------------------------------------
Aligned(cells) == cells % n_processes_p_node = 0

\* Mutant: the extent is cut in the middle.
BalancedCut_Middle(d, subvolume) == d \div 2

\* The cut of extent d, given the cells in one layer: from the middle downwards to
\* the first position at which one side is a multiple of n_processes_p_node, or 1.
BalancedCut(d, subvolume) ==
  Max({l \in 1 .. d \div 2 : l = 1 \/ Aligned(subvolume * l) \/ Aligned(subvolume * (d - l))})

\* split_lhs along dimension i: the smaller side lies towards the nearer boundary
\* of the original grid.
split_lhs(c, i) ==
  LET cut == BalancedCut(c.dims[i], c.grid_size \div c.dims[i])
  IN IF c.lo[i] + (c.dims[i] \div 2) >= (input.dims[i] \div 2) THEN c.dims[i] - cut ELSE cut

SplitFound(c, i) ==
  /\ c.dims[i] # 1
  /\ LET subvolume == c.grid_size \div c.dims[i]
     IN /\ Aligned(subvolume * split_lhs(c, i))
        /\ Aligned(subvolume * (c.dims[i] - split_lhs(c, i)))

\* Mutant: the digits are not shifted.
taken_Nothing(c, d) == 1

\* The product of the spans of the dimensions that come after d in the order.
taken(c, d) ==
  ProductOver([j \in Dims |-> c.hi[j] - c.lo[j] + 1], {j \in Dims : SortsBefore(c.dims, d, j)})

\* Mixed-radix digits of the rank within the subgrid: each step of the loop takes
\* one off by % and /, beginning with the last dimension in the order.
base_case_new_coord_calculation(c, p) ==
  LET my_difference == p - c.partition_id * n_processes_p_node
  IN [d \in Dims |-> c.lo[d] + ((my_difference \div taken(c, d)) % (c.hi[d] - c.lo[d] + 1))]

\* Mutants: the end point is one too high; the cells left of the cut stay those of
\* the whole subgrid.
LeftSide_OneMore(c, i, lhs, subvolume) ==
  [c EXCEPT !.hi[i] = c.lo[i] + lhs, !.dims[i] = lhs, !.grid_size = subvolume * lhs]

LeftSide_SameSize(c, i, lhs, subvolume) ==
  [c EXCEPT !.hi[i] = c.lo[i] + lhs - 1, !.dims[i] = lhs]

\* The arguments of the recursive calls, for a cut of dimension i after lhs layers of
\* subvolume cells.
LeftSide(c, i, lhs, subvolume) ==
  [c EXCEPT !.hi[i] = c.lo[i] + lhs - 1, !.dims[i] = lhs, !.grid_size = subvolume * lhs]

\* Mutant: the partitions on the left are not counted off.
RightSide_SamePartition(c, i, lhs, subvolume) ==
  [c EXCEPT !.lo[i] = @ + lhs, !.dims[i] = @ - lhs, !.grid_size = subvolume * (c.dims[i] - lhs)]

RightSide(c, i, lhs, subvolume) ==
  [c EXCEPT !.lo[i] = @ + lhs, !.dims[i] = @ - lhs, !.grid_size = subvolume * (c.dims[i] - lhs),
            !.partition_id = @ + ((subvolume * lhs) \div n_processes_p_node)]

\* The rest of the loop: the first dimension of the order with an aligned split is
\* cut, and the call is repeated for the side that holds the process' partition.
\* Without such a dimension the call returns and new_rank_coords stays unassigned.
Recurse(c, p) ==
  LET found == {i \in Dims : SplitFound(c, i)}
      best == CHOOSE i \in found : \A j \in found \ {i} : SortsBefore(c.dims, i, j)
      lhs == split_lhs(c, best)
      subvolume == c.grid_size \div c.dims[best]
      remaining_partitions == (subvolume * lhs) \div n_processes_p_node
  IN IF found = {} THEN [c EXCEPT !.status = "unassigned"]
     ELSE IF my_partition(p) < c.partition_id + remaining_partitions
          THEN LeftSide(c, best, lhs, subvolume)
          ELSE RightSide(c, best, lhs, subvolume)

\* Mutant: three partitions are not cut either.
BaseCase_Three(c) == c.grid_size <= 3 * n_processes_p_node

BaseCase(c) == c.grid_size <= 2 * n_processes_p_node

hyperplane_internal(c, p) ==
  IF BaseCase(c)
  THEN [c EXCEPT !.new_rank_coords = base_case_new_coord_calculation(c, p),
                 !.status = "returned"]
  ELSE Recurse(c, p)

\* Mutant: the next larger divisor is taken.
PartitionSize_Above(in) == Min({k \in in.ppn .. in.w_size : in.w_size % k = 0})

\* ppn, or the largest number below it that divides the processes.
PartitionSize(in) == Max({k \in 1 .. in.ppn : in.w_size % k = 0})

\* The call on the whole grid.
EntryCall ==
  [dims |-> input.dims, lo |-> [d \in Dims |-> 0], hi |-> [d \in Dims |-> input.dims[d]-1],
   grid_size |-> Volume(input.dims, ndims), partition_id |-> 0,
   new_rank_coords |-> <<>>, status |-> "calling"]

Init ==
  /\ input \in Inputs
  /\ n_processes_p_node = PartitionSize(input)
  /\ call = [p \in Ranks |-> EntryCall]

Done == \A p \in Ranks : call[p].status # "calling"

Level ==
  /\ ~ Done
  /\ call' = [p \in Ranks |->
       IF call[p].status = "calling" THEN hyperplane_internal(call[p], p) ELSE call[p]]
  /\ UNCHANGED <<input, n_processes_p_node>>

Next == Level \/ (Done /\ UNCHANGED vars)

Spec == Init /\ [][Next]_vars

\* get_rank_from_coords: the key each process passes to MPI_Comm_split.
NewRank(p) == RowMajorRank(call[p].new_rank_coords, input.dims, ndims)

----------------------------------------------------------------------------
\* The arguments of a call are of their C types, extents never reaching zero.
TypeOK ==
  /\ input.dims \in Extents
  /\ n_processes_p_node \in 1 .. input.ppn
  /\ \A p \in Ranks :
       /\ call[p].dims \in Extents
       /\ call[p].lo \in [Dims -> Nat]
       /\ call[p].hi \in [Dims -> Nat]
       /\ call[p].grid_size \in Nat \ {0}
       /\ call[p].partition_id \in Nat
       /\ call[p].status \in {"calling", "returned", "unassigned"}

\* The communicator has as many processes as the grid has cells.
GridIsFull == input.w_size = Volume(input.dims, ndims)

\* Every process gets coordinates: as long as a subgrid holds more than two
\* partitions, some dimension has an aligned split, and the search that starts in
\* the middle and gives up at 1 meets it (hyperplane.cpp:136-217).
CoordinatesAssigned ==
  GridIsFull => \A p \in Ranks : call[p].status # "unassigned"

\* A subgrid has as many cells as its extents say and consists of whole partitions; with
\* partition_id counted off to the left of it, the process' own is one of them.
PartitionsWhole ==
  GridIsFull => \A p \in Ranks :
    LET c == call[p]
    IN /\ c.grid_size = Volume(c.dims, ndims)
       /\ c.grid_size % n_processes_p_node = 0
       /\ my_partition(p) - c.partition_id \in 0 .. (c.grid_size \div n_processes_p_node) - 1

\* The two descriptions of a subgrid that the recursion updates side by side, its
\* end points and its extents, never part, and stay inside the grid.
GridPointsMatch ==
  \A p \in Ranks : \A d \in Dims :
    /\ call[p].hi[d] - call[p].lo[d] + 1 = call[p].dims[d]
    /\ call[p].hi[d] < input.dims[d]

\* The processes end in the grid, and the keys of the split are its ranks, each once:
\* no two processes meet on a cell, and the one with key k becomes rank k, and so
\* sits on the cell it computed (hyperplane.cpp:281-298).
KeysAreRanks ==
  GridIsFull /\ (\A p \in Ranks : call[p].status = "returned") =>
    /\ \A p \in Ranks : InGrid(call[p].new_rank_coords, input.dims)
    /\ {NewRank(p) : p \in Ranks} = Ranks

\* The ppn processes of a partition end in a box of at most two partitions' size,
\* which they share with no process of a third one.
PartitionsCompact ==
  GridIsFull => \A p, q \in Ranks :
    /\ call[p].status = "returned"
    /\ call[q].status = "returned"
    /\ my_partition(q) \notin call[p].partition_id .. call[p].partition_id + 1
    => \E d \in Dims : call[q].new_rank_coords[d] \notin call[p].lo[d] .. call[p].hi[d]

\* The recursion is over after finitely many levels: each goes on inside the subgrid it
\* was given, with fewer cells, and with fewer layers along some dimension.
SubgridsShrink ==
  [][\A p \in Ranks : call'[p] # call[p] /\ call'[p].status = "calling" =>
       /\ call'[p].grid_size < call[p].grid_size
       /\ \A d \in Dims : call'[p].lo[d] >= call[p].lo[d] /\ call'[p].hi[d] <= call[p].hi[d]
       /\ \E d \in Dims : call'[p].hi[d] - call'[p].lo[d] < call[p].hi[d] - call[p].lo[d]]_vars
=============================================================================
