------------------------------- MODULE KdTree -------------------------------
(***************************************************************************)
(* The KD_TREE algorithm (reordering_algorithms/kd_tree/kd_tree.cpp): each *)
(* process descends from the whole grid to the one cell it is placed on,   *)
(* halving at every level the extent that is largest for the number of     *)
(* stencil neighbours across it.                                           *)
(*                                                                         *)
(* The processes do not communicate while they descend: each recomputes,   *)
(* from its own rank, the splits the others compute.  A step is therefore  *)
(* one level of the recursion in every process that is still in it.        *)
(***************************************************************************)
EXTENDS Grid

CONSTANTS
  ndims,      \* num_dims
  Inputs,     \* the arguments considered: [dims, stencil, world_size]
  HeapWords   \* what the int before the array dims_heper on the heap may hold

Dims == 0 .. ndims-1

Extents == [Dims -> Nat \ {0}]

\* split_dim when no extent exceeds 1.
NoDim == -1

ASSUME NdimsAssumption == ndims \in Nat \ {0}
ASSUME InputAssumption ==
  \A in \in Inputs : /\ in.dims \in Extents
                     /\ in.world_size \in Nat \ {0}
                     /\ IsFiniteSet(DOMAIN in.stencil)
                     /\ \A i \in DOMAIN in.stencil : in.stencil[i] \in [Dims -> Int]
ASSUME HeapAssumption == HeapWords \subseteq Int

VARIABLES
  input,     \* the arguments of MPIX_skewed_kdtree_cart_create
  factors,
  call       \* the innermost call of each process, by rank in sorted_comm

vars == <<input, factors, call>>

Ranks == 0 .. input.world_size-1

\* A larger extent across which fewer neighbours lie is the better one to split;
\* an extent without any is better than every other.
Outweighs(a, f, i, j) ==
  /\ f[j] # 0
  /\ f[i] # 0 => a[i] * f[j] > a[j] * f[i]

\* The last dimension, in ascending order, that outweighed all before it; an extent
\* of 1 never does.
skewed_max_index(a, f) ==
  LET best[n \in 0 .. ndims] ==
        IF n = 0 THEN NoDim
        ELSE IF a[n-1] > 1 /\ (best[n-1] # NoDim => Outweighs(a, f, n-1, best[n-1]))
             THEN n-1
             ELSE best[n-1]
  IN best[ndims]

calculate_factors(stencil) ==
  [d \in Dims |-> Cardinality({i \in DOMAIN stencil : stencil[i][d] # 0})]

(***************************************************************************)
(* One execution of skewed_find_node_recursive's body.                     *)
(***************************************************************************)
SplitDim(c, f) == skewed_max_index(c.dims, f)

\* Mutant: the left side is rounded up past the extent.
LeftDim_TooHigh(c, f) == (c.dims[SplitDim(c, f)] \div 2) + 1

\* left_dim_size and left_size: the lower half of the extent, and its cells.
LeftDim(c, f) == c.dims[SplitDim(c, f)] \div 2

LeftSize(c, f) == (c.size \div c.dims[SplitDim(c, f)]) * LeftDim(c, f)

\* Mutant: the first process of the right side goes left.
LooksLeft_AtMost(c, n) == c.target_index <= n

LooksLeft(c, n) == c.target_index < n

\* The arguments of the recursive calls, for the split of dimension s after l rows
\* with n cells.
Left(c, s, l, n) == [c EXCEPT !.dims[s] = l, !.size = n]

\* Mutants: the right side keeps the index in the whole subgrid; the coordinate is
\* moved by what is left of the extent; it is not moved; it is set, not advanced.
Right_SameIndex(c, s, l, n) ==
  [c EXCEPT !.dims[s] = @ - l, !.coordinate[s] = @ + l, !.size = @ - n]

Right_MovedLate(c, s, l, n) ==
  [c EXCEPT !.dims[s] = @ - l, !.coordinate[s] = @ + (c.dims[s] - l), !.size = @ - n,
            !.target_index = @ - n]

Right_Set(c, s, l, n) ==
  [c EXCEPT !.dims[s] = @ - l, !.coordinate[s] = l, !.size = @ - n, !.target_index = @ - n]

Right(c, s, l, n) ==
  [c EXCEPT !.dims[s] = @ - l, !.coordinate[s] = @ + l, !.size = @ - n, !.target_index = @ - n]

\* When no extent can be split the code reads dims[-1], the heap word in front of
\* the array; above 1 it would go on to write there and in front of coordinate.
Descend(c, f, word) ==
  IF SplitDim(c, f) = NoDim
  THEN [c EXCEPT !.status = IF word <= 1 THEN "returned" ELSE "corrupted"]
  ELSE IF LooksLeft(c, LeftSize(c, f))
       THEN Left(c, SplitDim(c, f), LeftDim(c, f), LeftSize(c, f))
       ELSE Right(c, SplitDim(c, f), LeftDim(c, f), LeftSize(c, f))

\* The call that rank p makes on the whole grid.
EntryCall(p) ==
  [dims |-> input.dims, size |-> input.world_size, target_index |-> p,
   coordinate |-> [d \in Dims |-> 0], status |-> "calling"]

Init ==
  /\ input \in Inputs
  /\ factors = calculate_factors(input.stencil)
  /\ call = [p \in Ranks |-> EntryCall(p)]

Done == \A p \in Ranks : call[p].status # "calling"

Level ==
  /\ ~ Done
  /\ \E word \in HeapWords :
       call' = [p \in Ranks |->
         IF call[p].status = "calling" THEN Descend(call[p], factors, word) ELSE call[p]]
  /\ UNCHANGED <<input, factors>>

Next == Level \/ (Done /\ UNCHANGED vars)

Spec == Init /\ [][Next]_vars

\* The key each process passes to MPI_Comm_split.
NewRank(p) == RowMajorRank(call[p].coordinate, input.dims, ndims)

----------------------------------------------------------------------------
Call ==
  [dims : Extents, size : Nat \ {0}, target_index : Nat,
   coordinate : [Dims -> Nat], status : {"calling", "returned", "corrupted"}]

\* The arguments of a call are of their C types, extents never reaching zero.
TypeOK ==
  /\ input.dims \in Extents
  /\ factors \in [Dims -> Nat]
  /\ call \in [Ranks -> Call]

\* The communicator has as many processes as the grid has cells.
GridIsFull == input.world_size = Volume(input.dims, ndims)

\* size, carried along by integer divisions, is at every level the number of cells
\* of the subgrid, and the process looks for one of them (kd_tree.cpp:72-91).
SubgridExact ==
  GridIsFull => \A p \in Ranks :
    /\ call[p].size = Volume(call[p].dims, ndims)
    /\ call[p].target_index < call[p].size

\* No process is placed outside the grid, not even when the communicator has more
\* processes than the grid has cells.
PlacedInGrid ==
  \A p \in Ranks : \A d \in Dims : call[p].coordinate[d] + call[p].dims[d] <= input.dims[d]

\* The processes in one subgrid have consecutive ranks in sorted_comm, one for each
\* cell: a subgrid the size of a node belongs to one node or two adjacent ones.
SubgridsConsecutive ==
  GridIsFull => \A p \in Ranks :
    {q \in Ranks : call[q].coordinate = call[p].coordinate /\ call[q].dims = call[p].dims}
      = (p - call[p].target_index) .. (p - call[p].target_index + call[p].size - 1)

\* The keys of the split are the ranks of the grid, each once: the process with key
\* k becomes rank k, and so sits on the cell it computed (kd_tree.cpp:52-58).
KeysAreRanks ==
  GridIsFull /\ (\A p \in Ranks : call[p].status = "returned") =>
    {NewRank(p) : p \in Ranks} = Ranks

\* The recursion splits the subgrid it was given: a level never moves a process out
\* of the box it was in, and always makes that box smaller, so that it ends.
BoxesShrink ==
  [][\A p \in Ranks : call'[p] # call[p] /\ call'[p].status = "calling" =>
       /\ \A d \in Dims :
            /\ call'[p].coordinate[d] >= call[p].coordinate[d]
            /\ call'[p].coordinate[d] + call'[p].dims[d]
                 <= call[p].coordinate[d] + call[p].dims[d]
       /\ \E d \in Dims : call'[p].dims[d] < call[p].dims[d]]_vars

\* A process that ends the recursion read the extent of some dimension, "the largest
\* dimension" which "is only 1 big" (kd_tree.cpp:74), to decide that it ends.
LeafReadsAnExtent ==
  \A p \in Ranks :
    call[p].status = "calling" => skewed_max_index(call[p].dims, factors) \in Dims
=============================================================================
