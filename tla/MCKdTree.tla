------------------------------ MODULE MCKdTree ------------------------------
(***************************************************************************)
(* Grids, stencils and communicator sizes for KdTree.                      *)
(***************************************************************************)
EXTENDS KdTree

CONSTANTS MaxExtent, MaxCells, Spare   \* bounds on a grid, and processes beyond it

\* A stencil matters through the number of offsets across each dimension; one with
\* w[d] offsets along dimension d, and no others, stands for all with that number.
AxisStencil(w) ==
  [i \in {<<d, k>> \in Dims \X (1..2) : k <= w[d]} |->
     [d \in Dims |-> IF d = i[1] THEN 1 ELSE 0]]

Grids == {g \in [Dims -> 1 .. MaxExtent] : Volume(g, ndims) <= MaxCells}

MCInputs ==
  {[dims |-> g, stencil |-> AxisStencil(w), world_size |-> Volume(g, ndims) + s] :
     g \in Grids, w \in [Dims -> 0 .. 2], s \in Spare}
=============================================================================
