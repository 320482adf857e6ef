-------------------------- MODULE MCStencilStrips --------------------------
(***************************************************************************)
(* Grids, strip heights and communicator sizes for StencilStrips.          *)
(***************************************************************************)
EXTENDS StencilStrips

CONSTANTS MaxExtent, MaxCells, MaxRoot, Spare   \* bounds on an input

SmallGrids == {g \in [Dims -> 1 .. MaxExtent] : Volume(g, ndims) <= MaxCells}

\* Big and small strips occur together from extent 5 upwards: two dimensions of that
\* length besides a longer one, and one besides a short one.
BigGrids ==
  {[d \in Dims |-> IF d < 3 THEN g[d+1] ELSE 1] :
     g \in {<<5, 5, 6>>, <<6, 2, 5>>, <<2, 7, 7>>, <<5, 5, 5>>}}

MCInputs ==
  {[dims |-> g, roots |-> r, world_size |-> Volume(g, ndims) + s] :
     g \in SmallGrids, r \in [Dims -> 0 .. MaxRoot], s \in Spare}
  \cup {[dims |-> g, roots |-> r, world_size |-> Volume(g, ndims)] :
          g \in BigGrids, r \in [Dims -> 1 .. MaxRoot]}
=============================================================================
