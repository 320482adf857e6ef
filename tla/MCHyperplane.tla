---------------------------- MODULE MCHyperplane ----------------------------
(***************************************************************************)
(* Grids, orderings of the dimensions and node sizes for Hyperplane.       *)
(***************************************************************************)
EXTENDS Hyperplane

CONSTANTS MaxExtent, MaxCells, Spare

Grids == {g \in [Dims -> 1 .. MaxExtent] : Volume(g, ndims) <= MaxCells}

\* Angles are only compared, so the numbers up to ndims-1 give every pattern of equal
\* and different ones, and one assignment of numbers stands for a pattern.  All grids are
\* considered, so the dimensions may be in ascending order of their angles.
Angles == {a \in [Dims -> 0 .. ndims-1] :
             a[0] = 0 /\ \A d \in Dims \ {0} : a[d] - a[d-1] \in {0, 1}}

Identity == [d \in Dims |-> d]
Reversal == [d \in Dims |-> ndims-1-d]

MCInputs ==
  UNION {{[dims |-> g, angle_values |-> a, tie |-> t, w_size |-> Volume(g, ndims) + s, ppn |-> k] :
            a \in Angles, t \in {Identity, Reversal}, k \in 1 .. Volume(g, ndims)} :
         g \in Grids, s \in Spare}
=============================================================================
