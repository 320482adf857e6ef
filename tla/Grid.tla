-------------------------------- MODULE Grid --------------------------------
(***************************************************************************)
(* Cartesian grids.  A vector of extents, a coordinate or a stencil offset *)
(* is a function on the dimensions 0 .. n-1, as the C arrays are.          *)
(***************************************************************************)
EXTENDS Integers, FiniteSetsExt, Functions

\* The product of the first n extents: the loops that compute n_processes
\* (utils.cpp) and grid_size (hyperplane.cpp).
Volume(d, n) ==
  LET product[i \in 0 .. n] == IF i = 0 THEN 1 ELSE product[i-1] * d[i-1]
  IN product[n]

\* The product of f over the dimensions of S, whichever order the loops that count the
\* cells of some dimensions (hyperplane.cpp, stencil_strips.cpp) take them in.
ProductOver(f, S) == FoldFunctionOnSet(LAMBDA x, y : x * y, 1, f, S)

\* Mutant: each digit is weighted with the extent of the dimension before.
RowMajorRank_Before(c, d, n) ==
  LET rank[i \in 1 .. n] == IF i = 1 THEN c[0] ELSE rank[i-1] * d[i-2] + c[i-1]
  IN rank[n]

\* The loop new_rank = new_rank * dims[i] + coordinate[i], which starts from
\* coordinate[0] (kd_tree.cpp, stencil_strips.cpp).
RowMajorRank(c, d, n) ==
  LET rank[i \in 1 .. n] == IF i = 1 THEN c[0] ELSE rank[i-1] * d[i-1] + c[i-1]
  IN rank[n]

\* Coordinate c lies in the grid with extents d.
InGrid(c, d) == \A i \in DOMAIN d : c[i] \in 0 .. d[i]-1

\* Two boxes, given by their lowest corner and extents, share no cell.
Apart(lo1, d1, lo2, d2) ==
  \E i \in DOMAIN d1 : lo1[i] + d1[i] <= lo2[i] \/ lo2[i] + d2[i] <= lo1[i]
=============================================================================
