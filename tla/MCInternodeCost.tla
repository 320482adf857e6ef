--------------------------- MODULE MCInternodeCost ---------------------------
(***************************************************************************)
(* Small grids, stencils and placements for InternodeCost.                 *)
(***************************************************************************)
EXTENDS InternodeCost

CONSTANTS Grids, Nodes   \* pairs of extents, and how many nodes there may be

Line == {<<3, 1>>}
LineAndSquare == {<<3, 1>>, <<2, 2>>}

Vector(x, y) == [d \in Dims |-> IF d = 0 THEN x ELSE y]

\* Nearest neighbours with the process itself (five_point_stencil), one dimension
\* only, a single direction with an offset given twice, and no neighbours at all.
Stencils ==
  {<<Vector(1, 0), Vector(-1, 0), Vector(0, 1), Vector(0, -1), Vector(0, 0)>>,
   <<Vector(1, 0), Vector(-1, 0)>>,
   <<Vector(1, 1), Vector(1, 1), Vector(2, 0)>>,
   <<>>}

\* Nodes are numbered in the order of their first process.
Placements(n) ==
  {f \in [0 .. n-1 -> 0 .. Nodes-1] :
     \A p \in 0 .. n-1 : f[p] = 0 \/ \E q \in 0 .. p-1 : f[p] <= f[q] + 1}

MCInputs ==
  UNION {{[dims |-> Vector(g[1], g[2]), periods |-> b, stencil |-> s, nodeOf |-> f] :
            b \in [Dims -> BOOLEAN], s \in Stencils, f \in Placements(g[1] * g[2])} :
         g \in Grids}
=============================================================================
