--------------------------- MODULE MCCartReorder ---------------------------
(***************************************************************************)
(* Small situations for CartReorder, with the keys the algorithms compute. *)
(***************************************************************************)
EXTENDS CartReorder

\* Two processes find a small number or a large one in their unassigned coordinates,
\* the others a large one.
Unassigned(rank) == IF rank \in {0, 4} THEN {0, 7} ELSE {7}

LOCAL Algorithm == INSTANCE SplitKeys

Grid2(x, y) == [d \in 0 .. ndims-1 |-> IF d = 0 THEN x ELSE y]

\* Full and with one process to spare.
Grids4 == {Grid2(2, 2), Grid2(4, 1), Grid2(3, 1)}

\* Of a row of 5 cells, HYPERPLANE cannot split off multiples of 2.
Grids6 == {Grid2(5, 1)}

\* No stencil, and the one that README.md gives: neighbours along one dimension only.
NoStencil == {}
OneDimension == {<<1, 0, -1, 0>>}
MCStencils == {NoStencil, OneDimension}

Config(a, s, t) == [alg |-> a, scheme |-> s, stencil |-> t]

MCKeys(config, dims, size, ppn, rank) ==
  Algorithm!SplitKeysOf(config, dims, size, ppn, rank)

\* Processes dealt out to two nodes in turn, and one process apart from all others
\* in the middle of their ranks.
Placements4 ==
  {[p \in 0 .. 3 |-> p % 2], [p \in 0 .. 3 |-> IF p = 1 THEN 1 ELSE 0]}

\* (The scheme is nothing to KD_TREE.)
Uniform(n) ==
  {[p \in 0 .. n-1 |-> Config(a, s, NoStencil)] :
     a \in {"HYPERPLANE", "STENCIL_STRIPS"}, s \in node_approximation_schemes}
  \cup {[p \in 0 .. n-1 |-> Config(a, "NODES_MEAN", OneDimension)] : a \in reorder_schemes}

\* Rank 0 has read another environment than the others.
Mixed(n) ==
  {[p \in 0 .. n-1 |-> IF p = 0 THEN c[1] ELSE c[2]] :
     c \in {<<Config("KD_TREE", "NODES_MIN", NoStencil), Config("HYPERPLANE", "NODES_MIN", NoStencil)>>,
            <<Config("HYPERPLANE", "NODES_MIN", NoStencil), Config("HYPERPLANE", "NODES_MEAN", NoStencil)>>,
            <<Config("KD_TREE", "NODES_MIN", NoStencil), Config("KD_TREE", "NODES_MIN", OneDimension)>>,
            <<Config("STENCIL_STRIPS", "NODES_MIN", NoStencil), Config("KD_TREE", "NODES_MIN", NoStencil)>>}}

OneCall ==
  {[nodeOf |-> f, dims |-> g, config |-> c, calls |-> 1] :
     f \in Placements4, g \in Grids4, c \in Uniform(4) \cup Mixed(4)}

\* A process may be in its second call while others are in their first.
TwoCalls ==
  {[nodeOf |-> [p \in 0 .. 3 |-> p % 2], dims |-> g, calls |-> 2,
    config |-> [p \in 0 .. 3 |-> Config(a, "NODES_MIN", NoStencil)]] :
     g \in Grids4, a \in reorder_schemes}

SixProcesses ==
  {[nodeOf |-> [p \in 0 .. 5 |-> p % 3], dims |-> g, calls |-> 1,
    config |-> [p \in 0 .. 5 |-> Config("HYPERPLANE", "NODES_MEAN", NoStencil)]] : g \in Grids6}

MCInputs == OneCall \cup TwoCalls \cup SixProcesses

SpareInputs ==
  {[nodeOf |-> [p \in 0 .. 3 |-> p % 2], dims |-> g, calls |-> 1,
    config |-> [p \in 0 .. 3 |-> Config("STENCIL_STRIPS", "NODES_MIN", NoStencil)]] : g \in Grids4}
=============================================================================
