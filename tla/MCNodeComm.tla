----------------------------- MODULE MCNodeComm -----------------------------
(***************************************************************************)
(* Small instances of NodeComm.  A placement is listed once per partition  *)
(* of the processes: nodes are numbered in the order of their first        *)
(* process, since only equality of nodes is used.                          *)
(***************************************************************************)
EXTENDS NodeComm

CanonicalPlacements ==
  {f \in [Procs -> 0 .. N-1] :
     \A p \in Procs : f[p] = 0 \/ \E q \in 0 .. p-1 : f[p] <= f[q] + 1}

\* Nodes of unequal size, interleaved and not.
UnevenPlacements ==
  {f \in CanonicalPlacements : f[0] = f[N-1] /\ f[1] # f[0]}

Uniform == {[p \in Procs |-> s] : s \in node_approximation_schemes}

\* Every process has read another environment.
Mixed == [p \in Procs |-> CASE p % 3 = 0 -> "NODES_MIN" [] p % 3 = 1 -> "NODES_MAX"
                               [] p % 3 = 2 -> "NODES_MEAN"]

UniformAndMixed == Uniform \cup {Mixed}

OnlyMax == {[p \in Procs |-> "NODES_MAX"]}
=============================================================================
