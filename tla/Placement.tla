----------------------------- MODULE Placement -----------------------------
(***************************************************************************)
(* What there is to find out about a placement nodeOf of processes on      *)
(* compute nodes, defined from the placement alone.  Processes are named   *)
(* by their rank in the old communicator.                                  *)
(***************************************************************************)
EXTENDS Communicators, FiniteSetsExt

node_approximation_schemes == {"NODES_MIN", "NODES_MEAN", "NODES_MAX"}

NodeMembers(nodeOf, n) == {p \in DOMAIN nodeOf : nodeOf[p] = n}

\* The first process of p's node.
LeaderOf(nodeOf, p) == Min(NodeMembers(nodeOf, nodeOf[p]))

Leaders(nodeOf) == {LeaderOf(nodeOf, p) : p \in DOMAIN nodeOf}

\* The leader that has rank i among the leaders.
LeaderAt(nodeOf, i) ==
  CHOOSE l \in Leaders(nodeOf) : Cardinality({m \in Leaders(nodeOf) : m < l}) = i

\* The sizes of the nodes, in the order of their leaders.
NodeSizes(nodeOf) ==
  [i \in 0 .. Cardinality(Leaders(nodeOf)) - 1 |->
     Cardinality(NodeMembers(nodeOf, nodeOf[LeaderAt(nodeOf, i)]))]

\* The numbers of processes per node a process may be told: the aggregate, but
\* for NODES_MAX, which may yield the size of any node.
PpnUnder(scheme, nodeOf) ==
  LET sizes == {NodeSizes(nodeOf)[i] : i \in DOMAIN NodeSizes(nodeOf)}
  IN CASE scheme = "NODES_MIN"  -> {Min(sizes)}
       [] scheme = "NODES_MEAN" -> {Cardinality(DOMAIN nodeOf) \div Cardinality(Leaders(nodeOf))}
       [] scheme = "NODES_MAX"  -> sizes

\* The communicator in which the nodes follow one another in the order of their
\* leaders, and the processes of a node in that of their old ranks.
NodeMajor(nodeOf) ==
  [p \in DOMAIN nodeOf |-> Cardinality({q \in DOMAIN nodeOf :
     \/ LeaderOf(nodeOf, q) < LeaderOf(nodeOf, p)
     \/ nodeOf[q] = nodeOf[p] /\ q < p})]
=============================================================================
