---------------------------- MODULE InternodeCost ----------------------------
(***************************************************************************)
(* MPIX_Internode_cost_stencil, and the part of MPIX_Internode_cost that   *)
(* follows its reading of the stencil (Evaluation/evaluation_method.cpp):  *)
(* the processes of a Cartesian communicator build the graph of their      *)
(* neighbours, count the edges that leave their compute nodes, and reduce  *)
(* the counts to the total and to the maximum over the nodes.              *)
(*                                                                         *)
(* As in NodeComm a process is blocked in the MPI call its pc names, and   *)
(* an action is the return from it with the code up to the next call.      *)
(***************************************************************************)
EXTENDS Communicators, Grid

CONSTANTS
  ndims,
  Inputs   \* [dims, periods, stencil, nodeOf]: grids, neighbourhoods and placements

Dims == 0 .. ndims-1

ASSUME NdimsAssumption == ndims \in Nat \ {0}
ASSUME InputAssumption ==
  \A in \in Inputs : /\ in.dims \in [Dims -> Nat \ {0}]
                     /\ in.periods \in [Dims -> BOOLEAN]
                     /\ in.stencil \in Seq([Dims -> Int])
                     /\ DOMAIN in.nodeOf = 0 .. Volume(in.dims, ndims)-1

VARIABLES
  input,
  pc,                       \* the call each process is blocked in
  calls,                    \* calls[h][p]: the calls p has made on its communicator h
  dest,                     \* the graph edges that start at each process
  dist_graph, node_comm,
  local_offnode_neighbors,
  node_offnode_comm_size,
  total, max                \* what the caller's two pointers point to

counts == <<local_offnode_neighbors, node_offnode_comm_size, total, max>>
vars == <<input, pc, calls, dest, dist_graph, node_comm, counts>>

Procs == 0 .. Volume(input.dims, ndims)-1

\* The process with a rank in the Cartesian communicator is named by that rank.
cart_comm == [p \in Procs |-> p]

Goto(p, from, to) ==
  /\ pc[p] = from
  /\ pc' = [pc EXCEPT ![p] = to]

Call(p, h, op, arg) ==
  calls' = [calls EXCEPT ![h][p] = Append(@, [op |-> op, arg |-> arg])]

----------------------------------------------------------------------------
\* How far apart the ranks of neighbours along dimension d are.
Stride(d) == RowMajorRank([e \in Dims |-> IF e = d THEN 1 ELSE 0], input.dims, ndims)

MPI_Cart_coords(p) == [d \in Dims |-> (p \div Stride(d)) % input.dims[d]]

\* Coordinates wrap around in the periodic dimensions.
MPI_Cart_rank(c) ==
  RowMajorRank([d \in Dims |-> IF input.periods[d] THEN c[d] % input.dims[d] ELSE c[d]],
               input.dims, ndims)

neighbor_coord(p, i) == [d \in Dims |-> MPI_Cart_coords(p)[d] + input.stencil[i][d]]

\* Mutant: neighbours beyond the grid are not skipped.
Feasible_Always(c) == TRUE

\* The periodic_checker loop.
Feasible(c) ==
  \A d \in Dims : ~ input.periods[d] => c[d] \in 0 .. input.dims[d]-1

\* The neighbours of p other than p itself, with the positions in the stencil they
\* come from: an offset given twice yields a neighbour twice.
get_neighbors_from_stencil(p) ==
  LET possible_neighbor(i) == MPI_Cart_rank(neighbor_coord(p, i))
  IN [i \in {i \in DOMAIN input.stencil : /\ Feasible(neighbor_coord(p, i))
                                          /\ possible_neighbor(i) # p}
        |-> possible_neighbor(i)]

\* Mutant: a neighbour that occurs twice counts once.
OffNode_Distinct(edges, onNode) == Cardinality({edges[i] : i \in DOMAIN edges} \ onNode)

\* The loop over dest: the edges that end on no process of the same node.
OffNode(edges, onNode) == Cardinality({i \in DOMAIN edges : edges[i] \notin onNode})

Total(f) == MapThenSumSet(LAMBDA p : f[p], DOMAIN f)

----------------------------------------------------------------------------
Init ==
  /\ input \in Inputs
  /\ pc = [p \in Procs |-> "start"]
  /\ calls = [h \in {"cart", "dist", "node"} |-> [p \in Procs |-> <<>>]]
  /\ dest = [p \in Procs |-> <<>>]
  /\ dist_graph = [p \in Procs |-> COMM_NULL]
  /\ node_comm = [p \in Procs |-> COMM_NULL]
  /\ local_offnode_neighbors = [p \in Procs |-> UNINIT]
  /\ node_offnode_comm_size = [p \in Procs |-> UNINIT]
  /\ total = [p \in Procs |-> UNINIT]
  /\ max = [p \in Procs |-> UNINIT]

\* Mutant: a process without neighbours returns.
Enter_NoNeighbors(p) ==
  /\ IF get_neighbors_from_stencil(p) = <<>>
     THEN Goto(p, "start", "done") /\ UNCHANGED calls
     ELSE /\ Goto(p, "start", "dist_graph_create")
          /\ Call(p, "cart", "dist_graph_create", get_neighbors_from_stencil(p))
  /\ UNCHANGED <<input, dest, dist_graph, node_comm, counts>>

\* Finds the neighbours and passes them to MPI_Dist_graph_create; a process that has
\* none takes part with no vertex.
Enter(p) ==
  /\ Goto(p, "start", "dist_graph_create")
  /\ Call(p, "cart", "dist_graph_create", get_neighbors_from_stencil(p))
  /\ UNCHANGED <<input, dest, dist_graph, node_comm, counts>>

\* The new communicator keeps the ranks, as it is created with reorder = 0, and each
\* process gets the edges specified with it as their source.
DistGraphCreate(p) ==
  /\ Goto(p, "dist_graph_create", "split_type")
  /\ EverybodyCalled(cart_comm, calls["cart"], p)
  /\ dist_graph' = [dist_graph EXCEPT ![p] = cart_comm]
  /\ dest' = [dest EXCEPT ![p] = Argument(calls["cart"], p, p)]
  /\ total' = [total EXCEPT ![p] = 0]
  /\ max' = [max EXCEPT ![p] = 0]
  /\ Call(p, "dist", "comm_split_type", p)
  /\ UNCHANGED <<input, node_comm, local_offnode_neighbors, node_offnode_comm_size>>

\* The members of the node communicator, in ranks of dist_graph, are what the
\* destinations are looked up in.
SplitType(p) ==
  /\ Goto(p, "split_type", "sum_on_node")
  /\ EverybodyCalled(dist_graph[p], calls["dist"], p)
  /\ node_comm' = [node_comm EXCEPT ![p] = MPI_Comm_split_type(dist_graph[p], input.nodeOf, p)]
  /\ local_offnode_neighbors' =
       [local_offnode_neighbors EXCEPT ![p] = OffNode(dest[p], Members(node_comm'[p]))]
  /\ Call(p, "node", "allreduce_sum", local_offnode_neighbors'[p])
  /\ UNCHANGED <<input, dest, dist_graph, node_offnode_comm_size, total, max>>

\* Mutants: a node nothing leaves has no part in the maximum; the maximum is taken of
\* what the processes have counted, not of the nodes' sums.
SumOnNode_Skip(p) ==
  /\ pc[p] = "sum_on_node"
  /\ EverybodyCalled(node_comm[p], calls["node"], p)
  /\ node_offnode_comm_size' =
       [node_offnode_comm_size EXCEPT ![p] = Total(Arguments(node_comm[p], calls["node"], p))]
  /\ IF node_offnode_comm_size'[p] = 0
     THEN Goto(p, "sum_on_node", "sum") /\ Call(p, "dist", "allreduce_sum", 0)
     ELSE /\ Goto(p, "sum_on_node", "max")
          /\ Call(p, "dist", "allreduce_max", node_offnode_comm_size'[p])
  /\ UNCHANGED <<input, dest, dist_graph, node_comm, local_offnode_neighbors, total, max>>

SumOnNode_Local(p) ==
  /\ Goto(p, "sum_on_node", "max")
  /\ EverybodyCalled(node_comm[p], calls["node"], p)
  /\ node_offnode_comm_size' =
       [node_offnode_comm_size EXCEPT ![p] = Total(Arguments(node_comm[p], calls["node"], p))]
  /\ Call(p, "dist", "allreduce_max", local_offnode_neighbors[p])
  /\ UNCHANGED <<input, dest, dist_graph, node_comm, local_offnode_neighbors, total, max>>

SumOnNode(p) ==
  /\ Goto(p, "sum_on_node", "max")
  /\ EverybodyCalled(node_comm[p], calls["node"], p)
  /\ node_offnode_comm_size' =
       [node_offnode_comm_size EXCEPT ![p] = Total(Arguments(node_comm[p], calls["node"], p))]
  /\ Call(p, "dist", "allreduce_max", node_offnode_comm_size'[p])
  /\ UNCHANGED <<input, dest, dist_graph, node_comm, local_offnode_neighbors, total, max>>

MaxOfNodes(p) ==
  /\ Goto(p, "max", "sum")
  /\ EverybodyCalled(dist_graph[p], calls["dist"], p)
  /\ LET sizes == Arguments(dist_graph[p], calls["dist"], p)
     IN max' = [max EXCEPT ![p] = Max({sizes[q] : q \in DOMAIN sizes})]
  /\ Call(p, "dist", "allreduce_sum", local_offnode_neighbors[p])
  /\ UNCHANGED <<input, dest, dist_graph, node_comm, local_offnode_neighbors,
                 node_offnode_comm_size, total>>

\* The last reduction; then dist_graph is freed.  node_comm never is.
SumOfAll(p) ==
  /\ Goto(p, "sum", "done")
  /\ EverybodyCalled(dist_graph[p], calls["dist"], p)
  /\ total' = [total EXCEPT ![p] = Total(Arguments(dist_graph[p], calls["dist"], p))]
  /\ dist_graph' = [dist_graph EXCEPT ![p] = COMM_NULL]
  /\ Call(p, "dist", "comm_free", 0)
  /\ UNCHANGED <<input, dest, node_comm, local_offnode_neighbors, node_offnode_comm_size, max>>

Step(p) ==
  \/ Enter(p)
  \/ DistGraphCreate(p)
  \/ SplitType(p)
  \/ SumOnNode(p)
  \/ MaxOfNodes(p)
  \/ SumOfAll(p)

Done == \A p \in Procs : pc[p] = "done"

Next == (\E p \in Procs : Step(p)) \/ (Done /\ UNCHANGED vars)

Spec == Init /\ [][Next]_vars

\* MPI makes progress: a call whose partners have called it returns.
FairSpec == Spec /\ WF_vars(\E p \in Procs : Step(p))
----------------------------------------------------------------------------
(***************************************************************************)
(* The cost, defined from the grid and the placement alone.                *)
(***************************************************************************)
\* Offset i of the stencil leads from p to q.
Leads(p, i, q) ==
  LET distance(d) == MPI_Cart_coords(q)[d] - MPI_Cart_coords(p)[d] - input.stencil[i][d]
  IN \A d \in Dims : IF input.periods[d] THEN distance(d) % input.dims[d] = 0
                                         ELSE distance(d) = 0

Crossing == {e \in Procs \X (DOMAIN input.stencil) \X Procs :
               input.nodeOf[e[1]] # input.nodeOf[e[3]] /\ Leads(e[1], e[2], e[3])}

CrossingFrom(n) == {e \in Crossing : input.nodeOf[e[1]] = n}

----------------------------------------------------------------------------
Number == Nat \cup {UNINIT}

\* Destinations are processes of the grid, and every count is one or unassigned.
TypeOK ==
  /\ pc \in [Procs -> {"start", "dist_graph_create", "split_type", "sum_on_node", "max",
                       "sum", "done"}]
  /\ \A p \in Procs : \A i \in DOMAIN dest[p] : dest[p][i] \in Procs \ {p}
  /\ local_offnode_neighbors \in [Procs -> Number]
  /\ node_offnode_comm_size \in [Procs -> Number]
  /\ total \in [Procs -> Number]
  /\ max \in [Procs -> Number]

\* Members of a communicator make the same calls on it in the same order: having no
\* neighbours, or none on other nodes, exempts a process from no collective call
\* (evaluation_method.cpp:197-208, 160-173).
CollectivesMatch ==
  \A h \in DOMAIN calls : \A p \in Procs :
    LET comm == IF h = "node" THEN node_comm[p] ELSE cart_comm
    IN \A q \in Members(comm) : \A k \in DOMAIN calls[h][p] \cap DOMAIN calls[h][q] :
         calls[h][p][k].op = calls[h][q][k].op

\* Every process reports the number of edges between nodes, whichever way the processes
\* are spread over them: "the total sum of inter-node communication" (README.md:81).  An
\* edge is counted where it starts, so that two processes that are each other's
\* neighbours count twice.  The comment at evaluation_method.cpp:169-170 expects half
\* of that, which is TotalHalved below.
TotalExact == \A p \in Procs : pc[p] = "done" => total[p] = Cardinality(Crossing)

\* Every process reports the communication that leaves the busiest compute node, from
\* sums that the nodes form independently of each other (README.md:74).
MaxExact ==
  \A p \in Procs : pc[p] \in {"sum", "done"} =>
    max[p] = Max({Cardinality(CrossingFrom(input.nodeOf[q])) : q \in Procs})

\* Every offset of the stencil occurs as often as its opposite.
Symmetric ==
  LET Occurrences(o) == {i \in DOMAIN input.stencil : input.stencil[i] = o}
  IN \A i \in DOMAIN input.stencil :
       LET o == input.stencil[i]
       IN Cardinality(Occurrences(o)) = Cardinality(Occurrences([d \in Dims |-> -o[d]]))

\* "sum up and devide by two. Symmetry assumption" (evaluation_method.cpp:169-170): under
\* that assumption a connection, which has an edge in each direction, counts once.
TotalHalved ==
  Symmetric => \A p \in Procs : pc[p] = "done" => 2 * total[p] = Cardinality(Crossing)

\* Every process returns with its results.
Terminates == <>Done
=============================================================================
