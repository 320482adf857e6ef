------------------------------ MODULE NodeComm ------------------------------
(***************************************************************************)
(* MPIX_Node_comm (reordering_algorithms/utils/node_comm.cpp): every       *)
(* process of a communicator learns how many compute nodes there are and   *)
(* how many processes a node has, and all of them get a communicator in    *)
(* which the processes of a node have consecutive ranks.                   *)
(*                                                                         *)
(* The processes are named by their rank in the old communicator.  The     *)
(* program counter of a process names the MPI call it is blocked in; an    *)
(* action is the return from that call, the code that follows it, and the  *)
(* next call.  Nothing holds processes together but the calls themselves.  *)
(***************************************************************************)
EXTENDS Placement

CONSTANTS
  N,           \* number of processes of oldcomm
  Placements,  \* the functions from processes to compute nodes considered
  Schemes,     \* the functions from processes to aggregation schemes considered
  Garbage      \* what an int nobody has assigned may hold

Procs == 0 .. N-1

ASSUME NAssumption == N \in Nat \ {0}
ASSUME PlacementAssumption == \A f \in Placements : DOMAIN f = Procs
ASSUME SchemeAssumption == Schemes \subseteq [Procs -> node_approximation_schemes]
ASSUME GarbageAssumption == Garbage \subseteq Int

VARIABLES
  nodeOf,       \* the compute node each process runs on
  scheme,       \* the argument scheme of each process
  pc,           \* the call each process is blocked in
  calls,        \* calls[h][p]: the calls p has made on its communicator h
  nodecomm, leadercomm, new_comm,
  l_n_nodes, leader_rank, node_sizes, l_ppn

comms == <<nodecomm, leadercomm, new_comm>>
locals == <<l_n_nodes, leader_rank, node_sizes, l_ppn>>
vars == <<nodeOf, scheme, pc, calls, comms, locals>>

oldcomm == [p \in Procs |-> p]

Goto(p, from, to) ==
  /\ pc[p] = from
  /\ pc' = [pc EXCEPT ![p] = to]

\* p makes the collective call op with count elements in arg on handle h.
Call(p, h, op, count, arg) ==
  calls' = [calls EXCEPT ![h][p] = Append(@, [op |-> op, count |-> count, arg |-> arg])]

\* node_rank, and the color of the split that makes the leaders' communicator.
IsLeader(p) == nodecomm[p][p] = 0

----------------------------------------------------------------------------
(***************************************************************************)
(* The number of processes per node under each aggregation scheme.  The    *)
(* NODES_MAX loop compares with *ppn, which no caller has assigned, and    *)
(* not with the running maximum; unassigned is what that int holds.        *)
(***************************************************************************)
Mean(sizes) ==
  MapThenSumSet(LAMBDA i : sizes[i], DOMAIN sizes) \div Cardinality(DOMAIN sizes)

\* Mutant: the minimum starts from 0.
Aggregate_FromZero(s, sizes, unassigned) ==
  IF s = "NODES_MIN" THEN Min({0} \cup {sizes[i] : i \in DOMAIN sizes}) ELSE Mean(sizes)

Aggregate(s, sizes, unassigned) ==
  LET nodes == DOMAIN sizes
      larger == {i \in nodes \ {0} : sizes[i] > unassigned}
  IN CASE s = "NODES_MIN"  -> Min({sizes[i] : i \in nodes})
       [] s = "NODES_MEAN" -> Mean(sizes)
       [] s = "NODES_MAX"  -> IF larger = {} THEN sizes[0] ELSE sizes[Max(larger)]

\* Mutant: the node's own processes are counted too.
ProcessesBefore_Own(sizes, r) == MapThenSumSet(LAMBDA i : sizes[i], 0 .. r)

ProcessesBefore(sizes, r) == MapThenSumSet(LAMBDA i : sizes[i], 0 .. r-1)

----------------------------------------------------------------------------
Init ==
  /\ nodeOf \in Placements
  /\ scheme \in Schemes
  /\ pc = [p \in Procs |-> "start"]
  /\ calls = [h \in {"old", "node", "leader"} |-> [p \in Procs |-> <<>>]]
  /\ nodecomm = [p \in Procs |-> COMM_NULL]
  /\ leadercomm = [p \in Procs |-> COMM_NULL]
  /\ new_comm = [p \in Procs |-> COMM_NULL]
  /\ l_n_nodes = [p \in Procs |-> UNINIT]
  /\ leader_rank = [p \in Procs |-> UNINIT]
  /\ node_sizes = [p \in Procs |-> COMM_NULL]
  /\ l_ppn = [p \in Procs |-> UNINIT]

Enter(p) ==
  /\ Goto(p, "start", "split_type")
  /\ Call(p, "old", "comm_split_type", 0, 0)
  /\ UNCHANGED <<nodeOf, scheme, comms, locals>>

\* Mutant: the leaders are ordered by descending rank.
SplitType_Descending(p) ==
  /\ Goto(p, "split_type", "split_leaders")
  /\ EverybodyCalled(oldcomm, calls["old"], p)
  /\ nodecomm' = [nodecomm EXCEPT ![p] = MPI_Comm_split_type(oldcomm, nodeOf, p)]
  /\ Call(p, "old", "comm_split", 0,
          [color |-> IF nodecomm'[p][p] = 0 THEN 0 ELSE UNDEFINED, key |-> -p])
  /\ UNCHANGED <<nodeOf, scheme, leadercomm, new_comm, locals>>

SplitType(p) ==
  /\ Goto(p, "split_type", "split_leaders")
  /\ EverybodyCalled(oldcomm, calls["old"], p)
  /\ nodecomm' = [nodecomm EXCEPT ![p] = MPI_Comm_split_type(oldcomm, nodeOf, p)]
  /\ Call(p, "old", "comm_split", 0,
          [color |-> IF nodecomm'[p][p] = 0 THEN 0 ELSE UNDEFINED, key |-> 0])
  /\ UNCHANGED <<nodeOf, scheme, leadercomm, new_comm, locals>>

\* What an MPI_Comm_split on oldcomm that p is blocked in returns.
SplitOld(p) ==
  MPI_Comm_split(oldcomm, [q \in Procs |-> Argument(calls["old"], q, p).color],
                          [q \in Procs |-> Argument(calls["old"], q, p).key], p)

SplitLeaders(p) ==
  /\ Goto(p, "split_leaders", "bcast_n_nodes")
  /\ EverybodyCalled(oldcomm, calls["old"], p)
  /\ leadercomm' = [leadercomm EXCEPT ![p] = SplitOld(p)]
  /\ IF IsLeader(p)
     THEN /\ l_n_nodes' = [l_n_nodes EXCEPT ![p] = MPI_Comm_size(leadercomm'[p])]
          /\ leader_rank' = [leader_rank EXCEPT ![p] = leadercomm'[p][p]]
     ELSE UNCHANGED <<l_n_nodes, leader_rank>>
  /\ Call(p, "node", "bcast", 1, l_n_nodes'[p])
  /\ UNCHANGED <<nodeOf, scheme, nodecomm, new_comm, node_sizes, l_ppn>>

\* What the MPI_Bcast on nodecomm that p is blocked in leaves in p's buffer.
Received(p) == Argument(calls["node"], Root(nodecomm[p]), p)

BcastNodes(p) ==
  /\ Goto(p, "bcast_n_nodes", "bcast_leader_rank")
  /\ RootCalled(nodecomm[p], calls["node"], p)
  /\ l_n_nodes' = [l_n_nodes EXCEPT ![p] = Received(p)]
  /\ Call(p, "node", "bcast", 1, leader_rank[p])
  /\ UNCHANGED <<nodeOf, scheme, comms, leader_rank, node_sizes, l_ppn>>

\* Mutant: the first of the leaders calls the allgather, and no other.
BcastLeaderRank_FirstOnly(p) ==
  /\ pc[p] = "bcast_leader_rank"
  /\ RootCalled(nodecomm[p], calls["node"], p)
  /\ leader_rank' = [leader_rank EXCEPT ![p] = Received(p)]
  /\ node_sizes' = [node_sizes EXCEPT ![p] = [i \in 0 .. l_n_nodes[p]-1 |-> 1]]
  /\ IF IsLeader(p) /\ leader_rank'[p] = 0
     THEN /\ Goto(p, "bcast_leader_rank", "allgather")
          /\ Call(p, "leader", "allgather", 1, MPI_Comm_size(nodecomm[p]))
     ELSE /\ Goto(p, "bcast_leader_rank", "bcast_sizes")
          /\ Call(p, "node", "bcast", l_n_nodes[p], node_sizes'[p])
  /\ UNCHANGED <<nodeOf, scheme, comms, l_n_nodes, l_ppn>>

\* Declares node_sizes[l_n_nodes]; only leaders take part in the allgather.
BcastLeaderRank(p) ==
  /\ pc[p] = "bcast_leader_rank"
  /\ RootCalled(nodecomm[p], calls["node"], p)
  /\ leader_rank' = [leader_rank EXCEPT ![p] = Received(p)]
  /\ node_sizes' = [node_sizes EXCEPT ![p] = [i \in 0 .. l_n_nodes[p]-1 |-> UNINIT]]
  /\ IF IsLeader(p)
     THEN /\ Goto(p, "bcast_leader_rank", "allgather")
          /\ Call(p, "leader", "allgather", 1, MPI_Comm_size(nodecomm[p]))
     ELSE /\ Goto(p, "bcast_leader_rank", "bcast_sizes")
          /\ Call(p, "node", "bcast", l_n_nodes[p], node_sizes'[p])
  /\ UNCHANGED <<nodeOf, scheme, comms, l_n_nodes, l_ppn>>

\* Mutant: the leader broadcasts as many sizes as it has sent.
Allgather_OneSize(p) ==
  /\ Goto(p, "allgather", "bcast_sizes")
  /\ EverybodyCalled(leadercomm[p], calls["leader"], p)
  /\ node_sizes' = [node_sizes EXCEPT ![p] =
       [i \in DOMAIN @ |->
          LET q == CHOOSE q \in Members(leadercomm[p]) : leadercomm[p][q] = i
          IN Argument(calls["leader"], q, p)]]
  /\ Call(p, "node", "bcast", 1, node_sizes'[p])
  /\ UNCHANGED <<nodeOf, scheme, comms, l_n_nodes, leader_rank, l_ppn>>

Allgather(p) ==
  /\ Goto(p, "allgather", "bcast_sizes")
  /\ EverybodyCalled(leadercomm[p], calls["leader"], p)
  /\ node_sizes' = [node_sizes EXCEPT ![p] =
       [i \in DOMAIN @ |->
          LET q == CHOOSE q \in Members(leadercomm[p]) : leadercomm[p][q] = i
          IN Argument(calls["leader"], q, p)]]
  /\ Call(p, "node", "bcast", l_n_nodes[p], node_sizes'[p])
  /\ UNCHANGED <<nodeOf, scheme, comms, l_n_nodes, leader_rank, l_ppn>>

BcastSizes(p) ==
  /\ Goto(p, "bcast_sizes", "split_new")
  /\ RootCalled(nodecomm[p], calls["node"], p)
  /\ node_sizes' = [node_sizes EXCEPT ![p] = Received(p)]
  /\ \E g \in Garbage :
       l_ppn' = [l_ppn EXCEPT ![p] = Aggregate(scheme[p], node_sizes'[p], g)]
  /\ Call(p, "old", "comm_split", 0,
          [color |-> 0,
           key |-> ProcessesBefore(node_sizes'[p], leader_rank[p]) + nodecomm[p][p]])
  /\ UNCHANGED <<nodeOf, scheme, comms, l_n_nodes, leader_rank>>

\* MPI_Comm_free is collective, but returns without waiting for the others.
FreeCall == [op |-> "comm_free", count |-> 0, arg |-> 0]

\* The returned communicator, and both temporary ones freed.
SplitNew(p) ==
  /\ Goto(p, "split_new", "done")
  /\ EverybodyCalled(oldcomm, calls["old"], p)
  /\ new_comm' = [new_comm EXCEPT ![p] = SplitOld(p)]
  /\ leadercomm' = [leadercomm EXCEPT ![p] = COMM_NULL]
  /\ nodecomm' = [nodecomm EXCEPT ![p] = COMM_NULL]
  /\ calls' = [calls EXCEPT
       !["leader"][p] = IF IsLeader(p) THEN Append(@, FreeCall) ELSE @,
       !["node"][p] = Append(@, FreeCall)]
  /\ UNCHANGED <<nodeOf, scheme, locals>>

Step(p) ==
  \/ Enter(p)
  \/ SplitType(p)
  \/ SplitLeaders(p)
  \/ BcastNodes(p)
  \/ BcastLeaderRank(p)
  \/ Allgather(p)
  \/ BcastSizes(p)
  \/ SplitNew(p)

Done == \A p \in Procs : pc[p] = "done"

Next == (\E p \in Procs : Step(p)) \/ (Done /\ UNCHANGED vars)

Spec == Init /\ [][Next]_vars

\* MPI makes progress: a call whose partners have called it returns.
FairSpec == Spec /\ WF_vars(\E p \in Procs : Step(p))
----------------------------------------------------------------------------
PCs == {"start", "split_type", "split_leaders", "bcast_n_nodes", "bcast_leader_rank",
        "allgather", "bcast_sizes", "split_new", "done"}

Communicator == UNION {[S -> Procs] : S \in SUBSET Procs}

\* Every variable holds a value of its C type (communicators as rank functions).
TypeOK ==
  /\ nodeOf \in Placements
  /\ scheme \in Schemes
  /\ pc \in [Procs -> PCs]
  /\ DOMAIN calls = {"old", "node", "leader"}
  /\ nodecomm \in [Procs -> Communicator]
  /\ leadercomm \in [Procs -> Communicator]
  /\ new_comm \in [Procs -> Communicator]
  /\ l_n_nodes \in [Procs -> {UNINIT} \cup 1 .. N]
  /\ leader_rank \in [Procs -> {UNINIT} \cup Procs]
  /\ l_ppn \in [Procs -> {UNINIT} \cup 1 .. N]

\* Members of a communicator make the same collective calls on it, with the same
\* element counts, in the same order: the calls a node leader makes on top of the
\* others' (the leaders' allgather) never shift what the others are matched with
\* (node_comm.cpp:13-38, the branches on node_rank).
CollectivesMatch ==
  \A h \in DOMAIN calls : \A p \in Procs :
    LET comm == CASE h = "old" -> oldcomm [] h = "node" -> nodecomm[p] [] h = "leader" -> leadercomm[p]
    IN \A q \in Members(comm) : \A k \in DOMAIN calls[h][p] \cap DOMAIN calls[h][q] :
         /\ calls[h][p][k].op = calls[h][q][k].op
         /\ calls[h][p][k].count = calls[h][q][k].count

\* Whatever the placement, a process that has gathered the sizes knows the number
\* of nodes, its own node's position among them and every node's size, the leaders
\* first and the others through them (node_comm.cpp:18-38).
SizesKnown ==
  \A p \in Procs : pc[p] \in {"split_new", "done"} =>
    /\ l_n_nodes[p] = Cardinality(Leaders(nodeOf))
    /\ LeaderAt(nodeOf, leader_rank[p]) = LeaderOf(nodeOf, p)
    /\ node_sizes[p] = NodeSizes(nodeOf)

Sorted == INSTANCE SortedComm WITH
  called <- {p \in Procs : pc[p] # "start"},
  returned <- [p \in {q \in Procs : pc[q] = "done"} |->
                 [new_comm |-> new_comm[p], n_nodes |-> l_n_nodes[p], ppn |-> l_ppn[p]]]

\* Eight calls on three communicators amount to one synchronising step: nobody returns
\* before everybody has called, and although each process computes only its own split
\* key, all return the same communicator with the nodes one after the other, the same
\* number of nodes, and the ppn of their scheme, which for every scheme and whatever
\* an unassigned int held is one to divide by (node_comm.cpp:40-75, the assert at
\* hyperplane.cpp:246).
Implements == Sorted!Spec

\* The NODES_MAX scheme yields the size of the largest node (README.md:56-60 offers
\* it for nodes of different size; node_comm.cpp:56-62 compares with *ppn).
MaxIsMaximum ==
  \A p \in Procs : pc[p] = "done" /\ scheme[p] = "NODES_MAX" =>
    \A i \in DOMAIN NodeSizes(nodeOf) : l_ppn[p] >= NodeSizes(nodeOf)[i]

\* Every process returns from MPIX_Node_comm: no call waits for one that is never
\* made, on whichever communicators the process is a member of.
Terminates == <>Done
=============================================================================
