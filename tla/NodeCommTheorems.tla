-------------------------- MODULE NodeCommTheorems --------------------------
(***************************************************************************)
(* Theorems about NodeComm, for every number of processes, every           *)
(* placement of them on nodes, every choice of schemes and whatever an     *)
(* unassigned int holds.                                                   *)
(***************************************************************************)
EXTENDS NodeComm, GridTheorems

----------------------------------------------------------------------------
(***************************************************************************)
(* Placements: the nodes partition the processes, and each has one leader. *)
(***************************************************************************)
Node(p) == NodeMembers(nodeOf, nodeOf[p])

LEMMA ProcsFinite ==
  /\ N \in Nat \ {0} /\ Procs \subseteq Nat /\ 0 \in Procs
  /\ IsFiniteSet(Procs) /\ Cardinality(Procs) = N
<1>1. N \in Nat \ {0}
  BY NAssumption
<1>2. IsFiniteSet(0 .. N-1) /\ Cardinality(0 .. N-1) = N
  <2>1. \A n \in Int : IsFiniteSet(0 .. n) /\ Cardinality(0 .. n) = IF 0 > n THEN 0 ELSE n - 0 + 1
    BY FS_Interval
  <2> QED
    BY <1>1, <2>1
<1> QED
  BY <1>1, <1>2 DEF Procs

\* The members of a node, among them its leader, agree on who they are.
LEMMA NodeFacts ==
  ASSUME NEW f, DOMAIN f = Procs, NEW p \in Procs
  PROVE  /\ NodeMembers(f, f[p]) \subseteq Procs
         /\ IsFiniteSet(NodeMembers(f, f[p]))
         /\ Cardinality(NodeMembers(f, f[p])) \in 1 .. N
         /\ p \in NodeMembers(f, f[p])
         /\ LeaderOf(f, p) \in NodeMembers(f, f[p])
         /\ LeaderOf(f, p) \in Leaders(f)
         /\ \A q \in NodeMembers(f, f[p]) :
              /\ f[q] = f[p]
              /\ LeaderOf(f, q) = LeaderOf(f, p)
              /\ LeaderOf(f, p) <= q
<1> DEFINE M == NodeMembers(f, f[p])
<1>1. M \subseteq Procs /\ p \in M /\ \A q \in M : f[q] = f[p]
  BY DEF NodeMembers
<1> HIDE DEF M
<1>2. IsFiniteSet(M) /\ Cardinality(M) <= N
  BY <1>1, ProcsFinite, FS_Subset
<1>3. Cardinality(M) \in Nat /\ Cardinality(M) # 0
  BY <1>1, <1>2, FS_CardinalityType, FS_EmptySet
<1>4. M \subseteq Nat
  BY <1>1, ProcsFinite
<1>5. LeaderOf(f, p) \in M /\ \A q \in M : LeaderOf(f, p) <= q
  BY <1>1, <1>4, MinOfSet DEF LeaderOf, M
<1>6. \A q \in M : LeaderOf(f, q) = LeaderOf(f, p)
  BY <1>1 DEF LeaderOf
<1>7. LeaderOf(f, p) \in Leaders(f)
  BY DEF Leaders
<1>8. Cardinality(M) \in 1 .. N
  BY <1>2, <1>3, ProcsFinite
<1> QED
  BY <1>1, <1>2, <1>5, <1>6, <1>7, <1>8 DEF M

\* Processes are on one node just if they have one leader.
LEMMA SameLeader ==
  ASSUME NEW f, DOMAIN f = Procs, NEW p \in Procs, NEW q \in Procs
  PROVE  LeaderOf(f, p) = LeaderOf(f, q) <=> f[p] = f[q]
<1>1. f[LeaderOf(f, p)] = f[p] /\ f[LeaderOf(f, q)] = f[q]
  BY NodeFacts
<1>2. f[p] = f[q] => LeaderOf(f, p) = LeaderOf(f, q)
  BY DEF LeaderOf
<1> QED
  BY <1>1, <1>2

LEMMA LeadersFacts ==
  ASSUME NEW f, DOMAIN f = Procs
  PROVE  /\ Leaders(f) \subseteq Procs
         /\ IsFiniteSet(Leaders(f))
         /\ Cardinality(Leaders(f)) \in 1 .. N
         /\ \A l \in Leaders(f) : LeaderOf(f, l) = l
<1>1. Leaders(f) \subseteq Procs /\ \A l \in Leaders(f) : LeaderOf(f, l) = l
  <2> SUFFICES ASSUME NEW l \in Leaders(f) PROVE l \in Procs /\ LeaderOf(f, l) = l
    OBVIOUS
  <2>1. PICK p \in Procs : l = LeaderOf(f, p)
    BY DEF Leaders
  <2> QED
    BY <2>1, NodeFacts
<1>2. LeaderOf(f, 0) \in Leaders(f)
  BY ProcsFinite, NodeFacts
<1>3. IsFiniteSet(Leaders(f)) /\ Cardinality(Leaders(f)) <= N
  BY <1>1, ProcsFinite, FS_Subset
<1>4. Cardinality(Leaders(f)) \in Nat /\ Cardinality(Leaders(f)) # 0
  BY <1>2, <1>3, FS_CardinalityType, FS_EmptySet
<1>5. Cardinality(Leaders(f)) \in 1 .. N
  BY <1>3, <1>4, ProcsFinite
<1> QED
  BY <1>1, <1>3, <1>5

\* Leaders are found by their rank.
LEMMA LeaderRanks ==
  ASSUME NEW f, DOMAIN f = Procs
  PROVE  /\ RankIn(Leaders(f)) \in [Leaders(f) -> 0 .. Cardinality(Leaders(f))-1]
         /\ \A l \in Leaders(f) : LeaderAt(f, RankIn(Leaders(f))[l]) = l
         /\ \A i \in 0 .. Cardinality(Leaders(f))-1 :
              LeaderAt(f, i) \in Leaders(f) /\ RankIn(Leaders(f))[LeaderAt(f, i)] = i
<1>1. Leaders(f) \subseteq Nat /\ IsFiniteSet(Leaders(f))
  BY LeadersFacts, ProcsFinite
<1>2. /\ RankIn(Leaders(f)) \in [Leaders(f) -> 0 .. Cardinality(Leaders(f))-1]
      /\ \A l, m \in Leaders(f) : RankIn(Leaders(f))[l] = RankIn(Leaders(f))[m] => l = m
  BY <1>1, RankOrder
<1>3. \A i : LeaderAt(f, i) = CHOOSE l \in Leaders(f) : RankIn(Leaders(f))[l] = i
  BY DEF LeaderAt, RankIn
<1>4. ASSUME NEW i \in 0 .. Cardinality(Leaders(f))-1
      PROVE  LeaderAt(f, i) \in Leaders(f) /\ RankIn(Leaders(f))[LeaderAt(f, i)] = i
  <2>1. \E l \in Leaders(f) : RankIn(Leaders(f))[l] = i
    BY <1>1, RankOnto
  <2> QED
    BY <1>3, <2>1
<1>5. ASSUME NEW l \in Leaders(f) PROVE LeaderAt(f, RankIn(Leaders(f))[l]) = l
  <2>1. RankIn(Leaders(f))[l] \in 0 .. Cardinality(Leaders(f))-1
    BY <1>2
  <2> QED
    BY <1>2, <1>4, <2>1
<1> QED
  BY <1>2, <1>4, <1>5

\* The sizes of the nodes, in the order of their leaders.
LEMMA SizesFacts ==
  ASSUME NEW f, DOMAIN f = Procs
  PROVE  /\ NodeSizes(f) \in [0 .. Cardinality(Leaders(f))-1 -> 1 .. N]
         /\ \A l \in Leaders(f) :
              NodeSizes(f)[RankIn(Leaders(f))[l]] = Cardinality(NodeMembers(f, f[l]))
<1>1. \A i \in 0 .. Cardinality(Leaders(f))-1 : LeaderAt(f, i) \in Procs
  BY LeaderRanks, LeadersFacts
<1>2. \A i \in 0 .. Cardinality(Leaders(f))-1 :
        Cardinality(NodeMembers(f, f[LeaderAt(f, i)])) \in 1 .. N
  BY <1>1, NodeFacts
<1>3. NodeSizes(f) \in [0 .. Cardinality(Leaders(f))-1 -> 1 .. N]
  BY <1>2 DEF NodeSizes
<1>4. \A l \in Leaders(f) :
        NodeSizes(f)[RankIn(Leaders(f))[l]] = Cardinality(NodeMembers(f, f[l]))
  BY LeaderRanks DEF NodeSizes
<1> QED
  BY <1>3, <1>4

\* The communicator of a node ranks its members by their old ranks, the leader first.
LEMMA NodeCommunicator ==
  ASSUME NEW f, DOMAIN f = Procs, NEW p \in Procs
  PROVE  LET M == NodeMembers(f, f[p])
         IN  /\ MPI_Comm_split_type(oldcomm, f, p) = RankIn(M)
             /\ RankIn(M) \in [M -> 0 .. Cardinality(M)-1]
             /\ \A q \in M : RankIn(M)[q] = 0 <=> q = LeaderOf(f, p)
             /\ Root(RankIn(M)) = LeaderOf(f, p)
<1> DEFINE M == NodeMembers(f, f[p])
           key == [q \in DOMAIN oldcomm |-> 0]
<1>1. M \subseteq Procs /\ M = {q \in DOMAIN oldcomm : f[q] = f[p]}
  BY DEF NodeMembers, oldcomm
<1>2. ASSUME NEW q \in M, NEW r \in M PROVE Precedes(oldcomm, key, r, q) <=> r < q
  <2>1. key[r] = 0 /\ key[q] = 0 /\ oldcomm[r] = r /\ oldcomm[q] = q
    BY <1>1 DEF oldcomm
  <2> HIDE DEF key, M
  <2> QED
    BY <2>1 DEF Precedes
<1>3. RankBy(oldcomm, key, M) = RankIn(M)
  <2> HIDE DEF key, M
  <2> QED
    BY <1>2 DEF RankBy, RankIn
<1>4. MPI_Comm_split_type(oldcomm, f, p) = RankIn(M)
  BY <1>1, <1>3 DEF MPI_Comm_split_type
<1> HIDE DEF M
<1>5. /\ M \subseteq Nat /\ IsFiniteSet(M)
      /\ LeaderOf(f, p) \in M /\ \A q \in M : LeaderOf(f, p) <= q
  BY NodeFacts, ProcsFinite DEF M
<1>6. /\ RankIn(M) \in [M -> 0 .. Cardinality(M)-1]
      /\ \A q \in M : RankIn(M)[q] = 0 <=> \A r \in M : q <= r
  BY <1>5, RankOrder
<1>7. ASSUME NEW q \in M PROVE RankIn(M)[q] = 0 <=> q = LeaderOf(f, p)
  <2>1. q \in Nat /\ LeaderOf(f, p) \in Nat /\ LeaderOf(f, p) <= q
    BY <1>5
  <2>2. (\A r \in M : q <= r) => q = LeaderOf(f, p)
    BY <1>5, <2>1
  <2> QED
    BY <1>5, <1>6, <2>2
<1>8. Root(RankIn(M)) = LeaderOf(f, p)
  <2>1. DOMAIN RankIn(M) = M
    BY <1>6
  <2> QED
    BY <1>5, <1>7, <2>1 DEF Root
<1> QED
  BY <1>4, <1>6, <1>7, <1>8 DEF M

----------------------------------------------------------------------------
(***************************************************************************)
(* The inductive invariant.  On each of its communicators a process makes  *)
(* the calls of a script that the placement alone determines: how far it   *)
(* has come in it, and what it knows, are functions of its program counter.*)
(***************************************************************************)
Handles == {"old", "node", "leader"}

\* p leads its node; the number of nodes; p's rank on its node and its node's rank.
Leads(p) == LeaderOf(nodeOf, p) = p
Nodes == Cardinality(Leaders(nodeOf))
NodeRank(p) == RankIn(Node(p))[p]
LeaderRank(p) == RankIn(Leaders(nodeOf))[LeaderOf(nodeOf, p)]

\* The key that p passes to the last split.
Key(p) == ProcessesBefore(NodeSizes(nodeOf), LeaderRank(p)) + NodeRank(p)

Unfilled == [i \in 0 .. Nodes-1 |-> UNINIT]

\* Every process of a node broadcasts what only its leader has.
FromLeader(p, known, unknown) == IF Leads(p) THEN known ELSE unknown

CallOf(op, count, arg) == [op |-> op, count |-> count, arg |-> arg]

OldScript(p) ==
  <<CallOf("comm_split_type", 0, 0),
    CallOf("comm_split", 0, [color |-> FromLeader(p, 0, UNDEFINED), key |-> 0]),
    CallOf("comm_split", 0, [color |-> 0, key |-> Key(p)])>>

NodeScript(p) ==
  <<CallOf("bcast", 1, FromLeader(p, Nodes, UNINIT)),
    CallOf("bcast", 1, FromLeader(p, LeaderRank(p), UNINIT)),
    CallOf("bcast", Nodes, FromLeader(p, NodeSizes(nodeOf), Unfilled)),
    FreeCall>>

LeaderScript(p) == <<CallOf("allgather", 1, Cardinality(Node(p))), FreeCall>>

\* The first k calls of a script.
Made(script, k) == [i \in 1 .. k |-> script[i]]

OldMade(p) ==
  IF pc[p] = "start" THEN 0
  ELSE IF pc[p] = "split_type" THEN 1
  ELSE IF pc[p] \in {"split_new", "done"} THEN 3
  ELSE 2

NodeMade(p) ==
  IF pc[p] \in {"start", "split_type", "split_leaders"} THEN 0
  ELSE IF pc[p] = "bcast_n_nodes" THEN 1
  ELSE IF pc[p] \in {"bcast_leader_rank", "allgather"} THEN 2
  ELSE IF pc[p] \in {"bcast_sizes", "split_new"} THEN 3
  ELSE 4

LeaderMade(p) ==
  IF ~ Leads(p) THEN 0
  ELSE IF pc[p] \in {"allgather", "bcast_sizes", "split_new"} THEN 1
  ELSE IF pc[p] = "done" THEN 2
  ELSE 0

CallsFollow(p) ==
  /\ calls["old"][p] = Made(OldScript(p), OldMade(p))
  /\ calls["node"][p] = Made(NodeScript(p), NodeMade(p))
  /\ calls["leader"][p] = Made(LeaderScript(p), LeaderMade(p))

\* What p holds of its communicators at each call.
CommsFollow(p) ==
  /\ nodecomm[p] =
       IF pc[p] \in {"start", "split_type", "done"} THEN COMM_NULL ELSE RankIn(Node(p))
  /\ leadercomm[p] =
       IF pc[p] \in {"start", "split_type", "split_leaders", "done"} \/ ~ Leads(p)
       THEN COMM_NULL
       ELSE RankIn(Leaders(nodeOf))
  /\ new_comm[p] =
       IF pc[p] = "done" THEN RankBy(oldcomm, [q \in Procs |-> Key(q)], Procs) ELSE COMM_NULL

\* What p knows at each call: a leader what its call has told it, the others what the
\* leader has broadcast.
DataFollow(p) ==
  /\ l_n_nodes[p] =
       IF \/ pc[p] \in {"start", "split_type", "split_leaders"}
          \/ pc[p] = "bcast_n_nodes" /\ ~ Leads(p)
       THEN UNINIT
       ELSE Nodes
  /\ leader_rank[p] =
       IF \/ pc[p] \in {"start", "split_type", "split_leaders"}
          \/ pc[p] \in {"bcast_n_nodes", "bcast_leader_rank"} /\ ~ Leads(p)
       THEN UNINIT
       ELSE LeaderRank(p)
  /\ node_sizes[p] =
       IF pc[p] \in {"start", "split_type", "split_leaders", "bcast_n_nodes", "bcast_leader_rank"}
       THEN COMM_NULL
       ELSE IF pc[p] = "allgather" \/ (pc[p] = "bcast_sizes" /\ ~ Leads(p))
       THEN Unfilled
       ELSE NodeSizes(nodeOf)
  /\ l_ppn[p] \in
       IF pc[p] \in {"split_new", "done"}
       THEN {Aggregate(scheme[p], NodeSizes(nodeOf), g) : g \in Garbage}
       ELSE {UNINIT}

Follows(p) ==
  /\ pc[p] = "allgather" => Leads(p)
  /\ CallsFollow(p)
  /\ CommsFollow(p)
  /\ DataFollow(p)

\* Every variable is a function on the processes.
Shape ==
  /\ nodeOf \in Placements /\ scheme \in Schemes
  /\ pc \in [Procs -> PCs]
  /\ calls = [h \in Handles |-> [p \in Procs |-> calls[h][p]]]
  /\ nodecomm = [p \in Procs |-> nodecomm[p]]
  /\ leadercomm = [p \in Procs |-> leadercomm[p]]
  /\ new_comm = [p \in Procs |-> new_comm[p]]
  /\ l_n_nodes = [p \in Procs |-> l_n_nodes[p]]
  /\ leader_rank = [p \in Procs |-> leader_rank[p]]
  /\ node_sizes = [p \in Procs |-> node_sizes[p]]
  /\ l_ppn = [p \in Procs |-> l_ppn[p]]

IInv == Shape /\ \A p \in Procs : Follows(p)

----------------------------------------------------------------------------
(***************************************************************************)
(* Calls and scripts.                                                      *)
(***************************************************************************)
\* The next call of a script makes the script one call longer.
LEMMA MadeAppend ==
  ASSUME NEW script, NEW k \in Nat
  PROVE  Append(Made(script, k), script[k+1]) = Made(script, k+1)
<1> DEFINE U == {script[i] : i \in 1 .. k+1}
           s == Made(script, k)
           t == Append(s, script[k+1])
<1>1. script[k+1] \in U /\ \A i \in 1 .. k : script[i] \in U
  OBVIOUS
<1> HIDE DEF U
<1>2. s \in Seq(U) /\ Len(s) = k /\ \A i \in 1 .. k : s[i] = script[i]
  BY <1>1 DEF Made
<1> HIDE DEF s
<1>3. t \in Seq(U) /\ Len(t) = k+1
  BY <1>1, <1>2
<1>4. t[k+1] = script[k+1] /\ \A i \in 1 .. k : t[i] = script[i]
  BY <1>1, <1>2
<1> HIDE DEF t
<1>5. t = [i \in 1 .. k+1 |-> t[i]]
  BY <1>3
<1>6. \A i \in 1 .. k+1 : t[i] = script[i]
  BY <1>4
<1> QED
  BY <1>5, <1>6 DEF Made, s, t

\* How many calls have been made, and which.
LEMMA MadeFacts ==
  ASSUME NEW script, NEW k \in Nat
  PROVE  /\ Len(Made(script, k)) = k /\ DOMAIN Made(script, k) = 1 .. k
         /\ \A i \in 1 .. k : Made(script, k)[i] = script[i]
  BY DEF Made

\* p has made n calls of a script on its communicator h, and no other call was made.
Advanced(h, p, script, n) ==
  /\ calls' = [i \in Handles |-> [q \in Procs |-> calls'[i][q]]]
  /\ calls'[h][p] = Made(script, n)
  /\ \A i \in Handles : \A q \in Procs : i # h \/ q # p => calls'[i][q] = calls[i][q]

\* A call advances the caller in its script for one communicator, and changes no other.
LEMMA CallAdvances ==
  ASSUME Shape, NEW p \in Procs, NEW h \in Handles, NEW op, NEW count, NEW arg,
         Call(p, h, op, count, arg),
         NEW script, NEW k \in Nat, NEW n \in Nat, n = k+1,
         calls[h][p] = Made(script, k), script[n] = CallOf(op, count, arg)
  PROVE  Advanced(h, p, script, n)
<1>1. calls = [i \in Handles |-> [q \in Procs |-> calls[i][q]]]
  BY DEF Shape
<1>2. calls' = [calls EXCEPT ![h][p] = Append(@, CallOf(op, count, arg))]
  BY DEF Call, CallOf
<1>3. calls'[h][p] = Append(Made(script, k), script[k+1])
  BY <1>1, <1>2
<1>4. calls'[h][p] = Made(script, n)
  BY <1>3, MadeAppend
<1>5. \A i \in Handles : \A q \in Procs : i # h \/ q # p => calls'[i][q] = calls[i][q]
  BY <1>1, <1>2
<1>6. calls' = [i \in Handles |-> [q \in Procs |-> calls'[i][q]]]
  BY <1>1, <1>2
<1> QED
  BY <1>4, <1>5, <1>6 DEF Advanced

\* What depends on the placement alone does not change.
LEMMA Static ==
  ASSUME nodeOf' = nodeOf, NEW p
  PROVE  /\ Leads(p)' = Leads(p) /\ Node(p)' = Node(p) /\ Nodes' = Nodes
         /\ LeaderRank(p)' = LeaderRank(p) /\ NodeRank(p)' = NodeRank(p)
         /\ Key(p)' = Key(p) /\ Unfilled' = Unfilled
         /\ OldScript(p)' = OldScript(p) /\ NodeScript(p)' = NodeScript(p)
         /\ LeaderScript(p)' = LeaderScript(p)
  BY DEF Leads, Node, Nodes, LeaderRank, NodeRank, Key, Unfilled, OldScript, NodeScript,
         LeaderScript, FromLeader

\* A step of another process leaves p where it was.
LEMMA Frame ==
  ASSUME nodeOf' = nodeOf, scheme' = scheme, NEW p \in Procs, Follows(p),
         pc'[p] = pc[p], \A h \in Handles : calls'[h][p] = calls[h][p],
         nodecomm'[p] = nodecomm[p], leadercomm'[p] = leadercomm[p], new_comm'[p] = new_comm[p],
         l_n_nodes'[p] = l_n_nodes[p], leader_rank'[p] = leader_rank[p],
         node_sizes'[p] = node_sizes[p], l_ppn'[p] = l_ppn[p]
  PROVE  Follows(p)'
<1>1. CallsFollow(p)'
  BY Static DEF Follows, CallsFollow, OldMade, NodeMade, LeaderMade, Handles
<1>2. CommsFollow(p)'
  <2>1. [q \in Procs |-> Key(q)]' = [q \in Procs |-> Key(q)]
    BY Static
  <2> QED
    BY <2>1, Static DEF Follows, CommsFollow
<1>3. DataFollow(p)'
  BY Static DEF Follows, DataFollow
<1> QED
  BY <1>1, <1>2, <1>3, Static DEF Follows

----------------------------------------------------------------------------
(***************************************************************************)
(* The steps.                                                              *)
(***************************************************************************)
\* The scripts, call by call.
LEMMA Scripts ==
  ASSUME NEW p
  PROVE  /\ OldScript(p)[1] = CallOf("comm_split_type", 0, 0)
         /\ OldScript(p)[2] = CallOf("comm_split", 0, [color |-> FromLeader(p, 0, UNDEFINED), key |-> 0])
         /\ OldScript(p)[3] = CallOf("comm_split", 0, [color |-> 0, key |-> Key(p)])
         /\ NodeScript(p)[1] = CallOf("bcast", 1, FromLeader(p, Nodes, UNINIT))
         /\ NodeScript(p)[2] = CallOf("bcast", 1, FromLeader(p, LeaderRank(p), UNINIT))
         /\ NodeScript(p)[3] = CallOf("bcast", Nodes, FromLeader(p, NodeSizes(nodeOf), Unfilled))
         /\ NodeScript(p)[4] = FreeCall
         /\ LeaderScript(p)[1] = CallOf("allgather", 1, Cardinality(Node(p)))
         /\ LeaderScript(p)[2] = FreeCall
  BY DEF OldScript, NodeScript, LeaderScript

LEMMA EnterStep ==
  ASSUME IInv, NEW p \in Procs, Enter(p)
  PROVE  IInv'
<1> USE DEF IInv, Enter, Goto
<1>1. /\ pc[p] = "start" /\ pc' = [pc EXCEPT ![p] = "split_type"]
      /\ nodeOf' = nodeOf /\ scheme' = scheme /\ UNCHANGED <<comms, locals>>
  OBVIOUS
<1>2. Advanced("old", p, OldScript(p), 1)
  <2>1. calls["old"][p] = Made(OldScript(p), 0)
    BY <1>1 DEF Follows, CallsFollow, OldMade
  <2>2. OldScript(p)[1] = CallOf("comm_split_type", 0, 0)
    BY Scripts
  <2>3. "old" \in Handles /\ Call(p, "old", "comm_split_type", 0, 0) /\ 1 = 0 + 1 /\ {0, 1} \subseteq Nat
    BY DEF Handles
  <2> QED
    BY <2>1, <2>2, <2>3, CallAdvances
<1>3. Shape'
  BY <1>1, <1>2 DEF Advanced, Shape, PCs, comms, locals
<1>4. ASSUME NEW q \in Procs, q # p PROVE Follows(q)'
  BY <1>1, <1>2, <1>4, Frame DEF Advanced, Shape, comms, locals
<1>5. Follows(p)'
  <2>1. pc'[p] = "split_type"
    BY <1>1 DEF Shape
  <2>2. CallsFollow(p)'
    BY <1>1, <1>2, <2>1, Static DEF Advanced, Follows, CallsFollow, OldMade, NodeMade, LeaderMade, Handles
  <2>3. CommsFollow(p)'
    BY <1>1, <2>1 DEF Follows, CommsFollow, comms
  <2>4. DataFollow(p)'
    BY <1>1, <2>1 DEF Follows, DataFollow, locals
  <2> QED
    BY <2>1, <2>2, <2>3, <2>4 DEF Follows
<1> QED
  BY <1>3, <1>4, <1>5

\* A process leads its node just if it has rank 0 there; leaders lead.
LEMMA Leadership ==
  ASSUME Shape, NEW p \in Procs
  PROVE  /\ DOMAIN nodeOf = Procs
         /\ MPI_Comm_split_type(oldcomm, nodeOf, p) = RankIn(Node(p))
         /\ RankIn(Node(p)) \in [Node(p) -> 0 .. Cardinality(Node(p))-1]
         /\ RankIn(Node(p))[p] = 0 <=> Leads(p)
         /\ Root(RankIn(Node(p))) = LeaderOf(nodeOf, p)
         /\ LeaderOf(nodeOf, p) \in Procs /\ LeaderOf(nodeOf, p) \in Leaders(nodeOf)
         /\ Leads(LeaderOf(nodeOf, p))
         /\ LeaderRank(LeaderOf(nodeOf, p)) = LeaderRank(p)
         /\ p \in Leaders(nodeOf) <=> Leads(p)
<1>1. DOMAIN nodeOf = Procs
  BY PlacementAssumption DEF Shape
<1>2. p \in Node(p) /\ LeaderOf(nodeOf, p) \in Procs /\ LeaderOf(nodeOf, p) \in Leaders(nodeOf)
  BY <1>1, NodeFacts DEF Node
<1>3. Leads(LeaderOf(nodeOf, p)) /\ (p \in Leaders(nodeOf) <=> Leads(p))
  BY <1>1, <1>2, LeadersFacts DEF Leads
<1>4. LeaderRank(LeaderOf(nodeOf, p)) = LeaderRank(p)
  BY <1>3 DEF LeaderRank, Leads
<1>5. /\ MPI_Comm_split_type(oldcomm, nodeOf, p) = RankIn(Node(p))
      /\ RankIn(Node(p)) \in [Node(p) -> 0 .. Cardinality(Node(p))-1]
      /\ \A q \in Node(p) : RankIn(Node(p))[q] = 0 <=> q = LeaderOf(nodeOf, p)
      /\ Root(RankIn(Node(p))) = LeaderOf(nodeOf, p)
  BY <1>1, NodeCommunicator DEF Node
<1>6. RankIn(Node(p))[p] = 0 <=> Leads(p)
  BY <1>2, <1>5 DEF Leads
<1> QED
  BY <1>1, <1>2, <1>3, <1>4, <1>5, <1>6

\* When the k-th call on oldcomm returns, everybody has made the k-th call of its script.
LEMMA OldMatched ==
  ASSUME IInv, NEW p \in Procs, NEW k \in 1 .. 3, OldMade(p) = k,
         EverybodyCalled(oldcomm, calls["old"], p), NEW q \in Procs
  PROVE  Argument(calls["old"], q, p) = OldScript(q)[k].arg
<1>1. calls["old"][p] = Made(OldScript(p), k) /\ calls["old"][q] = Made(OldScript(q), OldMade(q))
  BY DEF IInv, Follows, CallsFollow
<1>2. OldMade(q) \in Nat
  BY DEF OldMade
<1>3. Current(calls["old"], p) = k
  BY <1>1, MadeFacts DEF Current
<1>4. OldMade(q) >= k
  BY <1>1, <1>2, <1>3, MadeFacts DEF EverybodyCalled, HasMade, oldcomm
<1>5. calls["old"][q][k] = OldScript(q)[k]
  BY <1>1, <1>2, <1>4, MadeFacts
<1> QED
  BY <1>3, <1>5 DEF Argument

\* When the k-th broadcast on a node returns, it delivers what the leader's script says.
LEMMA NodeMatched ==
  ASSUME IInv, NEW p \in Procs, NEW k \in 1 .. 4, NodeMade(p) = k,
         nodecomm[p] = RankIn(Node(p)), RootCalled(nodecomm[p], calls["node"], p)
  PROVE  Received(p) = NodeScript(LeaderOf(nodeOf, p))[k].arg
<1> DEFINE l == LeaderOf(nodeOf, p)
<1>0. l \in Procs /\ Root(nodecomm[p]) = l
  BY Leadership DEF IInv
<1> HIDE DEF l
<1>1. calls["node"][p] = Made(NodeScript(p), k) /\ calls["node"][l] = Made(NodeScript(l), NodeMade(l))
  BY <1>0 DEF IInv, Follows, CallsFollow
<1>2. NodeMade(l) \in Nat
  BY DEF NodeMade
<1>3. Current(calls["node"], p) = k
  BY <1>1, MadeFacts DEF Current
<1>4. NodeMade(l) >= k
  BY <1>0, <1>1, <1>2, <1>3, MadeFacts DEF RootCalled, HasMade
<1>5. calls["node"][l][k] = NodeScript(l)[k]
  BY <1>1, <1>2, <1>4, MadeFacts
<1> QED
  BY <1>0, <1>3, <1>5 DEF Argument, Received, l

\* When the allgather returns, every leader has sent the size of its node.
LEMMA LeadersMatched ==
  ASSUME IInv, NEW p \in Procs, pc[p] = "allgather",
         EverybodyCalled(leadercomm[p], calls["leader"], p), NEW q \in Leaders(nodeOf)
  PROVE  Argument(calls["leader"], q, p) = Cardinality(Node(q))
<1>0. q \in Procs /\ Leads(q) /\ Leads(p)
  <2>1. q \in Procs
    BY Leadership, LeadersFacts DEF IInv
  <2> QED
    BY <2>1, Leadership DEF IInv, Follows
<1>1. /\ calls["leader"][p] = Made(LeaderScript(p), 1)
      /\ calls["leader"][q] = Made(LeaderScript(q), LeaderMade(q))
  BY <1>0 DEF IInv, Follows, CallsFollow, LeaderMade
<1>2. LeaderMade(q) \in Nat
  BY DEF LeaderMade
<1>3. Current(calls["leader"], p) = 1
  <2>1. \A k \in Nat : Len(Made(LeaderScript(p), k)) = k
    BY MadeFacts
  <2> QED
    BY <1>1, <2>1 DEF Current
<1>4. q \in DOMAIN leadercomm[p]
  BY <1>0 DEF IInv, Follows, CommsFollow, RankIn
<1>5. LeaderMade(q) >= 1
  BY <1>1, <1>2, <1>3, <1>4, MadeFacts DEF EverybodyCalled, HasMade
<1>6. calls["leader"][q][1] = CallOf("allgather", 1, Cardinality(Node(q)))
  <2>1. LeaderScript(q)[1] = CallOf("allgather", 1, Cardinality(Node(q)))
    BY Scripts
  <2>2. 1 \in 1 .. LeaderMade(q)
    BY <1>2, <1>5
  <2>3. calls["leader"][q][1] = LeaderScript(q)[1]
    BY <1>1, <1>2, <2>2, MadeFacts
  <2> QED
    BY <2>1, <2>3
<1> QED
  BY <1>3, <1>6 DEF Argument, CallOf

----------------------------------------------------------------------------
\* The leaders' communicator is the one the second split makes.
LEMMA LeadersSplit ==
  ASSUME IInv, NEW p \in Procs, OldMade(p) = 2, EverybodyCalled(oldcomm, calls["old"], p)
  PROVE  SplitOld(p) = IF Leads(p) THEN RankIn(Leaders(nodeOf)) ELSE COMM_NULL
<1> DEFINE color == [q \in Procs |-> Argument(calls["old"], q, p).color]
           key == [q \in Procs |-> Argument(calls["old"], q, p).key]
<1>1. \A q \in Procs : color[q] = (IF Leads(q) THEN 0 ELSE UNDEFINED) /\ key[q] = 0
  <2> TAKE q \in Procs
  <2>1. Argument(calls["old"], q, p) = OldScript(q)[2].arg
    BY OldMatched
  <2>2. OldScript(q)[2] = CallOf("comm_split", 0, [color |-> FromLeader(q, 0, UNDEFINED), key |-> 0])
    BY Scripts
  <2>3. Argument(calls["old"], q, p) = [color |-> FromLeader(q, 0, UNDEFINED), key |-> 0]
    BY <2>1, <2>2 DEF CallOf
  <2> QED
    BY <2>3 DEF FromLeader
<1> HIDE DEF color, key
<1>2. SplitOld(p) = MPI_Comm_split(oldcomm, color, key, p)
  BY DEF SplitOld, color, key
<1>3. CASE Leads(p)
  <2>1. {q \in DOMAIN oldcomm : color[q] = color[p]} = Leaders(nodeOf)
    <3>1. \A q \in Procs : color[q] = color[p] <=> q \in Leaders(nodeOf)
      BY <1>1, <1>3, Leadership DEF IInv, UNDEFINED
    <3>2. Leaders(nodeOf) \subseteq Procs /\ DOMAIN oldcomm = Procs
      BY Leadership, LeadersFacts DEF IInv, oldcomm
    <3> QED
      BY <3>1, <3>2
  <2>2. ASSUME NEW q \in Leaders(nodeOf), NEW r \in Leaders(nodeOf)
        PROVE  Precedes(oldcomm, key, q, r) <=> q < r
    <3>1. q \in Procs /\ r \in Procs
      BY Leadership, LeadersFacts DEF IInv
    <3>2. key[q] = 0 /\ key[r] = 0 /\ oldcomm[q] = q /\ oldcomm[r] = r
      BY <1>1, <3>1 DEF oldcomm
    <3> QED
      BY <3>2 DEF Precedes
  <2>3. RankBy(oldcomm, key, Leaders(nodeOf)) = RankIn(Leaders(nodeOf))
    BY <2>2 DEF RankBy, RankIn
  <2>4. color[p] # UNDEFINED
    BY <1>1, <1>3 DEF UNDEFINED
  <2> QED
    BY <1>2, <1>3, <2>1, <2>3, <2>4 DEF MPI_Comm_split
<1>4. CASE ~ Leads(p)
  BY <1>1, <1>2, <1>4 DEF MPI_Comm_split
<1> QED
  BY <1>3, <1>4

\* The last split keeps everybody, and orders them by their keys.
LEMMA KeysSplit ==
  ASSUME IInv, NEW p \in Procs, OldMade(p) = 3, EverybodyCalled(oldcomm, calls["old"], p)
  PROVE  SplitOld(p) = RankBy(oldcomm, [q \in Procs |-> Key(q)], Procs)
<1> DEFINE color == [q \in Procs |-> Argument(calls["old"], q, p).color]
           key == [q \in Procs |-> Argument(calls["old"], q, p).key]
<1>1. \A q \in Procs : /\ Argument(calls["old"], q, p).color = 0
                       /\ Argument(calls["old"], q, p).key = Key(q)
  <2> TAKE q \in Procs
  <2>1. Argument(calls["old"], q, p) = OldScript(q)[3].arg
    BY OldMatched
  <2>2. OldScript(q)[3] = CallOf("comm_split", 0, [color |-> 0, key |-> Key(q)])
    BY Scripts
  <2> QED
    BY <2>1, <2>2 DEF CallOf
<1>2. key = [q \in Procs |-> Key(q)] /\ \A q \in Procs : color[q] = 0
  BY <1>1
<1>3. SplitOld(p) = MPI_Comm_split(oldcomm, color, key, p)
  BY DEF SplitOld
<1> HIDE DEF color, key
<1>4. {q \in DOMAIN oldcomm : color[q] = color[p]} = Procs
  BY <1>2 DEF oldcomm
<1> QED
  BY <1>2, <1>3, <1>4 DEF MPI_Comm_split, UNDEFINED

LEMMA SplitTypeStep ==
  ASSUME IInv, NEW p \in Procs, SplitType(p)
  PROVE  IInv'
<1> USE DEF IInv, SplitType, Goto
<1>1. /\ pc[p] = "split_type" /\ pc' = [pc EXCEPT ![p] = "split_leaders"]
      /\ nodeOf' = nodeOf /\ scheme' = scheme /\ UNCHANGED <<leadercomm, new_comm, locals>>
      /\ nodecomm' = [nodecomm EXCEPT ![p] = RankIn(Node(p))]
  BY Leadership
<1>2. Advanced("old", p, OldScript(p), 2)
  <2>1. calls["old"][p] = Made(OldScript(p), 1)
    BY <1>1 DEF Follows, CallsFollow, OldMade
  <2>2. nodecomm'[p][p] = 0 <=> Leads(p)
    BY <1>1, Leadership DEF Shape
  <2>3. PICK arg : /\ Call(p, "old", "comm_split", 0, arg)
                   /\ OldScript(p)[2] = CallOf("comm_split", 0, arg)
    <3>1. Call(p, "old", "comm_split", 0, [color |-> FromLeader(p, 0, UNDEFINED), key |-> 0])
      BY <2>2 DEF FromLeader
    <3>2. OldScript(p)[2] =
            CallOf("comm_split", 0, [color |-> FromLeader(p, 0, UNDEFINED), key |-> 0])
      BY Scripts
    <3> QED
      BY <3>1, <3>2
  <2>4. "old" \in Handles /\ 2 = 1 + 1 /\ {1, 2} \subseteq Nat
    BY DEF Handles
  <2> HIDE DEF SplitType
  <2> QED
    BY <2>1, <2>3, <2>4, CallAdvances
<1>3. Shape'
  <2>1. nodecomm' = [q \in Procs |-> nodecomm'[q]]
    BY <1>1 DEF Shape
  <2> QED
    BY <1>1, <1>2, <2>1 DEF Advanced, Shape, PCs, locals
<1>4. ASSUME NEW q \in Procs, q # p PROVE Follows(q)'
  BY <1>1, <1>2, <1>4, Frame DEF Advanced, Shape, locals
<1>5. Follows(p)'
  <2>1. pc'[p] = "split_leaders"
    BY <1>1 DEF Shape
  <2>2. CallsFollow(p)'
    BY <1>1, <1>2, <2>1, Static DEF Advanced, Follows, CallsFollow, OldMade, NodeMade, LeaderMade, Handles
  <2>3. CommsFollow(p)'
    BY <1>1, <2>1, Static DEF Shape, Follows, CommsFollow
  <2>4. DataFollow(p)'
    BY <1>1, <2>1 DEF Follows, DataFollow, locals
  <2> QED
    BY <2>1, <2>2, <2>3, <2>4 DEF Follows
<1> QED
  BY <1>3, <1>4, <1>5

LEMMA SplitLeadersStep ==
  ASSUME IInv, NEW p \in Procs, SplitLeaders(p)
  PROVE  IInv'
<1> USE DEF IInv, SplitLeaders, Goto
<1>1. /\ pc[p] = "split_leaders" /\ pc' = [pc EXCEPT ![p] = "bcast_n_nodes"]
      /\ nodeOf' = nodeOf /\ scheme' = scheme
      /\ UNCHANGED <<nodecomm, new_comm, node_sizes, l_ppn>>
  OBVIOUS
<1>2. leadercomm' = [leadercomm EXCEPT ![p] = IF Leads(p) THEN RankIn(Leaders(nodeOf)) ELSE COMM_NULL]
  <2>1. OldMade(p) = 2
    BY <1>1 DEF OldMade
  <2> QED
    BY <2>1, LeadersSplit
<1>3. IsLeader(p) <=> Leads(p)
  BY <1>1, Leadership DEF IsLeader, Follows, CommsFollow
<1>4. /\ l_n_nodes' = IF Leads(p) THEN [l_n_nodes EXCEPT ![p] = Nodes] ELSE l_n_nodes
      /\ leader_rank' = IF Leads(p) THEN [leader_rank EXCEPT ![p] = LeaderRank(p)] ELSE leader_rank
  <2>1. CASE Leads(p)
    <3>1. leadercomm'[p] = RankIn(Leaders(nodeOf))
      BY <1>2, <2>1 DEF Shape
    <3>2. MPI_Comm_size(leadercomm'[p]) = Nodes
      BY <3>1 DEF MPI_Comm_size, RankIn, Nodes
    <3>3. leadercomm'[p][p] = LeaderRank(p)
      BY <2>1, <3>1 DEF LeaderRank, Leads
    <3> QED
      BY <1>3, <2>1, <3>2, <3>3
  <2>2. CASE ~ Leads(p)
    BY <1>3, <2>2
  <2> QED
    BY <2>1, <2>2
<1>5. l_n_nodes'[p] = FromLeader(p, Nodes, UNINIT)
  BY <1>1, <1>4 DEF Shape, Follows, DataFollow, FromLeader
<1>6. Advanced("node", p, NodeScript(p), 1)
  <2>1. calls["node"][p] = Made(NodeScript(p), 0)
    BY <1>1 DEF Follows, CallsFollow, NodeMade
  <2>2. "node" \in Handles /\ Call(p, "node", "bcast", 1, l_n_nodes'[p]) /\ 1 = 0 + 1 /\ {0, 1} \subseteq Nat
    BY DEF Handles
  <2>3. NodeScript(p)[1] = CallOf("bcast", 1, l_n_nodes'[p])
    BY <1>5, Scripts
  <2> QED
    BY <2>1, <2>2, <2>3, CallAdvances
<1>7. Shape'
  <2>1. /\ l_n_nodes' = [q \in Procs |-> l_n_nodes'[q]]
        /\ leader_rank' = [q \in Procs |-> leader_rank'[q]]
    BY <1>4 DEF Shape
  <2> QED
    BY <1>1, <1>2, <1>6, <2>1 DEF Advanced, Shape, PCs
<1>8. ASSUME NEW q \in Procs, q # p PROVE Follows(q)'
  BY <1>1, <1>2, <1>4, <1>6, <1>8, Frame DEF Advanced, Shape
<1>9. Follows(p)'
  <2>1. pc'[p] = "bcast_n_nodes"
    BY <1>1 DEF Shape
  <2>2. CallsFollow(p)'
    BY <1>1, <1>6, <2>1, Static DEF Advanced, Follows, CallsFollow, OldMade, NodeMade, LeaderMade, Handles
  <2>3. CommsFollow(p)'
    <3>1. leadercomm'[p] = IF Leads(p) THEN RankIn(Leaders(nodeOf)) ELSE COMM_NULL
      BY <1>2 DEF Shape
    <3> QED
      BY <1>1, <2>1, <3>1, Static DEF Follows, CommsFollow
  <2>4. DataFollow(p)'
    <3>1. leader_rank'[p] = FromLeader(p, LeaderRank(p), UNINIT)
      BY <1>1, <1>4 DEF Shape, Follows, DataFollow, FromLeader
    <3> QED
      BY <1>1, <1>5, <2>1, <3>1, Static DEF Follows, DataFollow, FromLeader
  <2> QED
    BY <2>1, <2>2, <2>3, <2>4 DEF Follows
<1> QED
  BY <1>7, <1>8, <1>9

LEMMA BcastNodesStep ==
  ASSUME IInv, NEW p \in Procs, BcastNodes(p)
  PROVE  IInv'
<1> USE DEF IInv, BcastNodes, Goto
<1>1. /\ pc[p] = "bcast_n_nodes" /\ pc' = [pc EXCEPT ![p] = "bcast_leader_rank"]
      /\ nodeOf' = nodeOf /\ scheme' = scheme
      /\ UNCHANGED <<comms, leader_rank, node_sizes, l_ppn>>
  OBVIOUS
<1>2. l_n_nodes' = [l_n_nodes EXCEPT ![p] = Nodes]
  <2>1. NodeMade(p) = 1 /\ nodecomm[p] = RankIn(Node(p))
    BY <1>1 DEF NodeMade, Follows, CommsFollow
  <2>2. Received(p) = NodeScript(LeaderOf(nodeOf, p))[1].arg
    BY <2>1, NodeMatched
  <2>3. NodeScript(LeaderOf(nodeOf, p))[1] = CallOf("bcast", 1, FromLeader(LeaderOf(nodeOf, p), Nodes, UNINIT))
    BY Scripts
  <2>4. Received(p) = Nodes
    BY <2>2, <2>3, Leadership DEF FromLeader, CallOf
  <2> QED
    BY <2>4
<1>3. leader_rank[p] = FromLeader(p, LeaderRank(p), UNINIT)
  BY <1>1 DEF Follows, DataFollow, FromLeader
<1>4. Advanced("node", p, NodeScript(p), 2)
  <2>1. calls["node"][p] = Made(NodeScript(p), 1)
    BY <1>1 DEF Follows, CallsFollow, NodeMade
  <2>2. "node" \in Handles /\ Call(p, "node", "bcast", 1, leader_rank[p]) /\ 2 = 1 + 1 /\ {1, 2} \subseteq Nat
    BY DEF Handles
  <2>3. NodeScript(p)[2] = CallOf("bcast", 1, leader_rank[p])
    BY <1>3, Scripts
  <2> QED
    BY <2>1, <2>2, <2>3, CallAdvances
<1>5. Shape'
  BY <1>1, <1>2, <1>4 DEF Advanced, Shape, PCs, comms
<1>6. ASSUME NEW q \in Procs, q # p PROVE Follows(q)'
  BY <1>1, <1>2, <1>4, <1>6, Frame DEF Advanced, Shape, comms
<1>7. Follows(p)'
  <2>1. pc'[p] = "bcast_leader_rank"
    BY <1>1 DEF Shape
  <2>2. CallsFollow(p)'
    BY <1>1, <1>4, <2>1, Static DEF Advanced, Follows, CallsFollow, OldMade, NodeMade, LeaderMade, Handles
  <2>3. CommsFollow(p)'
    BY <1>1, <2>1, Static DEF Follows, CommsFollow, comms
  <2>4. DataFollow(p)'
    BY <1>1, <1>2, <1>3, <2>1, Static DEF Shape, Follows, DataFollow, FromLeader
  <2> QED
    BY <2>1, <2>2, <2>3, <2>4 DEF Follows
<1> QED
  BY <1>5, <1>6, <1>7

LEMMA BcastLeaderRankStep ==
  ASSUME IInv, NEW p \in Procs, BcastLeaderRank(p)
  PROVE  IInv'
<1> USE DEF IInv, BcastLeaderRank, Goto
<1>1. /\ pc[p] = "bcast_leader_rank"
      /\ nodeOf' = nodeOf /\ scheme' = scheme
      /\ UNCHANGED <<comms, l_n_nodes, l_ppn>>
  OBVIOUS
<1>2. /\ nodecomm[p] = RankIn(Node(p)) /\ l_n_nodes[p] = Nodes /\ NodeMade(p) = 2
      /\ calls["node"][p] = Made(NodeScript(p), 2)
      /\ calls["leader"][p] = Made(LeaderScript(p), 0)
  BY <1>1 DEF Follows, CallsFollow, CommsFollow, DataFollow, NodeMade, LeaderMade
<1>3. leader_rank' = [leader_rank EXCEPT ![p] = LeaderRank(p)]
  <2>1. Received(p) = NodeScript(LeaderOf(nodeOf, p))[2].arg
    BY <1>2, NodeMatched
  <2>2. NodeScript(LeaderOf(nodeOf, p))[2] =
          CallOf("bcast", 1, FromLeader(LeaderOf(nodeOf, p), LeaderRank(LeaderOf(nodeOf, p)), UNINIT))
    BY Scripts
  <2>3. Received(p) = LeaderRank(p)
    BY <2>1, <2>2, Leadership DEF FromLeader, CallOf
  <2> QED
    BY <2>3
<1>4. node_sizes' = [node_sizes EXCEPT ![p] = Unfilled]
  BY <1>2 DEF Unfilled
<1>5. IsLeader(p) <=> Leads(p)
  BY <1>2, Leadership DEF IsLeader
<1>6. CASE Leads(p)
  <2>1. /\ pc' = [pc EXCEPT ![p] = "allgather"]
        /\ Call(p, "leader", "allgather", 1, Cardinality(Node(p)))
    BY <1>2, <1>5, <1>6 DEF MPI_Comm_size, RankIn
  <2>2. Advanced("leader", p, LeaderScript(p), 1)
    <3>1. "leader" \in Handles /\ 1 = 0 + 1 /\ {0, 1} \subseteq Nat
      BY DEF Handles
    <3>2. LeaderScript(p)[1] = CallOf("allgather", 1, Cardinality(Node(p)))
      BY Scripts
    <3> QED
      BY <1>2, <2>1, <3>1, <3>2, CallAdvances
  <2>3. Shape'
    BY <1>1, <1>3, <1>4, <2>1, <2>2 DEF Advanced, Shape, PCs, comms
  <2>4. ASSUME NEW q \in Procs, q # p PROVE Follows(q)'
    BY <1>1, <1>3, <1>4, <2>1, <2>2, <2>4, Frame DEF Advanced, Shape, comms
  <2>5. Follows(p)'
    <3>1. pc'[p] = "allgather" /\ Leads(p)'
      BY <1>1, <1>6, <2>1, Static DEF Shape
    <3>2. CallsFollow(p)'
      BY <1>1, <2>2, <3>1, Static
        DEF Advanced, Follows, CallsFollow, OldMade, NodeMade, LeaderMade, Handles
    <3>3. CommsFollow(p)'
      BY <1>1, <3>1, Static DEF Follows, CommsFollow, comms
    <3>4. DataFollow(p)'
      BY <1>1, <1>3, <1>4, <3>1, Static DEF Shape, Follows, DataFollow
    <3> QED
      BY <3>1, <3>2, <3>3, <3>4 DEF Follows
  <2> QED
    BY <2>3, <2>4, <2>5
<1>7. CASE ~ Leads(p)
  <2>1. /\ pc' = [pc EXCEPT ![p] = "bcast_sizes"]
        /\ Call(p, "node", "bcast", Nodes, Unfilled)
    BY <1>2, <1>4, <1>5, <1>7 DEF Shape
  <2>2. Advanced("node", p, NodeScript(p), 3)
    <3>1. "node" \in Handles /\ 3 = 2 + 1 /\ {2, 3} \subseteq Nat
      BY DEF Handles
    <3>2. NodeScript(p)[3] = CallOf("bcast", Nodes, Unfilled)
      BY <1>7, Scripts DEF FromLeader
    <3> QED
      BY <1>2, <2>1, <3>1, <3>2, CallAdvances
  <2>3. Shape'
    BY <1>1, <1>3, <1>4, <2>1, <2>2 DEF Advanced, Shape, PCs, comms
  <2>4. ASSUME NEW q \in Procs, q # p PROVE Follows(q)'
    BY <1>1, <1>3, <1>4, <2>1, <2>2, <2>4, Frame DEF Advanced, Shape, comms
  <2>5. Follows(p)'
    <3>1. pc'[p] = "bcast_sizes" /\ ~ Leads(p)'
      BY <1>1, <1>7, <2>1, Static DEF Shape
    <3>2. CallsFollow(p)'
      BY <1>1, <2>2, <3>1, Static
        DEF Advanced, Follows, CallsFollow, OldMade, NodeMade, LeaderMade, Handles
    <3>3. CommsFollow(p)'
      BY <1>1, <3>1, Static DEF Follows, CommsFollow, comms
    <3>4. DataFollow(p)'
      BY <1>1, <1>3, <1>4, <3>1, Static DEF Shape, Follows, DataFollow
    <3> QED
      BY <3>1, <3>2, <3>3, <3>4 DEF Follows
  <2> QED
    BY <2>3, <2>4, <2>5
<1> QED
  BY <1>6, <1>7

LEMMA AllgatherStep ==
  ASSUME IInv, NEW p \in Procs, Allgather(p)
  PROVE  IInv'
<1> USE DEF IInv, Allgather, Goto
<1>1. /\ pc[p] = "allgather" /\ pc' = [pc EXCEPT ![p] = "bcast_sizes"]
      /\ nodeOf' = nodeOf /\ scheme' = scheme
      /\ UNCHANGED <<comms, l_n_nodes, leader_rank, l_ppn>>
  OBVIOUS
<1>2. /\ leadercomm[p] = RankIn(Leaders(nodeOf)) /\ l_n_nodes[p] = Nodes /\ Leads(p)
      /\ node_sizes[p] = Unfilled /\ calls["node"][p] = Made(NodeScript(p), 2)
  BY <1>1 DEF Follows, CallsFollow, CommsFollow, DataFollow, NodeMade
<1>3. node_sizes' = [node_sizes EXCEPT ![p] = NodeSizes(nodeOf)]
  <2>1. DOMAIN Unfilled = 0 .. Nodes-1 /\ DOMAIN leadercomm[p] = Leaders(nodeOf)
    BY <1>2 DEF Unfilled, RankIn
  <2>2. ASSUME NEW i \in 0 .. Nodes-1
        PROVE  (LET q == CHOOSE q \in Members(leadercomm[p]) : leadercomm[p][q] = i
                IN Argument(calls["leader"], q, p)) = NodeSizes(nodeOf)[i]
    <3>1. (CHOOSE q \in Members(leadercomm[p]) : leadercomm[p][q] = i) = LeaderAt(nodeOf, i)
      BY <1>2, <2>1 DEF Members, LeaderAt, RankIn
    <3>2. LeaderAt(nodeOf, i) \in Leaders(nodeOf)
      BY Leadership, LeaderRanks DEF Nodes
    <3>3. Argument(calls["leader"], LeaderAt(nodeOf, i), p) = Cardinality(Node(LeaderAt(nodeOf, i)))
      BY <1>1, <3>2, LeadersMatched
    <3> QED
      BY <3>1, <3>3 DEF NodeSizes, Nodes, Node
  <2>3. NodeSizes(nodeOf) = [i \in 0 .. Nodes-1 |-> NodeSizes(nodeOf)[i]]
    BY DEF NodeSizes, Nodes
  <2>4. node_sizes' = [node_sizes EXCEPT ![p] =
          [i \in 0 .. Nodes-1 |->
             LET q == CHOOSE q \in Members(leadercomm[p]) : leadercomm[p][q] = i
             IN Argument(calls["leader"], q, p)]]
    BY <1>2, <2>1 DEF Shape
  <2> QED
    BY <2>2, <2>3, <2>4
<1>4. Advanced("node", p, NodeScript(p), 3)
  <2>1. Call(p, "node", "bcast", Nodes, NodeSizes(nodeOf))
    BY <1>2, <1>3 DEF Shape
  <2>2. "node" \in Handles /\ 3 = 2 + 1 /\ {2, 3} \subseteq Nat
    BY DEF Handles
  <2>3. NodeScript(p)[3] = CallOf("bcast", Nodes, NodeSizes(nodeOf))
    BY <1>2, Scripts DEF FromLeader
  <2> QED
    BY <1>2, <2>1, <2>2, <2>3, CallAdvances
<1>5. Shape'
  <2>1. node_sizes' = [q \in Procs |-> node_sizes'[q]] /\ pc' \in [Procs -> PCs]
    BY <1>1, <1>3 DEF Shape, PCs
  <2>2. calls' = [h \in Handles |-> [q \in Procs |-> calls'[h][q]]]
    BY <1>4 DEF Advanced
  <2> HIDE DEF Allgather
  <2> QED
    BY <1>1, <2>1, <2>2 DEF Shape, comms
<1>6. ASSUME NEW q \in Procs, q # p PROVE Follows(q)'
  BY <1>1, <1>3, <1>4, <1>6, Frame DEF Advanced, Shape, comms
<1>7. Follows(p)'
  <2>1. pc'[p] = "bcast_sizes" /\ Leads(p)'
    BY <1>1, <1>2, Static DEF Shape
  <2>2. CallsFollow(p)'
    BY <1>1, <1>4, <2>1, Static
      DEF Advanced, Follows, CallsFollow, OldMade, NodeMade, LeaderMade, Handles
  <2>3. CommsFollow(p)'
    BY <1>1, <2>1, Static DEF Follows, CommsFollow, comms
  <2>4. DataFollow(p)'
    BY <1>1, <1>3, <2>1, Static DEF Shape, Follows, DataFollow
  <2> QED
    BY <2>1, <2>2, <2>3, <2>4 DEF Follows
<1> QED
  BY <1>5, <1>6, <1>7

LEMMA BcastSizesStep ==
  ASSUME IInv, NEW p \in Procs, BcastSizes(p)
  PROVE  IInv'
<1> USE DEF IInv, BcastSizes, Goto
<1>1. /\ pc[p] = "bcast_sizes" /\ pc' = [pc EXCEPT ![p] = "split_new"]
      /\ nodeOf' = nodeOf /\ scheme' = scheme
      /\ UNCHANGED <<comms, l_n_nodes, leader_rank>>
  OBVIOUS
<1>2. /\ nodecomm[p] = RankIn(Node(p)) /\ leader_rank[p] = LeaderRank(p)
      /\ NodeMade(p) = 3 /\ calls["old"][p] = Made(OldScript(p), 2)
  BY <1>1 DEF Follows, CallsFollow, CommsFollow, DataFollow, NodeMade, OldMade
<1>3. node_sizes' = [node_sizes EXCEPT ![p] = NodeSizes(nodeOf)]
  <2>1. Received(p) = NodeScript(LeaderOf(nodeOf, p))[3].arg
    BY <1>2, NodeMatched
  <2>2. NodeScript(LeaderOf(nodeOf, p))[3] =
          CallOf("bcast", Nodes, FromLeader(LeaderOf(nodeOf, p), NodeSizes(nodeOf), Unfilled))
    BY Scripts
  <2>3. Received(p) = NodeSizes(nodeOf)
    BY <2>1, <2>2, Leadership DEF FromLeader, CallOf
  <2> QED
    BY <2>3
<1>4. PICK g \in Garbage : l_ppn' = [l_ppn EXCEPT ![p] = Aggregate(scheme[p], NodeSizes(nodeOf), g)]
  BY <1>3 DEF Shape
<1>5. Advanced("old", p, OldScript(p), 3)
  <2>1. Call(p, "old", "comm_split", 0, [color |-> 0, key |-> Key(p)])
    BY <1>2, <1>3 DEF Shape, Key, NodeRank
  <2>2. "old" \in Handles /\ 3 = 2 + 1 /\ {2, 3} \subseteq Nat
    BY DEF Handles
  <2>3. OldScript(p)[3] = CallOf("comm_split", 0, [color |-> 0, key |-> Key(p)])
    BY Scripts
  <2> HIDE DEF BcastSizes
  <2> QED
    BY <1>2, <2>1, <2>2, <2>3, CallAdvances
<1>6. Shape'
  <2> HIDE DEF BcastSizes
  <2>1. node_sizes' = [q \in Procs |-> node_sizes'[q]] /\ pc' \in [Procs -> PCs]
    BY <1>1, <1>3 DEF Shape, PCs
  <2>2. l_ppn' = [q \in Procs |-> l_ppn'[q]]
    BY <1>4 DEF Shape
  <2>3. calls' = [h \in Handles |-> [q \in Procs |-> calls'[h][q]]]
    BY <1>5 DEF Advanced
  <2> QED
    BY <1>1, <2>1, <2>2, <2>3 DEF Shape, comms
<1>7. ASSUME NEW q \in Procs, q # p PROVE Follows(q)'
  BY <1>1, <1>3, <1>4, <1>5, <1>7, Frame DEF Advanced, Shape, comms
<1>8. Follows(p)'
  <2>1. pc'[p] = "split_new"
    BY <1>1 DEF Shape
  <2>2. CallsFollow(p)'
    BY <1>1, <1>5, <2>1, Static
      DEF Advanced, Follows, CallsFollow, OldMade, NodeMade, LeaderMade, Handles
  <2>3. CommsFollow(p)'
    BY <1>1, <2>1, Static DEF Follows, CommsFollow, comms
  <2>4. DataFollow(p)'
    BY <1>1, <1>3, <1>4, <2>1, Static DEF Shape, Follows, DataFollow
  <2> QED
    BY <2>1, <2>2, <2>3, <2>4 DEF Follows
<1> QED
  BY <1>6, <1>7, <1>8

LEMMA SplitNewStep ==
  ASSUME IInv, NEW p \in Procs, SplitNew(p)
  PROVE  IInv'
<1> USE DEF IInv, SplitNew, Goto
<1>1. /\ pc[p] = "split_new" /\ pc' = [pc EXCEPT ![p] = "done"]
      /\ nodeOf' = nodeOf /\ scheme' = scheme /\ UNCHANGED locals
      /\ leadercomm' = [leadercomm EXCEPT ![p] = COMM_NULL]
      /\ nodecomm' = [nodecomm EXCEPT ![p] = COMM_NULL]
  OBVIOUS
<1>2. new_comm' = [new_comm EXCEPT ![p] = RankBy(oldcomm, [q \in Procs |-> Key(q)], Procs)]
  <2>1. OldMade(p) = 3
    BY <1>1 DEF OldMade
  <2> QED
    BY <2>1, KeysSplit
<1>3. /\ nodecomm[p] = RankIn(Node(p)) /\ (IsLeader(p) <=> Leads(p))
      /\ calls["old"][p] = Made(OldScript(p), 3)
      /\ calls["node"][p] = Made(NodeScript(p), 3)
      /\ calls["leader"][p] = Made(LeaderScript(p), IF Leads(p) THEN 1 ELSE 0)
  BY <1>1, Leadership
    DEF IsLeader, Follows, CallsFollow, CommsFollow, OldMade, NodeMade, LeaderMade
<1>4. /\ calls' = [h \in Handles |-> [q \in Procs |-> calls'[h][q]]]
      /\ \A h \in Handles : \A q \in Procs : q # p => calls'[h][q] = calls[h][q]
      /\ calls'["old"][p] = calls["old"][p]
      /\ calls'["node"][p] = Append(calls["node"][p], FreeCall)
      /\ calls'["leader"][p] = IF Leads(p) THEN Append(calls["leader"][p], FreeCall)
                               ELSE calls["leader"][p]
  <2>1. calls = [h \in Handles |-> [q \in Procs |-> calls[h][q]]]
    BY DEF Shape
  <2>2. calls' = [calls EXCEPT
          !["leader"][p] = IF Leads(p) THEN Append(@, FreeCall) ELSE @,
          !["node"][p] = Append(@, FreeCall)]
    BY <1>3
  <2> HIDE DEF SplitNew, IInv
  <2> QED
    BY <2>1, <2>2 DEF Handles
<1>5. calls'["node"][p] = Made(NodeScript(p), 4)
  <2>1. Append(Made(NodeScript(p), 3), NodeScript(p)[4]) = Made(NodeScript(p), 4)
    <3>1. 3 \in Nat /\ 3+1 = 4
      OBVIOUS
    <3> QED
      BY <3>1, MadeAppend
  <2>2. NodeScript(p)[4] = FreeCall
    BY Scripts
  <2> QED
    BY <1>3, <1>4, <2>1, <2>2
<1>6. calls'["leader"][p] = Made(LeaderScript(p), IF Leads(p) THEN 2 ELSE 0)
  <2>1. Append(Made(LeaderScript(p), 1), LeaderScript(p)[2]) = Made(LeaderScript(p), 2)
    <3>1. 1 \in Nat /\ 1+1 = 2
      OBVIOUS
    <3> QED
      BY <3>1, MadeAppend
  <2>2. LeaderScript(p)[2] = FreeCall
    BY Scripts
  <2> QED
    BY <1>3, <1>4, <2>1, <2>2
<1>7. Shape'
  BY <1>1, <1>2, <1>4 DEF Shape, PCs, locals
<1>8. ASSUME NEW q \in Procs, q # p PROVE Follows(q)'
  BY <1>1, <1>2, <1>4, <1>8, Frame DEF Shape, locals
<1>9. Follows(p)'
  <2>1. pc'[p] = "done"
    BY <1>1 DEF Shape
  <2>2. CallsFollow(p)'
    BY <1>1, <1>3, <1>4, <1>5, <1>6, <2>1, Static
      DEF CallsFollow, OldMade, NodeMade, LeaderMade
  <2>3. CommsFollow(p)'
    <3>1. [q \in Procs |-> Key(q)]' = [q \in Procs |-> Key(q)]
      BY <1>1, Static
    <3> QED
      BY <1>1, <1>2, <2>1, <3>1 DEF Shape, CommsFollow
  <2>4. DataFollow(p)'
    <3>1. /\ l_n_nodes'[p] = Nodes /\ leader_rank'[p] = LeaderRank(p)
          /\ node_sizes'[p] = NodeSizes(nodeOf)
          /\ l_ppn'[p] \in {Aggregate(scheme[p], NodeSizes(nodeOf), g) : g \in Garbage}
      BY <1>1 DEF Follows, DataFollow, locals
    <3> HIDE DEF SplitNew, IInv
    <3> QED
      BY <1>1, <2>1, <3>1, Static DEF DataFollow
  <2> QED
    BY <2>1, <2>2, <2>3, <2>4 DEF Follows
<1> QED
  BY <1>7, <1>8, <1>9

LEMMA InitIInv == Init => IInv
<1> SUFFICES ASSUME Init PROVE IInv
  OBVIOUS
<1>1. pc = [p \in Procs |-> "start"]
  BY DEF Init
<1>2. Shape
  <2>1. pc \in [Procs -> PCs]
    BY <1>1 DEF PCs
  <2>2. calls = [h \in Handles |-> [p \in Procs |-> calls[h][p]]]
    BY DEF Init, Handles
  <2> QED
    BY <2>1, <2>2 DEF Init, Shape
<1>3. ASSUME NEW p \in Procs PROVE Follows(p)
  <2>1. pc[p] = "start"
    BY <1>1
  <2>2. CallsFollow(p)
    <3>1. \A script : Made(script, 0) = <<>>
      BY DEF Made
    <3>2. calls["old"][p] = <<>> /\ calls["node"][p] = <<>> /\ calls["leader"][p] = <<>>
      BY DEF Init
    <3> QED
      BY <2>1, <3>1, <3>2 DEF CallsFollow, OldMade, NodeMade, LeaderMade
  <2>3. CommsFollow(p)
    BY <2>1 DEF Init, CommsFollow
  <2>4. DataFollow(p)
    BY <2>1 DEF Init, DataFollow
  <2> QED
    BY <2>1, <2>2, <2>3, <2>4 DEF Follows
<1> QED
  BY <1>2, <1>3 DEF IInv

LEMMA NextIInv == IInv /\ [Next]_vars => IInv'
<1> SUFFICES ASSUME IInv, [Next]_vars PROVE IInv'
  OBVIOUS
<1>1. ASSUME NEW p \in Procs, Step(p) PROVE IInv'
  BY <1>1, EnterStep, SplitTypeStep, SplitLeadersStep, BcastNodesStep, BcastLeaderRankStep,
     AllgatherStep, BcastSizesStep, SplitNewStep DEF Step
<1>2. ASSUME UNCHANGED vars PROVE IInv'
  <2>1. /\ nodeOf' = nodeOf /\ scheme' = scheme /\ pc' = pc /\ calls' = calls
        /\ nodecomm' = nodecomm /\ leadercomm' = leadercomm /\ new_comm' = new_comm
        /\ l_n_nodes' = l_n_nodes /\ leader_rank' = leader_rank
        /\ node_sizes' = node_sizes /\ l_ppn' = l_ppn
    BY <1>2 DEF vars, comms, locals
  <2>2. Shape'
    BY <2>1 DEF IInv, Shape
  <2>3. ASSUME NEW p \in Procs PROVE Follows(p)'
    BY <2>1, Frame DEF IInv
  <2> QED
    BY <2>2, <2>3 DEF IInv
<1> QED
  BY <1>1, <1>2 DEF Next

LEMMA Invariance == Spec => []IInv
  BY InitIInv, NextIInv, PTL DEF Spec

----------------------------------------------------------------------------
\* The calls that have been made are those of the scripts.
LEMMA CallsMade ==
  ASSUME NEW made, NEW script, NEW k \in Nat, made = Made(script, k), NEW i \in DOMAIN made
  PROVE  i \in 1 .. k /\ made[i] = script[i]
  BY MadeFacts

\* Scripts of two processes for one communicator differ in the arguments only.
LEMMA ScriptsAgree ==
  ASSUME NEW p, NEW q
  PROVE  /\ \A k \in 1 .. 3 : /\ OldScript(p)[k].op = OldScript(q)[k].op
                              /\ OldScript(p)[k].count = OldScript(q)[k].count
         /\ \A k \in 1 .. 4 : /\ NodeScript(p)[k].op = NodeScript(q)[k].op
                              /\ NodeScript(p)[k].count = NodeScript(q)[k].count
         /\ \A k \in 1 .. 2 : /\ LeaderScript(p)[k].op = LeaderScript(q)[k].op
                              /\ LeaderScript(p)[k].count = LeaderScript(q)[k].count
<1>1. \A k \in 1 .. 3 : /\ OldScript(p)[k].op = OldScript(q)[k].op
                        /\ OldScript(p)[k].count = OldScript(q)[k].count
  <2>1. /\ OldScript(p)[1].op = OldScript(q)[1].op
        /\ OldScript(p)[1].count = OldScript(q)[1].count
    BY DEF OldScript, CallOf
  <2>2. /\ OldScript(p)[2].op = OldScript(q)[2].op
        /\ OldScript(p)[2].count = OldScript(q)[2].count
    BY DEF OldScript, CallOf
  <2>3. /\ OldScript(p)[3].op = OldScript(q)[3].op
        /\ OldScript(p)[3].count = OldScript(q)[3].count
    BY DEF OldScript, CallOf
  <2>4. \A k \in 1 .. 3 : k = 1 \/ k = 2 \/ k = 3
    OBVIOUS
  <2> QED
    BY <2>1, <2>2, <2>3, <2>4
<1>2. \A k \in 1 .. 4 : /\ NodeScript(p)[k].op = NodeScript(q)[k].op
                        /\ NodeScript(p)[k].count = NodeScript(q)[k].count
  <2>1. /\ NodeScript(p)[1].op = NodeScript(q)[1].op
        /\ NodeScript(p)[1].count = NodeScript(q)[1].count
    BY DEF NodeScript, CallOf
  <2>2. /\ NodeScript(p)[2].op = NodeScript(q)[2].op
        /\ NodeScript(p)[2].count = NodeScript(q)[2].count
    BY DEF NodeScript, CallOf
  <2>3. /\ NodeScript(p)[3].op = NodeScript(q)[3].op
        /\ NodeScript(p)[3].count = NodeScript(q)[3].count
    BY DEF NodeScript, CallOf
  <2>4. /\ NodeScript(p)[4].op = NodeScript(q)[4].op
        /\ NodeScript(p)[4].count = NodeScript(q)[4].count
    BY DEF NodeScript, CallOf, FreeCall
  <2>5. \A k \in 1 .. 4 : k = 1 \/ k = 2 \/ k = 3 \/ k = 4
    OBVIOUS
  <2> QED
    BY <2>1, <2>2, <2>3, <2>4, <2>5
<1>3. \A k \in 1 .. 2 : /\ LeaderScript(p)[k].op = LeaderScript(q)[k].op
                        /\ LeaderScript(p)[k].count = LeaderScript(q)[k].count
  <2>1. /\ LeaderScript(p)[1].op = LeaderScript(q)[1].op
        /\ LeaderScript(p)[1].count = LeaderScript(q)[1].count
    BY DEF LeaderScript, CallOf
  <2>2. /\ LeaderScript(p)[2].op = LeaderScript(q)[2].op
        /\ LeaderScript(p)[2].count = LeaderScript(q)[2].count
    BY DEF LeaderScript, CallOf, FreeCall
  <2>3. \A k \in 1 .. 2 : k = 1 \/ k = 2
    OBVIOUS
  <2> QED
    BY <2>1, <2>2, <2>3
<1> QED
  BY <1>1, <1>2, <1>3

\* Whoever shares a communicator makes the same calls on it, in the same order and with
\* the same counts, for every placement: the branches on node_rank never shift what a
\* call is matched with (node_comm.cpp:13-38).
THEOREM CollectivesAlwaysMatch == Spec => []CollectivesMatch
<1>1. IInv => CollectivesMatch
  <2> SUFFICES ASSUME IInv, NEW h \in DOMAIN calls, NEW p \in Procs,
                      NEW q \in Members(CASE h = "old" -> oldcomm [] h = "node" -> nodecomm[p]
                                           [] h = "leader" -> leadercomm[p]),
                      NEW k \in DOMAIN calls[h][p] \cap DOMAIN calls[h][q]
               PROVE  /\ calls[h][p][k].op = calls[h][q][k].op
                      /\ calls[h][p][k].count = calls[h][q][k].count
    BY DEF CollectivesMatch
  <2>1. h \in Handles
    BY DEF IInv, Shape
  <2>2. DOMAIN COMM_NULL = {}
    BY DEF COMM_NULL
  <2>3. CASE h = "old"
    <3>1. q \in Procs
      BY <2>3 DEF Members, oldcomm
    <3>2. /\ calls["old"][p] = Made(OldScript(p), OldMade(p)) /\ OldMade(p) \in 0 .. 3
          /\ calls["old"][q] = Made(OldScript(q), OldMade(q)) /\ OldMade(q) \in 0 .. 3
      BY <3>1 DEF IInv, Follows, CallsFollow, OldMade
    <3>3. /\ k \in 1 .. 3
          /\ calls["old"][p][k] = OldScript(p)[k] /\ calls["old"][q][k] = OldScript(q)[k]
      BY <2>3, <3>2, CallsMade
    <3>4. OldScript(p)[k].op = OldScript(q)[k].op /\ OldScript(p)[k].count = OldScript(q)[k].count
      BY <3>3, ScriptsAgree
    <3> QED
      BY <2>3, <3>3, <3>4
  <2>4. CASE h = "node"
    <3>1. q \in Procs
      <4>1. q \in DOMAIN nodecomm[p]
        BY <2>4 DEF Members
      <4>2. nodecomm[p] = RankIn(Node(p))
        BY <2>2, <4>1 DEF IInv, Follows, CommsFollow
      <4> QED
        BY <4>1, <4>2, Leadership, NodeFacts DEF IInv, RankIn, Node
    <3>2. /\ calls["node"][p] = Made(NodeScript(p), NodeMade(p)) /\ NodeMade(p) \in 0 .. 4
          /\ calls["node"][q] = Made(NodeScript(q), NodeMade(q)) /\ NodeMade(q) \in 0 .. 4
      BY <3>1 DEF IInv, Follows, CallsFollow, NodeMade
    <3>3. /\ k \in 1 .. 4
          /\ calls["node"][p][k] = NodeScript(p)[k] /\ calls["node"][q][k] = NodeScript(q)[k]
      BY <2>4, <3>2, CallsMade
    <3>4. NodeScript(p)[k].op = NodeScript(q)[k].op /\ NodeScript(p)[k].count = NodeScript(q)[k].count
      BY <3>3, ScriptsAgree
    <3> QED
      BY <2>4, <3>3, <3>4
  <2>5. CASE h = "leader"
    <3>1. q \in Procs
      <4>1. q \in DOMAIN leadercomm[p]
        BY <2>5 DEF Members
      <4>2. leadercomm[p] = RankIn(Leaders(nodeOf))
        BY <2>2, <4>1 DEF IInv, Follows, CommsFollow
      <4> QED
        BY <4>1, <4>2, Leadership, LeadersFacts DEF IInv, RankIn
    <3>2. /\ calls["leader"][p] = Made(LeaderScript(p), LeaderMade(p)) /\ LeaderMade(p) \in 0 .. 2
          /\ calls["leader"][q] = Made(LeaderScript(q), LeaderMade(q)) /\ LeaderMade(q) \in 0 .. 2
      BY <3>1 DEF IInv, Follows, CallsFollow, LeaderMade
    <3>3. /\ k \in 1 .. 2
          /\ calls["leader"][p][k] = LeaderScript(p)[k] /\ calls["leader"][q][k] = LeaderScript(q)[k]
      BY <2>5, <3>2, CallsMade
    <3>4. /\ LeaderScript(p)[k].op = LeaderScript(q)[k].op
          /\ LeaderScript(p)[k].count = LeaderScript(q)[k].count
      BY <3>3, ScriptsAgree
    <3> QED
      BY <2>5, <3>3, <3>4
  <2> QED
    BY <2>1, <2>3, <2>4, <2>5 DEF Handles
<1> QED
  BY <1>1, Invariance, PTL

\* A process that has gathered the sizes knows the true number of nodes, its own node's
\* position among them and every node's size, for every placement (node_comm.cpp:18-38).
THEOREM SizesAreKnown == Spec => []SizesKnown
<1>1. IInv => SizesKnown
  <2> SUFFICES ASSUME IInv, NEW p \in Procs, pc[p] \in {"split_new", "done"}
               PROVE  /\ l_n_nodes[p] = Cardinality(Leaders(nodeOf))
                      /\ LeaderAt(nodeOf, leader_rank[p]) = LeaderOf(nodeOf, p)
                      /\ node_sizes[p] = NodeSizes(nodeOf)
    BY DEF SizesKnown
  <2>1. l_n_nodes[p] = Nodes /\ leader_rank[p] = LeaderRank(p) /\ node_sizes[p] = NodeSizes(nodeOf)
    BY DEF IInv, Follows, DataFollow
  <2>2. LeaderAt(nodeOf, LeaderRank(p)) = LeaderOf(nodeOf, p)
    BY Leadership, LeaderRanks DEF IInv, LeaderRank
  <2> QED
    BY <2>1, <2>2 DEF Nodes
<1> QED
  BY <1>1, Invariance, PTL

----------------------------------------------------------------------------
(***************************************************************************)
(* The order of the new communicator.  f is a placement, LeaderRankIn(f)[p]*)
(* the rank of p's node among the nodes.                                   *)
(***************************************************************************)
LeaderRankIn(f) == [p \in Procs |-> RankIn(Leaders(f))[LeaderOf(f, p)]]

\* The processes before p: those of the nodes before p's, and those before p on its own.
Before(f, p) ==
  {q \in Procs : LeaderOf(f, q) < LeaderOf(f, p) \/ (f[q] = f[p] /\ q < p)}

\* Ranks of nodes grow with their leaders, and those of a node's processes are the same.
LEMMA LeaderRankOrder ==
  ASSUME NEW f, DOMAIN f = Procs, NEW p \in Procs, NEW q \in Procs
  PROVE  /\ LeaderRankIn(f)[p] \in 0 .. Cardinality(Leaders(f))-1
         /\ LeaderOf(f, p) \in Nat
         /\ LeaderRankIn(f)[q] < LeaderRankIn(f)[p] <=> LeaderOf(f, q) < LeaderOf(f, p)
         /\ LeaderRankIn(f)[q] = LeaderRankIn(f)[p] <=> f[q] = f[p]
<1> DEFINE R == RankIn(Leaders(f))
<1>1. /\ LeaderOf(f, p) \in Leaders(f) /\ LeaderOf(f, q) \in Leaders(f)
      /\ Leaders(f) \subseteq Nat /\ IsFiniteSet(Leaders(f))
  BY NodeFacts, LeadersFacts, ProcsFinite
<1>2. /\ Cardinality(Leaders(f)) \in Nat
      /\ R \in [Leaders(f) -> 0 .. Cardinality(Leaders(f))-1]
      /\ \A x, y \in Leaders(f) : x < y => R[x] < R[y]
      /\ \A x, y \in Leaders(f) : R[x] = R[y] => x = y
  BY <1>1, RankOrder
<1>3. LeaderRankIn(f)[p] = R[LeaderOf(f, p)] /\ LeaderRankIn(f)[q] = R[LeaderOf(f, q)]
  BY DEF LeaderRankIn
<1> HIDE DEF R
<1>4. R[LeaderOf(f, p)] \in Nat /\ R[LeaderOf(f, q)] \in Nat
  BY <1>1, <1>2
<1>5. LeaderRankIn(f)[q] < LeaderRankIn(f)[p] <=> LeaderOf(f, q) < LeaderOf(f, p)
  <2>1. LeaderOf(f, p) \in Nat /\ LeaderOf(f, q) \in Nat
    BY <1>1
  <2>2. CASE LeaderOf(f, q) < LeaderOf(f, p)
    BY <1>1, <1>2, <1>3, <2>2
  <2>3. CASE LeaderOf(f, q) = LeaderOf(f, p)
    BY <1>3, <1>4, <2>1, <2>3
  <2>4. CASE LeaderOf(f, q) > LeaderOf(f, p)
    <3>1. R[LeaderOf(f, p)] < R[LeaderOf(f, q)]
      BY <1>1, <1>2, <2>1, <2>4
    <3> QED
      BY <1>3, <1>4, <2>1, <2>4, <3>1
  <2> QED
    BY <2>1, <2>2, <2>3, <2>4
<1>6. LeaderRankIn(f)[q] = LeaderRankIn(f)[p] <=> f[q] = f[p]
  <2>1. LeaderRankIn(f)[q] = LeaderRankIn(f)[p] <=> LeaderOf(f, q) = LeaderOf(f, p)
    BY <1>1, <1>2, <1>3
  <2> QED
    BY <2>1, SameLeader
<1> QED
  BY <1>1, <1>2, <1>3, <1>5, <1>6

\* The nodes before the r-th hold as many processes as their sizes add up to.
LEMMA SizesAddUp ==
  ASSUME NEW f, DOMAIN f = Procs, NEW r \in 0 .. Cardinality(Leaders(f))
  PROVE  SumOver(NodeSizes(f), 0 .. r-1) = Cardinality({q \in Procs : LeaderRankIn(f)[q] < r})
<1> DEFINE L == Cardinality(Leaders(f))
           InFirst(n) == {q \in Procs : LeaderRankIn(f)[q] < n}
           T == {n \in Nat : n <= L => SumOver(NodeSizes(f), 0 .. n-1) = Cardinality(InFirst(n))}
<1>1. L \in 1 .. N /\ L \in Nat /\ N \in Nat
  BY LeadersFacts, ProcsFinite
<1>2. /\ NodeSizes(f) \in [0 .. L-1 -> 1 .. N]
      /\ \A l \in Leaders(f) :
           NodeSizes(f)[RankIn(Leaders(f))[l]] = Cardinality(NodeMembers(f, f[l]))
  BY SizesFacts
<1>3. \A q \in Procs : LeaderRankIn(f)[q] \in 0 .. L-1
  BY LeaderRankOrder
<1>4. \A n \in Nat : IsFiniteSet(InFirst(n)) /\ Cardinality(InFirst(n)) \in Nat
  BY ProcsFinite, FS_Subset, FS_CardinalityType
<1> HIDE DEF L
<1>5. 0 \in T
  <2>1. InFirst(0) = {}
    BY <1>1, <1>3
  <2>2. Cardinality(InFirst(0)) = 0
    BY <2>1, FS_EmptySet
  <2>3. 0 .. 0-1 = {}
    OBVIOUS
  <2>4. SumOver(NodeSizes(f), {}) = 0
    <3>1. IsFiniteSet({}) /\ \A x \in {} : NodeSizes(f)[x] \in Int
      BY FS_EmptySet
    <3> QED
      BY <3>1, SumByPicking
  <2> QED
    BY <2>2, <2>3, <2>4
<1>6. ASSUME NEW n \in Nat, n \in T PROVE n+1 \in T
  <2> SUFFICES ASSUME n+1 <= L
               PROVE  SumOver(NodeSizes(f), 0 .. n) = Cardinality(InFirst(n+1))
    <3>1. n+1 \in Nat /\ n+1-1 = n
      OBVIOUS
    <3> HIDE DEF InFirst
    <3> QED
      BY <3>1
  <2>0. n \in 0 .. L-1 /\ n <= L /\ \A i \in 0 .. n : i \in 0 .. L-1
    BY <1>1
  <2>1. SumOver(NodeSizes(f), 0 .. n) = SumOver(NodeSizes(f), 0 .. n-1) + NodeSizes(f)[n]
    <3>1. \A i \in 0 .. n : NodeSizes(f)[i] \in Int
      BY <1>1, <1>2, <2>0
    <3> QED
      BY <3>1, SumOfRange
  <2>2. SumOver(NodeSizes(f), 0 .. n-1) = Cardinality(InFirst(n))
    BY <1>6, <2>0
  <2> DEFINE l == LeaderAt(f, n)
             M == NodeMembers(f, f[l])
  <2>3. l \in Leaders(f) /\ l \in Procs /\ LeaderOf(f, l) = l /\ RankIn(Leaders(f))[l] = n
    BY <2>0, LeaderRanks, LeadersFacts DEF L
  <2>4. NodeSizes(f)[n] = Cardinality(M)
    BY <1>2, <2>3
  <2>5. \A q \in Procs : q \in M <=> LeaderRankIn(f)[q] = n
    <3>1. LeaderRankIn(f)[l] = n
      BY <2>3 DEF LeaderRankIn
    <3>2. \A q \in Procs : LeaderRankIn(f)[q] = LeaderRankIn(f)[l] <=> f[q] = f[l]
      BY <2>3, LeaderRankOrder
    <3> QED
      BY <3>1, <3>2 DEF NodeMembers
  <2>6. M \subseteq Procs /\ IsFiniteSet(M) /\ Cardinality(M) \in Nat
    BY <2>3, NodeFacts, FS_CardinalityType
  <2> HIDE DEF M, l
  <2>7. InFirst(n+1) = InFirst(n) \cup M
    <3>1. \A q \in Procs : LeaderRankIn(f)[q] < n+1 <=> LeaderRankIn(f)[q] < n \/ LeaderRankIn(f)[q] = n
      BY <1>1, <1>3
    <3> QED
      BY <2>5, <2>6, <3>1
  <2>8. InFirst(n) \cap M = {}
    <3>1. \A q \in Procs : ~ (LeaderRankIn(f)[q] < n /\ LeaderRankIn(f)[q] = n)
      BY <1>1, <1>3
    <3> QED
      BY <2>5, <3>1
  <2> HIDE DEF InFirst
  <2>9. Cardinality(InFirst(n) \cup M) =
          Cardinality(InFirst(n)) + Cardinality(M) - Cardinality(InFirst(n) \cap M)
    BY <1>4, <2>6, FS_Union
  <2>10. Cardinality(InFirst(n) \cap M) = 0
    BY <2>8, FS_EmptySet
  <2>11. Cardinality(InFirst(n) \cup M) = Cardinality(InFirst(n)) + Cardinality(M)
    BY <1>4, <2>6, <2>9, <2>10
  <2> QED
    BY <2>1, <2>2, <2>4, <2>7, <2>11
<1>7. r \in T
  <2> HIDE DEF T
  <2>1. T \subseteq Nat
    BY DEF T
  <2>2. \A n \in Nat : n \in T
    BY <1>5, <1>6, <2>1, SetInduction
  <2> QED
    BY <1>1, <2>2 DEF L
<1> QED
  BY <1>1, <1>7 DEF L

\* The keys of the last split count the processes before the caller.
LEMMA KeyCounts ==
  ASSUME NEW f, DOMAIN f = Procs, NEW p \in Procs
  PROVE  ProcessesBefore(NodeSizes(f), RankIn(Leaders(f))[LeaderOf(f, p)])
           + RankIn(NodeMembers(f, f[p]))[p] = Cardinality(Before(f, p))
<1> DEFINE r == LeaderRankIn(f)[p]
           A == {q \in Procs : LeaderRankIn(f)[q] < r}
           B == {q \in NodeMembers(f, f[p]) : q < p}
<1>1. r \in 0 .. Cardinality(Leaders(f))-1 /\ r = RankIn(Leaders(f))[LeaderOf(f, p)]
  BY LeaderRankOrder DEF LeaderRankIn
<1>2. ProcessesBefore(NodeSizes(f), r) = Cardinality(A)
  <2>1. Cardinality(Leaders(f)) \in Nat
    BY LeadersFacts
  <2>2. r \in 0 .. Cardinality(Leaders(f))
    BY <1>1, <2>1
  <2>3. ProcessesBefore(NodeSizes(f), r) = SumOver(NodeSizes(f), 0 .. r-1)
    BY DEF ProcessesBefore, SumOver
  <2> HIDE DEF r
  <2> QED
    BY <2>2, <2>3, SizesAddUp
<1>3. RankIn(NodeMembers(f, f[p]))[p] = Cardinality(B)
  BY NodeFacts DEF RankIn
<1>4. Before(f, p) = A \cup B
  <2>1. \A q \in Procs : LeaderRankIn(f)[q] < r <=> LeaderOf(f, q) < LeaderOf(f, p)
    BY LeaderRankOrder
  <2> QED
    BY <2>1 DEF Before, NodeMembers
<1>5. A \cap B = {}
  <2>1. \A q \in NodeMembers(f, f[p]) : q \in Procs /\ f[q] = f[p]
    BY DEF NodeMembers
  <2>2. \A q \in NodeMembers(f, f[p]) : LeaderRankIn(f)[q] = r
    BY <2>1, LeaderRankOrder
  <2>3. r \in Nat
    BY <1>1
  <2> HIDE DEF r
  <2> QED
    BY <2>2, <2>3
<1>6. IsFiniteSet(A) /\ IsFiniteSet(B) /\ Cardinality(A) \in Nat /\ Cardinality(B) \in Nat
  <2>1. A \subseteq Procs /\ B \subseteq Procs
    BY DEF NodeMembers
  <2> QED
    BY <2>1, ProcsFinite, FS_Subset, FS_CardinalityType
<1> HIDE DEF A, B, r
<1>7. Cardinality(A \cup B) = Cardinality(A) + Cardinality(B) - Cardinality(A \cap B)
  BY <1>6, FS_Union
<1>8. Cardinality(A \cap B) = 0
  BY <1>5, FS_EmptySet
<1> QED
  BY <1>1, <1>2, <1>3, <1>4, <1>6, <1>7, <1>8

\* Sorting by the keys puts the nodes one after the other.
LEMMA SortedByKeys ==
  ASSUME NEW f, DOMAIN f = Procs,
         NEW key, key = [p \in Procs |-> Cardinality(Before(f, p))]
  PROVE  /\ RankBy(oldcomm, key, Procs) = NodeMajor(f)
         /\ NodeMajor(f) = key
         /\ NodeMajor(f) \in [Procs -> Procs]
<1>1. \A p \in Procs : p \in Nat /\ LeaderOf(f, p) \in Nat
  BY ProcsFinite, LeaderRankOrder
<1>2. \A p, q \in Procs : f[p] = f[q] <=> LeaderOf(f, p) = LeaderOf(f, q)
  BY SameLeader
<1>3. \A p, q \in Procs : q \in Before(f, p) <=>
        LeaderOf(f, q) < LeaderOf(f, p) \/ (LeaderOf(f, q) = LeaderOf(f, p) /\ q < p)
  BY <1>2 DEF Before
<1>4. \A p \in Procs : /\ IsFiniteSet(Before(f, p)) /\ Cardinality(Before(f, p)) \in Nat
                       /\ Before(f, p) \subseteq Procs /\ p \notin Before(f, p)
  <2> TAKE p \in Procs
  <2>1. Before(f, p) \subseteq Procs
    BY DEF Before
  <2>2. p \notin Before(f, p)
    BY <1>1, <1>3
  <2> QED
    BY <2>1, <2>2, ProcsFinite, FS_Subset, FS_CardinalityType
<1>5. ASSUME NEW p \in Procs, NEW q \in Procs, q \in Before(f, p) PROVE key[q] < key[p]
  <2>1. Before(f, q) \subseteq Before(f, p)
    <3> SUFFICES ASSUME NEW x \in Before(f, q) PROVE x \in Before(f, p)
      OBVIOUS
    <3>1. x \in Procs
      BY <1>4
    <3> QED
      BY <1>1, <1>3, <1>5, <3>1
  <2>2. q \notin Before(f, q)
    BY <1>4
  <2>3. /\ Cardinality(Before(f, q)) <= Cardinality(Before(f, p))
        /\ Cardinality(Before(f, p)) = Cardinality(Before(f, q)) => Before(f, p) = Before(f, q)
    BY <1>4, <2>1, FS_Subset
  <2>4. Cardinality(Before(f, q)) \in Nat /\ Cardinality(Before(f, p)) \in Nat
    BY <1>4
  <2>5. Cardinality(Before(f, q)) < Cardinality(Before(f, p))
    BY <1>5, <2>2, <2>3, <2>4
  <2> QED
    BY <2>5
<1>6. \A p \in Procs : key[p] \in Nat
  BY <1>4
<1>7. ASSUME NEW p \in Procs, NEW q \in Procs
      PROVE  Precedes(oldcomm, key, q, p) <=> q \in Before(f, p)
  <2>1. oldcomm[q] = q /\ oldcomm[p] = p
    BY DEF oldcomm
  <2>2. CASE q \in Before(f, p)
    BY <1>5, <2>2 DEF Precedes
  <2>3. CASE q \notin Before(f, p)
    <3>1. q = p \/ p \in Before(f, q)
      BY <1>1, <1>3, <2>3
    <3>2. q = p \/ key[p] < key[q]
      BY <1>5, <3>1
    <3> QED
      BY <1>1, <1>6, <2>1, <2>3, <3>2 DEF Precedes
  <2> QED
    BY <2>2, <2>3
<1>8. \A p \in Procs : {q \in Procs : Precedes(oldcomm, key, q, p)} = Before(f, p)
  BY <1>4, <1>7
<1>9. RankBy(oldcomm, key, Procs) = key
  BY <1>8 DEF RankBy
<1>10. NodeMajor(f) = key
  BY DEF NodeMajor, Before
<1>11. ASSUME NEW p \in Procs PROVE Cardinality(Before(f, p)) \in Procs
  <2>1. /\ Cardinality(Before(f, p)) <= Cardinality(Procs)
        /\ Cardinality(Procs) = Cardinality(Before(f, p)) => Procs = Before(f, p)
    BY <1>4, ProcsFinite, FS_Subset
  <2>2. Cardinality(Before(f, p)) # N
    BY <1>4, <2>1, ProcsFinite
  <2> QED
    BY <1>4, <2>1, <2>2, ProcsFinite DEF Procs
<1> QED
  BY <1>9, <1>10, <1>11

\* The new communicator that the split keys make is the node-major one.
LEMMA NewCommunicator ==
  ASSUME DOMAIN nodeOf = Procs
  PROVE  RankBy(oldcomm, [q \in Procs |-> Key(q)], Procs) = NodeMajor(nodeOf)
<1>1. \A p \in Procs : Key(p) = Cardinality(Before(nodeOf, p))
  BY KeyCounts DEF Key, LeaderRank, NodeRank, Node
<1>2. [q \in Procs |-> Key(q)] = [q \in Procs |-> Cardinality(Before(nodeOf, q))]
  BY <1>1
<1> QED
  BY <1>2, SortedByKeys

----------------------------------------------------------------------------
(***************************************************************************)
(* The number of processes per node.                                       *)
(***************************************************************************)
\* The mean is that of all processes over all nodes.
LEMMA MeanOfSizes ==
  ASSUME NEW f, DOMAIN f = Procs
  PROVE  Mean(NodeSizes(f)) = N \div Cardinality(Leaders(f))
<1> DEFINE L == Cardinality(Leaders(f))
<1>1. L \in 1 .. N /\ L \in Nat
  BY LeadersFacts, ProcsFinite
<1>2. DOMAIN NodeSizes(f) = 0 .. L-1
  BY DEF NodeSizes
<1>3. Cardinality(0 .. L-1) = L
  <2>1. \A n \in Int : Cardinality(0 .. n) = IF 0 > n THEN 0 ELSE n - 0 + 1
    BY FS_Interval
  <2> HIDE DEF L
  <2> QED
    BY <1>1, <2>1
<1>4. SumOver(NodeSizes(f), 0 .. L-1) = N
  <2>1. {q \in Procs : LeaderRankIn(f)[q] < L} = Procs
    <3>1. \A q \in Procs : LeaderRankIn(f)[q] \in 0 .. L-1
      BY LeaderRankOrder
    <3> QED
      BY <1>1, <3>1
  <2>2. L \in 0 .. L
    BY <1>1
  <2> QED
    BY <2>1, <2>2, SizesAddUp, ProcsFinite
<1>5. Mean(NodeSizes(f)) = SumOver(NodeSizes(f), DOMAIN NodeSizes(f)) \div Cardinality(DOMAIN NodeSizes(f))
  BY DEF Mean, SumOver
<1> QED
  BY <1>2, <1>3, <1>4, <1>5

\* Whatever an unassigned int holds, the aggregate is one that the scheme allows, and is
\* at least 1.
LEMMA AggregateAllowed ==
  ASSUME NEW f, DOMAIN f = Procs, NEW s \in node_approximation_schemes, NEW g
  PROVE  /\ Aggregate(s, NodeSizes(f), g) \in PpnUnder(s, f)
         /\ Aggregate(s, NodeSizes(f), g) \in 1 .. N
<1> DEFINE L == Cardinality(Leaders(f))
           sizes == {NodeSizes(f)[i] : i \in DOMAIN NodeSizes(f)}
<1>1. L \in 1 .. N /\ L \in Nat /\ N \in Nat /\ L <= N /\ 1 <= L
  BY LeadersFacts, ProcsFinite
<1>2. NodeSizes(f) \in [0 .. L-1 -> 1 .. N]
  BY SizesFacts
<1> HIDE DEF L
<1>3. DOMAIN NodeSizes(f) = 0 .. L-1 /\ 0 \in DOMAIN NodeSizes(f) /\ sizes \subseteq 1 .. N
  BY <1>1, <1>2
<1>4. CASE s = "NODES_MIN"
  <2>1. Aggregate(s, NodeSizes(f), g) = Min(sizes) /\ PpnUnder(s, f) = {Min(sizes)}
    BY <1>4 DEF Aggregate, PpnUnder
  <2>2. sizes \subseteq Nat /\ sizes # {}
    <3>1. NodeSizes(f)[0] \in sizes
      BY <1>3
    <3>2. 1 .. N \subseteq Nat
      OBVIOUS
    <3> HIDE DEF sizes
    <3> QED
      BY <1>3, <3>1, <3>2
  <2> HIDE DEF sizes
  <2>3. Min(sizes) \in sizes
    BY <2>2, MinOfSet
  <2> QED
    BY <1>3, <2>1, <2>3
<1>5. CASE s = "NODES_MEAN"
  <2>1. Aggregate(s, NodeSizes(f), g) = N \div L
    BY <1>5, MeanOfSizes DEF Aggregate, L
  <2>2. PpnUnder(s, f) = {N \div L}
    BY <1>5, ProcsFinite DEF PpnUnder, L
  <2>3. N \div L \in 1 .. N
    BY <1>1, PartOfQuotient, Quotient
  <2> QED
    BY <2>1, <2>2, <2>3
<1>6. CASE s = "NODES_MAX"
  <2> DEFINE larger == {i \in DOMAIN NodeSizes(f) \ {0} : NodeSizes(f)[i] > g}
  <2>1. Aggregate(s, NodeSizes(f), g) =
          IF larger = {} THEN NodeSizes(f)[0] ELSE NodeSizes(f)[Max(larger)]
    BY <1>6 DEF Aggregate
  <2>2. PpnUnder(s, f) = sizes
    BY <1>6 DEF PpnUnder
  <2>3. larger \subseteq 0 .. L-1 /\ larger \subseteq DOMAIN NodeSizes(f) /\ L-1 \in Nat
    BY <1>1, <1>3
  <2> HIDE DEF larger
  <2>4. larger # {} => Max(larger) \in larger
    BY <2>3, MaxOfSet
  <2>5. Aggregate(s, NodeSizes(f), g) \in sizes
    BY <1>3, <2>1, <2>3, <2>4
  <2> QED
    BY <1>3, <2>2, <2>5
<1> QED
  BY <1>4, <1>5, <1>6 DEF node_approximation_schemes

----------------------------------------------------------------------------
\* Every variable holds a value of its C type; in particular the number of processes per
\* node is unassigned or between 1 and N, so that a caller may divide by it
\* (node_comm.cpp:40-75, the assert at hyperplane.cpp:246).
THEOREM TypesCorrect == Spec => []TypeOK
<1>1. IInv => TypeOK
  <2> SUFFICES ASSUME IInv PROVE TypeOK
    OBVIOUS
  <2>0. Shape /\ DOMAIN nodeOf = Procs /\ scheme \in [Procs -> node_approximation_schemes]
    BY PlacementAssumption, SchemeAssumption DEF IInv, Shape
  <2>1. \A p \in Procs : Follows(p)
    BY DEF IInv
  <2>2. COMM_NULL \in Communicator
    <3>1. COMM_NULL \in [{} -> Procs]
      BY DEF COMM_NULL
    <3> QED
      BY <3>1 DEF Communicator
  <2>3. ASSUME NEW S, S \subseteq Procs PROVE RankIn(S) \in Communicator
    <3>1. IsFiniteSet(S) /\ S \subseteq Nat /\ Cardinality(S) \in Nat /\ Cardinality(S) <= N
      BY <2>3, ProcsFinite, FS_Subset, FS_CardinalityType
    <3>2. RankIn(S) \in [S -> 0 .. Cardinality(S)-1]
      BY <3>1, RankOrder
    <3>3. 0 .. Cardinality(S)-1 \subseteq Procs
      BY <3>1, ProcsFinite DEF Procs
    <3>4. RankIn(S) \in [S -> Procs]
      BY <3>2, <3>3
    <3> QED
      BY <2>3, <3>4 DEF Communicator
  <2>4. ASSUME NEW p \in Procs
        PROVE  nodecomm[p] \in Communicator /\ leadercomm[p] \in Communicator
    <3>1. Node(p) \subseteq Procs /\ Leaders(nodeOf) \subseteq Procs
      BY <2>0, NodeFacts, LeadersFacts DEF Node
    <3>2. RankIn(Node(p)) \in Communicator /\ RankIn(Leaders(nodeOf)) \in Communicator
      BY <2>3, <3>1
    <3> QED
      BY <2>1, <2>2, <3>2 DEF Follows, CommsFollow
  <2>5. ASSUME NEW p \in Procs PROVE new_comm[p] \in Communicator
    <3>1. NodeMajor(nodeOf) \in [Procs -> Procs]
      BY <2>0, SortedByKeys
    <3>2. NodeMajor(nodeOf) \in Communicator
      BY <3>1 DEF Communicator
    <3>3. new_comm[p] = COMM_NULL \/ new_comm[p] = NodeMajor(nodeOf)
      BY <2>0, <2>1, NewCommunicator DEF Follows, CommsFollow
    <3> QED
      BY <2>2, <3>2, <3>3
  <2>6. ASSUME NEW p \in Procs
        PROVE  /\ l_n_nodes[p] \in {UNINIT} \cup 1 .. N
               /\ leader_rank[p] \in {UNINIT} \cup Procs
               /\ l_ppn[p] \in {UNINIT} \cup 1 .. N
    <3>1. Nodes \in 1 .. N
      BY <2>0, LeadersFacts DEF Nodes
    <3>2. LeaderRank(p) \in Procs
      <4>1. LeaderRank(p) \in 0 .. Nodes-1
        BY <2>0, LeaderRankOrder DEF LeaderRankIn, LeaderRank, Nodes
      <4> QED
        BY <3>1, <4>1, ProcsFinite DEF Procs
    <3>3. \A g : Aggregate(scheme[p], NodeSizes(nodeOf), g) \in 1 .. N
      BY <2>0, AggregateAllowed
    <3> QED
      BY <2>1, <3>1, <3>2, <3>3 DEF Follows, DataFollow
  <2>7. /\ nodecomm \in [Procs -> Communicator] /\ leadercomm \in [Procs -> Communicator]
        /\ new_comm \in [Procs -> Communicator]
    BY <2>0, <2>4, <2>5 DEF Shape
  <2>8. /\ l_n_nodes \in [Procs -> {UNINIT} \cup 1 .. N]
        /\ leader_rank \in [Procs -> {UNINIT} \cup Procs]
        /\ l_ppn \in [Procs -> {UNINIT} \cup 1 .. N]
    BY <2>0, <2>6 DEF Shape
  <2>9. DOMAIN calls = {"old", "node", "leader"}
    BY <2>0 DEF Shape, Handles
  <2> QED
    BY <2>0, <2>7, <2>8, <2>9 DEF Shape, TypeOK
<1> QED
  BY <1>1, Invariance, PTL

----------------------------------------------------------------------------
(***************************************************************************)
(* The refinement of SortedComm: entering is a step of Call, returning one *)
(* of Return, and every step in between a stutter.                         *)
(***************************************************************************)
Called == {p \in Procs : pc[p] # "start"}
Returned == [p \in {q \in Procs : pc[q] = "done"} |->
               [new_comm |-> new_comm[p], n_nodes |-> l_n_nodes[p], ppn |-> l_ppn[p]]]

\* The abstract specification's definitions about placements are those of NodeComm.
LEMMA SameDefinitions ==
  /\ Sorted!Procs = Procs
  /\ \A f : Sorted!NodeMajor(f) = NodeMajor(f)
  /\ \A f : Cardinality(Leaders(f)) = Sorted!Cardinality(Sorted!Leaders(f))
  /\ \A f : \A s \in node_approximation_schemes : Sorted!PpnUnder(s, f) = PpnUnder(s, f)
<1>1. \A S : Sorted!Cardinality(S) = Cardinality(S)
  BY DEF Sorted!Cardinality, Cardinality
<1>2. \A S : Sorted!Min(S) = Min(S)
  BY DEF Sorted!Min, Min
<1>3. \A f : Sorted!NodeMajor(f) = NodeMajor(f)
  BY <1>1 DEF NodeMembers, Sorted!NodeMembers, LeaderOf, Sorted!LeaderOf, NodeMajor,
              Sorted!NodeMajor, Min, Sorted!Min
<1>4. \A f : Sorted!Leaders(f) = Leaders(f)
  BY DEF NodeMembers, Sorted!NodeMembers, LeaderOf, Sorted!LeaderOf, Leaders, Sorted!Leaders,
         Min, Sorted!Min
<1>5. \A f, i : Sorted!LeaderAt(f, i) = LeaderAt(f, i)
  BY <1>1, <1>4 DEF LeaderAt, Sorted!LeaderAt
<1>6. \A f : Sorted!NodeSizes(f) = NodeSizes(f)
  BY <1>1, <1>4, <1>5 DEF NodeMembers, Sorted!NodeMembers, NodeSizes, Sorted!NodeSizes
<1>7. ASSUME NEW f, NEW s \in node_approximation_schemes
      PROVE  Sorted!PpnUnder(s, f) = PpnUnder(s, f)
  <2>1. CASE s = "NODES_MIN"
    BY <1>2, <1>6, <2>1 DEF PpnUnder, Sorted!PpnUnder
  <2>2. CASE s = "NODES_MEAN"
    BY <1>1, <1>4, <2>2 DEF PpnUnder, Sorted!PpnUnder
  <2>3. CASE s = "NODES_MAX"
    BY <1>6, <2>3 DEF PpnUnder, Sorted!PpnUnder
  <2> QED
    BY <2>1, <2>2, <2>3 DEF node_approximation_schemes
<1>8. Sorted!Procs = Procs
  BY DEF Sorted!Procs, Procs
<1> QED
  BY <1>1, <1>3, <1>4, <1>7, <1>8

\* A step of p that leaves alone what the others return.
OthersKeep(p) ==
  /\ nodeOf' = nodeOf /\ scheme' = scheme
  /\ \A q \in Procs \ {p} : /\ pc'[q] = pc[q] /\ new_comm'[q] = new_comm[q]
                            /\ l_n_nodes'[q] = l_n_nodes[q] /\ l_ppn'[q] = l_ppn[q]

LEMMA StepsKeep ==
  ASSUME Shape, NEW p \in Procs, Step(p)
  PROVE  /\ OthersKeep(p)
         /\ \/ Enter(p) /\ pc[p] = "start" /\ pc'[p] = "split_type"
            \/ SplitNew(p) /\ pc[p] = "split_new" /\ pc'[p] = "done"
            \/ pc[p] \notin {"start", "done"} /\ pc'[p] \notin {"start", "done"}
<1> USE DEF Shape, OthersKeep, Goto
<1>1. CASE Enter(p)
  BY <1>1 DEF Enter, comms, locals
<1>2. CASE SplitType(p)
  BY <1>2 DEF SplitType, locals
<1>3. CASE SplitLeaders(p)
  BY <1>3 DEF SplitLeaders
<1>4. CASE BcastNodes(p)
  BY <1>4 DEF BcastNodes, comms
<1>5. CASE BcastLeaderRank(p)
  BY <1>5 DEF BcastLeaderRank, comms
<1>6. CASE Allgather(p)
  BY <1>6 DEF Allgather, comms
<1>7. CASE BcastSizes(p)
  BY <1>7 DEF BcastSizes, comms
<1>8. CASE SplitNew(p)
  BY <1>8 DEF SplitNew, locals
<1> HIDE DEF Shape, OthersKeep, Goto
<1> QED
  BY <1>1, <1>2, <1>3, <1>4, <1>5, <1>6, <1>7, <1>8 DEF Step

\* Nobody comes to the end of the last split before everybody has called the function.
LEMMA EverybodyHasCalled ==
  ASSUME IInv, NEW p \in Procs, SplitNew(p), NEW q \in Procs
  PROVE  pc[q] # "start"
<1>1. /\ calls["old"][p] = Made(OldScript(p), 3)
      /\ calls["old"][q] = Made(OldScript(q), OldMade(q)) /\ OldMade(q) \in Nat
  BY DEF IInv, Follows, CallsFollow, OldMade, SplitNew, Goto
<1>2. Len(calls["old"][q]) >= Len(calls["old"][p])
  BY DEF SplitNew, EverybodyCalled, HasMade, Current, oldcomm
<1>3. Len(calls["old"][p]) = 3 /\ Len(calls["old"][q]) = OldMade(q)
  <2>1. \A script : \A k \in Nat : Len(Made(script, k)) = k
    BY MadeFacts
  <2> QED
    BY <1>1, <2>1
<1>4. OldMade(q) >= 3
  BY <1>2, <1>3
<1> QED
  BY <1>4 DEF OldMade

LEMMA EnterIsCall ==
  ASSUME Shape, NEW p \in Procs, Step(p), pc[p] = "start", pc'[p] = "split_type"
  PROVE  Sorted!Call(p)
<1>1. OthersKeep(p)
  BY StepsKeep
<1>2. p \notin Called /\ Called' = Called \cup {p}
  BY <1>1 DEF Called, OthersKeep
<1>3. Returned' = Returned
  <2>1. {q \in Procs : pc'[q] = "done"} = {q \in Procs : pc[q] = "done"}
    BY <1>1 DEF OthersKeep
  <2>2. \A q \in Procs : pc[q] = "done" =>
          new_comm'[q] = new_comm[q] /\ l_n_nodes'[q] = l_n_nodes[q] /\ l_ppn'[q] = l_ppn[q]
    BY <1>1 DEF OthersKeep
  <2> QED
    BY <2>1, <2>2 DEF Returned
<1> QED
  BY <1>1, <1>2, <1>3 DEF Sorted!Call, Called, Returned, OthersKeep

LEMMA MiddleIsStutter ==
  ASSUME Shape, NEW p \in Procs, Step(p),
         pc[p] \notin {"start", "done"}, pc'[p] \notin {"start", "done"}
  PROVE  UNCHANGED Sorted!vars
<1>1. OthersKeep(p)
  BY StepsKeep
<1>2. Called' = Called
  BY <1>1 DEF Called, OthersKeep
<1>3. Returned' = Returned
  <2>1. {q \in Procs : pc'[q] = "done"} = {q \in Procs : pc[q] = "done"}
    BY <1>1 DEF OthersKeep
  <2>2. \A q \in Procs : pc[q] = "done" =>
          new_comm'[q] = new_comm[q] /\ l_n_nodes'[q] = l_n_nodes[q] /\ l_ppn'[q] = l_ppn[q]
    BY <1>1 DEF OthersKeep
  <2> QED
    BY <2>1, <2>2 DEF Returned
<1> QED
  BY <1>1, <1>2, <1>3 DEF Sorted!vars, Called, Returned, OthersKeep

LEMMA SplitNewIsReturn ==
  ASSUME IInv, IInv', NEW p \in Procs, SplitNew(p), Step(p), pc[p] = "split_new", pc'[p] = "done"
  PROVE  Sorted!Return(p)
<1>1. OthersKeep(p)
  BY StepsKeep DEF IInv
<1>2. Called = Procs /\ Called' = Called
  <2>1. \A q \in Procs : pc[q] # "start"
    BY EverybodyHasCalled
  <2> QED
    BY <1>1, <2>1 DEF Called, OthersKeep
<1>3. /\ DOMAIN Returned = {q \in Procs : pc[q] = "done"} /\ p \notin DOMAIN Returned
      /\ {q \in Procs : pc'[q] = "done"} = {p} \cup DOMAIN Returned
  BY <1>1 DEF Returned, OthersKeep
<1>4. DOMAIN nodeOf = Procs /\ scheme[p] \in node_approximation_schemes
  BY PlacementAssumption, SchemeAssumption DEF IInv, Shape
<1>5. /\ new_comm'[p] = NodeMajor(nodeOf) /\ l_n_nodes'[p] = Cardinality(Leaders(nodeOf))
      /\ l_ppn'[p] \in PpnUnder(scheme[p], nodeOf)
  <2>1. nodeOf' = nodeOf /\ scheme' = scheme
    BY <1>1 DEF OthersKeep
  <2>2. CommsFollow(p)' /\ DataFollow(p)'
    BY DEF IInv, Follows
  <2>3. new_comm'[p] = RankBy(oldcomm, [q \in Procs |-> Key(q)], Procs)
    <3>1. [q \in Procs |-> Key(q)]' = [q \in Procs |-> Key(q)]
      BY <2>1, Static
    <3> QED
      BY <2>2, <3>1 DEF CommsFollow
  <2>4. /\ l_n_nodes'[p] = Nodes
        /\ l_ppn'[p] \in {Aggregate(scheme[p], NodeSizes(nodeOf), g) : g \in Garbage}
    BY <2>1, <2>2, Static DEF DataFollow
  <2> QED
    BY <1>4, <2>3, <2>4, NewCommunicator, AggregateAllowed DEF Nodes
<1>6. Returned' = [q \in {p} \cup DOMAIN Returned |->
         IF q = p
         THEN [new_comm |-> NodeMajor(nodeOf), n_nodes |-> Cardinality(Leaders(nodeOf)),
               ppn |-> l_ppn'[p]]
         ELSE Returned[q]]
  <2>1. \A q \in DOMAIN Returned : q # p =>
          Returned[q] = [new_comm |-> new_comm'[q], n_nodes |-> l_n_nodes'[q], ppn |-> l_ppn'[q]]
    BY <1>1, <1>3 DEF Returned, OthersKeep
  <2>2. Returned' = [q \in {p} \cup DOMAIN Returned |->
          [new_comm |-> new_comm'[q], n_nodes |-> l_n_nodes'[q], ppn |-> l_ppn'[q]]]
    BY <1>3 DEF Returned
  <2> HIDE DEF Returned
  <2> QED
    BY <1>5, <2>1, <2>2
<1>7. /\ Sorted!Procs = Procs /\ NodeMajor(nodeOf) = Sorted!NodeMajor(nodeOf)
      /\ Cardinality(Leaders(nodeOf)) = Sorted!Cardinality(Sorted!Leaders(nodeOf))
      /\ Sorted!PpnUnder(scheme[p], nodeOf) = PpnUnder(scheme[p], nodeOf)
  BY <1>4, SameDefinitions
<1>8. \E ppn \in Sorted!PpnUnder(scheme[p], nodeOf) :
        Returned' = [q \in {p} \cup DOMAIN Returned |->
         IF q = p
         THEN [new_comm |-> Sorted!NodeMajor(nodeOf),
               n_nodes |-> Sorted!Cardinality(Sorted!Leaders(nodeOf)), ppn |-> ppn]
         ELSE Returned[q]]
  BY <1>5, <1>6, <1>7
<1> QED
  BY <1>1, <1>2, <1>3, <1>7, <1>8 DEF Sorted!Return, Called, Returned, OthersKeep

\* MPIX_Node_comm keeps its promise: nobody returns before everybody has called, and all
\* return the node-major communicator, the number of nodes and a ppn that their scheme
\* allows (node_comm.cpp:7-75).
THEOREM NodeCommImplementsSortedComm == Spec => Implements
<1>1. Init => Sorted!Init
  <2> SUFFICES ASSUME Init PROVE Sorted!Init
    OBVIOUS
  <2>1. \A p \in Procs : pc[p] = "start"
    BY DEF Init
  <2>2. Called = {} /\ {q \in Procs : pc[q] = "done"} = {}
    BY <2>1 DEF Called
  <2>3. Returned = <<>>
    BY <2>2 DEF Returned
  <2> QED
    BY <2>2, <2>3 DEF Init, Sorted!Init, Called, Returned
<1>2. IInv /\ IInv' /\ [Next]_vars => [Sorted!Next]_(Sorted!vars)
  <2> SUFFICES ASSUME IInv, IInv', [Next]_vars
               PROVE  Sorted!Next \/ UNCHANGED Sorted!vars
    OBVIOUS
  <2>1. ASSUME NEW p \in Procs, Step(p) PROVE Sorted!Next \/ UNCHANGED Sorted!vars
    <3>1. CASE Enter(p) /\ pc[p] = "start" /\ pc'[p] = "split_type"
      BY <2>1, <3>1, EnterIsCall, SameDefinitions DEF IInv, Sorted!Next
    <3>2. CASE SplitNew(p) /\ pc[p] = "split_new" /\ pc'[p] = "done"
      BY <2>1, <3>2, SplitNewIsReturn, SameDefinitions DEF Sorted!Next
    <3>3. CASE pc[p] \notin {"start", "done"} /\ pc'[p] \notin {"start", "done"}
      BY <2>1, <3>3, MiddleIsStutter DEF IInv
    <3> QED
      BY <2>1, <3>1, <3>2, <3>3, StepsKeep DEF IInv
  <2>2. ASSUME UNCHANGED vars PROVE UNCHANGED Sorted!vars
    BY <2>2 DEF vars, comms, locals, Sorted!vars
  <2> QED
    BY <2>1, <2>2 DEF Next
<1> QED
  BY <1>1, <1>2, Invariance, PTL DEF Spec, Implements, Sorted!Spec

----------------------------------------------------------------------------
(***************************************************************************)
(* Deadlock.  The process that is least far can always go on.              *)
(***************************************************************************)
\* The call that p is blocked in has been made by all it needs.
CanReturn(p) ==
  \/ pc[p] = "start"
  \/ /\ pc[p] \in {"split_type", "split_leaders", "split_new"}
     /\ EverybodyCalled(oldcomm, calls["old"], p)
  \/ /\ pc[p] \in {"bcast_n_nodes", "bcast_leader_rank", "bcast_sizes"}
     /\ RootCalled(nodecomm[p], calls["node"], p)
  \/ pc[p] = "allgather" /\ EverybodyCalled(leadercomm[p], calls["leader"], p)

SomebodyReturns == Done \/ \E p \in Procs : CanReturn(p)

Stage(p) ==
  CASE pc[p] = "start" -> 0
    [] pc[p] = "split_type" -> 1
    [] pc[p] = "split_leaders" -> 2
    [] pc[p] = "bcast_n_nodes" -> 3
    [] pc[p] = "bcast_leader_rank" -> 4
    [] pc[p] = "allgather" -> 5
    [] pc[p] = "bcast_sizes" -> 6
    [] pc[p] = "split_new" -> 7
    [] pc[p] = "done" -> 8

LEMMA LeastFar ==
  ASSUME IInv
  PROVE  \E p \in Procs : \A q \in Procs : Stage(p) <= Stage(q)
<1> DEFINE stages == {Stage(q) : q \in Procs}
<1>1. \A q \in Procs : Stage(q) \in Nat
  BY DEF Stage, IInv, Shape, PCs
<1>2. stages \subseteq Nat /\ stages # {}
  <2>1. 0 \in Procs
    BY NAssumption DEF Procs
  <2> QED
    BY <1>1, <2>1
<1>3. Min(stages) \in stages /\ \A s \in stages : Min(stages) <= s
  <2> HIDE DEF stages
  <2> QED
    BY <1>2, MinOfSet
<1> QED
  BY <1>3

LEMMA LeastFarReturns ==
  ASSUME IInv, NEW p \in Procs, \A q \in Procs : Stage(p) <= Stage(q), pc[p] # "done"
  PROVE  CanReturn(p)
<1>1. pc \in [Procs -> PCs] /\ \A q \in Procs : Follows(q)
  BY DEF IInv, Shape
<1>2. ASSUME NEW q \in Procs
      PROVE  /\ Len(calls["old"][q]) = OldMade(q) /\ Len(calls["node"][q]) = NodeMade(q)
             /\ Len(calls["leader"][q]) = LeaderMade(q)
  <2>1. OldMade(q) \in Nat /\ NodeMade(q) \in Nat /\ LeaderMade(q) \in Nat
    BY DEF OldMade, NodeMade, LeaderMade
  <2>2. \A script : \A k \in Nat : Len(Made(script, k)) = k
    BY MadeFacts
  <2> QED
    BY <1>1, <2>1, <2>2 DEF Follows, CallsFollow
<1>3. \A q \in Procs : pc[q] \in PCs /\ Stage(q) \in Nat /\ Stage(p) <= Stage(q)
  BY <1>1 DEF Stage, PCs
<1>4. CASE pc[p] \in {"split_type", "split_leaders", "split_new"}
  <2>1. \A q \in Procs : OldMade(q) >= OldMade(p)
    BY <1>3, <1>4 DEF OldMade, Stage, PCs
  <2>2. EverybodyCalled(oldcomm, calls["old"], p)
    BY <1>2, <2>1 DEF EverybodyCalled, HasMade, Current, oldcomm
  <2> QED
    BY <1>4, <2>2 DEF CanReturn
<1>5. CASE pc[p] \in {"bcast_n_nodes", "bcast_leader_rank", "bcast_sizes"}
  <2>1. PICK l \in Procs : l = Root(nodecomm[p])
    <3>1. nodecomm[p] = RankIn(Node(p))
      BY <1>1, <1>5 DEF Follows, CommsFollow
    <3> QED
      BY <3>1, Leadership DEF IInv
  <2>2. NodeMade(l) >= NodeMade(p)
    BY <1>3, <1>5 DEF NodeMade, Stage, PCs
  <2>3. RootCalled(nodecomm[p], calls["node"], p)
    BY <1>2, <2>1, <2>2 DEF RootCalled, HasMade, Current
  <2> QED
    BY <1>5, <2>3 DEF CanReturn
<1>6. CASE pc[p] = "allgather"
  <2>1. leadercomm[p] = RankIn(Leaders(nodeOf)) /\ LeaderMade(p) = 1
    BY <1>1, <1>6 DEF Follows, CommsFollow, LeaderMade
  <2>2. ASSUME NEW q \in DOMAIN leadercomm[p]
        PROVE  q \in Procs /\ LeaderMade(q) >= 1
    <3>1. q \in Leaders(nodeOf)
      BY <2>1 DEF RankIn
    <3>2. q \in Procs
      BY <3>1, Leadership, LeadersFacts DEF IInv
    <3>3. Leads(q)
      BY <3>1, <3>2, Leadership DEF IInv
    <3> QED
      BY <1>3, <1>6, <3>2, <3>3 DEF LeaderMade, Stage, PCs
  <2>3. EverybodyCalled(leadercomm[p], calls["leader"], p)
    BY <1>2, <2>1, <2>2 DEF EverybodyCalled, HasMade, Current
  <2> QED
    BY <1>6, <2>3 DEF CanReturn
<1>7. CASE pc[p] = "start"
  BY <1>7 DEF CanReturn
<1> QED
  BY <1>3, <1>4, <1>5, <1>6, <1>7 DEF PCs

\* No state is a deadlock: until all have returned from MPIX_Node_comm, the call that some
\* process is blocked in has been made by all it needs, on whichever of the three
\* communicators it is (node_comm.cpp:13-70).
THEOREM NeverDeadlocks == Spec => []SomebodyReturns
<1>1. IInv => SomebodyReturns
  <2> SUFFICES ASSUME IInv PROVE SomebodyReturns
    OBVIOUS
  <2>1. PICK p \in Procs : \A q \in Procs : Stage(p) <= Stage(q)
    BY LeastFar
  <2>2. CASE pc[p] # "done"
    BY <2>1, <2>2, LeastFarReturns DEF SomebodyReturns
  <2>3. CASE pc[p] = "done"
    <3>1. ASSUME NEW q \in Procs
          PROVE  pc[q] = "done"
      <4>1. pc[q] \in PCs
        BY DEF IInv, Shape
      <4>2. Stage(p) = 8
        BY <2>3 DEF Stage
      <4>3. 8 <= Stage(q)
        BY <2>1, <4>2
      <4> QED
        BY <4>1, <4>3 DEF Stage, PCs
    <3> QED
      BY <3>1 DEF SomebodyReturns, Done
  <2> QED
    BY <2>2, <2>3
<1> QED
  BY <1>1, Invariance, PTL
=============================================================================
