---------------------------- MODULE CartReorder ----------------------------
(***************************************************************************)
(* MPI_Cart_create with the reordering flag, as a whole: each process      *)
(* dispatches the algorithm its own environment names, learns about the    *)
(* nodes (NodeComm, here the one step that SortedComm makes of it),        *)
(* computes its key (SplitKeys), splits a communicator by the keys and     *)
(* puts the Cartesian topology on the result.  The application calls it    *)
(* again and again, and a process that has returned does not wait for the  *)
(* others before it makes the next call.                                   *)
(*                                                                         *)
(* The program counter of a process names the collective call it is        *)
(* blocked in; an action is the return from it, what follows, and the next *)
(* call.  A communicator is known by its id: MPI gives what the k-th call  *)
(* on a communicator creates to the members that made it as their k-th.    *)
(***************************************************************************)
EXTENDS Placement, Grid

CONSTANTS
  ndims,
  Inputs,            \* [nodeOf, dims, config, calls]: the situations considered
  Stencils,          \* the values of CART_REORDER_STENCIL considered
  Keys(_, _, _, _, _)  \* of config, dims, size, ppn and rank: what an algorithm may compute

reorder_schemes == {"HYPERPLANE", "KD_TREE", "STENCIL_STRIPS"}

ASSUME NdimsAssumption == ndims \in Nat \ {0}
ASSUME InputAssumption ==
  \A in \in Inputs :
    LET n == Cardinality(DOMAIN in.nodeOf)
    IN /\ n \in Nat
       /\ in.dims \in [0 .. ndims-1 -> Nat \ {0}]
       /\ DOMAIN in.nodeOf = 0 .. n-1
       /\ Volume(in.dims, ndims) \in 1 .. n
       /\ in.config \in [0 .. n-1 ->
            [alg : reorder_schemes, scheme : node_approximation_schemes, stencil : Stencils]]
       /\ in.calls \in Nat

\* What may be computed for each rank with configuration c, given k processes per node.
KeysOf(in, c, k) ==
  [r \in DOMAIN in.nodeOf |-> Keys(c, in.dims, Cardinality(DOMAIN in.nodeOf), k, r)]

ConfigsOf(in) == {in.config[p] : p \in DOMAIN in.nodeOf}

\* What is relied on in the algorithms: they compute a key, which is an int.  In a full grid
\* the keys of the ranks are the cells, each once (KeysAreRanks of KdTree, Hyperplane and
\* StencilStrips), and depend on the algorithm, the stencil and, but for KD_TREE, the ppn.
Reliable(in, c, k) ==
  /\ \A r \in DOMAIN in.nodeOf : KeysOf(in, c, k)[r] \subseteq Int /\ KeysOf(in, c, k)[r] # {}
  /\ Volume(in.dims, ndims) = Cardinality(DOMAIN in.nodeOf) =>
       /\ \A r \in DOMAIN in.nodeOf : \E key \in DOMAIN in.nodeOf : KeysOf(in, c, k)[r] = {key}
       /\ \A r, s \in DOMAIN in.nodeOf : KeysOf(in, c, k)[r] = KeysOf(in, c, k)[s] => r = s
       /\ \A d \in ConfigsOf(in) : \A l \in PpnUnder(d.scheme, in.nodeOf) :
            c.alg = d.alg /\ c.stencil = d.stencil /\ (c.alg = "KD_TREE" \/ k = l)
              => KeysOf(in, c, k) = KeysOf(in, d, l)

ASSUME KeysAssumption ==
  \A in \in Inputs : \A c \in ConfigsOf(in) : \A k \in PpnUnder(c.scheme, in.nodeOf) :
    Reliable(in, c, k)

VARIABLES
  input,
  keys,              \* keys[c][k]: what may be computed with configuration c for each
                     \* rank, given k processes per node
  pc,                \* the call each process is blocked in
  made,              \* made[p][id]: the calls p has made on a communicator, in order
  node_world_comm,   \* the communicator MPIX_Node_comm was given the address of
  tmp,               \* the communicator split by the keys
  held,              \* the communicators each process has and has not freed
  carts              \* the Cartesian communicators the application was given

vars == <<input, keys, pc, made, node_world_comm, tmp, held, carts>>

Procs == DOMAIN input.nodeOf

Cells == Volume(input.dims, ndims)

alg(p) == input.config[p].alg

No_comm == [id |-> <<>>, rank |-> COMM_NULL]

oldcomm == [id |-> <<"old">>, rank |-> [p \in Procs |-> p]]

----------------------------------------------------------------------------
\* The calls all processes have made on one communicator.
On(comm) ==
  [p \in Procs |-> IF comm.id \in DOMAIN made[p] THEN made[p][comm.id] ELSE <<>>]

\* p makes a collective call on comm.
Call(p, comm, op, arg) ==
  LET calls == Append(On(comm)[p], [op |-> op, arg |-> arg])
  IN made' = [made EXCEPT ![p] =
       [id \in {comm.id} \cup DOMAIN @ |-> IF id = comm.id THEN calls ELSE @[id]]]

Goto(p, from, to) ==
  /\ pc[p] = from
  /\ pc' = [pc EXCEPT ![p] = to]

\* The call on comm that p is blocked in can return.
Complete(comm, p) == EverybodyCalled(comm.rank, On(comm), p)

\* The id of what that call creates.
NewId(comm, p) == Append(comm.id, Current(On(comm), p))

\* PMPI_Cart_create: the processes in the order of their ranks fill the grid.
Cartesian(comm, p) ==
  IF comm.rank[p] < Cells
  THEN [q \in {r \in Members(comm.rank) : comm.rank[r] < Cells} |-> comm.rank[q]]
  ELSE COMM_NULL

\* The communicators whose handles p now holds; MPI_COMM_NULL is none.  (MPI_Comm_free
\* waits for no other process here.)
Hold(p, freed, new) ==
  held' = [held EXCEPT ![p] =
    (@ \ {c.id : c \in freed}) \cup {c.id : c \in {n \in new : n.rank # COMM_NULL}}]

Give(p, cart) == carts' = [carts EXCEPT ![p] = Append(@, cart.rank)]

----------------------------------------------------------------------------
Init ==
  /\ input \in Inputs
  /\ keys = [c \in ConfigsOf(input) |->
       [k \in PpnUnder(c.scheme, input.nodeOf) |-> KeysOf(input, c, k)]]
  /\ pc = [p \in Procs |-> "application"]
  /\ made = [p \in Procs |-> <<>>]
  /\ node_world_comm = [p \in Procs |-> No_comm]
  /\ tmp = [p \in Procs |-> No_comm]
  /\ held = [p \in Procs |-> {}]
  /\ carts = [p \in Procs |-> <<>>]

\* Mutant: a process that there is no cell for returns at once.
perform_reordering_EarlyOut(p) ==
  /\ Len(carts[p]) < input.calls
  /\ IF p < Cells
     THEN /\ Goto(p, "application", "node_comm")
          /\ Call(p, oldcomm, "node_comm", 0)
          /\ UNCHANGED <<input, keys, node_world_comm, tmp, held, carts>>
     ELSE /\ pc[p] = "application"
          /\ Give(p, No_comm)
          /\ UNCHANGED <<input, keys, pc, made, node_world_comm, tmp, held>>

\* The application's call.  Every algorithm begins with MPIX_Node_comm on oldcomm.
perform_reordering(p) ==
  /\ Len(carts[p]) < input.calls
  /\ Goto(p, "application", "node_comm")
  /\ Call(p, oldcomm, "node_comm", 0)
  /\ UNCHANGED <<input, keys, node_world_comm, tmp, held, carts>>

\* The communicator whose ranks an algorithm reorders, sorted being the one that
\* MPIX_Node_comm returned: STENCIL_STRIPS takes the application's.
Base(p, sorted) == IF alg(p) = "STENCIL_STRIPS" THEN oldcomm ELSE sorted

\* Mutant: the key belongs to the rank in oldcomm.
NodeCommReturns_OldRank(p) ==
  /\ Goto(p, "node_comm", "split")
  /\ Complete(oldcomm, p)
  /\ node_world_comm' = [node_world_comm EXCEPT ![p] =
       [id |-> NewId(oldcomm, p), rank |-> NodeMajor(input.nodeOf)]]
  /\ \E ppn \in DOMAIN keys[input.config[p]] :
       \E new_rank \in keys[input.config[p]][ppn][p] :
         Call(p, Base(p, node_world_comm'[p]), "split", new_rank)
  /\ Hold(p, {}, {node_world_comm'[p]})
  /\ UNCHANGED <<input, keys, tmp, carts>>

\* The nodes are known; the algorithm runs and its key goes into the split.  (KD_TREE
\* asks for no ppn, and its keys do not depend on it.)
NodeCommReturns(p) ==
  /\ Goto(p, "node_comm", "split")
  /\ Complete(oldcomm, p)
  /\ node_world_comm' = [node_world_comm EXCEPT ![p] =
       [id |-> NewId(oldcomm, p), rank |-> NodeMajor(input.nodeOf)]]
  /\ \E ppn \in DOMAIN keys[input.config[p]] :
       \E new_rank \in keys[input.config[p]][ppn][Base(p, node_world_comm'[p]).rank[p]] :
         Call(p, Base(p, node_world_comm'[p]), "split", new_rank)
  /\ Hold(p, {}, {node_world_comm'[p]})
  /\ UNCHANGED <<input, keys, tmp, carts>>

\* Mutant: a process that gets no cell does without MPI_Cart_create.
SplitReturns_CellsOnly(p) ==
  LET base == Base(p, node_world_comm[p])
      split == MPI_Comm_split(base.rank, [q \in Procs |-> 0], Arguments(base.rank, On(base), p), p)
  IN /\ pc[p] = "split"
     /\ Complete(base, p)
     /\ IF split[p] < Cells
        THEN /\ Goto(p, "split", "cart_create")
             /\ tmp' = [tmp EXCEPT ![p] = [id |-> NewId(base, p), rank |-> split]]
             /\ Call(p, tmp'[p], "cart_create", 0)
             /\ Hold(p, {}, {tmp'[p]})
             /\ UNCHANGED <<input, keys, node_world_comm, carts>>
        ELSE /\ Goto(p, "split", "application")
             /\ Give(p, No_comm)
             /\ Hold(p, {node_world_comm[p]}, {})
             /\ node_world_comm' = [node_world_comm EXCEPT ![p] = No_comm]
             /\ UNCHANGED <<input, keys, made, tmp>>

SplitReturns(p) ==
  LET base == Base(p, node_world_comm[p])
  IN /\ Goto(p, "split", "cart_create")
     /\ Complete(base, p)
     /\ tmp' = [tmp EXCEPT ![p] =
          [id |-> NewId(base, p),
           rank |-> MPI_Comm_split(base.rank, [q \in Procs |-> 0],
                                   Arguments(base.rank, On(base), p), p)]]
     /\ Call(p, tmp'[p], "cart_create", 0)
     /\ Hold(p, {}, {tmp'[p]})
     /\ UNCHANGED <<input, keys, node_world_comm, carts>>

\* The Cartesian communicator that the call on comm returns to p.
NewCart(comm, p) == [id |-> NewId(comm, p), rank |-> Cartesian(comm, p)]

\* Mutant: tmp alone is freed.
CartReturns_TmpOnly(p) ==
  /\ alg(p) # "STENCIL_STRIPS"
  /\ Goto(p, "cart_create", "application")
  /\ Complete(tmp[p], p)
  /\ Give(p, NewCart(tmp[p], p))
  /\ Hold(p, {tmp[p]}, {NewCart(tmp[p], p)})
  /\ tmp' = [tmp EXCEPT ![p] = No_comm]
  /\ node_world_comm' = [node_world_comm EXCEPT ![p] = No_comm]
  /\ UNCHANGED <<input, keys, made>>

\* The end of KD_TREE and HYPERPLANE.
CartReturns(p) ==
  /\ alg(p) # "STENCIL_STRIPS"
  /\ Goto(p, "cart_create", "application")
  /\ Complete(tmp[p], p)
  /\ Give(p, NewCart(tmp[p], p))
  /\ Hold(p, {tmp[p], node_world_comm[p]}, {NewCart(tmp[p], p)})
  /\ tmp' = [tmp EXCEPT ![p] = No_comm]
  /\ node_world_comm' = [node_world_comm EXCEPT ![p] = No_comm]
  /\ UNCHANGED <<input, keys, made>>

\* MPIX_stencil_strips_cart_create stores its Cartesian communicator where the node
\* communicator's handle was; MPI_Cart_create is then called on it, which is an
\* error, fatal to the job, if it is MPI_COMM_NULL.
StripsCartReturns(p) ==
  /\ alg(p) = "STENCIL_STRIPS"
  /\ pc[p] = "cart_create"
  /\ Complete(tmp[p], p)
  /\ node_world_comm' = [node_world_comm EXCEPT ![p] = NewCart(tmp[p], p)]
  /\ IF node_world_comm'[p].rank = COMM_NULL
     THEN Goto(p, "cart_create", "aborted") /\ UNCHANGED made
     ELSE /\ Goto(p, "cart_create", "second_cart_create")
          /\ Call(p, node_world_comm'[p], "cart_create", 0)
  /\ Hold(p, {tmp[p]}, {node_world_comm'[p]})
  /\ tmp' = [tmp EXCEPT ![p] = No_comm]
  /\ UNCHANGED <<input, keys, carts>>

\* Mutant: the inner function has been given the application's communicator as well.
SecondCartReturns_Twice(p) ==
  LET cart == NewCart(node_world_comm[p], p)
  IN /\ Goto(p, "second_cart_create", "application")
     /\ Complete(node_world_comm[p], p)
     /\ carts' = [carts EXCEPT ![p] = @ \o <<node_world_comm[p].rank, cart.rank>>]
     /\ Hold(p, {node_world_comm[p]}, {cart})
     /\ node_world_comm' = [node_world_comm EXCEPT ![p] = No_comm]
     /\ UNCHANGED <<input, keys, made, tmp>>

\* The end of STENCIL_STRIPS.
SecondCartReturns(p) ==
  LET cart == NewCart(node_world_comm[p], p)
  IN /\ Goto(p, "second_cart_create", "application")
     /\ Complete(node_world_comm[p], p)
     /\ Give(p, cart)
     /\ Hold(p, {node_world_comm[p]}, {cart})
     /\ node_world_comm' = [node_world_comm EXCEPT ![p] = No_comm]
     /\ UNCHANGED <<input, keys, made, tmp>>

\* MPI_ERRORS_ARE_FATAL: an error in one process ends all of them.
Aborted == \E p \in Procs : pc[p] = "aborted"

Step(p) ==
  /\ ~ Aborted
  /\ \/ perform_reordering(p)
     \/ NodeCommReturns(p)
     \/ SplitReturns(p)
     \/ CartReturns(p)
     \/ StripsCartReturns(p)
     \/ SecondCartReturns(p)

Next == \E p \in Procs : Step(p)

Spec == Init /\ [][Next]_vars

\* The application makes its calls, and MPI lets one return whose partners have
\* called it.
FairSpec == Spec /\ WF_vars(Next)
----------------------------------------------------------------------------
Done == \A p \in Procs : pc[p] = "application" /\ Len(carts[p]) = input.calls

MixesStrips == \E p, q \in Procs : alg(p) = "STENCIL_STRIPS" /\ alg(q) # "STENCIL_STRIPS"

StripsWithSpare ==
  Cells < Cardinality(Procs) /\ \E p \in Procs : alg(p) = "STENCIL_STRIPS"

\* Handles and program counters fit together: what a process is blocked on is a
\* communicator it is a member of and has not freed, and an application holds no
\* more results than it has asked for.
TypeOK ==
  /\ input \in Inputs
  /\ \A p \in Procs :
       /\ Len(carts[p]) + (IF pc[p] = "application" THEN 0 ELSE 1) <= input.calls
       /\ pc[p] \in {"application", "node_comm", "split", "cart_create",
                     "second_cart_create", "aborted"}
       /\ \A comm \in {node_world_comm[p], tmp[p]} :
            comm # No_comm /\ comm.rank # COMM_NULL => comm.id \in held[p] /\ p \in Members(comm.rank)
       /\ pc[p] = "cart_create" => tmp[p] # No_comm
       /\ pc[p] \in {"split", "second_cart_create"} => node_world_comm[p].rank # COMM_NULL

Abstract == INSTANCE CartCreate WITH
  size <- Cardinality(Procs),
  cells <- Cells,
  asked <- [p \in Procs |-> Len(carts[p]) + (IF pc[p] = "application" THEN 0 ELSE 1)]

\* Whatever algorithms the environments of the processes name, whatever keys these
\* compute and however far some processes run ahead into the next call: a call that
\* returns does what MPI_Cart_create promises.  It never returns early, never gives
\* two processes one cell or different communicators, and leaves no cell empty
\* (README.md:10, "Library with rank reordering algorithms for the MPI_Cart_create
\* routine").
Implements == Abstract!Spec

\* The keys of all processes are computed from one and the same ppn.
SamePpn ==
  (\A p \in Procs : alg(p) = "KD_TREE") \/
  \E k \in 1 .. Cardinality(Procs) :
    \A p \in Procs : DOMAIN keys[input.config[p]] = {k}

\* In a full grid a process ends on the cell that the algorithm has computed for its
\* rank: the k-th process of the node order for KD_TREE and HYPERPLANE, the k-th of
\* the application's for STENCIL_STRIPS.  Splits, both Cartesian communicators and the
\* calls of other rounds leave the placement as it was computed, provided that all
\* processes use one algorithm, stencil and ppn (kd_tree.cpp:57-59, hyperplane.cpp:293-298,
\* stencil_strips.cpp:199-218).
OnItsCell ==
  \A p \in Procs :
    /\ Cells = Cardinality(Procs)
    /\ \A q \in Procs : /\ alg(q) = alg(p)
                       /\ input.config[q].stencil = input.config[p].stencil
    /\ SamePpn
    => LET rank == IF alg(p) = "STENCIL_STRIPS" THEN p ELSE NodeMajor(input.nodeOf)[p]
           ppn == CHOOSE k \in DOMAIN keys[input.config[p]] : TRUE
       IN \A call \in DOMAIN carts[p] :
            carts[p][call][p] \in keys[input.config[p]][ppn][rank]

\* Between two calls a process holds the Cartesian communicators it was given and, for
\* STENCIL_STRIPS, one communicator more for each call it has made: the node
\* communicator whose handle was overwritten (stencil_strips.cpp:214-219).  KD_TREE and
\* HYPERPLANE free what they create on every path.
LeftOver ==
  \A p \in Procs : pc[p] = "application" =>
    LET given == Cardinality({call \in DOMAIN carts[p] : carts[p][call] # COMM_NULL})
    IN Cardinality(held[p]) =
         given + (IF alg(p) = "STENCIL_STRIPS" THEN Len(carts[p]) ELSE 0)

\* All processes return from all calls, unless STENCIL_STRIPS meets another algorithm,
\* in which case some split oldcomm and the others the node communicator
\* (configuration.cpp:41-58), or more processes than there are cells.
Completes == ~ MixesStrips /\ ~ StripsWithSpare => <>Done

\* "no changes are needed to be done in the codebase, except setting the reordering
\* flag to 1 in the MPI_Cart_create routine" (README.md:37): a call that is legal
\* without the flag does not abort the program with it.
NeverAborts == ~ Aborted
=============================================================================
