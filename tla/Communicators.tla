--------------------------- MODULE Communicators ---------------------------
(***************************************************************************)
(* The MPI objects the library works on, modelled from how src/ uses them. *)
(*                                                                         *)
(* A communicator is the function that gives each member process its rank; *)
(* MPI_COMM_NULL is the communicator with no members.  A collective call   *)
(* is recorded, on every member, in the order in which that member made it:*)
(* MPI matches the k-th call of one member on a communicator with the k-th *)
(* call of every other member, whatever call those are.                    *)
(***************************************************************************)
EXTENDS Integers, FiniteSets, Sequences

COMM_NULL == <<>>

\* The color of a process that wants no part of MPI_Comm_split's result.
UNDEFINED == -32766

\* The content of a C variable that has not been assigned yet.
UNINIT == -1

Members(comm) == DOMAIN comm

MPI_Comm_size(comm) == Cardinality(DOMAIN comm)

Root(comm) == CHOOSE p \in DOMAIN comm : comm[p] = 0

\* MPI orders the members of a new communicator by key, and members with
\* equal keys by their rank in the communicator that is split.
Precedes(comm, key, p, q) ==
  \/ key[p] < key[q]
  \/ key[p] = key[q] /\ comm[p] < comm[q]

RankBy(comm, key, S) ==
  [p \in S |-> Cardinality({q \in S : Precedes(comm, key, q, p)})]

\* What MPI_Comm_split(comm, color[p], key[p]) returns to p.
MPI_Comm_split(comm, color, key, p) ==
  IF color[p] = UNDEFINED
  THEN COMM_NULL
  ELSE RankBy(comm, key, {q \in DOMAIN comm : color[q] = color[p]})

\* What MPI_Comm_split_type(comm, MPI_COMM_TYPE_SHARED, 0) returns to p when
\* the processes with the same nodeOf share memory.
MPI_Comm_split_type(comm, nodeOf, p) ==
  RankBy(comm, [q \in DOMAIN comm |-> 0], {q \in DOMAIN comm : nodeOf[q] = nodeOf[p]})

----------------------------------------------------------------------------
(***************************************************************************)
(* Matching of collective calls.  made[q] is the sequence of calls q has   *)
(* made on comm; p is blocked in its last one.                             *)
(***************************************************************************)
Current(made, p) == Len(made[p])

HasMade(made, q, k) == Len(made[q]) >= k

\* A call that needs every member (split, allgather, allreduce, create).
EverybodyCalled(comm, made, p) ==
  \A q \in DOMAIN comm : HasMade(made, q, Current(made, p))

\* MPI_Bcast from rank 0 holds back nobody but the receivers, until the root
\* has called it.
RootCalled(comm, made, p) ==
  HasMade(made, Root(comm), Current(made, p))

\* The argument that member q passed to the call p is blocked in.
Argument(made, q, p) == made[q][Current(made, p)].arg

\* The arguments of all the members, which a reduction combines.
Arguments(comm, made, p) == [q \in DOMAIN comm |-> Argument(made, q, p)]
=============================================================================
