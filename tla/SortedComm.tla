----------------------------- MODULE SortedComm -----------------------------
(***************************************************************************)
(* What MPIX_Node_comm promises its callers, without the calls it makes:   *)
(* nobody gets an answer before everybody has asked, and all get the same  *)
(* communicator, in which each node's processes have consecutive ranks,    *)
(* the true number of nodes, and a number of processes per node that is    *)
(* fit to be used as a divisor.                                            *)
(***************************************************************************)
EXTENDS Placement

CONSTANTS
  N,           \* number of processes of oldcomm
  Placements,  \* the functions from processes to compute nodes considered
  Schemes      \* the functions from processes to aggregation schemes considered

Procs == 0 .. N-1

VARIABLES
  nodeOf,    \* the compute node each process runs on
  scheme,    \* the argument scheme of each process
  called,    \* the processes that have called the function
  returned   \* what those that have returned from it got

vars == <<nodeOf, scheme, called, returned>>

Init ==
  /\ nodeOf \in Placements
  /\ scheme \in Schemes
  /\ called = {}
  /\ returned = <<>>

Call(p) ==
  /\ p \notin called
  /\ called' = called \cup {p}
  /\ UNCHANGED <<nodeOf, scheme, returned>>

Return(p) ==
  /\ called = Procs
  /\ p \notin DOMAIN returned
  /\ \E ppn \in PpnUnder(scheme[p], nodeOf) :
       returned' = [q \in {p} \cup DOMAIN returned |->
         IF q = p
         THEN [new_comm |-> NodeMajor(nodeOf), n_nodes |-> Cardinality(Leaders(nodeOf)), ppn |-> ppn]
         ELSE returned[q]]
  /\ UNCHANGED <<nodeOf, scheme, called>>

Next == \E p \in Procs : Call(p) \/ Return(p)

Spec == Init /\ [][Next]_vars
=============================================================================
