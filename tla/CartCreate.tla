----------------------------- MODULE CartCreate -----------------------------
(***************************************************************************)
(* What MPI_Cart_create promises, with or without reordering, when it is   *)
(* called again and again on one communicator: nobody returns from a call  *)
(* before everybody has made it, every cell of the grid gets one process,  *)
(* and all those processes get the same Cartesian communicator; the others *)
(* get MPI_COMM_NULL.  Which process sits on which cell is left open.      *)
(***************************************************************************)
EXTENDS Communicators, Functions

VARIABLES
  size,    \* number of processes of the communicator
  cells,   \* number of cells of the grid
  asked,   \* asked[p]: how many calls p has made
  carts    \* carts[p]: what they have returned to p so far

vars == <<size, cells, asked, carts>>

Procs == 0 .. size-1

Init ==
  /\ size \in Nat \ {0}
  /\ cells \in 1 .. size
  /\ asked = [p \in Procs |-> 0]
  /\ carts = [p \in Procs |-> <<>>]

Ask(p) ==
  /\ asked[p] = Len(carts[p])
  /\ asked' = [asked EXCEPT ![p] = @ + 1]
  /\ UNCHANGED <<size, cells, carts>>

\* What answers[q] has been given to each process q in a round are parts of one placement:
\* all who sit on a cell hold the same communicator, which has one process for each cell,
\* and those who got none have left enough processes for the cells.
OnePlacement(answers) ==
  LET given == DOMAIN answers
      placed == {q \in given : answers[q] # COMM_NULL}
  IN /\ \A q \in placed :
          /\ DOMAIN answers[q] \subseteq Procs
          /\ answers[q] \in Bijection(DOMAIN answers[q], 0 .. cells-1)
          /\ \A r \in given :
               answers[r] = IF r \in DOMAIN answers[q] THEN answers[q] ELSE COMM_NULL
     /\ Cardinality(given \ placed) <= size - cells

\* p is given any answer that goes with those of its round.
Answer(p) ==
  LET round == Len(carts[p]) + 1
      given == {q \in Procs : Len(carts[q]) >= round} \cup {p}
  IN /\ \A q \in Procs : asked[q] >= round
     /\ Len(carts'[p]) = round
     /\ carts' = [carts EXCEPT ![p] = Append(@, carts'[p][round])]
     /\ OnePlacement([q \in given |-> carts'[q][round]])
     /\ UNCHANGED <<size, cells, asked>>

Next == \E p \in Procs : Ask(p) \/ Answer(p)

Spec == Init /\ [][Next]_vars
=============================================================================
