------------------------------ MODULE Stencil ------------------------------
(***************************************************************************)
(* Stencil_Creater (Stencils/Stencil_Creater.cpp): the flat array of       *)
(* neighbour offsets, from the value of CART_REORDER_STENCIL or, when it   *)
(* is not set, of the nearest neighbours.                                  *)
(*                                                                         *)
(* The value of the variable is the sequence of its '@'-separated tokens;  *)
(* a token that is no number stands for the 0 that atoi makes of it.  A    *)
(* value is held in a set, which is empty when there is none.              *)
(***************************************************************************)
EXTENDS Integers, SequencesExt

\* The string "UNDEFINED".
UNDEFINED_STENCIL == {}

\* Mutant: the next pair of offsets is sought after n_neighbors entries.
pair_offset_Neighbors(k, ndims) == k * (2 * ndims + 1)

\* Where the kth iteration of the loop in five_point_stencil begins.
pair_offset(k, ndims) == k * 2 * ndims

\* One step up and one step down along each dimension, and the process itself.
five_point_stencil(ndims) ==
  LET up == {pair_offset(k, ndims) + k : k \in 0 .. ndims-1}
      down == {pair_offset(k, ndims) + k + ndims : k \in 0 .. ndims-1}
  IN [j \in 1 .. 2*ndims*ndims + ndims |->
        IF j-1 \in down THEN -1 ELSE IF j-1 \in up THEN 1 ELSE 0]

\* Mutant: the remainder is what is filled up with.
padding_Remainder(n, ndims) == n % ndims

\* The zeros that complete the last offset of n values.
padding(n, ndims) == (ndims - (n % ndims)) % ndims

extract_stencil_from_string(tokens, ndims) ==
  tokens \o [k \in 1 .. padding(Len(tokens), ndims) |-> 0]

create_stencil(str_stencil, ndims) ==
  IF str_stencil = UNDEFINED_STENCIL THEN five_point_stencil(ndims)
  ELSE extract_stencil_from_string(CHOOSE tokens \in str_stencil : TRUE, ndims)

n_neighbors(stencil, ndims) == Len(stencil) \div ndims

\* The ith offset of a flat stencil, as its users read it.
Offset(stencil, ndims, i) == SubSeq(stencil, (i-1) * ndims + 1, i * ndims)
=============================================================================
