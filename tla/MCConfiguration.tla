-------------------------- MODULE MCConfiguration --------------------------
(***************************************************************************)
(* Environments for Configuration.                                         *)
(***************************************************************************)
EXTENDS Configuration

\* Whole offsets in two dimensions, one value too many for two dimensions and one
\* too few for four, and an empty variable.
MCStencils == {<<1, 0, -1, 0>>, <<1, -1, 1>>, <<>>}

\* One level of each kind: verbose, off by number, and off for being unknown.
MCLevels == {2, 6, -1}
=============================================================================
