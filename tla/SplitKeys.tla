----------------------------- MODULE SplitKeys -----------------------------
(***************************************************************************)
(* The keys that an algorithm's entry function may pass to MPI_Comm_split, *)
(* given its arguments and the rank it starts from: the algorithms of      *)
(* KdTree, Hyperplane and StencilStrips run to their end in one process,   *)
(* with what each of them makes of the stencil.  Where the code computes   *)
(* with doubles, the arithmetic here is exact.                             *)
(***************************************************************************)
EXTENDS Grid

CONSTANTS
  ndims,
  Unassigned(_)   \* by rank: the keys that may come out of coordinates nobody has assigned

Dims == 0 .. ndims-1

LOCAL Creater == INSTANCE Stencil

\* The offsets that a value of CART_REORDER_STENCIL stands for.
Offsets(str_stencil) ==
  LET flat == Creater!create_stencil(str_stencil, ndims)
  IN [i \in 1 .. Creater!n_neighbors(flat, ndims) |->
        [d \in Dims |-> Creater!Offset(flat, ndims, i)[d+1]]]

\* What n levels of a recursion, or iterations of a loop, make of entry.
After(n, step(_, _), entry) ==
  LET level[i \in 0 .. n] ==
        IF i = 0 THEN {entry} ELSE {step(c, i-1) : c \in level[i-1]}
  IN level[n]

----------------------------------------------------------------------------
Kd(in) == INSTANCE KdTree WITH
  Inputs <- {in}, HeapWords <- {0}, input <- in, factors <- <<>>, call <- <<>>

KdTreeKeys(in, rank) ==
  LET factors == Kd(in)!calculate_factors(in.stencil)
      level(c, i) == IF c.status = "calling" THEN Kd(in)!Descend(c, factors, 0) ELSE c
  IN {RowMajorRank(leaf.coordinate, in.dims, ndims) :
        leaf \in After(in.world_size, level, Kd(in)!EntryCall(rank))}

----------------------------------------------------------------------------
\* The sums of squared cosines, times the product of the squared lengths of all
\* offsets but those that lead nowhere.
hyperplane_sum_of_angles(stencil) ==
  LET square(k, d) == stencil[k][d] * stencil[k][d]
      length == [k \in DOMAIN stencil |-> MapThenSumSet(LAMBDA d : square(k, d), Dims)]
      counted == {k \in DOMAIN stencil : length[k] # 0}
  IN [d \in Dims |-> MapThenSumSet(
        LAMBDA k : square(k, d) * (ProductOver(length, counted) \div length[k]), counted)]

Hyper(in, k) == INSTANCE Hyperplane WITH
  Inputs <- {in}, input <- in, n_processes_p_node <- k, call <- <<>>

HyperplaneKeys(in, rank) ==
  LET k == Hyper(in, 1)!PartitionSize(in)
      level(c, i) == IF c.status = "calling" THEN Hyper(in, k)!hyperplane_internal(c, rank) ELSE c
  IN UNION {IF leaf.status = "unassigned" THEN Unassigned(rank)
            ELSE {RowMajorRank(leaf.new_rank_coords, in.dims, ndims)} :
              leaf \in After(in.w_size, level, Hyper(in, k)!EntryCall)}

----------------------------------------------------------------------------
Strips(in) == INSTANCE StencilStrips WITH
  Inputs <- {in}, input <- in, dim_index <- 0, walk <- <<>>

\* The extents of the box around the stencil's offsets and the process itself.
bounding_rectangle(stencil) ==
  [d \in Dims |-> LET along == {0} \cup {stencil[k][d] : k \in DOMAIN stencil}
                  IN Max(along) - Min(along)]

\* get_hypercube_distortion_factors and the root that is taken of a factor's product
\* with size: the box has a side of its own in the dimensions where it is not flat,
\* alpha is that side over the one of a cube of the same volume, and the result is
\* the largest r with r^ndims <= size * alpha.
nroot(size, box, d) ==
  LET sides == {i \in Dims : box[i] # 0}
  IN Max({r \in 0 .. size * box[d] :
            \/ r = 0
            \/ r^(ndims * Cardinality(sides)) * ProductOver(box, sides)
                 <= (size * box[d])^Cardinality(sides)})

\* The roots of what is left of the node, dimension by dimension in dim_order: it is
\* divided by the height of the strips each dimension has been cut into.
Roots(dims, ppn, box) ==
  CHOOSE roots \in [Dims -> 0 .. ppn * Max({box[d] : d \in Dims})] :
    LET in == [dims |-> dims, roots |-> roots]
        rem_part_size[i \in Dims] ==
          IF i = 0 THEN ppn
          ELSE rem_part_size[i-1] \div Strips(in)!small_strip_height(Strips(in)!dim_order[i-1])
    IN \A i \in Dims :
         roots[Strips(in)!dim_order[i]] = nroot(rem_part_size[i], box, Strips(in)!dim_order[i])

StencilStripsKeys(in, rank) ==
  LET enter(w, i) == Strips(in)!EnterStrip(w, Strips(in)!dim_order[i])
  IN {RowMajorRank(Strips(in)!compute_coord(w), in.dims, ndims) :
        w \in After(ndims, enter, Strips(in)!EntryWalk(rank))}

----------------------------------------------------------------------------
\* The keys a process with this configuration may pass on behalf of a rank.
SplitKeysOf(config, dims, size, ppn, rank) ==
  LET stencil == Offsets(config.stencil)
  IN CASE config.alg = "KD_TREE" ->
            KdTreeKeys([dims |-> dims, world_size |-> size, stencil |-> stencil], rank)
       [] config.alg = "HYPERPLANE" ->
            UNION {HyperplaneKeys([dims |-> dims, w_size |-> size, ppn |-> ppn,
                                   angle_values |-> angles, tie |-> [d \in Dims |-> d]], rank) :
                     angles \in {hyperplane_sum_of_angles(stencil)}}
       [] config.alg = "STENCIL_STRIPS" ->
            UNION {StencilStripsKeys([dims |-> dims, world_size |-> size, roots |-> roots], rank) :
                     roots \in {Roots(dims, ppn, bounding_rectangle(stencil))}}
=============================================================================
