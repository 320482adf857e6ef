------------------------- MODULE HyperplaneTheorems -------------------------
(***************************************************************************)
(* Theorems about Hyperplane, for grids of every number of dimensions and  *)
(* every extent, every order of the dimensions and every node size.        *)
(***************************************************************************)
EXTENDS Hyperplane, GridTheorems

----------------------------------------------------------------------------
(***************************************************************************)
(* The inductive invariant: what holds of every call, and of every two.    *)
(***************************************************************************)
Given ==
  /\ input \in Inputs
  /\ n_processes_p_node = PartitionSize(input)

IsCall(c) ==
  c = [dims |-> c.dims, lo |-> c.lo, hi |-> c.hi, grid_size |-> c.grid_size,
       partition_id |-> c.partition_id, new_rank_coords |-> c.new_rank_coords,
       status |-> c.status]

\* The end points and the extents describe one box inside the grid.
Boxed(c) ==
  /\ c.dims \in Extents /\ c.lo \in [Dims -> Nat] /\ c.hi \in [Dims -> Nat]
  /\ \A d \in Dims : c.hi[d] - c.lo[d] + 1 = c.dims[d] /\ c.hi[d] < input.dims[d]

Sized(c) == c.grid_size = Volume(c.dims, ndims)

\* The box consists of whole partitions, p's among them.
Whole(c, p) ==
  /\ Aligned(c.grid_size)
  /\ my_partition(p) - c.partition_id \in 0 .. (c.grid_size \div n_processes_p_node) - 1

\* A call that has returned has a box that is not cut, and the coordinates of p in it.
Finished(c, p) ==
  /\ BaseCase(c)
  /\ c.new_rank_coords = base_case_new_coord_calculation(c, p)

Good(c, p) ==
  /\ IsCall(c) /\ Boxed(c) /\ Sized(c) /\ c.partition_id \in Nat
  /\ c.status \in {"calling", "returned", "unassigned"}
  /\ GridIsFull => Whole(c, p) /\ c.status # "unassigned"
  /\ c.status = "returned" => Finished(c, p)

\* Two processes share their box, or have come to be on two sides of a cut.
Together(b, c) ==
  /\ b.dims = c.dims /\ b.lo = c.lo /\ b.hi = c.hi /\ b.grid_size = c.grid_size
  /\ b.partition_id = c.partition_id /\ b.status = c.status

Separate(b, c) == \E d \in Dims : b.hi[d] < c.lo[d] \/ c.hi[d] < b.lo[d]

IInv ==
  /\ Given
  /\ call = [p \in Ranks |-> call[p]]
  /\ \A p \in Ranks : Good(call[p], p)
  /\ \A p, q \in Ranks : Together(call[p], call[q]) \/ Separate(call[p], call[q])

----------------------------------------------------------------------------
(***************************************************************************)
(* The size of a partition.                                                *)
(***************************************************************************)
LEMMA InputFacts ==
  ASSUME Given
  PROVE  /\ ndims \in Nat \ {0} /\ Dims = 0 .. ndims-1
         /\ input.dims \in Extents
         /\ input.angle_values \in [Dims -> Nat] /\ input.tie \in [Dims -> Dims]
         /\ \A i, j \in Dims : input.tie[i] = input.tie[j] => i = j
         /\ input.w_size \in Nat \ {0} /\ input.ppn \in 1 .. input.w_size
  BY NdimsAssumption, InputAssumption DEF Given, Dims

LEMMA PartitionFacts ==
  ASSUME Given
  PROVE  /\ n_processes_p_node \in 1 .. input.ppn
         /\ n_processes_p_node \in Nat \ {0}
         /\ Aligned(input.w_size)
<1> DEFINE divisors == {k \in 1 .. input.ppn : input.w_size % k = 0}
<1>1. input.w_size \in Nat \ {0} /\ input.ppn \in Nat \ {0}
  BY InputFacts
<1>2. 1 \in divisors
  <2>1. input.w_size % 1 = 0
    BY <1>1
  <2> QED
    BY <1>1, <2>1
<1>3. divisors \subseteq 0 .. input.ppn /\ divisors # {}
  BY <1>1, <1>2
<1>4. Max(divisors) \in divisors
  <2> HIDE DEF divisors
  <2> QED
    BY <1>1, <1>3, MaxOfSet
<1>5. n_processes_p_node \in divisors
  BY <1>4 DEF Given, PartitionSize
<1> QED
  BY <1>1, <1>5 DEF Aligned

----------------------------------------------------------------------------
(***************************************************************************)
(* Cuts.                                                                   *)
(***************************************************************************)
\* A box is made of layers of subvolume cells along each of its dimensions.
LEMMA Layers ==
  ASSUME Given, NEW c, Boxed(c), Sized(c), NEW i \in Dims
  PROVE  /\ c.grid_size \div c.dims[i] \in Nat \ {0}
         /\ c.dims[i] \in Nat \ {0} /\ c.grid_size \in Nat \ {0}
         /\ c.grid_size = (c.grid_size \div c.dims[i]) * c.dims[i]
         /\ c.dims[i] <= c.grid_size
         /\ \A x \in Nat : Volume([c.dims EXCEPT ![i] = x], ndims) =
                             (c.grid_size \div c.dims[i]) * x
<1>1. ndims \in Nat /\ c.dims \in [0 .. ndims-1 -> Nat \ {0}] /\ i \in 0 .. ndims-1
  BY InputFacts DEF Boxed, Extents
<1>2. PICK layer \in Nat \ {0} : \A x \in Nat : Volume([c.dims EXCEPT ![i] = x], ndims) = layer * x
  BY <1>1, VolumeOfLayers
<1>3. [c.dims EXCEPT ![i] = c.dims[i]] = c.dims /\ c.dims[i] \in Nat \ {0}
  BY <1>1
<1>4. c.grid_size = layer * c.dims[i]
  BY <1>2, <1>3 DEF Sized
<1>5. c.grid_size \div c.dims[i] = layer
  BY <1>3, <1>4, ExactQuotient
<1>6. c.dims[i] <= layer * c.dims[i] /\ layer * c.dims[i] \in Nat \ {0}
  BY <1>3
<1> QED
  BY <1>2, <1>3, <1>4, <1>5, <1>6

\* A cut leaves layers on both sides, and the search stops at the first aligned one.
LEMMA CutFacts ==
  ASSUME NEW d \in Nat, d >= 2, NEW subvolume
  PROVE  /\ BalancedCut(d, subvolume) \in 1 .. d-1
         /\ \/ BalancedCut(d, subvolume) = 1
            \/ Aligned(subvolume * BalancedCut(d, subvolume))
            \/ Aligned(subvolume * (d - BalancedCut(d, subvolume)))
         /\ \A l \in 1 .. d \div 2 : Aligned(subvolume * l) => BalancedCut(d, subvolume) >= l
<1> DEFINE cuts == {l \in 1 .. d \div 2 :
                      l = 1 \/ Aligned(subvolume * l) \/ Aligned(subvolume * (d - l))}
<1>1. d \div 2 \in Nat /\ 1 <= d \div 2 /\ d \div 2 <= d-1
  OBVIOUS
<1>2. 1 \in cuts /\ cuts \subseteq 0 .. d \div 2
  BY <1>1
<1>3. Max(cuts) \in cuts /\ \A l \in cuts : Max(cuts) >= l
  <2> HIDE DEF cuts
  <2> QED
    BY <1>1, <1>2, MaxOfSet
<1>4. BalancedCut(d, subvolume) = Max(cuts)
  BY DEF BalancedCut
<1>5. \A l \in 1 .. d \div 2 : Aligned(subvolume * l) => l \in cuts
  OBVIOUS
<1>6. \A l \in cuts : /\ l \in 1 .. d-1
                      /\ l = 1 \/ Aligned(subvolume * l) \/ Aligned(subvolume * (d - l))
  BY <1>1
<1> HIDE DEF cuts
<1> QED
  BY <1>3, <1>4, <1>5, <1>6

LEMMA SplitFacts ==
  ASSUME Given, NEW c, Boxed(c), NEW i \in Dims, c.dims[i] # 1
  PROVE  /\ split_lhs(c, i) \in 1 .. c.dims[i]-1
         /\ LET cut == BalancedCut(c.dims[i], c.grid_size \div c.dims[i])
            IN split_lhs(c, i) = cut \/ split_lhs(c, i) = c.dims[i] - cut
<1> DEFINE d == c.dims[i]
           cut == BalancedCut(d, c.grid_size \div d)
<1>1. d \in Nat /\ d >= 2
  <2>1. d \in Nat \ {0} /\ d # 1
    BY DEF Boxed, Extents
  <2> HIDE DEF d
  <2> QED
    BY <2>1
<1>2. cut \in 1 .. d-1
  BY <1>1, CutFacts
<1>3. split_lhs(c, i) = cut \/ split_lhs(c, i) = d - cut
  BY DEF split_lhs
<1> HIDE DEF cut, d
<1>4. split_lhs(c, i) \in 1 .. d-1
  BY <1>1, <1>2, <1>3
<1> QED
  BY <1>3, <1>4 DEF cut, d

\* Of two multiples of n_processes_p_node one is the difference of the other to a third.
LEMMA AlignedSum ==
  ASSUME Given, NEW x \in Nat, NEW y \in Nat
  PROVE  /\ Aligned(x) /\ Aligned(y) => Aligned(x + y) /\
              (x + y) \div n_processes_p_node = x \div n_processes_p_node + y \div n_processes_p_node
         /\ Aligned(x + y) /\ Aligned(x) => Aligned(y)
         /\ Aligned(x) => x \div n_processes_p_node \in Nat
<1> DEFINE n == n_processes_p_node
<1>0. n \in Nat \ {0}
  BY PartitionFacts
<1> HIDE DEF n
<1>1. Aligned(x) <=> x % n = 0
  BY DEF Aligned, n
<1>2. Aligned(y) <=> y % n = 0
  BY DEF Aligned, n
<1>3. Aligned(x + y) <=> (x + y) % n = 0
  BY DEF Aligned, n
<1>4. ASSUME x % n = 0, y % n = 0 PROVE (x + y) % n = 0 /\ (x + y) \div n = x \div n + y \div n
  <2> DEFINE a == x \div n
             b == y \div n
  <2>1. a \in Nat /\ b \in Nat /\ x = a * n /\ y = b * n
    BY <1>0, <1>4, Multiples
  <2> HIDE DEF a, b
  <2>2. x + y = (a + b) * n /\ a + b \in Nat
    BY <1>0, <2>1
  <2>3. (x + y) % n = 0 /\ (x + y) \div n = a + b
    <3>1. x + y \in Nat /\ a + b \in Int
      BY <2>2
    <3>2. (x + y) % n = 0
      BY <1>0, <2>2, <3>1, Multiples
    <3>3. ((a + b) * n) \div n = a + b
      BY <1>0, <2>2, ExactQuotient
    <3> QED
      BY <2>2, <3>2, <3>3
  <2> QED
    BY <2>3 DEF a, b
<1>5. ASSUME (x + y) % n = 0, x % n = 0 PROVE y % n = 0
  <2> DEFINE a == x \div n
             s == (x + y) \div n
  <2>1. a \in Nat /\ s \in Nat /\ x = a * n /\ x + y = s * n
    <3>1. x + y \in Nat
      OBVIOUS
    <3> QED
      BY <1>0, <1>5, <3>1, Multiples
  <2> HIDE DEF a, s
  <2>2. y = (s - a) * n /\ s - a \in Int
    BY <1>0, <2>1
  <2> QED
    BY <1>0, <2>2, Multiples
<1>6. x % n = 0 => x \div n \in Nat
  BY <1>0, Multiples
<1> QED
  BY <1>1, <1>2, <1>3, <1>4, <1>5, <1>6 DEF n

\* Among dimensions with a split there is one that comes before the others.
LEMMA FirstInOrder ==
  ASSUME Given, NEW dims \in Extents, NEW M \in Nat, \A i \in Dims : dims[i] <= M,
         NEW found, found \subseteq Dims, found # {}
  PROVE  \E i \in found : \A j \in found \ {i} : SortsBefore(dims, i, j)
<1> DEFINE angle == input.angle_values
           tie == input.tie
<1>1. /\ \A i \in Dims : angle[i] \in Nat /\ tie[i] \in Nat /\ dims[i] \in Nat /\ dims[i] \in 0 .. M
      /\ \A i, j \in Dims : tie[i] = tie[j] => i = j
  <2>1. /\ angle \in [Dims -> Nat] /\ tie \in [Dims -> Dims] /\ Dims \subseteq Nat
        /\ \A i, j \in Dims : tie[i] = tie[j] => i = j
    BY InputFacts
  <2>2. \A i \in Dims : dims[i] \in Nat /\ dims[i] \in 0 .. M
    BY DEF Extents
  <2> HIDE DEF angle, tie
  <2> QED
    BY <2>1, <2>2
<1> HIDE DEF angle, tie
<1>2. PICK i1 \in found : \A j \in found : angle[i1] <= angle[j]
  <2> DEFINE A == {angle[j] : j \in found}
  <2>1. A \subseteq Nat /\ A # {}
    BY <1>1
  <2>2. PICK a \in A : \A b \in A : a <= b
    BY <2>1, LeastElement
  <2> QED
    BY <2>2
<1> DEFINE F == {j \in found : angle[j] = angle[i1]}
<1>3. PICK i2 \in F : \A j \in F : dims[i2] >= dims[j]
  <2> DEFINE A == {dims[j] : j \in F}
  <2>1. A \subseteq 0 .. M /\ A # {}
    BY <1>1
  <2>2. Max(A) \in A /\ \A b \in A : Max(A) >= b
    <3> HIDE DEF A
    <3> QED
      BY <2>1, MaxOfSet
  <2> QED
    BY <2>2
<1> DEFINE G == {j \in F : dims[j] = dims[i2]}
<1>4. PICK i \in G : \A j \in G : tie[i] <= tie[j]
  <2> DEFINE A == {tie[j] : j \in G}
  <2>1. A \subseteq Nat /\ A # {}
    BY <1>1, <1>3
  <2>2. PICK a \in A : \A b \in A : a <= b
    <3> HIDE DEF A
    <3> QED
      BY <2>1, LeastElement
  <2> QED
    BY <2>2
<1>5. i \in found /\ angle[i] = angle[i1] /\ dims[i] = dims[i2] /\ i \in Dims
  BY <1>4
<1>6. ASSUME NEW j \in found \ {i} PROVE SortsBefore(dims, i, j)
  <2>0. j \in Dims /\ tie[i] # tie[j]
    BY <1>1, <1>5
  <2>1. CASE angle[j] # angle[i1]
    <3>1. angle[i] < angle[j]
      BY <1>1, <1>2, <1>5, <2>0, <2>1
    <3> QED
      BY <3>1 DEF SortsBefore, angle
  <2>2. CASE angle[j] = angle[i1] /\ dims[j] # dims[i2]
    <3>1. dims[i2] >= dims[j]
      BY <1>3, <2>2
    <3>2. angle[i] = angle[j] /\ dims[i] > dims[j]
      BY <1>1, <1>5, <2>0, <2>2, <3>1
    <3> QED
      BY <3>2 DEF SortsBefore, angle
  <2>3. CASE angle[j] = angle[i1] /\ dims[j] = dims[i2]
    <3>1. tie[i] <= tie[j]
      BY <1>4, <2>3
    <3>2. angle[i] = angle[j] /\ dims[i] = dims[j] /\ tie[i] < tie[j]
      BY <1>1, <1>5, <2>0, <2>3, <3>1
    <3> QED
      BY <3>2 DEF SortsBefore, angle, tie
  <2> QED
    BY <2>1, <2>2, <2>3
<1> QED
  BY <1>5, <1>6

\* As long as a box of whole partitions holds more than two of them, some dimension has
\* an aligned split: the number of partitions has a factor in common with an extent, and
\* a part of the layers along that dimension, the half of them at most, is aligned.
LEMMA SomeSplit ==
  ASSUME Given, NEW c, Boxed(c), Sized(c), Aligned(c.grid_size), ~ BaseCase(c)
  PROVE  \E i \in Dims : SplitFound(c, i)
<1> DEFINE n == n_processes_p_node
           m == c.grid_size \div n
<1>0. n \in Nat \ {0} /\ ndims \in Nat \ {0} /\ Dims = 0 .. ndims-1
  BY PartitionFacts, InputFacts
<1>1. c.grid_size \in Nat
  <2>1. 0 \in Dims
    BY <1>0
  <2> QED
    BY <2>1, Layers
<1>2. m \in Nat /\ c.grid_size = m * n
  BY <1>0, <1>1, Multiples DEF Aligned
<1>3. ~ (c.grid_size <= 2 * n)
  BY DEF BaseCase
<1> HIDE DEF n, m
<1>4. m > 1
  <2> SUFFICES ASSUME m <= 1 PROVE FALSE
    BY <1>2
  <2>1. m = 0 \/ m = 1
    BY <1>2
  <2> QED
    BY <1>0, <1>2, <1>3, <2>1
<1>5. PICK i \in Dims : ShareFactor(m, c.dims[i])
  <2>1. c.dims \in [0 .. ndims-1 -> Nat \ {0}] /\ Volume(c.dims, ndims) = n * m /\ n \in Int
    BY <1>0, <1>2 DEF Boxed, Sized, Extents
  <2> QED
    BY <1>0, <1>2, <1>4, <2>1, VolumeFactor
<1>6. PICK q \in Nat, u \in Nat, l \in Nat : q > 1 /\ m = q * u /\ c.dims[i] = q * l
  BY <1>5 DEF ShareFactor
<1> DEFINE d == c.dims[i]
           subvolume == c.grid_size \div d
<1>7. d \in Nat \ {0} /\ subvolume \in Nat \ {0} /\ c.grid_size = subvolume * d
  BY Layers
<1> HIDE DEF d, subvolume
<1>8. l \in 1 .. d \div 2 /\ d >= 2 /\ l < d
  <2>1. l # 0
    <3>1. l = 0 => q * l = 0
      BY <1>6
    <3> QED
      BY <1>6, <1>7, <3>1 DEF d
  <2>2. d >= 2 * l
    <3>1. q * l >= 2 * l
      BY <1>6
    <3> QED
      BY <1>6, <3>1 DEF d
  <2> QED
    BY <1>6, <1>7, <2>1, <2>2
<1>9. Aligned(subvolume * l)
  <2>1. q * (subvolume * l) = q * (u * n)
    <3>1. subvolume * d = q * (subvolume * l)
      BY <1>6, <1>7 DEF d
    <3>2. m * n = q * (u * n)
      BY <1>0, <1>6
    <3> QED
      BY <1>2, <1>7, <3>1, <3>2
  <2>2. subvolume * l = u * n
    <3> DEFINE x == subvolume * l
               y == u * n
    <3>1. x \in Int /\ y \in Int /\ q * x = q * y
      BY <1>0, <1>6, <1>7, <2>1
    <3> HIDE DEF x, y
    <3>2. q * (x - y) = 0
      BY <1>6, <3>1
    <3>3. CASE x - y >= 1
      <4>1. q * (x - y) >= q
        BY <1>6, <3>1, <3>3
      <4> QED
        BY <1>6, <3>2, <4>1
    <3>4. CASE x - y <= -1
      <4>1. q * (x - y) <= -q
        BY <1>6, <3>1, <3>4
      <4> QED
        BY <1>6, <3>1, <3>2, <4>1
    <3>5. x - y >= 1 \/ x - y <= -1 \/ x = y
      BY <3>1
    <3> QED
      BY <3>3, <3>4, <3>5 DEF x, y
  <2>3. subvolume * l \in Nat /\ u \in Int
    BY <1>6, <1>7
  <2> QED
    BY <1>0, <2>2, <2>3, Multiples DEF Aligned, n
<1> DEFINE cut == BalancedCut(d, subvolume)
<1>10. /\ cut \in 1 .. d-1 /\ cut >= l
       /\ cut = 1 \/ Aligned(subvolume * cut) \/ Aligned(subvolume * (d - cut))
  BY <1>7, <1>8, <1>9, CutFacts
<1> HIDE DEF cut
<1>11. /\ subvolume * cut \in Nat /\ subvolume * (d - cut) \in Nat
       /\ subvolume * cut + subvolume * (d - cut) = c.grid_size
       /\ subvolume * (d - cut) + subvolume * cut = c.grid_size
  <2>1. cut \in Nat /\ d - cut \in Nat /\ cut + (d - cut) = d
    BY <1>7, <1>10
  <2>2. subvolume * (cut + (d - cut)) = subvolume * cut + subvolume * (d - cut)
    BY <1>7, <2>1
  <2>3. subvolume * cut \in Nat /\ subvolume * (d - cut) \in Nat
    BY <1>7, <2>1
  <2> QED
    BY <1>7, <2>1, <2>2, <2>3
<1>12. Aligned(subvolume * cut) /\ Aligned(subvolume * (d - cut))
  <2>1. Aligned(subvolume * cut) \/ Aligned(subvolume * (d - cut))
    <3>1. cut = 1 => cut = l
      BY <1>6, <1>8, <1>10
    <3> QED
      BY <1>9, <1>10, <3>1
  <2>2. /\ Aligned(subvolume * cut) => Aligned(subvolume * (d - cut))
        /\ Aligned(subvolume * (d - cut)) => Aligned(subvolume * cut)
    <3> DEFINE x == subvolume * cut
               y == subvolume * (d - cut)
    <3>1. x \in Nat /\ y \in Nat /\ Aligned(x + y) /\ Aligned(y + x)
      BY <1>11
    <3> HIDE DEF x, y
    <3>2. (Aligned(x) => Aligned(y)) /\ (Aligned(y) => Aligned(x))
      BY <3>1, AlignedSum
    <3> QED
      BY <3>2 DEF x, y
  <2> QED
    BY <2>1, <2>2
<1>13. SplitFound(c, i)
  <2>1. d # 1
    BY <1>8
  <2>2. split_lhs(c, i) = cut \/ split_lhs(c, i) = d - cut
    BY DEF split_lhs, cut, d, subvolume
  <2>3. d - (d - cut) = cut
    BY <1>7, <1>10
  <2>4. Aligned(subvolume * split_lhs(c, i)) /\ Aligned(subvolume * (d - split_lhs(c, i)))
    BY <1>12, <2>2, <2>3
  <2> QED
    BY <2>1, <2>4 DEF SplitFound, d, subvolume
<1> QED
  BY <1>13

----------------------------------------------------------------------------
(***************************************************************************)
(* A level of the recursion.                                               *)
(***************************************************************************)
\* b is a part of c's box, and a smaller one.
Inside(b, c) ==
  /\ \A d \in Dims : b.lo[d] >= c.lo[d] /\ b.hi[d] <= c.hi[d]
  /\ \E d \in Dims : b.hi[d] - b.lo[d] < c.hi[d] - c.lo[d]
  /\ b.grid_size < c.grid_size

\* Both sides of a cut are boxes of the layers they were given.
LEMMA SidesAreBoxes ==
  ASSUME Given, NEW c, IsCall(c), Boxed(c), Sized(c), NEW i \in Dims, c.dims[i] # 1,
         NEW lhs \in 1 .. c.dims[i]-1,
         NEW subvolume, subvolume = c.grid_size \div c.dims[i],
         NEW b, b = LeftSide(c, i, lhs, subvolume) \/ b = RightSide(c, i, lhs, subvolume)
  PROVE  /\ IsCall(b) /\ Boxed(b) /\ Sized(b) /\ Inside(b, c) /\ b.status = c.status
         /\ b = LeftSide(c, i, lhs, subvolume) =>
              /\ b.grid_size = subvolume * lhs /\ b.partition_id = c.partition_id
              /\ b.hi[i] = c.lo[i] + lhs - 1
         /\ b = RightSide(c, i, lhs, subvolume) =>
              /\ b.grid_size = subvolume * (c.dims[i] - lhs)
              /\ b.partition_id = c.partition_id + ((subvolume * lhs) \div n_processes_p_node)
              /\ b.lo[i] = c.lo[i] + lhs
<1>1. /\ subvolume \in Nat \ {0} /\ c.dims[i] \in Nat \ {0} /\ c.grid_size = subvolume * c.dims[i]
      /\ \A x \in Nat : Volume([c.dims EXCEPT ![i] = x], ndims) = subvolume * x
  BY Layers
<1>2. /\ c.dims \in [Dims -> Nat \ {0}] /\ c.lo \in [Dims -> Nat] /\ c.hi \in [Dims -> Nat]
      /\ \A d \in Dims : c.hi[d] - c.lo[d] + 1 = c.dims[d] /\ c.hi[d] < input.dims[d]
      /\ input.dims \in [Dims -> Nat \ {0}]
  BY InputFacts DEF Boxed, Extents
<1>3. CASE b = LeftSide(c, i, lhs, subvolume)
  <2>1. b = [dims |-> [c.dims EXCEPT ![i] = lhs], lo |-> c.lo,
             hi |-> [c.hi EXCEPT ![i] = c.lo[i] + lhs - 1], grid_size |-> subvolume * lhs,
             partition_id |-> c.partition_id, new_rank_coords |-> c.new_rank_coords,
             status |-> c.status]
    BY <1>3 DEF LeftSide, IsCall
  <2>2. /\ b.dims = [c.dims EXCEPT ![i] = lhs] /\ b.lo = c.lo
        /\ b.hi = [c.hi EXCEPT ![i] = c.lo[i] + lhs - 1] /\ b.grid_size = subvolume * lhs
        /\ b.partition_id = c.partition_id /\ b.status = c.status
    BY <2>1
  <2>3. IsCall(b)
    BY <2>1 DEF IsCall
  <2>4. Boxed(b)
    <3>1. b.dims \in Extents /\ b.hi \in [Dims -> Nat]
      BY <1>1, <1>2, <2>2 DEF Extents
    <3>2. \A d \in Dims : b.hi[d] - b.lo[d] + 1 = b.dims[d] /\ b.hi[d] < input.dims[d]
      BY <1>1, <1>2, <2>2
    <3> QED
      BY <1>2, <2>2, <3>1, <3>2 DEF Boxed
  <2>5. Sized(b)
    <3>1. lhs \in Nat
      BY <1>1
    <3> QED
      BY <1>1, <2>2, <3>1 DEF Sized
  <2>6. Inside(b, c)
    <3>1. \A d \in Dims : b.lo[d] >= c.lo[d] /\ b.hi[d] <= c.hi[d]
      BY <1>1, <1>2, <2>2
    <3>2. b.hi[i] - b.lo[i] < c.hi[i] - c.lo[i]
      BY <1>1, <1>2, <2>2
    <3>3. subvolume * lhs < subvolume * c.dims[i]
      <4>1. lhs \in Nat /\ lhs + 1 <= c.dims[i]
        BY <1>1
      <4>2. subvolume * (lhs + 1) <= subvolume * c.dims[i]
        BY <1>1, <4>1
      <4>3. subvolume * (lhs + 1) = subvolume * lhs + subvolume
        BY <1>1, <4>1
      <4> QED
        BY <1>1, <4>1, <4>2, <4>3
    <3> QED
      BY <1>1, <2>2, <3>1, <3>2, <3>3 DEF Inside
  <2>7. b.hi[i] = c.lo[i] + lhs - 1
    BY <1>2, <2>2
  <2>8. b # RightSide(c, i, lhs, subvolume)
    <3>1. RightSide(c, i, lhs, subvolume).lo[i] = c.lo[i] + lhs
      BY <1>2 DEF RightSide, IsCall
    <3>2. b.lo[i] # c.lo[i] + lhs
      BY <1>1, <1>2, <2>2
    <3> QED
      BY <3>1, <3>2
  <2> QED
    BY <2>2, <2>3, <2>4, <2>5, <2>6, <2>7, <2>8
<1>4. CASE b = RightSide(c, i, lhs, subvolume)
  <2>1. b = [dims |-> [c.dims EXCEPT ![i] = c.dims[i] - lhs], lo |-> [c.lo EXCEPT ![i] = c.lo[i] + lhs],
             hi |-> c.hi, grid_size |-> subvolume * (c.dims[i] - lhs),
             partition_id |-> c.partition_id + ((subvolume * lhs) \div n_processes_p_node),
             new_rank_coords |-> c.new_rank_coords, status |-> c.status]
    BY <1>4 DEF RightSide, IsCall
  <2>2. /\ b.dims = [c.dims EXCEPT ![i] = c.dims[i] - lhs] /\ b.lo = [c.lo EXCEPT ![i] = c.lo[i] + lhs]
        /\ b.hi = c.hi /\ b.grid_size = subvolume * (c.dims[i] - lhs)
        /\ b.partition_id = c.partition_id + ((subvolume * lhs) \div n_processes_p_node)
        /\ b.status = c.status
    BY <2>1
  <2>3. IsCall(b)
    BY <2>1 DEF IsCall
  <2>4. Boxed(b)
    <3>1. b.dims \in Extents /\ b.lo \in [Dims -> Nat]
      BY <1>1, <1>2, <2>2 DEF Extents
    <3>2. \A d \in Dims : b.hi[d] - b.lo[d] + 1 = b.dims[d] /\ b.hi[d] < input.dims[d]
      BY <1>1, <1>2, <2>2
    <3> QED
      BY <1>2, <2>2, <3>1, <3>2 DEF Boxed
  <2>5. Sized(b)
    <3>1. c.dims[i] - lhs \in Nat
      BY <1>1
    <3> QED
      BY <1>1, <2>2, <3>1 DEF Sized
  <2>6. Inside(b, c)
    <3>1. \A d \in Dims : b.lo[d] >= c.lo[d] /\ b.hi[d] <= c.hi[d]
      BY <1>1, <1>2, <2>2
    <3>2. b.hi[i] - b.lo[i] < c.hi[i] - c.lo[i]
      BY <1>1, <1>2, <2>2
    <3>3. subvolume * (c.dims[i] - lhs) < subvolume * c.dims[i]
      <4>1. lhs \in Nat /\ lhs >= 1
        BY <1>1
      <4>2. subvolume * lhs >= subvolume
        BY <1>1, <4>1
      <4>3. subvolume * (c.dims[i] - lhs) = subvolume * c.dims[i] - subvolume * lhs
        BY <1>1, <4>1
      <4>4. subvolume * c.dims[i] \in Int /\ subvolume * lhs \in Int
        BY <1>1, <4>1
      <4> QED
        BY <1>1, <4>2, <4>3, <4>4
    <3> QED
      BY <1>1, <2>2, <3>1, <3>2, <3>3 DEF Inside
  <2>7. b.lo[i] = c.lo[i] + lhs
    BY <1>2, <2>2
  <2>8. b # LeftSide(c, i, lhs, subvolume)
    <3>1. LeftSide(c, i, lhs, subvolume).lo = c.lo
      BY DEF LeftSide, IsCall
    <3>2. b.lo[i] # c.lo[i]
      BY <1>1, <1>2, <2>7
    <3> QED
      BY <3>1, <3>2
  <2> QED
    BY <2>2, <2>3, <2>4, <2>5, <2>6, <2>7, <2>8
<1> QED
  BY <1>3, <1>4

\* The dimension that is cut, and the layers that are cut off along it.
Splittable(c) == {i \in Dims : SplitFound(c, i)}
Best(c) == CHOOSE i \in Splittable(c) : \A j \in Splittable(c) \ {i} : SortsBefore(c.dims, i, j)
Layer(c) == c.grid_size \div c.dims[Best(c)]
Lhs(c) == split_lhs(c, Best(c))

\* Whether p's partition lies among those that are cut off.
GoesLeft(c, p) ==
  my_partition(p) < c.partition_id + ((Layer(c) * Lhs(c)) \div n_processes_p_node)

LEMMA RecurseFacts ==
  ASSUME Given, NEW c, Boxed(c), Sized(c), Splittable(c) # {}, NEW p
  PROVE  /\ Best(c) \in Dims /\ c.dims[Best(c)] # 1
         /\ Lhs(c) \in 1 .. c.dims[Best(c)]-1
         /\ Aligned(Layer(c) * Lhs(c)) /\ Aligned(Layer(c) * (c.dims[Best(c)] - Lhs(c)))
         /\ Recurse(c, p) = IF GoesLeft(c, p) THEN LeftSide(c, Best(c), Lhs(c), Layer(c))
                            ELSE RightSide(c, Best(c), Lhs(c), Layer(c))
<1>1. \A i \in Dims : c.dims[i] <= c.grid_size /\ c.grid_size \in Nat
  BY Layers
<1>2. \E i \in Splittable(c) : \A j \in Splittable(c) \ {i} : SortsBefore(c.dims, i, j)
  <2>1. Splittable(c) \subseteq Dims
    BY DEF Splittable
  <2>2. c.dims \in Extents /\ c.grid_size \in Nat
    BY <1>1, <2>1 DEF Boxed
  <2> QED
    BY <1>1, <2>1, <2>2, FirstInOrder
<1>3. Best(c) \in Splittable(c)
  BY <1>2 DEF Best
<1>4. Best(c) \in Dims /\ SplitFound(c, Best(c))
  BY <1>3 DEF Splittable
<1>5. Recurse(c, p) = IF GoesLeft(c, p) THEN LeftSide(c, Best(c), Lhs(c), Layer(c))
                      ELSE RightSide(c, Best(c), Lhs(c), Layer(c))
  BY DEF Recurse, Best, Splittable, GoesLeft, Lhs, Layer
<1> QED
  BY <1>4, <1>5, SplitFacts DEF SplitFound, Lhs, Layer

\* The side that a process goes on with consists of whole partitions, its own among them.
LEMMA SidesAreWhole ==
  ASSUME Given, NEW c, IsCall(c), Boxed(c), Sized(c), c.partition_id \in Nat,
         Splittable(c) # {}, NEW p, my_partition(p) \in Int
  PROVE  /\ Recurse(c, p).partition_id \in Nat
         /\ Whole(c, p) => Whole(Recurse(c, p), p)
<1> DEFINE i == Best(c)
           lhs == Lhs(c)
           rhs == c.dims[i] - lhs
           layer == Layer(c)
           n == n_processes_p_node
           l == layer * lhs
           r == layer * rhs
           b == Recurse(c, p)
<1>1. /\ i \in Dims /\ c.dims[i] # 1 /\ lhs \in 1 .. c.dims[i]-1
      /\ Aligned(l) /\ Aligned(r)
      /\ b = IF GoesLeft(c, p) THEN LeftSide(c, i, lhs, layer) ELSE RightSide(c, i, lhs, layer)
  BY RecurseFacts
<1>2. /\ layer \in Nat \ {0} /\ c.dims[i] \in Nat \ {0} /\ c.grid_size = layer * c.dims[i]
      /\ layer = c.grid_size \div c.dims[i]
  BY <1>1, Layers DEF Layer
<1>3. /\ b = LeftSide(c, i, lhs, layer) =>
           b.grid_size = l /\ b.partition_id = c.partition_id
      /\ b = RightSide(c, i, lhs, layer) =>
           b.grid_size = r /\ b.partition_id = c.partition_id + (l \div n)
  <2> HIDE DEF i, lhs, layer, n, b
  <2> QED
    BY <1>1, <1>2, SidesAreBoxes DEF n
<1>4. l \in Nat /\ r \in Nat /\ c.grid_size = l + r
  <2> HIDE DEF i, lhs, layer, n, b
  <2>1. lhs \in Nat /\ rhs \in Nat /\ lhs + rhs = c.dims[i]
    BY <1>1, <1>2
  <2> HIDE DEF rhs
  <2>2. layer * (lhs + rhs) = layer * lhs + layer * rhs
    BY <1>2, <2>1
  <2> QED
    BY <1>2, <2>1, <2>2
<1> HIDE DEF l, r, b, n
<1>5. l \div n \in Nat /\ r \div n \in Nat /\ c.grid_size \div n = l \div n + r \div n
  BY <1>1, <1>4, AlignedSum DEF n
<1>6. GoesLeft(c, p) <=> my_partition(p) < c.partition_id + (l \div n)
  BY DEF GoesLeft, l, n
<1>7. CASE GoesLeft(c, p)
  <2>1. b.grid_size = l /\ b.partition_id = c.partition_id
    BY <1>1, <1>3, <1>7
  <2>2. Whole(c, p) => my_partition(p) - b.partition_id \in 0 .. (b.grid_size \div n) - 1
    BY <1>5, <1>6, <1>7, <2>1 DEF Whole, n
  <2> QED
    BY <1>1, <2>1, <2>2 DEF Whole, b, n
<1>8. CASE ~ GoesLeft(c, p)
  <2>1. b.grid_size = r /\ b.partition_id = c.partition_id + (l \div n)
    BY <1>1, <1>3, <1>8
  <2>2. Whole(c, p) => my_partition(p) - b.partition_id \in 0 .. (b.grid_size \div n) - 1
    BY <1>5, <1>6, <1>8, <2>1 DEF Whole, n
  <2>3. b.partition_id \in Nat
    BY <1>5, <2>1
  <2> QED
    BY <1>1, <2>1, <2>2, <2>3 DEF Whole, b, n
<1> QED
  BY <1>7, <1>8

\* The coordinates of the base case lie in the box.
LEMMA BaseCaseInBox ==
  ASSUME Given, NEW c, Boxed(c), c.partition_id \in Nat, NEW p \in Int, NEW d \in Dims
  PROVE  base_case_new_coord_calculation(c, p)[d] \in c.lo[d] .. c.hi[d]
<1> DEFINE span == [j \in Dims |-> c.hi[j] - c.lo[j] + 1]
           after == {j \in Dims : SortsBefore(c.dims, d, j)}
           diff == p - c.partition_id * n_processes_p_node
<1>1. span = c.dims /\ \A j \in Dims : span[j] \in Nat \ {0}
  BY DEF Boxed, Extents
<1>2. IsFiniteSet(after)
  <2>1. IsFiniteSet(Dims)
    <3>1. \A m, n \in Int : IsFiniteSet(m .. n)
      BY FS_Interval
    <3> QED
      BY <3>1, InputFacts
  <2> QED
    BY <2>1, FS_Subset
<1>3. taken(c, d) = ProductOver(span, after)
  BY DEF taken
<1> HIDE DEF span
<1>4. taken(c, d) \in Nat \ {0}
  <2>1. \A j \in after : span[j] \in Nat \ {0}
    BY <1>1
  <2> HIDE DEF after
  <2> QED
    BY <1>2, <1>3, <2>1, ProductPositive
<1>5. diff \in Int
  <2>1. n_processes_p_node \in Nat
    BY PartitionFacts
  <2> QED
    BY <2>1
<1> DEFINE q == diff \div taken(c, d)
           s == c.hi[d] - c.lo[d] + 1
<1>6. base_case_new_coord_calculation(c, p)[d] = c.lo[d] + (q % s)
  BY DEF base_case_new_coord_calculation
<1>7. q \in Int
  <2> HIDE DEF diff
  <2> QED
    BY <1>4, <1>5, DivMod
<1>8. s \in Nat \ {0} /\ c.lo[d] \in Nat /\ c.hi[d] \in Nat
  BY DEF Boxed, Extents
<1>9. q % s \in 0 .. s-1
  <2> HIDE DEF q, s
  <2> QED
    BY <1>7, <1>8, DivMod
<1> HIDE DEF q
<1> QED
  BY <1>6, <1>8, <1>9

\* The coordinates depend on the box and the process alone.
LEMMA SameBoxSamePlace ==
  ASSUME NEW b, NEW c, b.dims = c.dims, b.lo = c.lo, b.hi = c.hi,
         b.partition_id = c.partition_id, NEW p
  PROVE  base_case_new_coord_calculation(b, p) = base_case_new_coord_calculation(c, p)
<1>1. \A d \in Dims : taken(b, d) = taken(c, d)
  BY DEF taken
<1> QED
  BY <1>1 DEF base_case_new_coord_calculation

LEMMA FinishedInBox ==
  ASSUME Given, NEW c, Boxed(c), c.partition_id \in Nat, NEW p \in Ranks, Finished(c, p)
  PROVE  \A d \in Dims : c.new_rank_coords[d] \in c.lo[d] .. c.hi[d]
<1>1. p \in Int
  BY InputFacts DEF Ranks
<1> QED
  BY <1>1, BaseCaseInBox DEF Finished

\* The place of a process within its box counts it among the cells of the box.
LEMMA PlaceInBox ==
  ASSUME Given, NEW c, Boxed(c), Sized(c), c.partition_id \in Nat, NEW p \in Ranks, Whole(c, p)
  PROVE  p - c.partition_id * n_processes_p_node \in 0 .. c.grid_size-1
<1> DEFINE n == n_processes_p_node
           i == p \div n
           r == p % n
           m == c.grid_size \div n
           k == c.partition_id
<1>0. n \in Nat \ {0} /\ p \in Nat /\ c.grid_size \in Nat
  <2>1. 0 \in Dims /\ p \in Nat
    BY InputFacts DEF Ranks
  <2> QED
    BY <2>1, Layers, PartitionFacts
<1>1. c.grid_size % n = 0 /\ i - k \in 0 .. m-1
  BY DEF Whole, Aligned, my_partition
<1> HIDE DEF n
<1>2. i \in Nat /\ r \in 0 .. n-1 /\ p = n * i + r
  BY <1>0, Division
<1>3. m \in Nat /\ c.grid_size = m * n
  BY <1>0, <1>1, Multiples
<1> HIDE DEF i, r, m, k
<1>4. i - k \in Nat /\ i - k < m
  BY <1>1, <1>3
<1>5. (i - k) * n + r \in 0 .. m * n - 1
  BY <1>0, <1>2, <1>3, <1>4, DigitBelow
<1>6. k \in Nat
  BY DEF k
<1>7. p - k * n = (i - k) * n + r
  BY <1>0, <1>2, <1>6
<1> QED
  BY <1>3, <1>5, <1>7 DEF n, k

\* Two processes of one box that is not cut have different coordinates.
LEMMA PlacesInBoxDiffer ==
  ASSUME Given, NEW c, Boxed(c), Sized(c), c.partition_id \in Nat,
         NEW p \in Ranks, NEW q \in Ranks, Whole(c, p), Whole(c, q),
         base_case_new_coord_calculation(c, p) = base_case_new_coord_calculation(c, q)
  PROVE  p = q
<1> DEFINE before == {x \in Dims \X Dims : SortsBefore(c.dims, x[1], x[2])}
           m == p - c.partition_id * n_processes_p_node
           k == q - c.partition_id * n_processes_p_node
           weight(d) == ProductOver(c.dims, After(before, Dims, d))
<1>0. /\ ndims \in Nat /\ Dims = 0 .. ndims-1 /\ 0 \in Dims
      /\ c.dims \in [Dims -> Nat \ {0}]
      /\ c.lo \in [Dims -> Nat]
      /\ \A d \in Dims : c.hi[d] - c.lo[d] + 1 = c.dims[d]
  BY InputFacts DEF Boxed, Extents
<1>1. m \in 0 .. c.grid_size-1 /\ k \in 0 .. c.grid_size-1
  BY PlaceInBox
<1>2. c.grid_size \in Nat \ {0} /\ \A d \in Dims : c.dims[d] <= c.grid_size
  BY <1>0, Layers
<1>3. ProductOver(c.dims, Dims) = c.grid_size
  BY <1>0, ProductIsVolume DEF Sized
<1>4. IsOrder(before, Dims)
  <2>1. \A T \in SUBSET Dims : T # {} => \E x \in T : \A y \in T \ {x} : <<x, y>> \in before
    <3> SUFFICES ASSUME NEW T \in SUBSET Dims, T # {}
                 PROVE  \E x \in T : \A y \in T \ {x} : SortsBefore(c.dims, x, y)
      OBVIOUS
    <3>1. c.dims \in Extents
      BY <1>0 DEF Extents
    <3> QED
      BY <1>2, <3>1, FirstInOrder
  <2>2. ASSUME NEW x \in Dims, NEW y \in Dims, SortsBefore(c.dims, x, y)
        PROVE  ~ SortsBefore(c.dims, y, x)
    <3>1. /\ input.angle_values[x] \in Nat /\ input.angle_values[y] \in Nat
          /\ c.dims[x] \in Nat /\ c.dims[y] \in Nat
          /\ input.tie[x] \in Nat /\ input.tie[y] \in Nat
      <4>1. input.angle_values[x] \in Nat /\ input.angle_values[y] \in Nat
        BY InputFacts
      <4>2. input.tie[x] \in Dims /\ input.tie[y] \in Dims
        BY InputFacts
      <4> QED
        <5>1. c.dims[x] \in Nat /\ c.dims[y] \in Nat
          BY <1>0
        <5>2. Dims \subseteq Nat
          BY <1>0
        <5> QED
          BY <4>1, <4>2, <5>1, <5>2
    <3> QED
      BY <2>2, <3>1 DEF SortsBefore
  <2>3. \A x, y \in Dims : <<x, y>> \in before <=> SortsBefore(c.dims, x, y)
    OBVIOUS
  <2> HIDE DEF before
  <2> QED
    BY <2>1, <2>2, <2>3 DEF IsOrder
<1>5. IsFiniteSet(Dims) /\ \A d \in Dims : c.dims[d] \in Positive
  <2>1. \A i, j \in Int : IsFiniteSet(i .. j)
    BY FS_Interval
  <2> QED
    BY <1>0, <2>1 DEF Positive
<1>6. \A d \in Dims : taken(c, d) = weight(d) /\ weight(d) \in Positive
  <2> TAKE d \in Dims
  <2> DEFINE span == [j \in Dims |-> c.hi[j] - c.lo[j] + 1]
             after == {j \in Dims : SortsBefore(c.dims, d, j)}
  <2>1. span = c.dims
    BY <1>0
  <2>2. After(before, Dims, d) = after
    BY DEF After
  <2>3. taken(c, d) = ProductOver(span, after)
    BY DEF taken
  <2>4. IsFiniteSet(after) /\ \A j \in after : c.dims[j] \in Nat \ {0}
    BY <1>0, <1>5, FS_Subset
  <2> HIDE DEF span, after
  <2>5. ProductOver(c.dims, after) \in Nat \ {0}
    BY <2>4, ProductPositive
  <2> QED
    BY <2>1, <2>2, <2>3, <2>5 DEF Positive
<1>7. ASSUME NEW d \in Dims PROVE SameDigit(m, k, weight(d), c.dims[d])
  <2> DEFINE w == taken(c, d)
             a == (m \div w) % c.dims[d]
             b == (k \div w) % c.dims[d]
  <2>1. c.lo[d] + a = c.lo[d] + b
    BY <1>0 DEF base_case_new_coord_calculation
  <2>2. w \in Nat \ {0} /\ m \in Nat /\ k \in Nat /\ c.dims[d] \in Nat \ {0} /\ c.lo[d] \in Nat
    <3>1. w \in Nat \ {0}
      <4> HIDE DEF weight
      <4> QED
        BY <1>6 DEF Positive
    <3> HIDE DEF w, m, k
    <3>2. m \in Nat /\ k \in Nat
      BY <1>1, <1>2
    <3> QED
      BY <1>0, <3>1, <3>2
  <2> HIDE DEF w, m, k
  <2>3. m \div w \in Nat /\ k \div w \in Nat
    BY <2>2, Division
  <2>4. a \in Int /\ b \in Int
    BY <2>2, <2>3, Division
  <2> HIDE DEF a, b
  <2>5. a = b
    BY <2>1, <2>2, <2>4
  <2> QED
    BY <1>6, <2>5 DEF SameDigit, a, b, w
<1> HIDE DEF before, weight
<1>8. m = k
  <2>1. m \in Nat /\ k \in Nat /\ m < ProductOver(c.dims, Dims) /\ k < ProductOver(c.dims, Dims)
    BY <1>1, <1>2, <1>3
  <2> HIDE DEF m, k
  <2>2. \A d \in Dims : SameDigit(m, k, ProductOver(c.dims, After(before, Dims, d)), c.dims[d])
    BY <1>7 DEF weight
  <2> QED
    BY <1>4, <1>5, <2>1, <2>2, MixedRadix
<1>9. p \in Int /\ q \in Int /\ c.partition_id * n_processes_p_node \in Int
  <2>1. p \in Int /\ q \in Int /\ n_processes_p_node \in Nat
    BY InputFacts, PartitionFacts DEF Ranks
  <2> QED
    BY <2>1
<1> QED
  BY <1>8, <1>9

\* A process that is still in the recursion goes one level down; the others keep their call.
Advance(c, p) == IF c.status = "calling" THEN hyperplane_internal(c, p) ELSE c

\* One level keeps what holds of a call, and its box within the one it had.
LEMMA CallAdvances ==
  ASSUME Given, NEW c, NEW p \in Ranks, Good(c, p), NEW b, b = Advance(c, p)
  PROVE  /\ Good(b, p)
         /\ \A d \in Dims : b.lo[d] >= c.lo[d] /\ b.hi[d] <= c.hi[d]
         /\ b # c /\ b.status = "calling" => Inside(b, c)
<1>0. p \in Nat /\ my_partition(p) \in Int
  <2>1. p \in Nat /\ n_processes_p_node \in Nat \ {0}
    BY InputFacts, PartitionFacts DEF Ranks
  <2> QED
    BY <2>1, DivMod DEF my_partition
<1>1. /\ IsCall(c) /\ Boxed(c) /\ Sized(c) /\ c.partition_id \in Nat
      /\ c.status \in {"calling", "returned", "unassigned"}
      /\ GridIsFull => Whole(c, p) /\ c.status # "unassigned"
      /\ c.status = "returned" => Finished(c, p)
  BY DEF Good
<1>2. \A d \in Dims : c.lo[d] >= c.lo[d] /\ c.hi[d] <= c.hi[d]
  BY <1>1 DEF Boxed
<1>3. CASE c.status # "calling"
  BY <1>2, <1>3 DEF Advance
<1>4. CASE c.status = "calling" /\ BaseCase(c)
  <2>1. b = [c EXCEPT !.new_rank_coords = base_case_new_coord_calculation(c, p),
                      !.status = "returned"]
    BY <1>4 DEF Advance, hyperplane_internal
  <2> DEFINE coords == base_case_new_coord_calculation(c, p)
  <2> HIDE DEF coords
  <2>3. /\ IsCall(b) /\ b.dims = c.dims /\ b.lo = c.lo /\ b.hi = c.hi /\ b.grid_size = c.grid_size
        /\ b.partition_id = c.partition_id /\ b.new_rank_coords = coords /\ b.status = "returned"
    BY <1>1, <2>1 DEF IsCall, coords
  <2>4. Boxed(b) /\ Sized(b) /\ (GridIsFull => Whole(b, p))
    BY <1>1, <2>3 DEF Boxed, Sized, Whole
  <2>5. Finished(b, p)
    <3>1. coords = base_case_new_coord_calculation(b, p)
      BY <2>3, SameBoxSamePlace DEF coords
    <3> QED
      BY <1>4, <2>3, <3>1 DEF Finished, BaseCase
  <2>6. Good(b, p)
    BY <1>1, <2>3, <2>4, <2>5 DEF Good
  <2> QED
    BY <1>2, <2>3, <2>6
<1>5. CASE c.status = "calling" /\ ~ BaseCase(c) /\ Splittable(c) = {}
  <2>1. b = [c EXCEPT !.status = "unassigned"]
    BY <1>5 DEF Advance, hyperplane_internal, Recurse, Splittable
  <2>2. /\ IsCall(b) /\ b.dims = c.dims /\ b.lo = c.lo /\ b.hi = c.hi /\ b.grid_size = c.grid_size
        /\ b.partition_id = c.partition_id /\ b.status = "unassigned"
    BY <1>1, <2>1 DEF IsCall
  <2>3. ~ GridIsFull
    <3>1. SUFFICES ASSUME GridIsFull PROVE FALSE
      OBVIOUS
    <3>2. Aligned(c.grid_size)
      BY <1>1, <3>1 DEF Whole
    <3>3. \E i \in Dims : SplitFound(c, i)
      BY <1>1, <1>5, <3>2, SomeSplit
    <3> QED
      BY <1>5, <3>3 DEF Splittable
  <2>4. Boxed(b) /\ Sized(b)
    BY <1>1, <2>2 DEF Boxed, Sized
  <2>5. Good(b, p)
    BY <1>1, <2>2, <2>3, <2>4 DEF Good
  <2> QED
    BY <1>2, <2>2, <2>5
<1>6. CASE c.status = "calling" /\ ~ BaseCase(c) /\ Splittable(c) # {}
  <2>1. b = Recurse(c, p)
    BY <1>6 DEF Advance, hyperplane_internal
  <2>2. /\ Best(c) \in Dims /\ c.dims[Best(c)] # 1 /\ Lhs(c) \in 1 .. c.dims[Best(c)]-1
        /\ \/ b = LeftSide(c, Best(c), Lhs(c), Layer(c))
           \/ b = RightSide(c, Best(c), Lhs(c), Layer(c))
    BY <1>1, <1>6, <2>1, RecurseFacts
  <2>3. IsCall(b) /\ Boxed(b) /\ Sized(b) /\ Inside(b, c) /\ b.status = c.status
    BY <1>1, <2>2, SidesAreBoxes DEF Layer
  <2>4. b.partition_id \in Nat /\ (Whole(c, p) => Whole(b, p))
    BY <1>0, <1>1, <1>6, <2>1, SidesAreWhole
  <2>5. Good(b, p)
    BY <1>1, <1>6, <2>3, <2>4 DEF Good
  <2> QED
    BY <2>3, <2>5 DEF Inside
<1> QED
  BY <1>3, <1>4, <1>5, <1>6

\* Processes that share a box cut it alike; they go on with the same side, or with
\* different ones.
LEMMA TogetherAdvance ==
  ASSUME Given, NEW b, NEW c, NEW p \in Ranks, NEW q \in Ranks, Good(b, p), Good(c, q),
         Together(b, c)
  PROVE  Together(Advance(b, p), Advance(c, q)) \/ Separate(Advance(b, p), Advance(c, q))
<1>1. /\ IsCall(b) /\ Boxed(b) /\ Sized(b) /\ IsCall(c) /\ Boxed(c) /\ Sized(c)
  BY DEF Good
<1>2. /\ b.dims = c.dims /\ b.lo = c.lo /\ b.hi = c.hi /\ b.grid_size = c.grid_size
      /\ b.partition_id = c.partition_id /\ b.status = c.status
  BY DEF Together
<1>3. \A i : split_lhs(b, i) = split_lhs(c, i)
  BY <1>2 DEF split_lhs
<1>4. Splittable(b) = Splittable(c) /\ (BaseCase(b) <=> BaseCase(c))
  BY <1>2, <1>3 DEF Splittable, SplitFound, BaseCase
<1>5. CASE b.status # "calling"
  BY <1>2, <1>5 DEF Advance
<1>6. CASE b.status = "calling" /\ BaseCase(b)
  <2>1. /\ Advance(b, p) = [b EXCEPT !.new_rank_coords = base_case_new_coord_calculation(b, p),
                                    !.status = "returned"]
        /\ Advance(c, q) = [c EXCEPT !.new_rank_coords = base_case_new_coord_calculation(c, q),
                                    !.status = "returned"]
    BY <1>2, <1>4, <1>6 DEF Advance, hyperplane_internal
  <2> QED
    BY <1>1, <1>2, <2>1 DEF Together, IsCall
<1>7. CASE b.status = "calling" /\ ~ BaseCase(b) /\ Splittable(b) = {}
  <2>1. /\ Advance(b, p) = [b EXCEPT !.status = "unassigned"]
        /\ Advance(c, q) = [c EXCEPT !.status = "unassigned"]
    BY <1>2, <1>4, <1>7 DEF Advance, hyperplane_internal, Recurse, Splittable
  <2> QED
    BY <1>1, <1>2, <2>1 DEF Together, IsCall
<1>8. CASE b.status = "calling" /\ ~ BaseCase(b) /\ Splittable(b) # {}
  <2> DEFINE i == Best(c)
             lhs == Lhs(c)
             layer == Layer(c)
  <2>1. Best(b) = i /\ Lhs(b) = lhs /\ Layer(b) = layer
    <3>1. Best(b) = Best(c)
      BY <1>2, <1>4 DEF Best
    <3> QED
      BY <1>2, <1>3, <3>1 DEF Lhs, Layer
  <2>2. Advance(b, p) = Recurse(b, p) /\ Advance(c, q) = Recurse(c, q)
    BY <1>2, <1>4, <1>8 DEF Advance, hyperplane_internal
  <2>3. /\ i \in Dims /\ c.dims[i] # 1 /\ lhs \in 1 .. c.dims[i]-1
        /\ Recurse(b, p) = IF GoesLeft(b, p) THEN LeftSide(b, i, lhs, layer)
                           ELSE RightSide(b, i, lhs, layer)
        /\ Recurse(c, q) = IF GoesLeft(c, q) THEN LeftSide(c, i, lhs, layer)
                           ELSE RightSide(c, i, lhs, layer)
    <3>1. Recurse(b, p) = IF GoesLeft(b, p) THEN LeftSide(b, Best(b), Lhs(b), Layer(b))
                          ELSE RightSide(b, Best(b), Lhs(b), Layer(b))
      BY <1>1, <1>8, RecurseFacts
    <3>2. /\ i \in Dims /\ c.dims[i] # 1 /\ lhs \in 1 .. c.dims[i]-1
          /\ Recurse(c, q) = IF GoesLeft(c, q) THEN LeftSide(c, i, lhs, layer)
                             ELSE RightSide(c, i, lhs, layer)
      BY <1>1, <1>4, <1>8, RecurseFacts
    <3> QED
      BY <2>1, <3>1, <3>2
  <2>4. layer = c.grid_size \div c.dims[i]
    BY DEF Layer
  <2> HIDE DEF i, lhs, layer
  <2>5. c.lo[i] \in Nat /\ lhs \in Int
    BY <1>1, <2>3 DEF Boxed
  <2>6. CASE GoesLeft(b, p) /\ GoesLeft(c, q)
    BY <1>1, <1>2, <2>2, <2>3, <2>6 DEF Together, IsCall, LeftSide
  <2>7. CASE ~ GoesLeft(b, p) /\ ~ GoesLeft(c, q)
    BY <1>1, <1>2, <2>2, <2>3, <2>7 DEF Together, IsCall, RightSide
  <2>8. CASE GoesLeft(b, p) /\ ~ GoesLeft(c, q)
    <3>1. LeftSide(b, i, lhs, layer).hi[i] = b.lo[i] + lhs - 1
      BY <1>1, <1>2, <2>3, <2>4, SidesAreBoxes
    <3>2. RightSide(c, i, lhs, layer).lo[i] = c.lo[i] + lhs
      BY <1>1, <2>3, <2>4, SidesAreBoxes
    <3>3. Advance(b, p).hi[i] < Advance(c, q).lo[i]
      BY <1>2, <2>2, <2>3, <2>5, <2>8, <3>1, <3>2
    <3> QED
      BY <2>3, <3>3 DEF Separate
  <2>9. CASE ~ GoesLeft(b, p) /\ GoesLeft(c, q)
    <3>1. LeftSide(c, i, lhs, layer).hi[i] = c.lo[i] + lhs - 1
      BY <1>1, <2>3, <2>4, SidesAreBoxes
    <3>2. RightSide(b, i, lhs, layer).lo[i] = b.lo[i] + lhs
      BY <1>1, <1>2, <2>3, <2>4, SidesAreBoxes
    <3>3. Advance(c, q).hi[i] < Advance(b, p).lo[i]
      BY <1>2, <2>2, <2>3, <2>5, <2>9, <3>1, <3>2
    <3> QED
      BY <2>3, <3>3 DEF Separate
  <2> QED
    BY <2>6, <2>7, <2>8, <2>9
<1> QED
  BY <1>5, <1>6, <1>7, <1>8

\* Boxes on two sides of a cut stay there, as they never grow.
LEMMA SeparateAdvance ==
  ASSUME Given, NEW b, NEW c, NEW p \in Ranks, NEW q \in Ranks, Good(b, p), Good(c, q),
         Separate(b, c)
  PROVE  Separate(Advance(b, p), Advance(c, q))
<1> DEFINE x == Advance(b, p)
           y == Advance(c, q)
<1>1. Good(x, p) /\ \A d \in Dims : x.lo[d] >= b.lo[d] /\ x.hi[d] <= b.hi[d]
  BY CallAdvances
<1>2. Good(y, q) /\ \A d \in Dims : y.lo[d] >= c.lo[d] /\ y.hi[d] <= c.hi[d]
  BY CallAdvances
<1>3. \A d \in Dims : /\ b.lo[d] \in Int /\ b.hi[d] \in Int /\ c.lo[d] \in Int /\ c.hi[d] \in Int
                      /\ x.lo[d] \in Int /\ x.hi[d] \in Int /\ y.lo[d] \in Int /\ y.hi[d] \in Int
  <2> HIDE DEF x, y
  <2> QED
    BY <1>1, <1>2 DEF Good, Boxed
<1>4. PICK d \in Dims : b.hi[d] < c.lo[d] \/ c.hi[d] < b.lo[d]
  BY DEF Separate
<1> HIDE DEF x, y
<1>5. x.hi[d] < y.lo[d] \/ y.hi[d] < x.lo[d]
  BY <1>1, <1>2, <1>3, <1>4
<1> QED
  BY <1>5 DEF Separate, x, y

----------------------------------------------------------------------------
(***************************************************************************)
(* The invariant is kept.                                                  *)
(***************************************************************************)
LEMMA EntryIsGood ==
  ASSUME Given, NEW p \in Ranks
  PROVE  Good(EntryCall, p)
<1> DEFINE n == n_processes_p_node
           w == input.w_size
           c == EntryCall
<1>1. n \in Nat \ {0} /\ w \in Nat \ {0} /\ w % n = 0 /\ p \in 0 .. w-1
  BY InputFacts, PartitionFacts DEF Ranks, Aligned
<1>2. /\ c.dims = input.dims /\ c.lo = [d \in Dims |-> 0] /\ c.hi = [d \in Dims |-> input.dims[d]-1]
      /\ c.grid_size = Volume(input.dims, ndims) /\ c.partition_id = 0 /\ c.status = "calling"
  BY DEF EntryCall
<1>3. IsCall(c)
  BY DEF IsCall, EntryCall
<1>4. Boxed(c)
  <2>1. input.dims \in [Dims -> Nat \ {0}]
    BY InputFacts DEF Extents
  <2>2. c.hi \in [Dims -> Nat] /\ c.lo \in [Dims -> Nat]
    BY <1>2, <2>1
  <2>3. \A d \in Dims : c.hi[d] - c.lo[d] + 1 = c.dims[d] /\ c.hi[d] < input.dims[d]
    BY <1>2, <2>1
  <2> QED
    BY <1>2, <2>1, <2>2, <2>3 DEF Boxed, Extents
<1>5. Sized(c)
  BY <1>2 DEF Sized
<1>6. ASSUME GridIsFull PROVE Whole(c, p)
  <2>1. c.grid_size = w
    BY <1>2, <1>6 DEF GridIsFull
  <2> DEFINE m == w \div n
             k == p \div n
  <2>2. m \in Nat /\ w = m * n
    BY <1>1, Multiples
  <2>3. k \in Nat /\ p = k * n + (p % n) /\ p % n \in 0 .. n-1
    <3>0. p \in Int
      BY <1>1
    <3> HIDE DEF n
    <3>1. k \in Int /\ p % n \in 0 .. n-1 /\ p = n * k + (p % n)
      BY <1>1, <3>0, DivMod
    <3>2. k \in Nat
      BY <1>1
    <3>3. n * k = k * n
      BY <1>1, <3>1
    <3> QED
      BY <3>1, <3>2, <3>3
  <2> HIDE DEF k, m
  <2>4. k < m
    <3> SUFFICES ASSUME k >= m PROVE FALSE
      BY <2>2, <2>3
    <3>1. k * n >= m * n
      BY <1>1, <2>2, <2>3
    <3>2. k * n \in Int /\ m * n \in Int
      BY <1>1, <2>2, <2>3
    <3> QED
      BY <1>1, <2>2, <2>3, <3>1, <3>2
  <2>5. my_partition(p) - c.partition_id = k
    BY <1>2, <2>3 DEF my_partition, k
  <2> QED
    BY <1>1, <2>1, <2>2, <2>3, <2>4, <2>5 DEF Whole, Aligned, m
<1> QED
  BY <1>2, <1>3, <1>4, <1>5, <1>6 DEF Good

LEMMA Beginning == Init => IInv
<1> SUFFICES ASSUME Init PROVE IInv
  OBVIOUS
<1>1. Given
  BY DEF Init, Given
<1>2. call = [p \in Ranks |-> EntryCall]
  BY DEF Init
<1>3. call = [p \in Ranks |-> call[p]]
  BY <1>2
<1>4. \A p \in Ranks : Good(call[p], p)
  BY <1>1, <1>2, EntryIsGood
<1>5. \A p, q \in Ranks : Together(call[p], call[q])
  BY <1>2 DEF Together
<1> QED
  BY <1>1, <1>3, <1>4, <1>5 DEF IInv

\* What a step does to the calls.
LEMMA LevelAdvances ==
  ASSUME IInv, [Next]_vars
  PROVE  /\ UNCHANGED <<input, n_processes_p_node>>
         /\ \/ call' = [p \in Ranks |-> Advance(call[p], p)]
            \/ call' = call
  BY DEF Next, Level, vars, Advance

LEMMA Invariance == IInv /\ [Next]_vars => IInv'
<1> SUFFICES ASSUME IInv, [Next]_vars PROVE IInv'
  OBVIOUS
<1>1. Given /\ UNCHANGED <<input, n_processes_p_node>>
  BY LevelAdvances DEF IInv
<1>2. \/ call' = [p \in Ranks |-> Advance(call[p], p)]
      \/ call' = call
  BY LevelAdvances
<1>3. Given' /\ Ranks' = Ranks
  BY <1>1 DEF Given, PartitionSize, Ranks
<1>4. (call = [p \in Ranks |-> call[p]])'
  BY <1>2, <1>3 DEF IInv
<1>5. \A p \in Ranks : Good(call[p], p)'
  <2> SUFFICES ASSUME NEW p \in Ranks PROVE Good(call[p], p)'
    OBVIOUS
  <2> DEFINE b == call'[p]
  <2>1. Good(b, p)
    <3>1. Good(call[p], p)
      BY DEF IInv
    <3>2. Good(Advance(call[p], p), p)
      BY <1>1, <3>1, CallAdvances
    <3> QED
      BY <1>2, <3>1, <3>2
  <2>2. b = call'[p]
    OBVIOUS
  <2> HIDE DEF b
  <2>3. \A d \in Dims : taken(call[p], d)' = taken(b, d)
    BY <1>1, <2>2 DEF taken, SortsBefore
  <2>4. (base_case_new_coord_calculation(call[p], p))' = base_case_new_coord_calculation(b, p)
    BY <1>1, <2>2, <2>3 DEF base_case_new_coord_calculation
  <2>5. (b.status = "returned" => Finished(b, p)) => (call[p].status = "returned" => Finished(call[p], p))'
    BY <1>1, <2>2, <2>4 DEF Finished, BaseCase
  <2> QED
    BY <1>1, <2>1, <2>2, <2>5 DEF Good, IsCall, Boxed, Sized, Whole, GridIsFull, Aligned,
      my_partition
<1>6. \A p, q \in Ranks : (Together(call[p], call[q]) \/ Separate(call[p], call[q]))'
  <2> SUFFICES ASSUME NEW p \in Ranks, NEW q \in Ranks
               PROVE  (Together(call[p], call[q]) \/ Separate(call[p], call[q]))'
    OBVIOUS
  <2> DEFINE b == call'[p]
             c == call'[q]
  <2>1. Together(b, c) \/ Separate(b, c)
    <3>1. /\ Good(call[p], p) /\ Good(call[q], q)
          /\ Together(call[p], call[q]) \/ Separate(call[p], call[q])
      BY DEF IInv
    <3>2. \/ Together(Advance(call[p], p), Advance(call[q], q))
          \/ Separate(Advance(call[p], p), Advance(call[q], q))
      BY <1>1, <3>1, TogetherAdvance, SeparateAdvance
    <3>3. CASE call' = call
      BY <3>1, <3>3
    <3>4. CASE call' = [r \in Ranks |-> Advance(call[r], r)]
      BY <3>2, <3>4
    <3> QED
      BY <1>2, <3>3, <3>4
  <2>2. b = call'[p] /\ c = call'[q]
    OBVIOUS
  <2> HIDE DEF b, c
  <2> QED
    BY <2>1, <2>2 DEF Together, Separate
<1> QED
  BY <1>3, <1>4, <1>5, <1>6 DEF IInv

LEMMA InvariantHolds == Spec => []IInv
  BY Beginning, Invariance, PTL DEF Spec

----------------------------------------------------------------------------
(***************************************************************************)
(* What it implies.                                                        *)
(***************************************************************************)
\* The end points, extents, sizes and partition numbers that hyperplane_internal passes on
\* are what its C types and its divisions by them need: no extent ever becomes zero.
THEOREM TypesCorrect == Spec => []TypeOK
<1>1. IInv => TypeOK
  <2> SUFFICES ASSUME IInv PROVE TypeOK
    OBVIOUS
  <2>1. Given
    BY DEF IInv
  <2>2. input.dims \in Extents /\ n_processes_p_node \in 1 .. input.ppn
    BY <2>1, InputFacts, PartitionFacts
  <2>3. \A p \in Ranks :
          /\ call[p].dims \in Extents /\ call[p].lo \in [Dims -> Nat] /\ call[p].hi \in [Dims -> Nat]
          /\ call[p].partition_id \in Nat
          /\ call[p].status \in {"calling", "returned", "unassigned"}
    BY DEF IInv, Good, Boxed
  <2>4. \A p \in Ranks : call[p].grid_size \in Nat \ {0}
    <3> TAKE p \in Ranks
    <3>1. Boxed(call[p]) /\ Sized(call[p])
      BY DEF IInv, Good
    <3>2. 0 \in Dims
      BY <2>1, InputFacts
    <3> QED
      BY <2>1, <3>1, <3>2, Layers
  <2> QED
    BY <2>2, <2>3, <2>4 DEF TypeOK
<1> QED
  BY <1>1, InvariantHolds, PTL

\* The end points and the extents, which the recursion updates side by side, describe the
\* same box at every level, and it lies in the grid.
THEOREM PointsMatch == Spec => []GridPointsMatch
<1>1. IInv => GridPointsMatch
  BY DEF IInv, Good, Boxed, GridPointsMatch
<1> QED
  BY <1>1, InvariantHolds, PTL

\* On a full grid the search for a split never fails, whatever the extents and the size of
\* a partition: every process leaves the recursion with coordinates.
THEOREM AlwaysAssigned == Spec => []CoordinatesAssigned
<1>1. IInv => CoordinatesAssigned
  BY DEF IInv, Good, CoordinatesAssigned
<1> QED
  BY <1>1, InvariantHolds, PTL

\* On a full grid every subgrid consists of whole partitions, and a process never goes on
\* with a side that does not hold its own: the count of partitions on the left is exact.
THEOREM PartitionsStayWhole == Spec => []PartitionsWhole
<1>1. IInv => PartitionsWhole
  BY DEF IInv, Good, Sized, Whole, Aligned, PartitionsWhole
<1> QED
  BY <1>1, InvariantHolds, PTL

\* On a full grid the processes of a partition end in a box with at most one other
\* partition: the coordinates of everybody else lie outside that box.
THEOREM PartitionsAreCompact == Spec => []PartitionsCompact
<1>1. IInv => PartitionsCompact
  <2> SUFFICES ASSUME IInv, GridIsFull, NEW p \in Ranks, NEW q \in Ranks,
                      call[p].status = "returned", call[q].status = "returned",
                      my_partition(q) \notin call[p].partition_id .. call[p].partition_id + 1
               PROVE  \E d \in Dims : call[q].new_rank_coords[d] \notin call[p].lo[d] .. call[p].hi[d]
    BY DEF PartitionsCompact
  <2> DEFINE b == call[p]
             c == call[q]
             n == n_processes_p_node
  <2>1. /\ Given /\ Boxed(b) /\ Boxed(c) /\ Finished(c, q) /\ Whole(c, q) /\ Sized(c)
        /\ c.partition_id \in Nat
        /\ Together(b, c) \/ Separate(b, c)
    BY DEF IInv, Good
  <2>2. ASSUME Together(b, c) PROVE FALSE
    <3>1. b.partition_id = c.partition_id
      BY <2>2 DEF Together
    <3>2. n \in Nat \ {0} /\ c.grid_size \in Nat
      <4>1. 0 \in Dims
        BY <2>1, InputFacts
      <4> QED
        BY <2>1, <4>1, Layers, PartitionFacts
    <3>3. c.grid_size <= 2 * n /\ c.grid_size % n = 0
      BY <2>1 DEF Finished, BaseCase, Whole, Aligned
    <3> DEFINE m == c.grid_size \div n
    <3>4. my_partition(q) - c.partition_id \in 0 .. m - 1
      BY <2>1 DEF Whole
    <3>5. m \in Nat /\ c.grid_size = m * n
      BY <3>2, <3>3, Multiples
    <3> HIDE DEF b, c, n, m
    <3>6. m <= 2
      <4> SUFFICES ASSUME m >= 3 PROVE FALSE
        BY <3>5
      <4>1. m * n >= 3 * n
        BY <3>2, <3>5
      <4> QED
        BY <3>2, <3>3, <3>5, <4>1
    <3>7. my_partition(q) \in Int
      <4>1. q \in Int
        BY <2>1, InputFacts DEF Ranks
      <4> QED
        BY <3>2, <4>1, DivMod DEF my_partition, n
    <3>8. my_partition(q) \in c.partition_id .. c.partition_id + 1
      BY <2>1, <3>4, <3>5, <3>6, <3>7
    <3> QED
      BY <3>1, <3>8 DEF b
  <2>3. PICK d \in Dims : b.hi[d] < c.lo[d] \/ c.hi[d] < b.lo[d]
    BY <2>1, <2>2 DEF Separate
  <2>4. /\ b.lo[d] \in Nat /\ b.hi[d] \in Nat /\ c.lo[d] \in Nat /\ c.hi[d] \in Nat
        /\ c.new_rank_coords[d] \in c.lo[d] .. c.hi[d]
    BY <2>1, FinishedInBox DEF Boxed
  <2> HIDE DEF b, c
  <2>5. c.new_rank_coords[d] \notin b.lo[d] .. b.hi[d]
    BY <2>3, <2>4
  <2> QED
    BY <2>5 DEF b, c
<1> QED
  BY <1>1, InvariantHolds, PTL

\* On a full grid no two processes compute the same cell, and the keys of the split, the
\* ranks of the computed cells, are the ranks of the communicator, each once: process and
\* cell belong together after the split (hyperplane.cpp:281-298).
THEOREM KeysAreExact == Spec => []KeysAreRanks
<1>1. IInv => KeysAreRanks
  <2> SUFFICES ASSUME IInv, GridIsFull, \A p \in Ranks : call[p].status = "returned"
               PROVE  /\ \A p \in Ranks : InGrid(call[p].new_rank_coords, input.dims)
                      /\ {NewRank(p) : p \in Ranks} = Ranks
    BY DEF KeysAreRanks
  <2> DEFINE d == input.dims
             at == [p \in Ranks |-> call[p].new_rank_coords]
  <2>0. Given
    BY DEF IInv
  <2>1. /\ ndims \in Nat \ {0} /\ Dims = 0 .. ndims-1 /\ d \in [0 .. ndims-1 -> Nat \ {0}]
        /\ Ranks = 0 .. Volume(d, ndims)-1
    BY <2>0, InputFacts DEF Extents, Ranks, GridIsFull
  <2>2. \A p \in Ranks : /\ Boxed(call[p]) /\ Sized(call[p]) /\ call[p].partition_id \in Nat
                         /\ Finished(call[p], p) /\ Whole(call[p], p)
                         /\ \A i \in Dims : call[p].new_rank_coords[i] \in call[p].lo[i] .. call[p].hi[i]
    BY <2>0, FinishedInBox DEF IInv, Good
  <2>3. ASSUME NEW p \in Ranks, NEW i \in Dims
        PROVE  call[p].new_rank_coords[i] \in 0 .. d[i]-1
    <3>1. /\ call[p].lo[i] \in Nat /\ call[p].hi[i] \in Nat /\ d[i] \in Nat /\ call[p].hi[i] < d[i]
          /\ call[p].new_rank_coords[i] \in call[p].lo[i] .. call[p].hi[i]
      BY <2>1, <2>2 DEF Boxed
    <3> HIDE DEF d
    <3> QED
      BY <3>1
  <2>4. ASSUME NEW p \in Ranks, NEW q \in Ranks, at[p] = at[q] PROVE p = q
    <3> DEFINE b == call[p]
               c == call[q]
    <3>1. b.new_rank_coords = c.new_rank_coords
      BY <2>4
    <3>2. Together(b, c) \/ Separate(b, c)
      BY DEF IInv
    <3>3. CASE Separate(b, c)
      <4>1. PICK i \in Dims : b.hi[i] < c.lo[i] \/ c.hi[i] < b.lo[i]
        BY <3>3 DEF Separate
      <4>2. /\ b.lo[i] \in Nat /\ b.hi[i] \in Nat /\ c.lo[i] \in Nat /\ c.hi[i] \in Nat
            /\ b.new_rank_coords[i] \in b.lo[i] .. b.hi[i]
            /\ b.new_rank_coords[i] \in c.lo[i] .. c.hi[i]
        BY <2>2, <3>1 DEF Boxed
      <4> HIDE DEF b, c
      <4> QED
        BY <4>1, <4>2
    <3>4. CASE Together(b, c)
      <4>1. /\ b.dims = c.dims /\ b.lo = c.lo /\ b.hi = c.hi /\ b.grid_size = c.grid_size
            /\ b.partition_id = c.partition_id
        BY <3>4 DEF Together
      <4>2. /\ Boxed(c) /\ Sized(c) /\ c.partition_id \in Nat /\ Whole(b, p) /\ Whole(c, q)
            /\ b.new_rank_coords = base_case_new_coord_calculation(b, p)
            /\ c.new_rank_coords = base_case_new_coord_calculation(c, q)
        BY <2>2 DEF Finished
      <4> HIDE DEF b, c
      <4>3. Whole(c, p)
        BY <4>1, <4>2 DEF Whole
      <4>4. base_case_new_coord_calculation(b, p) = base_case_new_coord_calculation(c, p)
        BY <4>1, SameBoxSamePlace
      <4> QED
        BY <2>0, <3>1, <4>2, <4>3, <4>4, PlacesInBoxDiffer
    <3> QED
      BY <3>2, <3>3, <3>4
  <2>5. \A p \in Ranks : InGrid(call[p].new_rank_coords, input.dims)
    <3>1. DOMAIN input.dims = Dims
      BY <2>1
    <3> QED
      BY <2>3, <3>1 DEF InGrid
  <2>6. \A p \in Ranks : at[p] \in [0 .. ndims-1 -> Nat] /\ \A i \in 0 .. ndims-1 : at[p][i] < d[i]
    <3> SUFFICES ASSUME NEW p \in Ranks
                 PROVE  /\ call[p].new_rank_coords \in [0 .. ndims-1 -> Nat]
                        /\ \A i \in 0 .. ndims-1 : call[p].new_rank_coords[i] < d[i]
      OBVIOUS
    <3>1. \A i \in Dims : d[i] \in Nat
      BY <2>1
    <3>2. call[p].new_rank_coords = [i \in Dims |-> call[p].new_rank_coords[i]]
      BY <2>2 DEF Finished, base_case_new_coord_calculation
    <3> HIDE DEF d
    <3>3. \A i \in Dims : call[p].new_rank_coords[i] \in Nat /\ call[p].new_rank_coords[i] < d[i]
      BY <2>3, <3>1
    <3> QED
      BY <2>1, <3>2, <3>3
  <2>7. \A p \in Ranks : at[p] = call[p].new_rank_coords
    OBVIOUS
  <2> HIDE DEF d, at
  <2>8. AllPlaced(Ranks, at, d, ndims)
    BY <2>1, <2>4, <2>6 DEF AllPlaced
  <2>9. RanksAt(Ranks, at, d, ndims) = Ranks
    BY <2>1, <2>8, RanksOnto
  <2>10. {NewRank(p) : p \in Ranks} = Ranks
    BY <2>7, <2>9 DEF NewRank, RanksAt, d
  <2> QED
    BY <2>5, <2>10
<1> QED
  BY <1>1, InvariantHolds, PTL

\* A recursive call is made for a smaller part of the caller's box, cut off at a hyperplane:
\* the recursion cannot go round in circles.
THEOREM CallsShrink == Spec => SubgridsShrink
<1> DEFINE Shrink ==
      \A p \in Ranks : call'[p] # call[p] /\ call'[p].status = "calling" =>
        /\ call'[p].grid_size < call[p].grid_size
        /\ \A d \in Dims : call'[p].lo[d] >= call[p].lo[d] /\ call'[p].hi[d] <= call[p].hi[d]
        /\ \E d \in Dims : call'[p].hi[d] - call'[p].lo[d] < call[p].hi[d] - call[p].lo[d]
<1>1. IInv /\ [Next]_vars => [Shrink]_vars
  <2> SUFFICES ASSUME IInv, [Next]_vars, NEW p \in Ranks, call'[p] # call[p],
                      call'[p].status = "calling"
               PROVE  /\ call'[p].grid_size < call[p].grid_size
                      /\ \A d \in Dims : /\ call'[p].lo[d] >= call[p].lo[d]
                                         /\ call'[p].hi[d] <= call[p].hi[d]
                      /\ \E d \in Dims : call'[p].hi[d] - call'[p].lo[d] < call[p].hi[d] - call[p].lo[d]
    OBVIOUS
  <2>1. call'[p] = Advance(call[p], p)
    BY LevelAdvances
  <2>2. Given /\ Good(call[p], p)
    BY DEF IInv
  <2>3. Inside(call'[p], call[p])
    BY <2>1, <2>2, CallAdvances
  <2> QED
    BY <2>3 DEF Inside
<1>2. Spec => [][Shrink]_vars
  BY <1>1, InvariantHolds, PTL DEF Spec
<1> QED
  BY <1>2 DEF SubgridsShrink
=============================================================================
