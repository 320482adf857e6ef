------------------------ MODULE StencilStripsTheorems ------------------------
(***************************************************************************)
(* Theorems about StencilStrips, for grids of every number of dimensions   *)
(* and every extent, and whatever height of the strips the root asks for.  *)
(***************************************************************************)
EXTENDS StencilStrips, GridTheorems

\* A grid has at least one strip across a dimension, and no more than extent and root
\* have room for, unless that would be none.
LEMMA NumStrips ==
  ASSUME input.dims \in Extents, input.roots \in [Dims -> Nat], NEW dim \in Dims
  PROVE  /\ nroot(dim) \in Nat \ {0}
         /\ num_strips(dim) \in Nat \ {0}
         /\ \/ num_strips(dim) * nroot(dim) <= input.dims[dim]
            \/ num_strips(dim) = 1
<1> DEFINE r == nroot(dim)
           x == input.dims[dim]
<1>1. r \in Nat \ {0} /\ x \in Nat \ {0}
  BY DEF nroot, Extents
<1>2. num_strips(dim) = Max({1, x \div r})
  BY DEF num_strips
<1> HIDE DEF r, x
<1>3. x \div r \in Nat /\ (x \div r) * r <= x
  BY <1>1, Quotient
<1>4. \/ num_strips(dim) = 1
      \/ num_strips(dim) = x \div r /\ x \div r >= 1
  <2> DEFINE q == x \div r
  <2>1. q \in Nat
    BY <1>3
  <2> HIDE DEF q
  <2>2. \E y \in {1, q} : \A z \in {1, q} : y >= z
    <3>1. CASE q >= 1
      BY <2>1, <3>1
    <3>2. CASE ~ (q >= 1)
      BY <2>1, <3>2
    <3> QED
      BY <3>1, <3>2
  <2>3. Max({1, q}) \in {1, q} /\ \A z \in {1, q} : Max({1, q}) >= z
    BY <2>2 DEF Max
  <2> QED
    BY <1>2, <2>1, <2>3 DEF q
<1>5. /\ r \in Nat \ {0}
      /\ num_strips(dim) \in Nat \ {0}
      /\ num_strips(dim) * r <= x \/ num_strips(dim) = 1
  BY <1>1, <1>3, <1>4
<1> QED
  BY <1>5 DEF r, x

\* The strips of a dimension tile it.
LEMMA Tiles ==
  ASSUME input.dims \in Extents, input.roots \in [Dims -> Nat], NEW d \in Dims
  PROVE  /\ small_strip_height(d) >= 1
         /\ num_small_strips(d) >= 1
         /\ num_big_strips(d) * Height(d, TRUE) + num_small_strips(d) * Height(d, FALSE)
              = input.dims[d]
<1> DEFINE r == nroot(d)
           x == input.dims[d]
           n == num_strips(d)
           rem == remainder(d)
           h == rem \div n
           b == rem % n
<1>1. r \in Nat \ {0} /\ n \in Nat \ {0} /\ (n * r <= x \/ n = 1) /\ x \in Nat \ {0}
  BY NumStrips DEF Extents
<1>2. /\ small_strip_height(d) = r + h
      /\ num_big_strips(d) = b
      /\ num_small_strips(d) = n - b
      /\ rem = x - n * r
  BY DEF small_strip_height, num_big_strips, num_small_strips, remainder
<1>3. Height(d, TRUE) = r + h + 1 /\ Height(d, FALSE) = r + h + 0
  BY <1>2 DEF Height
<1> HIDE DEF r, x, n, rem
<1>4. rem \in Int
  BY <1>1, <1>2
<1>5. h \in Int /\ b \in 0 .. n-1 /\ rem = n * h + b
  BY <1>1, <1>4, DivMod
<1> HIDE DEF h, b
<1>6. r + h >= 1
  <2>1. CASE n = 1
    <3>1. b = 0 /\ rem = h /\ rem = x - r
      BY <1>1, <1>2, <1>5, <2>1
    <3> QED
      BY <1>1, <3>1
  <2>2. CASE n * r <= x
    <3>1. rem >= 0
      BY <1>1, <1>2, <1>4, <2>2
    <3>2. h >= 0
      <4> SUFFICES ASSUME h <= -1 PROVE FALSE
        BY <1>5
      <4>1. n * h <= n * (-1)
        BY <1>1, <1>5
      <4> QED
        BY <1>1, <1>5, <3>1, <4>1
    <3> QED
      BY <1>1, <1>5, <3>2
  <2> QED
    BY <1>1, <2>1, <2>2
<1>7. n - b >= 1
  BY <1>1, <1>5
<1>8. b * (r + h + 1) + (n - b) * (r + h + 0) = x
  <2>1. b \in Int /\ b * (r + h + 1) + (n - b) * (r + h) = n * (r + h) + b
    BY <1>1, <1>5
  <2>2. n * (r + h) + b = n * r + rem
    BY <1>1, <1>5
  <2> QED
    BY <1>1, <1>2, <1>5, <2>1, <2>2
<1> QED
  BY <1>2, <1>3, <1>6, <1>7, <1>8, <1>1, <1>5 DEF x

\* Big and small strips cover every dimension of every grid exactly, for every root.
THEOREM StripsAlwaysTile == Spec => []StripsTile
<1>1. Init => input \in Inputs
  BY DEF Init
<1>2. input \in Inputs /\ [Next]_vars => (input \in Inputs)'
  BY DEF Next, ChooseStrip, ComputeCoord, vars
<1>3. input \in Inputs => StripsTile
  BY InputAssumption, Tiles DEF StripsTile
<1> QED
  BY <1>1, <1>2, <1>3, PTL DEF Spec

----------------------------------------------------------------------------
(***************************************************************************)
(* The order of the dimensions.                                            *)
(***************************************************************************)
Given == input \in Inputs /\ dim_index \in 0 .. ndims+1

LEMMA InputFacts ==
  ASSUME Given
  PROVE  /\ ndims \in Nat \ {0} /\ Dims = 0 .. ndims-1 /\ dim_index \in Nat
         /\ input.dims \in Extents /\ input.roots \in [Dims -> Nat]
         /\ input.world_size \in Nat \ {0}
         /\ Volume(input.dims, ndims) <= input.world_size
  BY NdimsAssumption, InputAssumption DEF Given, Dims

LEMMA LongestDim == Given => max_dim \in Dims
<1> SUFFICES ASSUME Given PROVE max_dim \in Dims
  OBVIOUS
<1> DEFINE longest == {i \in Dims : \A j \in Dims : input.dims[j] <= input.dims[i]}
           lengths == {input.dims[i] : i \in Dims}
<1>0. ndims \in Nat \ {0} /\ Dims = 0 .. ndims-1 /\ input.dims \in [Dims -> Nat \ {0}]
  BY InputFacts DEF Extents
<1>1. longest # {}
  <2>1. \E M \in Nat : \A i \in Dims : input.dims[i] <= M
    <3> DEFINE d == input.dims
    <3>1. Volume(d, ndims) \in Nat
      BY <1>0, VolumePositive
    <3>2. ASSUME NEW i \in Dims PROVE d[i] <= Volume(d, ndims)
      <4>1. PICK layer \in Nat \ {0} : \A x \in Nat : Volume([d EXCEPT ![i] = x], ndims) = layer * x
        BY <1>0, VolumeOfLayers
      <4>2. [d EXCEPT ![i] = d[i]] = d /\ d[i] \in Nat \ {0}
        BY <1>0
      <4>3. Volume(d, ndims) = layer * d[i]
        BY <4>1, <4>2
      <4> DEFINE x == d[i]
      <4>4. x \in Nat \ {0}
        BY <4>2
      <4> HIDE DEF x
      <4>5. layer * x >= x
        BY <4>4
      <4> QED
        BY <4>3, <4>5 DEF x
    <3> QED
      BY <3>1, <3>2
  <2>2. PICK M \in Nat : \A i \in Dims : input.dims[i] <= M
    BY <2>1
  <2>3. lengths \subseteq 0 .. M /\ lengths # {}
    BY <1>0, <2>2
  <2>4. Max(lengths) \in lengths /\ \A l \in lengths : Max(lengths) >= l
    <3> HIDE DEF lengths
    <3> QED
      BY <2>3, MaxOfSet
  <2>5. PICK i \in Dims : input.dims[i] = Max(lengths)
    BY <2>4
  <2>6. \A j \in Dims : input.dims[j] \in lengths
    OBVIOUS
  <2>7. \A j \in Dims : input.dims[j] <= input.dims[i]
    <3>1. \A j \in Dims : Max(lengths) >= input.dims[j]
      BY <2>4, <2>6
    <3>2. \A j \in Dims : input.dims[j] \in Nat
      BY <1>0
    <3> HIDE DEF lengths
    <3> QED
      BY <2>5, <3>1, <3>2
  <2> QED
    BY <2>5, <2>7
<1>2. longest \subseteq Nat
  BY <1>0
<1>3. Min(longest) \in longest
  <2> HIDE DEF longest
  <2> QED
    BY <1>1, <1>2, MinOfSet
<1> QED
  BY <1>3 DEF max_dim

\* dim_order is a permutation of the dimensions.
LEMMA OrderFacts ==
  ASSUME Given
  PROVE  /\ \A i \in Dims : dim_order[i] \in Dims
         /\ \A i, j \in Dims : dim_order[i] = dim_order[j] => i = j
         /\ \A d \in Dims : \E i \in Dims : dim_order[i] = d
<1> DEFINE m == max_dim
<1>1. m \in Dims /\ ndims \in Nat \ {0} /\ Dims = 0 .. ndims-1
  BY LongestDim, InputFacts
<1>2. \A i \in Dims : dim_order[i] = IF i = ndims-1 THEN m ELSE IF i < m THEN i ELSE i+1
  BY DEF dim_order
<1> HIDE DEF m
<1>3. \A i \in Dims : dim_order[i] \in Dims
  BY <1>1, <1>2
<1>4. \A i, j \in Dims : dim_order[i] = dim_order[j] => i = j
  BY <1>1, <1>2
<1>5. ASSUME NEW d \in Dims PROVE \E i \in Dims : dim_order[i] = d
  <2>1. CASE d = m
    <3>1. ndims-1 \in Dims
      BY <1>1
    <3> QED
      BY <1>2, <2>1, <3>1
  <2>2. CASE d < m
    <3>1. d # ndims-1
      BY <1>1, <2>2
    <3> QED
      BY <1>2, <2>2, <3>1
  <2>3. CASE d > m
    <3>1. d-1 \in Dims /\ d-1 # ndims-1 /\ ~ (d-1 < m) /\ (d-1)+1 = d
      BY <1>1, <2>3
    <3> QED
      BY <1>2, <3>1
  <2> QED
    BY <1>1, <2>1, <2>2, <2>3
<1> QED
  BY <1>3, <1>4, <1>5

\* An iteration of the loop adds the next dimension of the order to those that are cut.
LEMMA CutGrows ==
  ASSUME Given, dim_index < ndims
  PROVE  /\ dim_index \in Dims /\ dim_order[dim_index] \in Dims \ Cut
         /\ {dim_order[k] : k \in {k \in Dims : k < dim_index+1}} = Cut \cup {dim_order[dim_index]}
<1>1. dim_index \in Dims
  BY InputFacts
<1>2. dim_order[dim_index] \in Dims \ Cut
  <2>1. \A k \in Dims : dim_order[k] = dim_order[dim_index] => k = dim_index
    BY <1>1, OrderFacts
  <2>2. dim_index \in Nat
    BY InputFacts
  <2> QED
    BY <1>1, <2>1, <2>2, OrderFacts DEF Cut
<1>3. \A k \in Dims : k < dim_index+1 <=> k < dim_index \/ k = dim_index
  BY InputFacts
<1> QED
  BY <1>1, <1>2, <1>3 DEF Cut

LEMMA AllCut ==
  ASSUME Given, dim_index >= ndims
  PROVE  Cut = Dims
<1>1. \A k \in Dims : k < dim_index
  BY InputFacts
<1> QED
  BY <1>1, OrderFacts DEF Cut

----------------------------------------------------------------------------
(***************************************************************************)
(* The strips of one dimension.                                            *)
(***************************************************************************)
Low(dim, strip) == LowestRow(dim, strip < num_big_strips(dim), strip)

Size(dim, strip) == Height(dim, strip < num_big_strips(dim))

\* The strips lie next to each other.
LEMMA Stacked ==
  ASSUME input.dims \in Extents, input.roots \in [Dims -> Nat], NEW d \in Dims
  PROVE  /\ num_strips(d) \in Nat \ {0}
         /\ \A k \in 0 .. num_strips(d)-1 :
              /\ Size(d, k) \in Nat \ {0}
              /\ Low(d, k) \in Nat
              /\ Low(d, k) + Size(d, k) <= input.dims[d]
              /\ k = 0 => Low(d, k) = 0
              /\ k = num_strips(d)-1 => Low(d, k) + Size(d, k) = input.dims[d]
         /\ \A k, l \in 0 .. num_strips(d)-1 :
              /\ k < l => Low(d, k) + Size(d, k) <= Low(d, l)
              /\ l = k+1 => Low(d, k) + Size(d, k) = Low(d, l)
<1> DEFINE n == num_strips(d)
           b == num_big_strips(d)
           h == small_strip_height(d)
           low(k) == k * h + (IF k < b THEN k ELSE b)
           size(k) == h + (IF k < b THEN 1 ELSE 0)
           x == input.dims[d]
<1>1. n \in Nat \ {0} /\ h \in Nat \ {0} /\ b \in 0 .. n-1 /\ x = n * h + b
  <2>1. n \in Nat \ {0} /\ nroot(d) \in Nat /\ x \in Nat
    BY NumStrips DEF Extents
  <2>2. remainder(d) \in Int
    BY <2>1 DEF remainder
  <2>3. remainder(d) \div n \in Int /\ b \in 0 .. n-1
    BY <2>1, <2>2, DivMod DEF num_big_strips
  <2>4. h \in Int /\ h >= 1
    <3>1. h >= 1
      BY Tiles
    <3>2. h \in Int
      BY <2>1, <2>3 DEF small_strip_height
    <3> QED
      BY <3>1, <3>2
  <2>5. b * (h + 1) + (n - b) * (h + 0) = x
    BY Tiles DEF Height, num_small_strips
  <2> HIDE DEF n, b, h, x
  <2> QED
    BY <2>1, <2>3, <2>4, <2>5
<1>2. \A k \in 0 .. n-1 : Low(d, k) = low(k) /\ Size(d, k) = size(k)
  BY DEF Low, Size, LowestRow, Height
<1> HIDE DEF n, b, h, x
<1>3. \A k \in 0 .. n-1 :
        /\ k * h \in Nat
        /\ size(k) \in Nat \ {0}
        /\ low(k) \in Nat
        /\ k = 0 => low(k) = 0
        /\ k = n-1 => low(k) + size(k) = x
  BY <1>1
<1>4. ASSUME NEW k \in 0 .. n-1, NEW l \in 0 .. n-1, k < l
      PROVE  low(k) + size(k) <= low(l)
  <2>1. l * h >= (k + 1) * h /\ (k + 1) * h = k * h + h /\ l * h \in Nat
    BY <1>1, <1>4
  <2> QED
    BY <1>1, <1>3, <1>4, <2>1
<1>5. \A k, l \in 0 .. n-1 : l = k+1 => low(k) + size(k) = low(l)
  BY <1>1
<1>6. ASSUME NEW k \in 0 .. n-1 PROVE low(k) + size(k) <= x
  <2>1. CASE k = n-1
    BY <1>1, <1>3, <2>1
  <2>2. CASE k # n-1
    <3>1. n-1 \in 0 .. n-1 /\ k < n-1
      BY <1>1, <2>2
    <3>2. low(k) + size(k) <= low(n-1)
      BY <1>4, <3>1
    <3>3. low(n-1) + size(n-1) = x /\ size(n-1) \in Nat /\ low(n-1) \in Nat
      BY <1>3, <3>1
    <3>4. low(k) \in Nat /\ size(k) \in Nat
      BY <1>3
    <3> HIDE DEF low, size
    <3> QED
      BY <3>2, <3>3, <3>4
  <2> QED
    BY <2>1, <2>2
<1> HIDE DEF low, size
<1>7. n \in Nat \ {0}
  BY <1>1
<1>8. \A k \in 0 .. n-1 :
        /\ Size(d, k) \in Nat \ {0}
        /\ Low(d, k) \in Nat
        /\ Low(d, k) + Size(d, k) <= x
        /\ k = 0 => Low(d, k) = 0
        /\ k = n-1 => Low(d, k) + Size(d, k) = x
  BY <1>2, <1>3, <1>6
<1>9. \A k, l \in 0 .. n-1 :
        /\ k < l => Low(d, k) + Size(d, k) <= Low(d, l)
        /\ l = k+1 => Low(d, k) + Size(d, k) = Low(d, l)
  BY <1>2, <1>4, <1>5
<1> QED
  BY <1>7, <1>8, <1>9 DEF n, x

\* The nth of c strips of s nodes each that has the node u.
LEMMA NthStrip ==
  ASSUME NEW u \in Nat, NEW c \in Nat, NEW s \in Nat \ {0}, u < c * s
  PROVE  u \div s \in 0 .. c-1 /\ u - (u \div s) * s \in 0 .. s-1
<1> DEFINE q == u \div s
<1>1. q \in Nat /\ q * s <= u /\ u < q * s + s
  BY Quotient
<1> HIDE DEF q
<1>2. q < c
  <2> SUFFICES ASSUME q >= c PROVE FALSE
    BY <1>1
  <2>1. q * s >= c * s /\ q * s \in Nat
    BY <1>1
  <2> QED
    BY <1>1, <2>1
<1>3. q * s \in Nat
  BY <1>1
<1>4. q \in 0 .. c-1 /\ u - q * s \in 0 .. s-1
  BY <1>1, <1>2, <1>3
<1> QED
  BY <1>4 DEF q

\* The strip that compute_stencil_strip chooses, and the rows that are filled before it.
ChosenStrip(w, dim) ==
  First(dim, InBigStrip(w, dim)) +
    (IF w.flip_next THEN Count(dim, InBigStrip(w, dim)) - (nth(w, dim) + 1) ELSE nth(w, dim))

RowsBefore(dim, strip, flipped) ==
  IF flipped THEN input.dims[dim] - Low(dim, strip) - Size(dim, strip) ELSE Low(dim, strip)

\* Where the nodes are whole rows, the process finds the strip that has its target
\* rank, and its index there.
LEMMA StripFound ==
  ASSUME input.dims \in Extents, input.roots \in [Dims -> Nat], NEW dim \in Dims,
         NEW w, w.target_rank \in Nat, w.flip_next \in BOOLEAN,
         NEW R \in Nat \ {0}, w.total_nodes = R * input.dims[dim], w.target_rank < w.total_nodes
  PROVE  /\ ChosenStrip(w, dim) \in 0 .. num_strips(dim)-1
         /\ Height(dim, InBigStrip(w, dim)) = Size(dim, ChosenStrip(w, dim))
         /\ LowestRow(dim, InBigStrip(w, dim), ChosenStrip(w, dim)) = Low(dim, ChosenStrip(w, dim))
         /\ strip_nodes(w, dim) = R * Size(dim, ChosenStrip(w, dim))
         /\ target_rank(w, dim) \in 0 .. R * Size(dim, ChosenStrip(w, dim)) - 1
         /\ target_rank(w, dim)
              = w.target_rank - R * RowsBefore(dim, ChosenStrip(w, dim), w.flip_next)
<1> DEFINE n == num_strips(dim)
           b == num_big_strips(dim)
           h == small_strip_height(dim)
           x == input.dims[dim]
           t == w.target_rank
           big == InBigStrip(w, dim)
           m == nth(w, dim)
           u == t - Surpassed(w, dim)
           s == strip_nodes(w, dim)
           k == ChosenStrip(w, dim)
           r == target_rank(w, dim)
           bigNodes == big_strip_nodes(w, dim)
           smallNodes == small_strip_nodes(w, dim)
<1>1. n \in Nat \ {0} /\ h \in Nat \ {0} /\ b \in 0 .. n-1 /\ x = n * h + b /\ x \in Nat \ {0}
  <2>1. n \in Nat \ {0} /\ nroot(dim) \in Nat /\ x \in Nat \ {0}
    BY NumStrips DEF Extents
  <2>2. remainder(dim) \in Int
    BY <2>1 DEF remainder
  <2>3. remainder(dim) \div n \in Int /\ b \in 0 .. n-1
    BY <2>1, <2>2, DivMod DEF num_big_strips
  <2>4. h \in Int
    BY <2>1, <2>3 DEF small_strip_height
  <2>5. h >= 1
    BY Tiles
  <2>6. b * (h + 1) + (n - b) * (h + 0) = x
    BY Tiles DEF Height, num_small_strips
  <2> HIDE DEF n, b, h, x
  <2> QED
    BY <2>1, <2>3, <2>4, <2>5, <2>6
<1>2. /\ Height(dim, TRUE) = h + 1
      /\ Height(dim, FALSE) = h
      /\ Count(dim, TRUE) = b
      /\ Count(dim, FALSE) = n - b
      /\ First(dim, TRUE) = 0
      /\ First(dim, FALSE) = b
  <2>1. h \in Int
    BY <1>1
  <2> HIDE DEF h
  <2> QED
    BY <2>1 DEF Height, Count, First, num_small_strips, h
<1>3. nodes_per_row(w, dim) = R
  <2>1. (R * x) \div x = R
    BY <1>1, ExactQuotient
  <2> QED
    BY <2>1 DEF nodes_per_row
<1>4. bigNodes = (h + 1) * b * R /\ smallNodes = R * x - bigNodes
  BY <1>2, <1>3 DEF big_strip_nodes, small_strip_nodes
<1> DEFINE flip == w.flip_next
<1>10. t \in Nat /\ t < R * x /\ flip \in BOOLEAN
  OBVIOUS
<1>11. bigNodes \in Nat /\ smallNodes \in Nat /\ smallNodes = (n - b) * (h * R)
  <2> HIDE DEF n, b, h, x, bigNodes, smallNodes
  <2>1. b \in Nat /\ n - b \in Nat /\ h * R \in Nat
    BY <1>1
  <2>2. (h + 1) * b * R \in Nat /\ (n - b) * (h * R) \in Nat
    BY <1>1, <2>1
  <2>3. R * (n * h + b) - (h + 1) * b * R = (n - b) * (h * R)
    BY <1>1, <2>1
  <2> QED
    BY <1>1, <1>4, <2>2, <2>3
<1>5. /\ big \in BOOLEAN
      /\ w.flip_next => (big <=> t >= smallNodes)
      /\ ~ w.flip_next => (big <=> t < bigNodes)
  <2> HIDE DEF smallNodes, bigNodes
  <2>1. CASE w.flip_next
    <3>1. big = (t >= smallNodes)
      BY <2>1 DEF InBigStrip, smallNodes
    <3> HIDE DEF big
    <3>2. (t >= smallNodes) \in BOOLEAN
      BY <1>11
    <3> QED
      BY <2>1, <3>1, <3>2
  <2>2. CASE ~ w.flip_next
    <3>1. big = (t < bigNodes)
      BY <2>2 DEF InBigStrip, bigNodes
    <3> HIDE DEF big
    <3>2. (t < bigNodes) \in BOOLEAN
      BY <1>11
    <3> QED
      BY <2>2, <3>1, <3>2
  <2> QED
    BY <2>1, <2>2
<1>5a. /\ w.flip_next /\ big => u = t - smallNodes
       /\ w.flip_next /\ ~ big => u = t - 0
       /\ ~ w.flip_next /\ big => u = t - 0
       /\ ~ w.flip_next /\ ~ big => u = t - bigNodes
  <2>1. /\ w.flip_next /\ big => Surpassed(w, dim) = smallNodes
        /\ w.flip_next /\ ~ big => Surpassed(w, dim) = 0
        /\ ~ w.flip_next /\ big => Surpassed(w, dim) = 0
        /\ ~ w.flip_next /\ ~ big => Surpassed(w, dim) = bigNodes
    <3> HIDE DEF smallNodes, bigNodes
    <3>1. Surpassed(w, dim) = IF big # w.flip_next THEN 0
                              ELSE IF w.flip_next THEN smallNodes ELSE bigNodes
      BY DEF Surpassed, smallNodes, bigNodes
    <3> HIDE DEF big
    <3> QED
      BY <1>5, <3>1
  <2> QED
    BY <2>1
<1>6. m = u \div s /\ r = u - m * s /\ s = Height(dim, big) * R
  BY <1>3 DEF nth, target_rank, strip_nodes
<1>7. /\ w.flip_next => k = First(dim, big) + (Count(dim, big) - (m + 1))
      /\ ~ w.flip_next => k = First(dim, big) + m
  BY DEF ChosenStrip
<1>8. /\ \A y : y < b => Size(dim, y) = h + 1 /\ Low(dim, y) = y * h + y
      /\ \A y : ~ (y < b) => Size(dim, y) = h /\ Low(dim, y) = y * h + b
  <2>1. ASSUME NEW y, y < b PROVE Size(dim, y) = h + 1 /\ Low(dim, y) = y * h + y
    <3>1. (y < num_big_strips(dim)) = TRUE
      BY <2>1
    <3>2. Size(dim, y) = Height(dim, TRUE) /\ Low(dim, y) = LowestRow(dim, TRUE, y)
      BY <3>1 DEF Size, Low
    <3> QED
      BY <1>2, <3>2 DEF LowestRow
  <2>2. ASSUME NEW y, ~ (y < b) PROVE Size(dim, y) = h /\ Low(dim, y) = y * h + b
    <3>1. (y < num_big_strips(dim)) = FALSE
      BY <2>2
    <3>2. Size(dim, y) = Height(dim, FALSE) /\ Low(dim, y) = LowestRow(dim, FALSE, y)
      BY <3>1 DEF Size, Low
    <3> QED
      BY <1>2, <3>2 DEF LowestRow
  <2> QED
    BY <2>1, <2>2
<1>9. \A y : LowestRow(dim, TRUE, y) = y * h + y /\ LowestRow(dim, FALSE, y) = y * h + b
  BY DEF LowestRow
<1>9a. /\ big => /\ Height(dim, big) = h + 1 /\ Count(dim, big) = b /\ First(dim, big) = 0
                 /\ \A y : LowestRow(dim, big, y) = y * h + y
       /\ ~ big => /\ Height(dim, big) = h /\ Count(dim, big) = n - b /\ First(dim, big) = b
                   /\ \A y : LowestRow(dim, big, y) = y * h + b
  <2> HIDE DEF big, n, b, h
  <2>1. CASE big
    <3>1. big = TRUE
      BY <1>5, <2>1
    <3> QED
      BY <1>2, <1>9, <3>1
  <2>2. CASE ~ big
    <3>1. big = FALSE
      BY <1>5, <2>2
    <3> QED
      BY <1>2, <1>9, <3>1
  <2> QED
    BY <2>1, <2>2
<1> HIDE DEF n, b, h, x, t, big, m, u, s, k, r, bigNodes, smallNodes, flip
<1> DEFINE Goal == /\ k \in 0 .. n-1
                   /\ Height(dim, big) = Size(dim, k)
                   /\ LowestRow(dim, big, k) = Low(dim, k)
                   /\ s = R * Size(dim, k)
                   /\ r \in 0 .. s - 1
                   /\ r = t - R * RowsBefore(dim, k, flip)
<1>12. ASSUME flip, big PROVE Goal
  <2>1. u = t - smallNodes /\ t >= smallNodes /\ s = (h + 1) * R
    BY <1>5, <1>5a, <1>6, <1>9a, <1>12 DEF flip
  <2>2. u \in Nat /\ u < b * s
    BY <1>1, <1>4, <1>10, <1>11, <2>1
  <2>3. s \in Nat \ {0} /\ b \in Nat
    BY <1>1, <2>1
  <2>4. m \in 0 .. b-1 /\ r \in 0 .. s-1
    BY <1>6, <2>2, <2>3, NthStrip
  <2>5. k = b - (m + 1) /\ k \in 0 .. n-1 /\ k < b
    <3>1. k = 0 + (b - (m + 1))
      BY <1>7, <1>9a, <1>12 DEF flip
    <3> QED
      BY <1>1, <2>4, <3>1
  <2>6. Size(dim, k) = h + 1 /\ Low(dim, k) = k * h + k
    BY <1>8, <2>5
  <2>7. RowsBefore(dim, k, flip) = x - (k * h + k) - (h + 1)
    BY <1>12, <2>6 DEF RowsBefore, x
  <2>8. R * (x - (k * h + k) - (h + 1)) = smallNodes + m * s
    BY <1>1, <1>11, <2>1, <2>4, <2>5
  <2>9. r = t - R * RowsBefore(dim, k, flip)
    <3>1. m * s \in Int
      BY <2>3, <2>4
    <3> QED
      BY <1>6, <1>10, <1>11, <2>1, <2>7, <2>8, <3>1
  <2>10. Height(dim, big) = Size(dim, k) /\ LowestRow(dim, big, k) = Low(dim, k)
    BY <1>9a, <1>12, <2>6
  <2>11. s = R * Size(dim, k)
    BY <1>1, <2>1, <2>6
  <2> QED
    BY <2>4, <2>5, <2>9, <2>10, <2>11
<1>13. ASSUME flip, ~ big PROVE Goal
  <2>1. u = t /\ t < smallNodes /\ s = h * R
    BY <1>5, <1>5a, <1>6, <1>9a, <1>10, <1>11, <1>13 DEF flip
  <2>2. u \in Nat /\ u < (n - b) * s
    BY <1>10, <1>11, <2>1
  <2>3. s \in Nat \ {0} /\ n - b \in Nat
    BY <1>1, <2>1
  <2>4. m \in 0 .. (n-b)-1 /\ r \in 0 .. s-1
    BY <1>6, <2>2, <2>3, NthStrip
  <2>5. k = b + ((n - b) - (m + 1)) /\ k \in 0 .. n-1 /\ ~ (k < b)
    <3>1. k = b + ((n - b) - (m + 1))
      BY <1>7, <1>9a, <1>13 DEF flip
    <3> QED
      BY <1>1, <2>4, <3>1
  <2>6. Size(dim, k) = h /\ Low(dim, k) = k * h + b
    BY <1>8, <2>5
  <2>7. RowsBefore(dim, k, flip) = x - (k * h + b) - h
    BY <1>13, <2>6 DEF RowsBefore, x
  <2>8. R * (x - (k * h + b) - h) = m * s
    BY <1>1, <2>1, <2>4, <2>5
  <2>9. r = t - R * RowsBefore(dim, k, flip)
    BY <1>6, <2>1, <2>7, <2>8
  <2>10. Height(dim, big) = Size(dim, k) /\ LowestRow(dim, big, k) = Low(dim, k)
    BY <1>9a, <1>13, <2>6
  <2>11. s = R * Size(dim, k)
    BY <1>1, <2>1, <2>6
  <2> QED
    BY <2>4, <2>5, <2>9, <2>10, <2>11
<1>14. ASSUME ~ flip, big PROVE Goal
  <2>1. u = t /\ t < bigNodes /\ s = (h + 1) * R
    <3>1. u = t - 0 /\ Height(dim, big) = h + 1 /\ t < bigNodes
      BY <1>5, <1>5a, <1>9a, <1>14 DEF flip
    <3> QED
      BY <1>6, <1>10, <3>1
  <2>2. u \in Nat /\ u < b * s
    <3>1. (h + 1) * b * R = b * ((h + 1) * R)
      BY <1>1
    <3> QED
      BY <1>4, <1>10, <2>1, <3>1
  <2>3. s \in Nat \ {0} /\ b \in Nat
    BY <1>1, <2>1
  <2>4. m \in 0 .. b-1 /\ r \in 0 .. s-1
    BY <1>6, <2>2, <2>3, NthStrip
  <2>5. k = m /\ k \in 0 .. n-1 /\ k < b
    <3>1. k = 0 + m
      BY <1>7, <1>9a, <1>14 DEF flip
    <3> QED
      BY <1>1, <2>4, <3>1
  <2>6. Size(dim, k) = h + 1 /\ Low(dim, k) = k * h + k
    BY <1>8, <2>5
  <2>7. RowsBefore(dim, k, flip) = k * h + k
    BY <1>14, <2>6 DEF RowsBefore
  <2>8. R * (k * h + k) = m * s
    BY <1>1, <2>1, <2>4, <2>5
  <2>9. r = t - R * RowsBefore(dim, k, flip)
    BY <1>6, <2>1, <2>7, <2>8
  <2>10. Height(dim, big) = Size(dim, k) /\ LowestRow(dim, big, k) = Low(dim, k)
    BY <1>9a, <1>14, <2>6
  <2>11. s = R * Size(dim, k)
    BY <1>1, <2>1, <2>6
  <2> QED
    BY <2>4, <2>5, <2>9, <2>10, <2>11
<1>15. ASSUME ~ flip, ~ big PROVE Goal
  <2>1. u = t - bigNodes /\ t >= bigNodes /\ s = h * R
    BY <1>5, <1>5a, <1>6, <1>9a, <1>10, <1>11, <1>15 DEF flip
  <2>2. u \in Nat /\ u < (n - b) * s
    BY <1>1, <1>4, <1>10, <1>11, <2>1
  <2>3. s \in Nat \ {0} /\ n - b \in Nat
    BY <1>1, <2>1
  <2>4. m \in 0 .. (n-b)-1 /\ r \in 0 .. s-1
    BY <1>6, <2>2, <2>3, NthStrip
  <2>5. k = b + m /\ k \in 0 .. n-1 /\ ~ (k < b)
    <3>1. k = b + m
      BY <1>7, <1>9a, <1>15 DEF flip
    <3> QED
      BY <1>1, <2>4, <3>1
  <2>6. Size(dim, k) = h /\ Low(dim, k) = k * h + b
    BY <1>8, <2>5
  <2>7. RowsBefore(dim, k, flip) = k * h + b
    BY <1>15, <2>6 DEF RowsBefore
  <2>8. R * (k * h + b) = bigNodes + m * s
    BY <1>1, <1>4, <2>1, <2>4, <2>5
  <2>9. r = t - R * RowsBefore(dim, k, flip)
    <3>1. m * s \in Int
      BY <2>3, <2>4
    <3> QED
      BY <1>6, <1>10, <1>11, <2>1, <2>7, <2>8, <3>1
  <2>10. Height(dim, big) = Size(dim, k) /\ LowestRow(dim, big, k) = Low(dim, k)
    BY <1>9a, <1>15, <2>6
  <2>11. s = R * Size(dim, k)
    BY <1>1, <2>1, <2>6
  <2> QED
    BY <2>4, <2>5, <2>9, <2>10, <2>11
<1>16. Goal
  BY <1>5, <1>10, <1>12, <1>13, <1>14, <1>15
<1> QED
  BY <1>16 DEF n, t, big, k, s, r, flip

----------------------------------------------------------------------------
(***************************************************************************)
(* One iteration of compute_stencil_strip's loop, in one process.  S is    *)
(* the set of the dimensions that are cut.                                 *)
(***************************************************************************)
Walks ==
  [target_rank : Nat, total_nodes : Nat, flip_next : BOOLEAN, coord : [Dims -> Int],
   strip_sizes : [Dims -> Nat], strip_coord : [Dims -> Int], flipped_dim : [Dims -> BOOLEAN]]

\* The bundle of strips a process is in.
Extent(w, S) == [d \in Dims |-> IF d \in S THEN w.strip_sizes[d] ELSE input.dims[d]]

Typed(w, S) ==
  /\ w \in Walks
  /\ Extent(w, S) \in Extents
  /\ Volume(Extent(w, S), ndims) <= w.total_nodes

LEMMA Fields ==
  ASSUME NEW w \in Walks, NEW dim \in Dims
  PROVE  /\ EnterStrip(w, dim).flipped_dim = [w.flipped_dim EXCEPT ![dim] = w.flip_next]
         /\ EnterStrip(w, dim).target_rank = target_rank(w, dim)
         /\ EnterStrip(w, dim).coord
              = [w.coord EXCEPT ![dim] =
                   @ + LowestRow(dim, InBigStrip(w, dim), ChosenStrip(w, dim))]
         /\ EnterStrip(w, dim).strip_sizes
              = [w.strip_sizes EXCEPT ![dim] = Height(dim, InBigStrip(w, dim))]
         /\ EnterStrip(w, dim).strip_coord = [w.strip_coord EXCEPT ![dim] = ChosenStrip(w, dim)]
         /\ EnterStrip(w, dim).flip_next = flip_next(w, ChosenStrip(w, dim))
         /\ EnterStrip(w, dim).total_nodes = strip_nodes(w, dim)
  BY DEF EnterStrip, ChosenStrip, Walks

LEMMA EnterIsWalk ==
  ASSUME NEW w \in Walks, NEW dim \in Dims,
         target_rank(w, dim) \in Nat, strip_nodes(w, dim) \in Nat, ChosenStrip(w, dim) \in Int,
         LowestRow(dim, InBigStrip(w, dim), ChosenStrip(w, dim)) \in Int,
         Height(dim, InBigStrip(w, dim)) \in Nat
  PROVE  EnterStrip(w, dim) \in Walks
<1> DEFINE k == ChosenStrip(w, dim)
           low == LowestRow(dim, InBigStrip(w, dim), k)
           size == Height(dim, InBigStrip(w, dim))
           t == target_rank(w, dim)
           s == strip_nodes(w, dim)
           f == flip_next(w, k)
<1>1. EnterStrip(w, dim) =
        [w EXCEPT !.flipped_dim[dim] = w.flip_next, !.target_rank = t, !.coord[dim] = @ + low,
                  !.strip_sizes[dim] = size, !.strip_coord[dim] = k, !.flip_next = f,
                  !.total_nodes = s]
  BY DEF EnterStrip, ChosenStrip
<1>2. f \in BOOLEAN
  BY DEF flip_next, Walks
<1>3. t \in Nat /\ s \in Nat /\ k \in Int /\ low \in Int /\ size \in Nat
  OBVIOUS
<1>4. /\ w.flipped_dim \in [Dims -> BOOLEAN] /\ w.coord \in [Dims -> Int]
      /\ w.strip_sizes \in [Dims -> Nat] /\ w.strip_coord \in [Dims -> Int]
      /\ w.flip_next \in BOOLEAN
  BY DEF Walks
<1> DEFINE flipped == [w.flipped_dim EXCEPT ![dim] = w.flip_next]
           coords == [w.coord EXCEPT ![dim] = @ + low]
           sizes == [w.strip_sizes EXCEPT ![dim] = size]
           strips == [w.strip_coord EXCEPT ![dim] = k]
<1> HIDE DEF k, low, size, t, s, f
<1>5. EnterStrip(w, dim) =
        [target_rank |-> t, total_nodes |-> s, flip_next |-> f, coord |-> coords,
         strip_sizes |-> sizes, strip_coord |-> strips, flipped_dim |-> flipped]
  BY <1>1 DEF Walks
<1>6. /\ flipped \in [Dims -> BOOLEAN] /\ coords \in [Dims -> Int]
      /\ sizes \in [Dims -> Nat] /\ strips \in [Dims -> Int]
  BY <1>3, <1>4
<1> HIDE DEF flipped, coords, sizes, strips
<1> QED
  BY <1>2, <1>3, <1>5, <1>6 DEF Walks

\* The extent of the bundle changes in the dimension that is cut.
LEMMA ExtentCut ==
  ASSUME Given, NEW S \in SUBSET Dims, NEW dim \in Dims \ S, NEW w \in Walks,
         Extent(w, S) \in Extents
  PROVE  \E layer \in Nat \ {0} :
           /\ Volume(Extent(w, S), ndims) = layer * input.dims[dim]
           /\ \A x \in Nat : Volume([Extent(w, S) EXCEPT ![dim] = x], ndims) = layer * x
<1> DEFINE e == Extent(w, S)
<1>1. e \in [0 .. ndims-1 -> Nat \ {0}] /\ dim \in 0 .. ndims-1 /\ ndims \in Nat
  BY InputFacts DEF Extents
<1>2. e[dim] = input.dims[dim]
  BY DEF Extent
<1> HIDE DEF e
<1>3. PICK layer \in Nat \ {0} : \A x \in Nat : Volume([e EXCEPT ![dim] = x], ndims) = layer * x
  BY <1>1, VolumeOfLayers
<1>4. [e EXCEPT ![dim] = e[dim]] = e /\ e[dim] \in Nat
  BY <1>1
<1>5. Volume(e, ndims) = layer * e[dim]
  BY <1>3, <1>4
<1> QED
  BY <1>2, <1>3, <1>5 DEF e

LEMMA ExtentEntered ==
  ASSUME NEW S \in SUBSET Dims, NEW dim \in Dims \ S, NEW w \in Walks
  PROVE  Extent(EnterStrip(w, dim), S \cup {dim})
           = [Extent(w, S) EXCEPT ![dim] = Height(dim, InBigStrip(w, dim))]
<1>1. EnterStrip(w, dim).strip_sizes
        = [w.strip_sizes EXCEPT ![dim] = Height(dim, InBigStrip(w, dim))]
  BY Fields
<1>2. w.strip_sizes \in [Dims -> Nat]
  BY DEF Walks
<1> QED
  BY <1>1, <1>2 DEF Extent

LEMMA EnterTyped ==
  ASSUME Given, NEW S \in SUBSET Dims, NEW dim \in Dims \ S, NEW w, Typed(w, S)
  PROVE  Typed(EnterStrip(w, dim), S \cup {dim})
<1> DEFINE x == input.dims[dim]
           h == small_strip_height(dim)
           b == num_big_strips(dim)
           n == num_strips(dim)
           R == nodes_per_row(w, dim)
           big == InBigStrip(w, dim)
           size == Height(dim, big)
           t == w.target_rank
           u == t - Surpassed(w, dim)
           s == strip_nodes(w, dim)
           m == nth(w, dim)
<1>1. w \in Walks /\ Extent(w, S) \in Extents /\ Volume(Extent(w, S), ndims) <= w.total_nodes
  BY DEF Typed
<1>2. x \in Nat \ {0} /\ input.dims \in Extents /\ input.roots \in [Dims -> Nat]
  BY InputFacts DEF Extents
<1>3. n \in Nat \ {0} /\ h \in Nat \ {0} /\ b \in 0 .. n-1
  <2>1. n \in Nat \ {0} /\ nroot(dim) \in Nat
    BY <1>2, NumStrips
  <2>2. remainder(dim) \in Int
    BY <1>2, <2>1 DEF remainder
  <2>3. remainder(dim) \div n \in Int /\ b \in 0 .. n-1
    BY <2>1, <2>2, DivMod DEF num_big_strips
  <2>4. h \in Int
    BY <2>1, <2>3 DEF small_strip_height
  <2>5. h >= 1
    BY <1>2, Tiles
  <2> HIDE DEF n, b, h
  <2> QED
    BY <2>1, <2>3, <2>4, <2>5
<1>4. PICK layer \in Nat \ {0} :
        /\ Volume(Extent(w, S), ndims) = layer * x
        /\ \A y \in Nat : Volume([Extent(w, S) EXCEPT ![dim] = y], ndims) = layer * y
  BY <1>1, ExtentCut
<1>5. t \in Nat /\ w.total_nodes \in Nat /\ w.flip_next \in BOOLEAN
  BY <1>1 DEF Walks
<1>6. R \in Nat /\ R >= layer
  <2> DEFINE total == w.total_nodes
  <2>1. R = total \div x
    BY DEF nodes_per_row
  <2>2. total \in Nat /\ layer * x <= total
    BY <1>1, <1>4, <1>5
  <2> HIDE DEF total, R, x
  <2>3. R \in Nat /\ total < R * x + x
    BY <1>2, <2>1, <2>2, Quotient
  <2>4. R >= layer
    <3> SUFFICES ASSUME R + 1 <= layer PROVE FALSE
      BY <2>3
    <3>1. (R + 1) * x <= layer * x
      BY <1>2, <2>3
    <3> QED
      BY <1>2, <2>2, <2>3, <3>1
  <2> QED
    BY <2>3, <2>4
<1>7. size \in Nat \ {0}
  <2> HIDE DEF h
  <2> QED
    BY <1>3 DEF Height, h
<1>8. s = size * R /\ s \in Nat \ {0} /\ layer * size <= s
  <2>1. s = size * R
    BY DEF strip_nodes
  <2> HIDE DEF s, size, R
  <2>2. size * layer <= size * R
    BY <1>6, <1>7
  <2> QED
    BY <1>6, <1>7, <2>1, <2>2
<1>9. u \in Nat
  <2> DEFINE bigNodes == big_strip_nodes(w, dim)
             smallNodes == small_strip_nodes(w, dim)
  <2>1. bigNodes \in Nat /\ smallNodes \in Int
    <3>1. bigNodes = Height(dim, TRUE) * b * R
      BY DEF big_strip_nodes
    <3>2. Height(dim, TRUE) \in Nat
      <4> HIDE DEF h
      <4> QED
        BY <1>3 DEF Height, h
    <3>3. smallNodes = w.total_nodes - bigNodes
      BY DEF small_strip_nodes
    <3> DEFINE higher == Height(dim, TRUE)
    <3>4. bigNodes = higher * b * R /\ higher \in Nat
      BY <3>1, <3>2
    <3> HIDE DEF bigNodes, smallNodes, R, b, higher
    <3>5. higher * b \in Nat
      BY <1>3, <3>4
    <3>6. higher * b * R \in Nat
      BY <1>6, <3>5
    <3> QED
      BY <1>5, <3>3, <3>4, <3>6
  <2>2. \/ Surpassed(w, dim) = 0
        \/ Surpassed(w, dim) = smallNodes /\ t >= smallNodes
        \/ Surpassed(w, dim) = bigNodes /\ ~ (t < bigNodes)
    <3>1. CASE w.flip_next
      BY <3>1 DEF Surpassed, InBigStrip
    <3>2. CASE ~ w.flip_next
      BY <3>2 DEF Surpassed, InBigStrip
    <3> QED
      BY <3>1, <3>2
  <2> HIDE DEF t, bigNodes, smallNodes
  <2> QED
    BY <1>5, <2>1, <2>2
<1>10. m \in Nat /\ target_rank(w, dim) \in Nat
  <2>1. m = u \div s /\ target_rank(w, dim) = u - m * s
    BY DEF nth, target_rank
  <2> HIDE DEF u, s, m
  <2>2. m \in Nat /\ m * s <= u
    BY <1>8, <1>9, <2>1, Quotient
  <2> QED
    BY <1>8, <1>9, <2>1, <2>2
<1>11. ChosenStrip(w, dim) \in Int
  <2>1. First(dim, big) \in Int /\ Count(dim, big) \in Int
    <3> HIDE DEF n, b, big
    <3> QED
      BY <1>3 DEF First, Count, num_small_strips, n, b
  <2>2. ChosenStrip(w, dim)
          = First(dim, big) + (IF w.flip_next THEN Count(dim, big) - (m + 1) ELSE m)
    BY DEF ChosenStrip
  <2> HIDE DEF m, big
  <2> QED
    BY <1>10, <2>1, <2>2
<1>12. LowestRow(dim, big, ChosenStrip(w, dim)) \in Int
  <2> HIDE DEF h, b, big
  <2>1. \A y \in Int : y * h + (IF big THEN y ELSE b) \in Int
    BY <1>3
  <2> QED
    BY <1>11, <2>1 DEF LowestRow, h, b
<1>13. EnterStrip(w, dim) \in Walks
  BY <1>1, <1>7, <1>8, <1>10, <1>11, <1>12, EnterIsWalk
<1>14. Extent(EnterStrip(w, dim), S \cup {dim}) = [Extent(w, S) EXCEPT ![dim] = size]
  BY <1>1, ExtentEntered
<1>15. Volume([Extent(w, S) EXCEPT ![dim] = size], ndims) <= s
  BY <1>4, <1>7, <1>8
<1>16. EnterStrip(w, dim).total_nodes = s
  BY <1>1, Fields
<1>17. [Extent(w, S) EXCEPT ![dim] = size] \in Extents
  BY <1>1, <1>7 DEF Extents
<1> QED
  BY <1>13, <1>14, <1>15, <1>16, <1>17 DEF Typed

----------------------------------------------------------------------------
(***************************************************************************)
(* The same in a full grid, where the nodes of a bundle are whole rows of  *)
(* every dimension that is not cut.                                        *)
(***************************************************************************)
Exact(w, S) ==
  /\ w.total_nodes = Volume(Extent(w, S), ndims)
  /\ w.target_rank < w.total_nodes
  /\ \A d \in S : /\ w.strip_coord[d] \in 0 .. num_strips(d)-1
                  /\ w.strip_sizes[d] = Size(d, w.strip_coord[d])
  /\ \A d \in Dims \ S : w.strip_coord[d] = 0

\* coord is the lowest corner of the bundle.
AtCorner(w, S) ==
  \A d \in Dims : w.coord[d] = IF d \in S THEN Low(d, w.strip_coord[d]) ELSE 0

\* What the iteration for dim makes of w, which has R nodes in a row: v, in strip k.
EnteredAt(w, v, dim, R, k) ==
  /\ R \in Nat \ {0}
  /\ k \in 0 .. num_strips(dim)-1
  /\ R = nodes_per_row(w, dim)
  /\ w.total_nodes = R * input.dims[dim]
  /\ v.target_rank = w.target_rank - R * RowsBefore(dim, k, w.flip_next)
  /\ v.total_nodes = R * Size(dim, k)
  /\ v.target_rank \in 0 .. R * Size(dim, k) - 1
  /\ v.flip_next = flip_next(w, k)
  /\ v.strip_coord = [w.strip_coord EXCEPT ![dim] = k]
  /\ v.strip_sizes = [w.strip_sizes EXCEPT ![dim] = Size(dim, k)]
  /\ v.flipped_dim = [w.flipped_dim EXCEPT ![dim] = w.flip_next]
  /\ v.coord = [w.coord EXCEPT ![dim] = @ + Low(dim, k)]

LEMMA EnterFacts ==
  ASSUME Given, NEW S \in SUBSET Dims, NEW dim \in Dims \ S, NEW w, Typed(w, S), Exact(w, S)
  PROVE  \E R, k : EnteredAt(w, EnterStrip(w, dim), dim, R, k)
<1> DEFINE x == input.dims[dim]
           R == nodes_per_row(w, dim)
           k == ChosenStrip(w, dim)
           v == EnterStrip(w, dim)
<1>1. w \in Walks /\ Extent(w, S) \in Extents
  BY DEF Typed
<1>2. PICK layer \in Nat \ {0} : Volume(Extent(w, S), ndims) = layer * x
  BY <1>1, ExtentCut
<1>3. x \in Nat \ {0} /\ input.dims \in Extents /\ input.roots \in [Dims -> Nat]
  BY InputFacts DEF Extents
<1>4. w.total_nodes = layer * x /\ w.target_rank < w.total_nodes
  BY <1>2 DEF Exact
<1>5. (layer * x) \div x = layer
  BY <1>3, ExactQuotient
<1>6. R = layer
  BY <1>4, <1>5 DEF nodes_per_row
<1>7. w.target_rank \in Nat /\ w.flip_next \in BOOLEAN
  BY <1>1 DEF Walks
<1>8. /\ k \in 0 .. num_strips(dim)-1
      /\ Height(dim, InBigStrip(w, dim)) = Size(dim, k)
      /\ LowestRow(dim, InBigStrip(w, dim), k) = Low(dim, k)
      /\ strip_nodes(w, dim) = layer * Size(dim, k)
      /\ target_rank(w, dim) \in 0 .. layer * Size(dim, k) - 1
      /\ target_rank(w, dim) = w.target_rank - layer * RowsBefore(dim, k, w.flip_next)
  BY <1>3, <1>4, <1>7, StripFound
<1>9. /\ v.target_rank = target_rank(w, dim)
      /\ v.total_nodes = strip_nodes(w, dim)
      /\ v.flip_next = flip_next(w, k)
      /\ v.strip_coord = [w.strip_coord EXCEPT ![dim] = k]
      /\ v.strip_sizes = [w.strip_sizes EXCEPT ![dim] = Height(dim, InBigStrip(w, dim))]
      /\ v.flipped_dim = [w.flipped_dim EXCEPT ![dim] = w.flip_next]
      /\ v.coord = [w.coord EXCEPT ![dim] = @ + LowestRow(dim, InBigStrip(w, dim), k)]
  BY <1>1, Fields
<1>10. EnteredAt(w, v, dim, layer, k)
  <2> HIDE DEF k, v, R, x
  <2>1. /\ v.strip_sizes = [w.strip_sizes EXCEPT ![dim] = Size(dim, k)]
        /\ v.coord = [w.coord EXCEPT ![dim] = @ + Low(dim, k)]
    BY <1>8, <1>9 DEF k
  <2> QED
    BY <1>4, <1>6, <1>8, <1>9, <2>1 DEF EnteredAt, R, x
<1> QED
  BY <1>10

LEMMA EnterExact ==
  ASSUME Given, NEW S \in SUBSET Dims, NEW dim \in Dims \ S, NEW w,
         Typed(w, S), Exact(w, S), AtCorner(w, S)
  PROVE  /\ Exact(EnterStrip(w, dim), S \cup {dim})
         /\ AtCorner(EnterStrip(w, dim), S \cup {dim})
<1> DEFINE v == EnterStrip(w, dim)
           x == input.dims[dim]
           U == S \cup {dim}
<1>1. w \in Walks /\ Extent(w, S) \in Extents
  BY DEF Typed
<1>2a. PICK R, k : EnteredAt(w, v, dim, R, k)
  BY EnterFacts
<1>2. /\ R \in Nat \ {0} /\ k \in 0 .. num_strips(dim)-1
      /\ w.total_nodes = R * x
      /\ v.total_nodes = R * Size(dim, k)
      /\ v.target_rank \in 0 .. R * Size(dim, k) - 1
      /\ v.strip_coord = [w.strip_coord EXCEPT ![dim] = k]
      /\ v.strip_sizes = [w.strip_sizes EXCEPT ![dim] = Size(dim, k)]
      /\ v.coord = [w.coord EXCEPT ![dim] = @ + Low(dim, k)]
  BY <1>2a DEF EnteredAt
<1>3. PICK layer \in Nat \ {0} :
        /\ Volume(Extent(w, S), ndims) = layer * x
        /\ \A y \in Nat : Volume([Extent(w, S) EXCEPT ![dim] = y], ndims) = layer * y
  BY <1>1, ExtentCut
<1>4. x \in Nat \ {0} /\ input.dims \in Extents /\ input.roots \in [Dims -> Nat]
  BY InputFacts DEF Extents
<1>5. Size(dim, k) \in Nat \ {0} /\ Low(dim, k) \in Nat
  BY <1>2, <1>4, Stacked
<1>6. /\ w.strip_coord \in [Dims -> Int] /\ w.strip_sizes \in [Dims -> Nat]
      /\ w.coord \in [Dims -> Int]
  BY <1>1 DEF Walks
<1> HIDE DEF v
<1>7. v.total_nodes = Volume(Extent(v, U), ndims)
  <2>1. Extent(v, U) = [Extent(w, S) EXCEPT ![dim] = Size(dim, k)]
    BY <1>2, <1>6 DEF Extent
  <2>2. Volume(Extent(v, U), ndims) = layer * Size(dim, k)
    BY <1>3, <1>5, <2>1
  <2>3. R = layer
    <3>1. R * x = layer * x
      BY <1>2, <1>3 DEF Exact
    <3>2. (R * x) \div x = R /\ (layer * x) \div x = layer
      BY <1>2, <1>4, ExactQuotient
    <3> QED
      BY <3>1, <3>2
  <2> QED
    BY <1>2, <2>2, <2>3
<1>8. v.target_rank < v.total_nodes
  <2>1. R * Size(dim, k) \in Nat
    BY <1>2, <1>5
  <2> QED
    BY <1>2, <2>1
<1>9. \A d \in U : /\ v.strip_coord[d] \in 0 .. num_strips(d)-1
                   /\ v.strip_sizes[d] = Size(d, v.strip_coord[d])
  BY <1>2, <1>6 DEF Exact
<1>10. \A d \in Dims \ U : v.strip_coord[d] = 0
  BY <1>2, <1>6 DEF Exact
<1>11. AtCorner(v, U)
  <2>1. ASSUME NEW d \in Dims, d # dim
        PROVE  v.coord[d] = IF d \in U THEN Low(d, v.strip_coord[d]) ELSE 0
    BY <1>2, <1>6, <2>1 DEF AtCorner
  <2>2. v.coord[dim] = Low(dim, v.strip_coord[dim])
    <3>1. w.coord[dim] = 0
      BY DEF AtCorner
    <3>2. v.coord[dim] = 0 + Low(dim, k) /\ v.strip_coord[dim] = k
      BY <1>2, <1>6, <3>1
    <3> QED
      BY <1>5, <3>2
  <2> QED
    BY <2>1, <2>2 DEF AtCorner
<1>12. Exact(v, U)
  BY <1>7, <1>8, <1>9, <1>10 DEF Exact
<1> QED
  BY <1>11, <1>12 DEF v

----------------------------------------------------------------------------
(***************************************************************************)
(* Two processes: p, whose variables are v, and q, whose are w.            *)
(***************************************************************************)
Alike(v, w, p, q) ==
  /\ v.strip_sizes = w.strip_sizes
  /\ v.flip_next = w.flip_next
  /\ v.flipped_dim = w.flipped_dim
  /\ v.total_nodes = w.total_nodes
  /\ p - v.target_rank = q - w.target_rank

Paired(v, w, p, q) ==
  /\ v.strip_coord = w.strip_coord => Alike(v, w, p, q)
  /\ q \in (p - v.target_rank) .. (p - v.target_rank + v.total_nodes - 1) =>
       v.strip_coord = w.strip_coord

LEMMA RowsApart ==
  ASSUME Given, NEW dim \in Dims, NEW k \in 0 .. num_strips(dim)-1,
         NEW l \in 0 .. num_strips(dim)-1, NEW flipped \in BOOLEAN
  PROVE  /\ RowsBefore(dim, k, flipped) \in Nat /\ Size(dim, k) \in Nat \ {0}
         /\ RowsBefore(dim, k, flipped) + Size(dim, k) <= input.dims[dim]
         /\ k # l => \/ RowsBefore(dim, k, flipped) + Size(dim, k) <= RowsBefore(dim, l, flipped)
                     \/ RowsBefore(dim, l, flipped) + Size(dim, l) <= RowsBefore(dim, k, flipped)
         /\ k < l /\ ~ flipped =>
              RowsBefore(dim, k, flipped) + Size(dim, k) <= RowsBefore(dim, l, flipped)
         /\ k < l /\ flipped =>
              RowsBefore(dim, l, flipped) + Size(dim, l) <= RowsBefore(dim, k, flipped)
         /\ l = k+1 /\ ~ flipped =>
              RowsBefore(dim, k, flipped) + Size(dim, k) = RowsBefore(dim, l, flipped)
         /\ l = k+1 /\ flipped =>
              RowsBefore(dim, l, flipped) + Size(dim, l) = RowsBefore(dim, k, flipped)
<1> DEFINE x == input.dims[dim]
           n == num_strips(dim)
<1>0. input.dims \in Extents /\ input.roots \in [Dims -> Nat] /\ x \in Nat
  BY InputFacts DEF Extents
<1>1. n \in Nat \ {0}
  BY <1>0, Stacked
<1>2. \A j \in 0 .. n-1 : /\ Size(dim, j) \in Nat \ {0}
                          /\ Low(dim, j) \in Nat
                          /\ Low(dim, j) + Size(dim, j) <= x
  BY <1>0, Stacked
<1>3. \A i, j \in 0 .. n-1 : /\ i < j => Low(dim, i) + Size(dim, i) <= Low(dim, j)
                             /\ j = i+1 => Low(dim, i) + Size(dim, i) = Low(dim, j)
  BY <1>0, Stacked
<1>4. k \in 0 .. n-1 /\ l \in 0 .. n-1
  OBVIOUS
<1>5. \A j : RowsBefore(dim, j, TRUE) = x - Low(dim, j) - Size(dim, j)
  BY DEF RowsBefore
<1>6. \A j : RowsBefore(dim, j, FALSE) = Low(dim, j)
  BY DEF RowsBefore
<1> HIDE DEF n, x
<1>7. k < l \/ l < k \/ k = l
  BY <1>1, <1>4
<1>8. /\ Size(dim, k) \in Nat \ {0} /\ Low(dim, k) \in Nat /\ Low(dim, k) + Size(dim, k) <= x
      /\ Size(dim, l) \in Nat \ {0} /\ Low(dim, l) \in Nat /\ Low(dim, l) + Size(dim, l) <= x
      /\ k < l => Low(dim, k) + Size(dim, k) <= Low(dim, l)
      /\ l < k => Low(dim, l) + Size(dim, l) <= Low(dim, k)
      /\ l = k+1 => Low(dim, k) + Size(dim, k) = Low(dim, l)
  BY <1>2, <1>3, <1>4
<1> DEFINE a == Low(dim, k)
           b == Low(dim, l)
           s == Size(dim, k)
           t == Size(dim, l)
<1> HIDE DEF a, b, s, t
<1>9. /\ s \in Nat \ {0} /\ a \in Nat /\ a + s <= x
      /\ t \in Nat \ {0} /\ b \in Nat /\ b + t <= x
      /\ k < l => a + s <= b
      /\ l < k => b + t <= a
      /\ l = k+1 => a + s = b
  BY <1>8 DEF a, b, s, t
<1>10. CASE flipped = TRUE
  <2>1. RowsBefore(dim, k, flipped) = x - a - s /\ RowsBefore(dim, l, flipped) = x - b - t
    BY <1>5, <1>10 DEF a, b, s, t
  <2> HIDE DEF RowsBefore
  <2>2. x - a - s \in Nat /\ x - b - t \in Nat
    BY <1>0, <1>9
  <2>3. (x - a - s) + s <= x
    BY <1>0, <1>9
  <2>4. k # l => \/ (x - a - s) + s <= x - b - t \/ (x - b - t) + t <= x - a - s
    BY <1>0, <1>7, <1>9
  <2>5. /\ l = k+1 => (x - b - t) + t = x - a - s
        /\ k < l => (x - b - t) + t <= x - a - s
    BY <1>0, <1>9
  <2> QED
    BY <1>9, <1>10, <2>1, <2>2, <2>3, <2>4, <2>5 DEF s, t, x
<1>11. CASE flipped = FALSE
  <2>1. RowsBefore(dim, k, flipped) = a /\ RowsBefore(dim, l, flipped) = b
    BY <1>6, <1>11 DEF a, b
  <2> QED
    BY <1>7, <1>9, <1>11, <2>1 DEF s, t, x
<1> QED
  BY <1>10, <1>11

\* R rows of nodes for each of b rows before, of s rows, in a bundle of R * x nodes.
LEMMA Rows ==
  ASSUME NEW R \in Nat \ {0}, NEW b \in Nat, NEW s \in Nat, NEW x \in Nat, b + s <= x
  PROVE  /\ R * b \in Nat /\ R * s \in Nat /\ R * x \in Nat
         /\ R * b + R * s <= R * x
<1>1. R * (b + s) <= R * x /\ R * (b + s) = R * b + R * s
  OBVIOUS
<1>2. R * b \in Nat /\ R * s \in Nat /\ R * x \in Nat
  OBVIOUS
<1> QED
  BY <1>1, <1>2

LEMMA EnterPaired ==
  ASSUME Given, NEW S \in SUBSET Dims, NEW dim \in Dims \ S,
         NEW v, Typed(v, S), Exact(v, S), NEW w, Typed(w, S), Exact(w, S),
         NEW p \in Nat, NEW q \in Nat, Paired(v, w, p, q)
  PROVE  Paired(EnterStrip(v, dim), EnterStrip(w, dim), p, q)
<1> DEFINE f == EnterStrip(v, dim)
           g == EnterStrip(w, dim)
           x == input.dims[dim]
<1>1. PICK R, k : EnteredAt(v, f, dim, R, k)
  BY EnterFacts
<1>2. PICK Q, l : EnteredAt(w, g, dim, Q, l)
  BY EnterFacts
<1> HIDE DEF f, g
<1>3. v \in Walks /\ w \in Walks /\ x \in Nat \ {0}
  BY InputFacts DEF Typed, Extents
<1>4. /\ v.target_rank \in Nat /\ w.target_rank \in Nat
      /\ v.total_nodes \in Nat /\ w.total_nodes \in Nat
      /\ v.flip_next \in BOOLEAN /\ w.flip_next \in BOOLEAN
      /\ v.strip_coord \in [Dims -> Int] /\ w.strip_coord \in [Dims -> Int]
  BY <1>3 DEF Walks
<1>5. /\ R \in Nat \ {0} /\ k \in 0 .. num_strips(dim)-1
      /\ Q \in Nat \ {0} /\ l \in 0 .. num_strips(dim)-1
  BY <1>1, <1>2 DEF EnteredAt
<1> DEFINE b == RowsBefore(dim, k, v.flip_next)
           c == RowsBefore(dim, l, v.flip_next)
           s == Size(dim, k)
           t == Size(dim, l)
<1>6. /\ b \in Nat /\ s \in Nat \ {0} /\ b + s <= x
      /\ c \in Nat /\ t \in Nat \ {0} /\ c + t <= x
      /\ k # l => b + s <= c \/ c + t <= b
  BY <1>4, <1>5, RowsApart
<1>7. /\ f.target_rank = v.target_rank - R * b
      /\ f.total_nodes = R * s
      /\ f.target_rank \in 0 .. R * s - 1
      /\ v.total_nodes = R * x
  BY <1>1 DEF EnteredAt
<1>8. CASE v.strip_coord # w.strip_coord
  <2>1. f.strip_coord # g.strip_coord
    <3>1. f.strip_coord = [v.strip_coord EXCEPT ![dim] = k]
      BY <1>1 DEF EnteredAt
    <3>2. g.strip_coord = [w.strip_coord EXCEPT ![dim] = l]
      BY <1>2 DEF EnteredAt
    <3>3. v.strip_coord[dim] = 0 /\ w.strip_coord[dim] = 0
      BY DEF Exact
    <3>4. PICK d \in Dims : v.strip_coord[d] # w.strip_coord[d]
      BY <1>4, <1>8
    <3> QED
      BY <1>4, <3>1, <3>2, <3>3, <3>4
  <2>2. ~ (q \in (p - v.target_rank) .. (p - v.target_rank + v.total_nodes - 1))
    BY <1>8 DEF Paired
  <2>3. ~ (q \in (p - f.target_rank) .. (p - f.target_rank + f.total_nodes - 1))
    <3>1. R * b \in Nat /\ R * s \in Nat /\ R * x \in Nat /\ R * b + R * s <= R * x
      BY <1>3, <1>5, <1>6, Rows
    <3> DEFINE rb == R * b
               rs == R * s
               rx == R * x
    <3> HIDE DEF rb, rs, rx
    <3>2. rb \in Nat /\ rs \in Nat /\ rx \in Nat /\ rb + rs <= rx
      BY <3>1 DEF rb, rs, rx
    <3>3. f.target_rank = v.target_rank - rb /\ f.total_nodes = rs /\ v.total_nodes = rx
      BY <1>7 DEF rb, rs, rx
    <3> QED
      BY <1>4, <2>2, <3>2, <3>3
  <2> QED
    BY <2>1, <2>3 DEF Paired, f, g
<1>9. CASE v.strip_coord = w.strip_coord
  <2>1. /\ v.strip_sizes = w.strip_sizes /\ v.flip_next = w.flip_next
        /\ v.flipped_dim = w.flipped_dim /\ v.total_nodes = w.total_nodes
        /\ p - v.target_rank = q - w.target_rank
    BY <1>9 DEF Paired, Alike
  <2>2. Q = R
    BY <1>1, <1>2, <2>1 DEF EnteredAt, nodes_per_row
  <2>3. /\ g.target_rank = w.target_rank - R * c
        /\ g.total_nodes = R * t
        /\ g.target_rank \in 0 .. R * t - 1
    BY <1>2, <2>1, <2>2 DEF EnteredAt
  <2>4. CASE k = l
    <3>1. f.strip_coord = g.strip_coord
      BY <1>1, <1>2, <1>9, <2>4 DEF EnteredAt
    <3>2. /\ f.strip_sizes = g.strip_sizes /\ f.flip_next = g.flip_next
          /\ f.flipped_dim = g.flipped_dim
      BY <1>1, <1>2, <2>1, <2>4 DEF EnteredAt, flip_next
    <3>3. f.total_nodes = g.total_nodes /\ p - f.target_rank = q - g.target_rank
      <4> DEFINE rb == R * b
      <4>1. rb \in Nat /\ c = b
        BY <1>5, <1>6, <2>4
      <4>2. f.target_rank = v.target_rank - rb /\ g.target_rank = w.target_rank - rb
        BY <1>7, <2>3, <4>1
      <4>3. f.total_nodes = g.total_nodes
        BY <1>7, <2>3, <2>4
      <4> HIDE DEF rb
      <4> QED
        BY <1>4, <2>1, <4>1, <4>2, <4>3
    <3>4. Paired(f, g, p, q)
      BY <3>1, <3>2, <3>3 DEF Paired, Alike
    <3> QED
      BY <3>4 DEF f, g
  <2>5. CASE k # l
    <3>1. f.strip_coord # g.strip_coord
      <4>1. f.strip_coord = [v.strip_coord EXCEPT ![dim] = k]
        BY <1>1 DEF EnteredAt
      <4>2. g.strip_coord = [w.strip_coord EXCEPT ![dim] = l]
        BY <1>2 DEF EnteredAt
      <4>3. f.strip_coord[dim] = k /\ g.strip_coord[dim] = l
        BY <1>4, <4>1, <4>2
      <4> QED
        BY <2>5, <4>3
    <3>2. ~ (q \in (p - f.target_rank) .. (p - f.target_rank + f.total_nodes - 1))
      <4> DEFINE rb == R * b
                 rs == R * s
                 rc == R * c
                 rt == R * t
      <4>1. rb \in Nat /\ rs \in Nat /\ rc \in Nat /\ rt \in Nat
        BY <1>5, <1>6
      <4>2. rb + rs <= rc \/ rc + rt <= rb
        <5>1. CASE b + s <= c
          BY <1>5, <1>6, <5>1, Rows
        <5>2. CASE c + t <= b
          BY <1>5, <1>6, <5>2, Rows
        <5> QED
          BY <1>6, <2>5, <5>1, <5>2
      <4>3. /\ f.target_rank = v.target_rank - rb /\ f.total_nodes = rs
            /\ g.target_rank = w.target_rank - rc /\ g.target_rank \in 0 .. rt-1
        BY <1>7, <2>3
      <4> HIDE DEF rb, rs, rc, rt
      <4> QED
        BY <1>4, <2>1, <4>1, <4>2, <4>3
    <3> QED
      BY <3>1, <3>2 DEF Paired, f, g
  <2> QED
    BY <2>4, <2>5
<1> QED
  BY <1>8, <1>9

\* The ranks of the bundle of p are ranks.
Within(v, p, n) == v.target_rank <= p /\ p - v.target_rank + v.total_nodes <= n

LEMMA EnterWithin ==
  ASSUME Given, NEW S \in SUBSET Dims, NEW dim \in Dims \ S, NEW v, Typed(v, S), Exact(v, S),
         NEW p \in Nat, NEW n \in Nat, Within(v, p, n)
  PROVE  Within(EnterStrip(v, dim), p, n)
<1> DEFINE f == EnterStrip(v, dim)
           x == input.dims[dim]
<1>1. PICK R, k : EnteredAt(v, f, dim, R, k)
  BY EnterFacts
<1> HIDE DEF f
<1>2. /\ R \in Nat \ {0} /\ k \in 0 .. num_strips(dim)-1 /\ x \in Nat
      /\ v.flip_next \in BOOLEAN /\ v.target_rank \in Nat
  BY <1>1, InputFacts DEF EnteredAt, Typed, Walks, Extents
<1> DEFINE b == RowsBefore(dim, k, v.flip_next)
           s == Size(dim, k)
<1>3. b \in Nat /\ s \in Nat /\ b + s <= x
  BY <1>2, RowsApart
<1> DEFINE rb == R * b
           rs == R * s
           rx == R * x
<1>4. rb \in Nat /\ rs \in Nat /\ rx \in Nat /\ rb + rs <= rx
  BY <1>2, <1>3, Rows
<1>5. f.target_rank = v.target_rank - rb /\ f.total_nodes = rs /\ v.total_nodes = rx
  BY <1>1 DEF EnteredAt
<1> HIDE DEF rb, rs, rx, b, s
<1>6. f.target_rank <= p /\ p - f.target_rank + f.total_nodes <= n
  BY <1>2, <1>4, <1>5 DEF Within
<1> QED
  BY <1>6 DEF Within, f

----------------------------------------------------------------------------
(***************************************************************************)
(* Two processes in a row: v are the variables of rank p-1, w those of p.  *)
(***************************************************************************)
Adjacent(v, w, S) ==
  \/ v.strip_coord = w.strip_coord
  \/ /\ v.target_rank = v.total_nodes - 1
     /\ w.target_rank = 0
     /\ v.flip_next # w.flip_next
     /\ \E e \in S, step \in {-1, 1} : w.strip_coord = [v.strip_coord EXCEPT ![e] = @ + step]

\* The strip that follows in the direction of travel.
LEMMA NextStrip ==
  ASSUME Given, NEW dim \in Dims, NEW k \in 0 .. num_strips(dim)-1,
         NEW l \in 0 .. num_strips(dim)-1, NEW flipped \in BOOLEAN,
         RowsBefore(dim, k, flipped) + Size(dim, k) = RowsBefore(dim, l, flipped)
  PROVE  IF flipped THEN k = l+1 ELSE l = k+1
<1> DEFINE n == num_strips(dim)
<1>0. n \in Nat
  BY InputFacts, Stacked
<1> DEFINE B(j) == RowsBefore(dim, j, flipped)
           H(j) == Size(dim, j)
<1>1. \A j \in 0 .. n-1 : B(j) \in Nat /\ H(j) \in Nat \ {0}
  BY RowsApart
<1>2. \A i, j \in 0 .. n-1 : i < j => IF flipped THEN B(j) + H(j) <= B(i)
                                                 ELSE B(i) + H(i) <= B(j)
  BY RowsApart
<1>3. k \in 0 .. n-1 /\ l \in 0 .. n-1 /\ B(k) + H(k) = B(l)
  OBVIOUS
<1> HIDE DEF n, B, H
<1>4. CASE ~ flipped
  <2>1. k < l
    <3>1. ~ (l < k)
      BY <1>1, <1>2, <1>3, <1>4
    <3>2. k # l
      BY <1>1, <1>3
    <3> QED
      BY <1>0, <1>3, <3>1, <3>2
  <2>2. ~ (k+1 < l)
    <3> SUFFICES ASSUME k+1 < l PROVE FALSE
      OBVIOUS
    <3>1. k+1 \in 0 .. n-1 /\ k < k+1
      BY <1>0, <1>3
    <3>2. B(k) + H(k) <= B(k+1) /\ B(k+1) + H(k+1) <= B(l)
      BY <1>2, <1>3, <1>4, <3>1
    <3>3. B(k+1) \in Nat /\ H(k+1) \in Nat \ {0} /\ B(l) \in Nat /\ B(k) \in Nat /\ H(k) \in Nat
      BY <1>1, <1>3, <3>1
    <3> QED
      BY <1>3, <3>2, <3>3
  <2>3. l = k+1
    BY <1>0, <1>3, <2>1, <2>2
  <2> QED
    BY <1>4, <2>3
<1>5. CASE flipped
  <2>1. l < k
    <3>1. ~ (k < l)
      BY <1>1, <1>2, <1>3, <1>5
    <3>2. k # l
      BY <1>1, <1>3
    <3> QED
      BY <1>0, <1>3, <3>1, <3>2
  <2>2. ~ (l+1 < k)
    <3> SUFFICES ASSUME l+1 < k PROVE FALSE
      OBVIOUS
    <3>1. l+1 \in 0 .. n-1 /\ l < l+1
      BY <1>0, <1>3
    <3>2. B(k) + H(k) <= B(l+1) /\ B(l+1) + H(l+1) <= B(l)
      BY <1>2, <1>3, <1>5, <3>1
    <3>3. B(l+1) \in Nat /\ H(l+1) \in Nat \ {0} /\ B(l) \in Nat /\ B(k) \in Nat /\ H(k) \in Nat
      BY <1>1, <1>3, <3>1
    <3> QED
      BY <1>3, <3>2, <3>3
  <2>3. k = l+1
    BY <1>0, <1>3, <2>1, <2>2
  <2> QED
    BY <1>5, <2>3
<1> QED
  BY <1>4, <1>5

\* The process at the end of one bundle and the one at the start of the next, which is
\* filled in the other direction, are in the same strip of a dimension.
LEMMA SameEnd ==
  ASSUME Given, NEW dim \in Dims, NEW k \in 0 .. num_strips(dim)-1,
         NEW l \in 0 .. num_strips(dim)-1, NEW f \in BOOLEAN, NEW g \in BOOLEAN, f # g,
         RowsBefore(dim, k, f) + Size(dim, k) = input.dims[dim], RowsBefore(dim, l, g) = 0
  PROVE  k = l
<1> DEFINE x == input.dims[dim]
           n == num_strips(dim)
           B(j) == RowsBefore(dim, j, FALSE)
           H(j) == Size(dim, j)
<1>0. n \in Nat \ {0} /\ x \in Nat
  BY InputFacts, Stacked DEF Extents
<1>1. \A j \in 0 .. n-1 : B(j) \in Nat /\ H(j) \in Nat \ {0} /\ B(j) + H(j) <= x
  BY RowsApart
<1>2. \A i, j \in 0 .. n-1 : i < j => B(i) + H(i) <= B(j)
  <2>1. \A z \in BOOLEAN : \A i, j \in 0 .. n-1 :
          i < j /\ ~ z => RowsBefore(dim, i, z) + H(i) <= RowsBefore(dim, j, z)
    BY RowsApart
  <2> HIDE DEF n, H
  <2> QED
    BY <2>1
<1>3. k \in 0 .. n-1 /\ l \in 0 .. n-1
  OBVIOUS
<1>4. \A j : RowsBefore(dim, j, TRUE) = x - B(j) - H(j)
  BY DEF RowsBefore
<1>5. CASE f = FALSE
  <2>1. g = TRUE
    BY <1>5
  <2>2. B(k) + H(k) = x
    BY <1>5
  <2>3. x - B(l) - H(l) = 0
    BY <1>4, <2>1
  <2> HIDE DEF n, B, H, x
  <2>4. B(l) + H(l) = x
    BY <1>0, <1>1, <1>3, <2>3
  <2>5. ~ (k < l) /\ ~ (l < k)
    BY <1>1, <1>2, <1>3, <2>2, <2>4
  <2> QED
    BY <1>0, <1>3, <2>5
<1>6. CASE f = TRUE
  <2>1. g = FALSE
    BY <1>6
  <2>2. (x - B(k) - H(k)) + H(k) = x
    BY <1>4, <1>6
  <2>3. B(l) = 0
    BY <2>1
  <2> HIDE DEF n, B, H, x
  <2>4. B(k) = 0
    <3>1. B(k) \in Nat /\ H(k) \in Nat
      BY <1>1, <1>3
    <3> QED
      BY <1>0, <2>2, <3>1
  <2>5. ~ (k < l) /\ ~ (l < k)
    BY <1>1, <1>2, <1>3, <2>3, <2>4
  <2> QED
    BY <1>0, <1>3, <2>5
<1> QED
  BY <1>5, <1>6

LEMMA EnterAdjacent ==
  ASSUME Given, NEW S \in SUBSET Dims, NEW dim \in Dims \ S,
         NEW v, Typed(v, S), Exact(v, S), NEW w, Typed(w, S), Exact(w, S),
         NEW p \in Nat \ {0}, Paired(v, w, p-1, p), Adjacent(v, w, S)
  PROVE  Adjacent(EnterStrip(v, dim), EnterStrip(w, dim), S \cup {dim})
<1> DEFINE f == EnterStrip(v, dim)
           g == EnterStrip(w, dim)
           x == input.dims[dim]
           n == num_strips(dim)
           U == S \cup {dim}
<1>1. PICK R, k : EnteredAt(v, f, dim, R, k)
  BY EnterFacts
<1>2. PICK Q, l : EnteredAt(w, g, dim, Q, l)
  BY EnterFacts
<1> HIDE DEF f, g
<1>3. v \in Walks /\ w \in Walks /\ x \in Nat \ {0} /\ n \in Nat
  BY InputFacts, Stacked DEF Typed, Extents
<1>4. /\ v.target_rank \in Nat /\ w.target_rank \in Nat
      /\ v.total_nodes \in Nat /\ w.total_nodes \in Nat
      /\ v.flip_next \in BOOLEAN /\ w.flip_next \in BOOLEAN
      /\ v.strip_coord \in [Dims -> Int] /\ w.strip_coord \in [Dims -> Int]
  BY <1>3 DEF Walks
<1>5. /\ R \in Nat \ {0} /\ k \in 0 .. n-1
      /\ Q \in Nat \ {0} /\ l \in 0 .. n-1
  BY <1>1, <1>2 DEF EnteredAt
<1>6. /\ f.target_rank = v.target_rank - R * RowsBefore(dim, k, v.flip_next)
      /\ f.total_nodes = R * Size(dim, k)
      /\ f.target_rank \in 0 .. R * Size(dim, k) - 1
      /\ v.total_nodes = R * x
      /\ f.flip_next = flip_next(v, k)
      /\ f.strip_coord = [v.strip_coord EXCEPT ![dim] = k]
  BY <1>1 DEF EnteredAt
<1>7. /\ g.target_rank = w.target_rank - Q * RowsBefore(dim, l, w.flip_next)
      /\ g.total_nodes = Q * Size(dim, l)
      /\ g.target_rank \in 0 .. Q * Size(dim, l) - 1
      /\ g.flip_next = flip_next(w, l)
      /\ g.strip_coord = [w.strip_coord EXCEPT ![dim] = l]
  BY <1>2 DEF EnteredAt
<1>8. CASE v.strip_coord = w.strip_coord
  <2>1. v.flip_next = w.flip_next /\ v.total_nodes = w.total_nodes
        /\ (p-1) - v.target_rank = p - w.target_rank
    BY <1>8 DEF Paired, Alike
  <2>2. Q = R
    BY <1>1, <1>2, <2>1 DEF EnteredAt, nodes_per_row
  <2> DEFINE b == RowsBefore(dim, k, v.flip_next)
             c == RowsBefore(dim, l, v.flip_next)
             s == Size(dim, k)
             t == Size(dim, l)
  <2>3. CASE k = l
    <3>1. f.strip_coord = g.strip_coord
      BY <1>6, <1>7, <1>8, <2>3
    <3> QED
      BY <3>1 DEF Adjacent, f, g
  <2>4. CASE k # l
    <3>1. /\ b \in Nat /\ s \in Nat \ {0} /\ b + s <= x
          /\ c \in Nat /\ t \in Nat \ {0} /\ c + t <= x
          /\ b + s <= c \/ c + t <= b
      BY <1>4, <1>5, <2>4, RowsApart
    <3> DEFINE rb == R * b
               rs == R * s
               rc == R * c
               rt == R * t
    <3>2. rb \in Nat /\ rs \in Nat /\ rc \in Nat /\ rt \in Nat
      BY <1>5, <3>1
    <3>3. b + s <= c => rb + rs <= rc
      <4> SUFFICES ASSUME b + s <= c PROVE rb + rs <= rc
        OBVIOUS
      <4> QED
        BY <1>5, <3>1, Rows
    <3>4. c + t <= b => rc + rt <= rb
      <4> SUFFICES ASSUME c + t <= b PROVE rc + rt <= rb
        OBVIOUS
      <4> QED
        BY <1>5, <3>1, Rows
    <3>5. /\ f.target_rank = v.target_rank - rb /\ f.total_nodes = rs
          /\ f.target_rank \in 0 .. rs-1
          /\ g.target_rank = w.target_rank - rc /\ g.target_rank \in 0 .. rt-1
      BY <1>6, <1>7, <2>1, <2>2
    <3> DEFINE vt == v.target_rank
               wt == w.target_rank
    <3>6. vt \in Nat /\ wt \in Nat /\ wt = vt + 1
      BY <1>4, <2>1
    <3>7. ~ (rc + rt <= rb)
      <4> HIDE DEF rb, rs, rc, rt
      <4> QED
        BY <3>2, <3>5, <3>6
    <3>8. b + s <= c
      BY <3>1, <3>4, <3>7
    <3>9. rb + rs = rc /\ f.target_rank = rs-1 /\ g.target_rank = 0
      <4>1. rb + rs <= rc
        BY <3>3, <3>8
      <4> HIDE DEF rb, rs, rc, rt
      <4> QED
        BY <3>2, <3>5, <3>6, <4>1
    <3>10. b + s = c
      <4> SUFFICES ASSUME b + s + 1 <= c PROVE FALSE
        BY <3>1, <3>8
      <4> HIDE DEF b, c, s
      <4>1. R * (b + s + 1) <= R * c
        BY <1>5, <3>1
      <4>2. R * (b + s + 1) = R * b + R * s + R
        BY <1>5, <3>1
      <4> QED
        BY <1>5, <3>2, <3>9, <4>1, <4>2
    <3>11. IF v.flip_next THEN k = l+1 ELSE l = k+1
      BY <1>4, <1>5, <3>10, NextStrip
    <3>12. f.flip_next # g.flip_next
      <4>1. (l = k+1 \/ k = l+1) /\ k \in Nat /\ l \in Nat
        BY <1>5, <3>11
      <4>2. (k > 0 /\ k % 2 = 1) <=> ~ (l > 0 /\ l % 2 = 1)
        BY <4>1
      <4>3. f.flip_next = IF k > 0 /\ k % 2 = 1 THEN ~ v.flip_next ELSE v.flip_next
        BY <1>6 DEF flip_next
      <4>4. g.flip_next = IF l > 0 /\ l % 2 = 1 THEN ~ v.flip_next ELSE v.flip_next
        BY <1>7, <2>1 DEF flip_next
      <4> QED
        BY <1>4, <4>2, <4>3, <4>4
    <3>13. \E e \in U, step \in {-1, 1} : g.strip_coord = [f.strip_coord EXCEPT ![e] = @ + step]
      <4>1. l = k+1 \/ l = k + (-1)
        BY <1>5, <3>11
      <4>2. \A j : l = k + j => g.strip_coord = [f.strip_coord EXCEPT ![dim] = @ + j]
        BY <1>4, <1>6, <1>7, <1>8
      <4> QED
        BY <4>1, <4>2
    <3>14. Adjacent(f, g, U)
      BY <3>5, <3>9, <3>12, <3>13 DEF Adjacent
    <3> QED
      BY <3>14 DEF f, g
  <2> QED
    BY <2>3, <2>4
<1>9. CASE v.strip_coord # w.strip_coord
  <2>1. /\ v.target_rank = v.total_nodes - 1
        /\ w.target_rank = 0
        /\ v.flip_next # w.flip_next
    BY <1>9 DEF Adjacent
  <2>2. PICK e \in S, step \in {-1, 1} : w.strip_coord = [v.strip_coord EXCEPT ![e] = @ + step]
    BY <1>9 DEF Adjacent
  <2> DEFINE b == RowsBefore(dim, k, v.flip_next)
             c == RowsBefore(dim, l, w.flip_next)
             s == Size(dim, k)
  <2>3. b \in Nat /\ s \in Nat \ {0} /\ b + s <= x /\ c \in Nat
    BY <1>4, <1>5, RowsApart
  <2>4. f.target_rank = R * x - 1 - R * b /\ f.target_rank <= R * s - 1
    BY <1>6, <2>1, <2>3, <1>5
  <2>5. b + s = x
    <3> SUFFICES ASSUME b + s + 1 <= x PROVE FALSE
      BY <1>3, <2>3
    <3> HIDE DEF b, c, s, x
    <3>1. R * (b + s + 1) <= R * x /\ R * (b + s + 1) = R * b + R * s + R
      BY <1>3, <1>5, <2>3
    <3>2. R * b \in Nat /\ R * s \in Nat /\ R * x \in Nat
      BY <1>3, <1>5, <2>3
    <3> QED
      BY <1>5, <2>4, <3>1, <3>2
  <2>6. f.target_rank = f.total_nodes - 1
    <3> HIDE DEF b, c, s
    <3>1. R * x = R * b + R * s /\ R * b \in Nat /\ R * s \in Nat
      BY <1>5, <2>3, <2>5
    <3>2. f.total_nodes = R * s
      BY <1>6 DEF s
    <3> QED
      BY <2>4, <3>1, <3>2
  <2>7. c = 0 /\ g.target_rank = 0
    <3>1. g.target_rank = 0 - Q * c /\ g.target_rank >= 0
      BY <1>7, <2>1
    <3> HIDE DEF c
    <3>2. c >= 1 => Q * c >= Q
      BY <1>5, <2>3
    <3>3. Q * c \in Nat
      BY <1>5, <2>3
    <3>4. c = 0
      BY <1>5, <2>3, <3>1, <3>2, <3>3
    <3> QED
      BY <1>5, <3>1, <3>4
  <2>8. k = l
    BY <1>4, <1>5, <2>1, <2>5, <2>7, SameEnd
  <2>9. f.flip_next # g.flip_next
    <3>1. f.flip_next = IF k > 0 /\ k % 2 = 1 THEN ~ v.flip_next ELSE v.flip_next
      BY <1>6 DEF flip_next
    <3>2. g.flip_next = IF k > 0 /\ k % 2 = 1 THEN ~ w.flip_next ELSE w.flip_next
      BY <1>7, <2>8 DEF flip_next
    <3> QED
      BY <1>4, <2>1, <3>1, <3>2
  <2>10. g.strip_coord = [f.strip_coord EXCEPT ![e] = @ + step]
    BY <1>4, <1>6, <1>7, <2>2, <2>8
  <2>11. Adjacent(f, g, U)
    BY <2>6, <2>7, <2>9, <2>10 DEF Adjacent
  <2> QED
    BY <2>11 DEF f, g
<1> QED
  BY <1>8, <1>9

----------------------------------------------------------------------------
(***************************************************************************)
(* Nothing of this depends on more than the arguments of the algorithm.    *)
(***************************************************************************)
LEMMA SameStrips ==
  ASSUME input' = input
  PROVE  /\ \A d \in Dims : num_strips(d)' = num_strips(d)
         /\ \A d \in Dims : \A k : Size(d, k)' = Size(d, k) /\ Low(d, k)' = Low(d, k)
<1>1. max_dim' = max_dim
  BY DEF max_dim
<1>2. \A d \in Dims : nroot(d)' = nroot(d)
  BY <1>1 DEF nroot
<1>3. \A d \in Dims : num_strips(d)' = num_strips(d)
  BY <1>2 DEF num_strips
<1>4. \A d \in Dims : remainder(d)' = remainder(d)
  BY <1>2, <1>3 DEF remainder
<1>5. \A d \in Dims : /\ small_strip_height(d)' = small_strip_height(d)
                      /\ num_big_strips(d)' = num_big_strips(d)
  BY <1>2, <1>3, <1>4 DEF small_strip_height, num_big_strips
<1>6. ASSUME NEW d \in Dims, NEW k PROVE Size(d, k)' = Size(d, k) /\ Low(d, k)' = Low(d, k)
  BY <1>5 DEF Size, Low, Height, LowestRow
<1> QED
  BY <1>3, <1>6

LEMMA StillTyped ==
  ASSUME input' = input, NEW v, NEW S, Typed(v, S), Cut' = S, NEW p, walk'[p] = v
  PROVE  Typed(walk[p], Cut)'
<1>1. Extent(walk[p], Cut)' = Extent(v, S)
  BY DEF Extent
<1> QED
  BY <1>1 DEF Typed

LEMMA StillExact ==
  ASSUME input' = input, NEW v, NEW S \in SUBSET Dims, Exact(v, S), Cut' = S,
         NEW p, walk'[p] = v
  PROVE  Exact(walk[p], Cut)'
<1>1. Extent(walk[p], Cut)' = Extent(v, S)
  BY DEF Extent
<1>2. \A d \in S : num_strips(d)' = num_strips(d) /\ \A k : Size(d, k)' = Size(d, k)
  BY SameStrips
<1> QED
  BY <1>1, <1>2 DEF Exact

----------------------------------------------------------------------------
(***************************************************************************)
(* compute_coord: the row of a cell in its bundle is a digit of its index. *)
(***************************************************************************)
Inner(dim) == {dim_order[i] : i \in {i \in Dims : \E k \in 0 .. i-1 : dim_order[k] = dim}}

Row(w, dim) == (w.target_rank \div ProductOver(w.strip_sizes, Inner(dim))) % w.strip_sizes[dim]

Offset(w, dim) ==
  IF w.flipped_dim[dim] THEN Mirrored(Row(w, dim), w.strip_sizes[dim]) ELSE Row(w, dim)

InCell(w) == \A d \in Dims : w.coord[d] = Low(d, w.strip_coord[d]) + Offset(w, d)

LEMMA Coords == \A w : compute_coord(w) = [d \in Dims |-> w.coord[d] + Offset(w, d)]
  BY DEF compute_coord, Offset, Row, Inner

LEMMA DimsFinite == Given => IsFiniteSet(Dims)
<1> SUFFICES ASSUME Given PROVE IsFiniteSet(Dims)
  OBVIOUS
<1>1. ndims-1 \in Int /\ Dims = 0 .. ndims-1
  BY InputFacts
<1>2. \A m \in Int : IsFiniteSet(0 .. m)
  BY FS_Interval
<1> QED
  BY <1>1, <1>2

LEMMA RowFacts ==
  ASSUME Given, NEW w, Typed(w, Dims), NEW d \in Dims
  PROVE  /\ w.strip_sizes[d] \in Nat \ {0}
         /\ Row(w, d) \in 0 .. w.strip_sizes[d]-1
         /\ Offset(w, d) \in 0 .. w.strip_sizes[d]-1
<1> DEFINE s == w.strip_sizes[d]
           P == ProductOver(w.strip_sizes, Inner(d))
           t == w.target_rank
           q == t \div P
           r == Row(w, d)
<1>1. \A i \in Dims : w.strip_sizes[i] \in Nat \ {0}
  <2>1. \A i \in Dims : Extent(w, Dims)[i] \in Nat \ {0}
    BY DEF Typed, Extents
  <2> QED
    BY <2>1 DEF Extent
<1>2. s \in Nat \ {0}
  BY <1>1
<1>3. Inner(d) \subseteq Dims
  BY OrderFacts DEF Inner
<1>4. P \in Nat \ {0}
  <2>1. IsFiniteSet(Inner(d))
    BY <1>3, DimsFinite, FS_Subset
  <2>2. \A i \in Inner(d) : w.strip_sizes[i] \in Nat \ {0}
    BY <1>1, <1>3
  <2> QED
    BY <2>1, <2>2, ProductPositive
<1>5. t \in Nat
  BY DEF Typed, Walks
<1> HIDE DEF P, t, s
<1>6. q \in Nat
  BY <1>4, <1>5, Quotient
<1> HIDE DEF q
<1>7. q % s \in 0 .. s-1
  BY <1>2, <1>6, Division
<1>8. r = q % s
  BY DEF Row, q, s, t, P
<1> HIDE DEF r
<1>9. Offset(w, d) = IF w.flipped_dim[d] THEN s - (r + 1) ELSE r
  BY DEF Offset, Mirrored, r, s
<1>10. r \in 0 .. s-1 /\ s - (r + 1) \in 0 .. s-1
  BY <1>2, <1>7, <1>8
<1> QED
  BY <1>2, <1>9, <1>10 DEF r, s

\* compute_coord changes nothing but the coordinate.
LEMMA Computed ==
  ASSUME Given, NEW w, Typed(w, Dims)
  PROVE  \E v : /\ v = [w EXCEPT !.coord = compute_coord(w)]
                /\ Typed(v, Dims)
                /\ \A d \in Dims : v.coord[d] = w.coord[d] + Offset(w, d)
                /\ v.target_rank = w.target_rank /\ v.total_nodes = w.total_nodes
                /\ v.flip_next = w.flip_next /\ v.strip_sizes = w.strip_sizes
                /\ v.strip_coord = w.strip_coord /\ v.flipped_dim = w.flipped_dim
<1> DEFINE c == compute_coord(w)
           v == [w EXCEPT !.coord = c]
<1>1. c = [d \in Dims |-> w.coord[d] + Offset(w, d)]
  BY Coords
<1>2. w \in Walks
  BY DEF Typed
<1>3. \A d \in Dims : Offset(w, d) \in Int
  BY RowFacts
<1>4. \A d \in Dims : w.coord[d] \in Int
  BY <1>2 DEF Walks
<1>5. c \in [Dims -> Int]
  <2>1. \A d \in Dims : w.coord[d] + Offset(w, d) \in Int
    BY <1>3, <1>4
  <2> QED
    BY <1>1, <2>1
<1> HIDE DEF c
<1>6. v \in Walks
  BY <1>2, <1>5 DEF Walks
<1>7. /\ v.coord = c
      /\ v.target_rank = w.target_rank /\ v.total_nodes = w.total_nodes
      /\ v.flip_next = w.flip_next /\ v.strip_sizes = w.strip_sizes
      /\ v.strip_coord = w.strip_coord /\ v.flipped_dim = w.flipped_dim
  BY <1>2 DEF Walks
<1> HIDE DEF v
<1>8. Extent(v, Dims) = Extent(w, Dims)
  BY <1>7 DEF Extent
<1>9. Typed(v, Dims)
  BY <1>6, <1>7, <1>8 DEF Typed
<1>10. \A d \in Dims : v.coord[d] = w.coord[d] + Offset(w, d)
  BY <1>1, <1>7
<1> QED
  BY <1>7, <1>9, <1>10 DEF v, c

----------------------------------------------------------------------------
(***************************************************************************)
(* The inductive invariant.                                                *)
(***************************************************************************)
Located(w) == IF Done THEN InCell(w) ELSE AtCorner(w, Cut)

TypeInv ==
  /\ Given
  /\ walk = [p \in Ranks |-> walk[p]]
  /\ \A p \in Ranks : Typed(walk[p], Cut)

FullInv ==
  GridIsFull =>
    /\ \A p \in Ranks : Exact(walk[p], Cut) /\ Located(walk[p])
    /\ \A p \in Ranks : Within(walk[p], p, input.world_size)
    /\ \A p, q \in Ranks : Paired(walk[p], walk[q], p, q)
    /\ \A p \in Ranks \ {0} : Adjacent(walk[p-1], walk[p], Cut)

LEMMA Entry ==
  ASSUME Init, NEW p \in Ranks
  PROVE  /\ Given /\ Cut = {} /\ p \in Nat
         /\ walk[p] = EntryWalk(p)
         /\ Typed(walk[p], Cut)
         /\ GridIsFull => Exact(walk[p], Cut) /\ AtCorner(walk[p], Cut)
<1>1. Given /\ dim_index = 0 /\ walk[p] = EntryWalk(p)
  BY NdimsAssumption DEF Init, Given
<1>2. Cut = {}
  BY <1>1 DEF Cut, Dims
<1>3. input.world_size \in Nat \ {0} /\ p \in Nat /\ p < input.world_size
  BY <1>1, InputFacts DEF Ranks
<1> DEFINE w == EntryWalk(p)
<1>4. w \in Walks
  BY <1>3 DEF EntryWalk, Walks
<1>5. Extent(w, {}) = input.dims
  BY <1>1, InputFacts DEF Extent, Extents
<1>6. /\ w.total_nodes = input.world_size /\ w.target_rank = p
      /\ \A d \in Dims : w.strip_coord[d] = 0 /\ w.coord[d] = 0
  BY DEF EntryWalk
<1> HIDE DEF w
<1>7. Typed(w, {})
  BY <1>1, <1>4, <1>5, <1>6, InputFacts DEF Typed
<1>8. GridIsFull => Exact(w, {}) /\ AtCorner(w, {})
  BY <1>3, <1>5, <1>6 DEF GridIsFull, Exact, AtCorner
<1> QED
  BY <1>1, <1>2, <1>3, <1>7, <1>8 DEF w

LEMMA InitInv == Init => TypeInv /\ FullInv
<1> SUFFICES ASSUME Init PROVE TypeInv /\ FullInv
  OBVIOUS
<1>1. walk = [p \in Ranks |-> walk[p]] /\ Given /\ dim_index = 0
  BY NdimsAssumption DEF Init, Given
<1>2. TypeInv
  BY <1>1, Entry DEF TypeInv
<1>3. ASSUME GridIsFull, NEW p \in Ranks PROVE Exact(walk[p], Cut) /\ Located(walk[p])
  <2>1. ~ Done
    BY <1>1, InputFacts DEF Done
  <2> QED
    BY <1>3, <2>1, Entry DEF Located
<1>4. ASSUME NEW p \in Ranks, NEW q \in Ranks
      PROVE  Paired(walk[p], walk[q], p, q) /\ walk[p].strip_coord = walk[q].strip_coord
  <2>1. walk[p] = EntryWalk(p) /\ walk[q] = EntryWalk(q) /\ p \in Nat /\ q \in Nat
    BY Entry
  <2> QED
    BY <2>1 DEF EntryWalk, Paired, Alike
<1>5. ASSUME NEW p \in Ranks \ {0} PROVE Adjacent(walk[p-1], walk[p], Cut)
  <2>1. p-1 \in Ranks
    BY <1>1, InputFacts DEF Ranks
  <2> QED
    BY <1>4, <2>1 DEF Adjacent
<1>6. ASSUME NEW p \in Ranks PROVE Within(walk[p], p, input.world_size)
  <2>1. walk[p].target_rank = p /\ walk[p].total_nodes = input.world_size
    <3>1. walk[p] = EntryWalk(p)
      BY Entry
    <3> QED
      BY <3>1 DEF EntryWalk
  <2>2. p \in Nat /\ input.world_size \in Nat
    BY <1>1, Entry, InputFacts
  <2> QED
    BY <2>1, <2>2 DEF Within
<1> QED
  BY <1>2, <1>3, <1>4, <1>5, <1>6 DEF FullInv

LEMMA StillLocated ==
  ASSUME input' = input, NEW v, NEW S \in SUBSET Dims, Cut' = S, NEW p, walk'[p] = v,
         IF Done' THEN InCell(v) ELSE AtCorner(v, S)
  PROVE  Located(walk[p])'
<1>1. \A d \in Dims : \A k : Low(d, k)' = Low(d, k)
  BY SameStrips
<1>2. dim_order' = dim_order
  <2>1. max_dim' = max_dim
    BY DEF max_dim
  <2> QED
    BY <2>1 DEF dim_order
<1>3. \A d : Inner(d)' = Inner(d)
  BY <1>2 DEF Inner
<1>4. \A d \in Dims : Offset(walk[p], d)' = Offset(v, d)
  BY <1>3 DEF Offset, Row
<1>5. CASE Done'
  BY <1>1, <1>4, <1>5 DEF Located, InCell
<1>6. CASE ~ Done'
  BY <1>1, <1>6 DEF Located, AtCorner
<1> QED
  BY <1>5, <1>6

LEMMA ChooseFacts ==
  ASSUME TypeInv, ChooseStrip
  PROVE  /\ dim_index \in Dims /\ Cut \in SUBSET Dims /\ dim_order[dim_index] \in Dims \ Cut
         /\ input' = input /\ Ranks' = Ranks /\ Given' /\ ~ Done' /\ ~ Done
         /\ Cut' = Cut \cup {dim_order[dim_index]}
         /\ walk' = [p \in Ranks |-> EnterStrip(walk[p], dim_order[dim_index])]
<1>1. Given /\ dim_index < ndims /\ dim_index' = dim_index + 1 /\ input' = input
  BY DEF TypeInv, ChooseStrip
<1>2. dim_index \in Nat /\ ndims \in Nat \ {0}
  BY <1>1, InputFacts
<1>3. dim_order' = dim_order
  <2>1. max_dim' = max_dim
    BY <1>1 DEF max_dim
  <2> QED
    BY <2>1 DEF dim_order
<1>4. Cut' = Cut \cup {dim_order[dim_index]}
  BY <1>1, <1>3, CutGrows DEF Cut
<1>5. Cut \in SUBSET Dims
  BY <1>1, OrderFacts DEF Cut
<1>6. Ranks' = Ranks
  BY <1>1 DEF Ranks
<1>7. Given' /\ ~ Done' /\ ~ Done
  BY <1>1, <1>2 DEF Given, Done
<1> QED
  BY <1>1, <1>4, <1>5, <1>6, <1>7, CutGrows DEF ChooseStrip

LEMMA ChooseTyped == TypeInv /\ ChooseStrip => TypeInv'
<1> SUFFICES ASSUME TypeInv, ChooseStrip PROVE TypeInv'
  OBVIOUS
<1>0. Given /\ walk = [p \in Ranks |-> walk[p]] /\ \A p \in Ranks : Typed(walk[p], Cut)
  BY DEF TypeInv
<1>1. /\ Cut \in SUBSET Dims /\ dim_order[dim_index] \in Dims \ Cut
      /\ input' = input /\ Ranks' = Ranks /\ Given'
      /\ Cut' = Cut \cup {dim_order[dim_index]}
      /\ walk' = [p \in Ranks |-> EnterStrip(walk[p], dim_order[dim_index])]
  BY ChooseFacts
<1>2. ASSUME NEW p \in Ranks PROVE Typed(walk[p], Cut)'
  <2>1. PICK v : v = EnterStrip(walk[p], dim_order[dim_index])
    OBVIOUS
  <2>2. PICK S : S = Cut \cup {dim_order[dim_index]}
    OBVIOUS
  <2>3. Typed(v, S)
    BY <1>0, <1>1, <2>1, <2>2, EnterTyped
  <2>4. walk'[p] = v /\ Cut' = S
    BY <1>1, <2>1, <2>2
  <2> QED
    BY <1>1, <2>3, <2>4, StillTyped
<1>3. (walk = [p \in Ranks |-> walk[p]])'
  BY <1>1
<1>4. \A p \in Ranks' : Typed(walk[p], Cut)'
  BY <1>1, <1>2
<1> QED
  BY <1>1, <1>3, <1>4 DEF TypeInv

LEMMA ChooseFull == TypeInv /\ FullInv /\ ChooseStrip => FullInv'
<1> SUFFICES ASSUME TypeInv, FullInv, ChooseStrip, GridIsFull'
             PROVE  /\ \A p \in Ranks' : Exact(walk[p], Cut)' /\ Located(walk[p])'
                    /\ \A p \in Ranks' : Within(walk[p], p, input.world_size)'
                    /\ \A p, q \in Ranks' : Paired(walk[p], walk[q], p, q)'
                    /\ \A p \in Ranks' \ {0} : Adjacent(walk[p-1], walk[p], Cut)'
  BY DEF FullInv
<1> DEFINE dim == dim_order[dim_index]
<1>0. Given /\ \A p \in Ranks : Typed(walk[p], Cut)
  BY DEF TypeInv
<1>1. /\ Cut \in SUBSET Dims /\ dim \in Dims \ Cut
      /\ input' = input /\ Ranks' = Ranks /\ ~ Done' /\ ~ Done
      /\ Cut' = Cut \cup {dim}
      /\ walk' = [p \in Ranks |-> EnterStrip(walk[p], dim)]
  BY ChooseFacts
<1>2. /\ \A p \in Ranks : Exact(walk[p], Cut) /\ AtCorner(walk[p], Cut)
      /\ \A p \in Ranks : Within(walk[p], p, input.world_size)
      /\ \A p, q \in Ranks : Paired(walk[p], walk[q], p, q)
      /\ \A p \in Ranks \ {0} : Adjacent(walk[p-1], walk[p], Cut)
  <2>1. GridIsFull
    BY <1>1 DEF GridIsFull
  <2> QED
    BY <1>1, <2>1 DEF FullInv, Located
<1>3. \A p \in Ranks : p \in Nat
  BY DEF Ranks
<1> HIDE DEF dim
<1>4. ASSUME NEW p \in Ranks PROVE Exact(walk[p], Cut)' /\ Located(walk[p])'
  <2>1. PICK v : v = EnterStrip(walk[p], dim)
    OBVIOUS
  <2>2. PICK S : S = Cut \cup {dim}
    OBVIOUS
  <2>3. Exact(v, S) /\ AtCorner(v, S)
    BY <1>0, <1>1, <1>2, <2>1, <2>2, EnterExact
  <2>4. walk'[p] = v /\ Cut' = S /\ S \in SUBSET Dims
    BY <1>1, <2>1, <2>2
  <2>5. Exact(walk[p], Cut)'
    BY <1>1, <2>3, <2>4, StillExact
  <2>6. Located(walk[p])'
    BY <1>1, <2>3, <2>4, StillLocated
  <2> QED
    BY <2>5, <2>6
<1>5. ASSUME NEW p \in Ranks, NEW q \in Ranks PROVE Paired(walk[p], walk[q], p, q)'
  <2>1. Paired(EnterStrip(walk[p], dim), EnterStrip(walk[q], dim), p, q)
    BY <1>0, <1>1, <1>2, <1>3, EnterPaired
  <2> QED
    BY <1>1, <2>1
<1>6. ASSUME NEW p \in Ranks \ {0} PROVE Adjacent(walk[p-1], walk[p], Cut)'
  <2>1. p-1 \in Ranks /\ p \in Nat \ {0}
    BY <1>0, InputFacts DEF Ranks
  <2>2. Adjacent(EnterStrip(walk[p-1], dim), EnterStrip(walk[p], dim), Cut \cup {dim})
    BY <1>0, <1>1, <1>2, <2>1, EnterAdjacent
  <2>3. walk'[p-1] = EnterStrip(walk[p-1], dim) /\ walk'[p] = EnterStrip(walk[p], dim)
    BY <1>1, <2>1
  <2> QED
    BY <1>1, <2>2, <2>3
<1>7. ASSUME NEW p \in Ranks PROVE Within(walk[p], p, input.world_size)'
  <2>1. input.world_size \in Nat
    BY <1>0, InputFacts
  <2>2. Within(EnterStrip(walk[p], dim), p, input.world_size)
    BY <1>0, <1>1, <1>2, <1>3, <2>1, EnterWithin
  <2> QED
    BY <1>1, <2>2
<1> QED
  BY <1>1, <1>4, <1>5, <1>6, <1>7

LEMMA ComputeFacts ==
  ASSUME TypeInv, ComputeCoord
  PROVE  /\ Cut = Dims /\ Cut' = Dims /\ input' = input /\ Ranks' = Ranks
         /\ Given' /\ Done' /\ ~ Done
         /\ walk' = [p \in Ranks |-> [walk[p] EXCEPT !.coord = compute_coord(walk[p])]]
<1>1. Given /\ dim_index = ndims /\ dim_index' = dim_index + 1 /\ input' = input
  BY DEF TypeInv, ComputeCoord
<1>2. dim_index \in Nat /\ ndims \in Nat \ {0} /\ Dims = 0 .. ndims-1
  BY <1>1, InputFacts
<1>3. Cut = Dims
  BY <1>1, <1>2, AllCut
<1>4. dim_order' = dim_order
  <2>1. max_dim' = max_dim
    BY <1>1 DEF max_dim
  <2> QED
    BY <2>1 DEF dim_order
<1>5. Cut' = Dims
  <2>1. \A k \in Dims : k < dim_index /\ k < dim_index + 1
    BY <1>1, <1>2
  <2>2. Cut' = Cut
    BY <1>1, <1>4, <2>1 DEF Cut
  <2> QED
    BY <1>3, <2>2
<1>6. Ranks' = Ranks
  BY <1>1 DEF Ranks
<1>7. Given' /\ Done' /\ ~ Done
  BY <1>1, <1>2 DEF Given, Done
<1> QED
  BY <1>1, <1>3, <1>5, <1>6, <1>7 DEF ComputeCoord

LEMMA ComputeTyped == TypeInv /\ ComputeCoord => TypeInv'
<1> SUFFICES ASSUME TypeInv, ComputeCoord PROVE TypeInv'
  OBVIOUS
<1>0. Given /\ \A p \in Ranks : Typed(walk[p], Cut)
  BY DEF TypeInv
<1>1. /\ Cut = Dims /\ Cut' = Dims /\ input' = input /\ Ranks' = Ranks /\ Given'
      /\ walk' = [p \in Ranks |-> [walk[p] EXCEPT !.coord = compute_coord(walk[p])]]
  BY ComputeFacts
<1>2. ASSUME NEW p \in Ranks PROVE Typed(walk[p], Cut)'
  <2>1. PICK v : v = [walk[p] EXCEPT !.coord = compute_coord(walk[p])]
    OBVIOUS
  <2>2. Typed(v, Dims)
    BY <1>0, <1>1, <2>1, Computed
  <2>3. walk'[p] = v
    BY <1>1, <2>1
  <2> QED
    BY <1>1, <2>2, <2>3, StillTyped
<1>3. (walk = [p \in Ranks |-> walk[p]])'
  BY <1>1
<1>4. \A p \in Ranks' : Typed(walk[p], Cut)'
  BY <1>1, <1>2
<1> QED
  BY <1>1, <1>3, <1>4 DEF TypeInv

LEMMA ComputeFull == TypeInv /\ FullInv /\ ComputeCoord => FullInv'
<1> SUFFICES ASSUME TypeInv, FullInv, ComputeCoord, GridIsFull'
             PROVE  /\ \A p \in Ranks' : Exact(walk[p], Cut)' /\ Located(walk[p])'
                    /\ \A p \in Ranks' : Within(walk[p], p, input.world_size)'
                    /\ \A p, q \in Ranks' : Paired(walk[p], walk[q], p, q)'
                    /\ \A p \in Ranks' \ {0} : Adjacent(walk[p-1], walk[p], Cut)'
  BY DEF FullInv
<1>0. Given /\ \A p \in Ranks : Typed(walk[p], Dims)
  BY ComputeFacts DEF TypeInv
<1>1. /\ Cut = Dims /\ Cut' = Dims /\ input' = input /\ Ranks' = Ranks /\ Done' /\ ~ Done
      /\ walk' = [p \in Ranks |-> [walk[p] EXCEPT !.coord = compute_coord(walk[p])]]
  BY ComputeFacts
<1>2. /\ \A p \in Ranks : Exact(walk[p], Dims) /\ AtCorner(walk[p], Dims)
      /\ \A p \in Ranks : Within(walk[p], p, input.world_size)
      /\ \A p, q \in Ranks : Paired(walk[p], walk[q], p, q)
      /\ \A p \in Ranks \ {0} : Adjacent(walk[p-1], walk[p], Dims)
  <2>1. GridIsFull
    BY <1>1 DEF GridIsFull
  <2> QED
    BY <1>1, <2>1 DEF FullInv, Located
<1>3. ASSUME NEW p \in Ranks
      PROVE  \E v : /\ walk'[p] = v
                    /\ \A d \in Dims : v.coord[d] = walk[p].coord[d] + Offset(walk[p], d)
                    /\ v.target_rank = walk[p].target_rank
                    /\ v.total_nodes = walk[p].total_nodes
                    /\ v.flip_next = walk[p].flip_next /\ v.strip_sizes = walk[p].strip_sizes
                    /\ v.strip_coord = walk[p].strip_coord
                    /\ v.flipped_dim = walk[p].flipped_dim
  BY <1>0, <1>1, Computed
<1>4. ASSUME NEW p \in Ranks PROVE Exact(walk[p], Cut)' /\ Located(walk[p])'
  <2>1. PICK v : /\ walk'[p] = v
                 /\ \A d \in Dims : v.coord[d] = walk[p].coord[d] + Offset(walk[p], d)
                 /\ v.target_rank = walk[p].target_rank
                 /\ v.total_nodes = walk[p].total_nodes
                 /\ v.strip_sizes = walk[p].strip_sizes
                 /\ v.strip_coord = walk[p].strip_coord
                 /\ v.flipped_dim = walk[p].flipped_dim
    BY <1>3
  <2>2. Exact(v, Dims)
    <3>1. Extent(v, Dims) = Extent(walk[p], Dims)
      BY <2>1 DEF Extent
    <3> QED
      BY <1>2, <2>1, <3>1 DEF Exact
  <2>3. InCell(v)
    <3>1. \A d \in Dims : Offset(v, d) = Offset(walk[p], d)
      BY <2>1 DEF Offset, Row
    <3>2. \A d \in Dims : walk[p].coord[d] = Low(d, walk[p].strip_coord[d])
      BY <1>2 DEF AtCorner
    <3> QED
      BY <2>1, <3>1, <3>2 DEF InCell
  <2>4. Exact(walk[p], Cut)'
    BY <1>1, <2>1, <2>2, StillExact
  <2>5. Located(walk[p])'
    BY <1>1, <2>1, <2>3, StillLocated
  <2> QED
    BY <2>4, <2>5
<1>5. ASSUME NEW p \in Ranks, NEW q \in Ranks PROVE Paired(walk[p], walk[q], p, q)'
  <2>1. Paired(walk[p], walk[q], p, q)
    BY <1>2
  <2> QED
    BY <1>3, <2>1 DEF Paired, Alike
<1>6. ASSUME NEW p \in Ranks \ {0} PROVE Adjacent(walk[p-1], walk[p], Cut)'
  <2>1. p-1 \in Ranks /\ p \in Ranks
    BY <1>0, InputFacts DEF Ranks
  <2>2. Adjacent(walk[p-1], walk[p], Dims)
    BY <1>2
  <2>3. PICK v : /\ walk'[p-1] = v
                 /\ v.target_rank = walk[p-1].target_rank
                 /\ v.total_nodes = walk[p-1].total_nodes
                 /\ v.flip_next = walk[p-1].flip_next
                 /\ v.strip_coord = walk[p-1].strip_coord
    BY <1>3, <2>1
  <2>4. PICK w : /\ walk'[p] = w
                 /\ w.target_rank = walk[p].target_rank
                 /\ w.flip_next = walk[p].flip_next
                 /\ w.strip_coord = walk[p].strip_coord
    BY <1>3, <2>1
  <2>5. Adjacent(v, w, Dims)
    BY <2>2, <2>3, <2>4 DEF Adjacent
  <2> QED
    BY <1>1, <2>3, <2>4, <2>5
<1>7. ASSUME NEW p \in Ranks PROVE Within(walk[p], p, input.world_size)'
  <2>1. Within(walk[p], p, input.world_size)
    BY <1>2
  <2> QED
    BY <1>1, <1>3, <2>1 DEF Within
<1> QED
  BY <1>1, <1>4, <1>5, <1>6, <1>7

LEMMA StepInv == TypeInv /\ FullInv /\ [Next]_vars => TypeInv' /\ FullInv'
<1> SUFFICES ASSUME TypeInv, FullInv, [Next]_vars PROVE TypeInv' /\ FullInv'
  OBVIOUS
<1>1. CASE ChooseStrip
  BY <1>1, ChooseTyped, ChooseFull
<1>2. CASE ComputeCoord
  BY <1>2, ComputeTyped, ComputeFull
<1>3. CASE UNCHANGED vars
  <2>1. input' = input /\ dim_index' = dim_index /\ walk' = walk
    BY <1>3 DEF vars
  <2>2. Cut' = Cut /\ Ranks' = Ranks /\ (Done' <=> Done) /\ Cut \in SUBSET Dims
        /\ (GridIsFull' <=> GridIsFull)
    <3>1. dim_order' = dim_order
      <4>1. max_dim' = max_dim
        BY <2>1 DEF max_dim
      <4> QED
        BY <4>1 DEF dim_order
    <3>2. Cut' = Cut /\ Ranks' = Ranks /\ (Done' <=> Done) /\ (GridIsFull' <=> GridIsFull)
      BY <2>1, <3>1 DEF Cut, Ranks, Done, GridIsFull
    <3>3. Cut \in SUBSET Dims
      <4>1. Given
        BY DEF TypeInv
      <4> QED
        BY <4>1, OrderFacts DEF Cut
    <3> QED
      BY <3>2, <3>3
  <2>3. TypeInv'
    <3>1. ASSUME NEW p \in Ranks PROVE Typed(walk[p], Cut)'
      <4>1. PICK v : v = walk[p]
        OBVIOUS
      <4>2. PICK S : S = Cut
        OBVIOUS
      <4>3. Typed(v, S) /\ walk'[p] = v /\ Cut' = S
        BY <2>1, <2>2, <4>1, <4>2 DEF TypeInv
      <4> QED
        BY <2>1, <4>3, StillTyped
    <3>2. \A p \in Ranks' : Typed(walk[p], Cut)'
      BY <2>2, <3>1
    <3>3. Given' /\ (walk = [p \in Ranks |-> walk[p]])'
      BY <2>1, <2>2 DEF TypeInv, Given
    <3> QED
      BY <3>2, <3>3 DEF TypeInv
  <2>4. FullInv'
    <3> SUFFICES ASSUME GridIsFull
                 PROVE  /\ \A p \in Ranks' : Exact(walk[p], Cut)' /\ Located(walk[p])'
                        /\ \A p \in Ranks' : Within(walk[p], p, input.world_size)'
                        /\ \A p, q \in Ranks' : Paired(walk[p], walk[q], p, q)'
                        /\ \A p \in Ranks' \ {0} : Adjacent(walk[p-1], walk[p], Cut)'
      BY <2>2 DEF FullInv
    <3>1. ASSUME NEW p \in Ranks PROVE Exact(walk[p], Cut)' /\ Located(walk[p])'
      <4>1. PICK v : v = walk[p]
        OBVIOUS
      <4>2. PICK S : S = Cut
        OBVIOUS
      <4>3. Exact(v, S) /\ walk'[p] = v /\ Cut' = S /\ S \in SUBSET Dims
        BY <2>1, <2>2, <4>1, <4>2 DEF FullInv
      <4>4. Exact(walk[p], Cut)'
        BY <2>1, <4>3, StillExact
      <4>5. IF Done THEN InCell(v) ELSE AtCorner(v, S)
        BY <4>1, <4>2 DEF FullInv, Located
      <4>6. IF Done' THEN InCell(v) ELSE AtCorner(v, S)
        BY <2>2, <4>5
      <4>7. Located(walk[p])'
        BY <2>1, <4>3, <4>6, StillLocated
      <4> QED
        BY <4>4, <4>7
    <3>2. \A p, q \in Ranks : Paired(walk[p], walk[q], p, q)'
      BY <2>1 DEF FullInv
    <3>3. \A p \in Ranks \ {0} : Adjacent(walk[p-1], walk[p], Cut)'
      BY <2>1, <2>2 DEF FullInv
    <3>4. \A p \in Ranks : Within(walk[p], p, input.world_size)'
      BY <2>1 DEF FullInv
    <3> QED
      BY <2>2, <3>1, <3>2, <3>3, <3>4
  <2> QED
    BY <2>3, <2>4
<1> QED
  BY <1>1, <1>2, <1>3 DEF Next

LEMMA Invariance == Spec => [](TypeInv /\ FullInv)
<1>1. Init => TypeInv /\ FullInv
  BY InitInv
<1>2. (TypeInv /\ FullInv) /\ [Next]_vars => (TypeInv /\ FullInv)'
  BY StepInv
<1> QED
  BY <1>1, <1>2, PTL DEF Spec

----------------------------------------------------------------------------
(***************************************************************************)
(* What the invariant says at the end.                                     *)
(***************************************************************************)
\* The dimensions in the order of dim_order.
Before ==
  {z \in Dims \X Dims :
     \E i \in Dims : \E k \in 0 .. i-1 : dim_order[i] = z[2] /\ dim_order[k] = z[1]}

LEMMA BeforeIsOrder ==
  ASSUME Given
  PROVE  /\ IsOrder(Before, Dims)
         /\ \A d \in Dims : After(Before, Dims, d) = Inner(d)
<1>0. ndims \in Nat \ {0} /\ Dims = 0 .. ndims-1
  BY InputFacts
<1>1. /\ \A i \in Dims : dim_order[i] \in Dims
      /\ \A i, j \in Dims : dim_order[i] = dim_order[j] => i = j
      /\ \A d \in Dims : \E i \in Dims : dim_order[i] = d
  BY OrderFacts
<1>2. \A x, y \in Dims : <<x, y>> \in Before <=>
        \E i \in Dims : \E k \in 0 .. i-1 : dim_order[i] = y /\ dim_order[k] = x
  BY DEF Before
<1>3. ASSUME NEW T \in SUBSET Dims, T # {}
      PROVE  \E x \in T : \A y \in T \ {x} : <<x, y>> \in Before
  <2> DEFINE places == {i \in Dims : dim_order[i] \in T}
  <2>1. places \subseteq Nat /\ places # {}
    <3>1. PICK x \in T : x \in Dims
      BY <1>3
    <3>2. PICK i \in Dims : dim_order[i] = x
      BY <1>1, <3>1
    <3> QED
      BY <1>0, <3>1, <3>2
  <2>2. PICK i \in places : \A j \in places : i <= j
    <3> HIDE DEF places
    <3> QED
      BY <2>1, LeastElement
  <2>3. ASSUME NEW y \in T \ {dim_order[i]} PROVE <<dim_order[i], y>> \in Before
    <3>1. PICK j \in Dims : dim_order[j] = y
      BY <1>1
    <3>2. j \in places /\ i <= j /\ i # j
      BY <2>2, <3>1
    <3>3. i \in 0 .. j-1
      BY <1>0, <3>2
    <3> QED
      BY <1>1, <1>2, <3>1, <3>3
  <2> QED
    BY <2>3
<1>4. ASSUME NEW x \in Dims, NEW y \in Dims, <<x, y>> \in Before PROVE <<y, x>> \notin Before
  <2>0. PICK i \in Dims : \E k \in 0 .. i-1 : dim_order[i] = y /\ dim_order[k] = x
    BY <1>2, <1>4
  <2>1. PICK k \in 0 .. i-1 : dim_order[i] = y /\ dim_order[k] = x
    BY <2>0
  <2> SUFFICES ASSUME <<y, x>> \in Before PROVE FALSE
    OBVIOUS
  <2>2a. PICK j \in Dims : \E l \in 0 .. j-1 : dim_order[j] = x /\ dim_order[l] = y
    BY <1>2
  <2>2. PICK l \in 0 .. j-1 : dim_order[j] = x /\ dim_order[l] = y
    BY <2>2a
  <2>3. k \in Dims /\ l \in Dims
    BY <1>0, <2>1, <2>2
  <2>4. i = l /\ j = k
    BY <1>1, <2>1, <2>2, <2>3
  <2> QED
    BY <1>0, <2>1, <2>2, <2>4
<1>5. ASSUME NEW d \in Dims PROVE After(Before, Dims, d) = Inner(d)
  <2>1. \A y \in Dims : y \in After(Before, Dims, d) <=> y \in Inner(d)
    BY <1>2 DEF After, Inner
  <2>2. After(Before, Dims, d) \subseteq Dims /\ Inner(d) \subseteq Dims
    BY <1>1 DEF After, Inner
  <2> QED
    BY <2>1, <2>2
<1> QED
  BY <1>3, <1>4, <1>5 DEF IsOrder

\* Two indices in a bundle that stand for the same row of every dimension are equal.
LEMMA IndexUnique ==
  ASSUME Given, NEW v, Typed(v, Dims), Exact(v, Dims), NEW w, Typed(w, Dims), Exact(w, Dims),
         v.strip_sizes = w.strip_sizes, \A d \in Dims : Row(v, d) = Row(w, d)
  PROVE  v.target_rank = w.target_rank
<1> DEFINE f == v.strip_sizes
           m == v.target_rank
           k == w.target_rank
<1>0. ndims \in Nat \ {0} /\ Dims = 0 .. ndims-1
  BY InputFacts
<1>1. f \in [Dims -> Nat] /\ m \in Nat /\ k \in Nat
  BY DEF Typed, Walks
<1>2. \A d \in Dims : f[d] \in Nat \ {0}
  BY RowFacts
<1>3. Extent(v, Dims) = f /\ Extent(w, Dims) = f
  BY <1>1 DEF Extent
<1>4. f \in [0 .. ndims-1 -> Nat \ {0}]
  BY <1>0, <1>1, <1>2
<1>5. m < Volume(f, ndims) /\ k < Volume(f, ndims)
  BY <1>3 DEF Exact
<1>6. \A d \in Dims : SameDigit(m, k, ProductOver(f, After(Before, Dims, d)), f[d])
  BY BeforeIsOrder DEF SameDigit, Row
<1> HIDE DEF f, m, k
<1>7. ProductOver(f, Dims) = Volume(f, ndims)
  BY <1>0, <1>4, ProductIsVolume
<1>8. m < ProductOver(f, Dims) /\ k < ProductOver(f, Dims)
  BY <1>5, <1>7
<1>9. IsFiniteSet(Dims) /\ IsOrder(Before, Dims) /\ \A d \in Dims : f[d] \in Positive
  BY <1>2, DimsFinite, BeforeIsOrder DEF Positive
<1>10. m = k
  BY <1>1, <1>6, <1>8, <1>9, MixedRadix
<1> QED
  BY <1>10 DEF m, k

LEMMA CellInGrid ==
  ASSUME Given, NEW w, Typed(w, Dims), Exact(w, Dims), InCell(w)
  PROVE  w.coord \in [Dims -> Nat] /\ \A d \in Dims : w.coord[d] < input.dims[d]
<1>1. ASSUME NEW d \in Dims PROVE w.coord[d] \in Nat /\ w.coord[d] < input.dims[d]
  <2> DEFINE k == w.strip_coord[d]
             o == Offset(w, d)
             low == Low(d, k)
             s == Size(d, k)
             x == input.dims[d]
  <2>1. k \in 0 .. num_strips(d)-1 /\ w.strip_sizes[d] = s
    BY DEF Exact
  <2>2. o \in 0 .. s-1
    BY <2>1, RowFacts
  <2>3. low \in Nat /\ s \in Nat \ {0} /\ low + s <= x /\ x \in Nat
    BY <2>1, InputFacts, Stacked DEF Extents
  <2>4. w.coord[d] = low + o
    BY DEF InCell
  <2> HIDE DEF low, s, o, x
  <2>5. w.coord[d] \in Nat /\ w.coord[d] < x
    BY <2>2, <2>3, <2>4
  <2> QED
    BY <2>5 DEF x
<1>2. w.coord \in [Dims -> Int]
  BY DEF Typed, Walks
<1> QED
  BY <1>1, <1>2

LEMMA CellUnique ==
  ASSUME Given, NEW v, Typed(v, Dims), Exact(v, Dims), InCell(v),
         NEW w, Typed(w, Dims), Exact(w, Dims), InCell(w), v.coord = w.coord,
         NEW p \in Nat, NEW q \in Nat, Paired(v, w, p, q)
  PROVE  p = q
<1>1. ASSUME NEW d \in Dims
      PROVE  v.strip_coord[d] = w.strip_coord[d] /\ Offset(v, d) = Offset(w, d)
  <2> DEFINE k == v.strip_coord[d]
             l == w.strip_coord[d]
             n == num_strips(d)
             o == Offset(v, d)
             e == Offset(w, d)
             low(j) == Low(d, j)
             size(j) == Size(d, j)
  <2>1. /\ k \in 0 .. n-1 /\ v.strip_sizes[d] = size(k)
        /\ l \in 0 .. n-1 /\ w.strip_sizes[d] = size(l)
    BY DEF Exact
  <2>2. o \in 0 .. size(k)-1 /\ e \in 0 .. size(l)-1
    BY <2>1, RowFacts
  <2>3. low(k) + o = low(l) + e
    <3>1. v.coord[d] = low(k) + o /\ w.coord[d] = low(l) + e
      BY DEF InCell
    <3> QED
      BY <3>1
  <2>4. n \in Nat \ {0}
    BY InputFacts, Stacked
  <2>5. low(k) \in Nat /\ low(l) \in Nat /\ size(k) \in Nat /\ size(l) \in Nat
    BY <2>1, InputFacts, Stacked
  <2>6. /\ k < l => low(k) + size(k) <= low(l)
        /\ l < k => low(l) + size(l) <= low(k)
    BY <2>1, InputFacts, Stacked
  <2> HIDE DEF low, size, o, e, n, k, l
  <2>7. k = l
    <3>1. ~ (k < l) /\ ~ (l < k)
      BY <2>2, <2>3, <2>5, <2>6
    <3> QED
      BY <2>1, <2>4, <3>1
  <2>8. o = e
    BY <2>2, <2>3, <2>5, <2>7
  <2> QED
    BY <2>7, <2>8 DEF k, l, o, e
<1>2. v.strip_coord = w.strip_coord
  <2>1. v.strip_coord \in [Dims -> Int] /\ w.strip_coord \in [Dims -> Int]
    BY DEF Typed, Walks
  <2> QED
    BY <1>1, <2>1
<1>3. /\ v.strip_sizes = w.strip_sizes /\ v.flipped_dim = w.flipped_dim
      /\ p - v.target_rank = q - w.target_rank
  BY <1>2 DEF Paired, Alike
<1>4. ASSUME NEW d \in Dims PROVE Row(v, d) = Row(w, d)
  <2> DEFINE r == Row(v, d)
             t == Row(w, d)
             s == v.strip_sizes[d]
  <2>1. r \in 0 .. s-1 /\ t \in 0 .. s-1 /\ s \in Nat
    BY <1>3, RowFacts
  <2>2. CASE v.flipped_dim[d]
    <3>1. s - (r + 1) = s - (t + 1)
      BY <1>1, <1>3, <2>2 DEF Offset, Mirrored
    <3> HIDE DEF r, t, s
    <3>2. r = t
      BY <2>1, <3>1
    <3> QED
      BY <3>2 DEF r, t
  <2>3. CASE ~ v.flipped_dim[d]
    BY <1>1, <1>3, <2>3 DEF Offset
  <2> QED
    BY <2>2, <2>3
<1>5. v.target_rank = w.target_rank
  BY <1>3, <1>4, IndexUnique
<1>6. v.target_rank \in Nat
  BY DEF Typed, Walks
<1> QED
  BY <1>3, <1>5, <1>6

----------------------------------------------------------------------------
\* Ranks and counts of nodes never become negative, also where the communicator has
\* more processes than the grid has cells (stencil_strips.cpp:118-173).
THEOREM TypesCorrect == Spec => []TypeOK
<1>1. TypeInv => TypeOK
  BY InputFacts DEF TypeInv, Given, TypeOK, Typed, Walks
<1> QED
  BY <1>1, Invariance, PTL

\* In a full grid the count of nodes that is carried from dimension to dimension, each
\* time divided by the extent and multiplied by a height, stays the size of the bundle
\* (stencil_strips.cpp:118-173).
THEOREM CountsAreExact == Spec => []BundleExact
<1>1. FullInv => BundleExact
  BY DEF FullInv, BundleExact, Exact, Extent
<1> QED
  BY <1>1, Invariance, PTL

\* In a full grid the processes of every bundle have consecutive ranks, as many as the
\* bundle has cells.
THEOREM BundlesAreRuns == Spec => []BundlesConsecutive
<1>1. TypeInv /\ FullInv => BundlesConsecutive
  <2> SUFFICES ASSUME TypeInv, FullInv, GridIsFull, NEW p \in Ranks
               PROVE  {q \in Ranks : walk[q].strip_coord = walk[p].strip_coord}
                        = (p - walk[p].target_rank) ..
                          (p - walk[p].target_rank + walk[p].total_nodes - 1)
    BY DEF BundlesConsecutive
  <2>1. /\ \A q \in Ranks : Exact(walk[q], Cut) /\ Paired(walk[p], walk[q], p, q)
        /\ Within(walk[p], p, input.world_size)
    BY DEF FullInv
  <2>2. input.world_size \in Nat
    BY InputFacts DEF TypeInv
  <2>3. \A q \in Ranks : /\ walk[q].target_rank \in Nat /\ walk[q].total_nodes \in Nat
                         /\ q \in Nat
    <3>1. \A q \in Ranks : walk[q].target_rank \in Nat /\ walk[q].total_nodes \in Nat
      BY DEF TypeInv, Typed, Walks
    <3>2. \A q \in Ranks : q \in Nat
      BY DEF Ranks
    <3> QED
      BY <3>1, <3>2
  <2>4. ASSUME NEW q \in Ranks, walk[q].strip_coord = walk[p].strip_coord
        PROVE  q \in (p - walk[p].target_rank) ..
                     (p - walk[p].target_rank + walk[p].total_nodes - 1)
    <3>1. /\ p - walk[p].target_rank = q - walk[q].target_rank
          /\ walk[p].total_nodes = walk[q].total_nodes
      BY <2>1, <2>4 DEF Paired, Alike
    <3>2. walk[q].target_rank < walk[q].total_nodes
      BY <2>1 DEF Exact
    <3> QED
      BY <2>3, <3>1, <3>2
  <2>5. ASSUME NEW q \in (p - walk[p].target_rank) ..
                         (p - walk[p].target_rank + walk[p].total_nodes - 1)
        PROVE  q \in Ranks /\ walk[q].strip_coord = walk[p].strip_coord
    <3>1. q \in Ranks
      BY <2>1, <2>2, <2>3 DEF Within, Ranks
    <3> QED
      BY <2>1, <3>1 DEF Paired
  <2> QED
    BY <2>4, <2>5
<1> QED
  BY <1>1, Invariance, PTL

\* In a full grid the keys of the split are the ranks, each once, so that the process
\* that becomes rank k of the new communicator sits on cell k
\* (stencil_strips.cpp:190-201).
THEOREM KeysAreExact == Spec => []KeysAreRanks
<1>1. TypeInv /\ FullInv => KeysAreRanks
  <2> SUFFICES ASSUME TypeInv, FullInv, GridIsFull, Done
               PROVE  /\ \A p \in Ranks : InGrid(walk[p].coord, input.dims)
                      /\ {NewRank(p) : p \in Ranks} = Ranks
    BY DEF KeysAreRanks
  <2>1. Given /\ ndims \in Nat \ {0} /\ Dims = 0 .. ndims-1
        /\ input.dims \in [Dims -> Nat \ {0}]
    BY InputFacts DEF TypeInv, Extents
  <2>2. Cut = Dims
    BY <2>1, AllCut DEF Done
  <2>3. /\ \A p \in Ranks : /\ Typed(walk[p], Dims) /\ Exact(walk[p], Dims) /\ InCell(walk[p])
                            /\ p \in Nat
        /\ \A p, q \in Ranks : Paired(walk[p], walk[q], p, q)
    <3>1. \A q \in Ranks : q \in Nat
      BY DEF Ranks
    <3>2. \A q \in Ranks : Typed(walk[q], Dims)
      BY <2>2 DEF TypeInv
    <3>3. /\ \A q \in Ranks : Exact(walk[q], Dims) /\ Located(walk[q])
          /\ \A q, r \in Ranks : Paired(walk[q], walk[r], q, r)
      BY <2>2 DEF FullInv
    <3> QED
      BY <3>1, <3>2, <3>3 DEF Located
  <2>4. \A p \in Ranks : /\ walk[p].coord \in [Dims -> Nat]
                         /\ \A d \in Dims : walk[p].coord[d] < input.dims[d]
    BY <2>1, <2>3, CellInGrid
  <2>5. \A p, q \in Ranks : walk[p].coord = walk[q].coord => p = q
    BY <2>1, <2>3, CellUnique
  <2>6. ASSUME NEW p \in Ranks PROVE InGrid(walk[p].coord, input.dims)
    <3>1. ASSUME NEW i \in DOMAIN input.dims
          PROVE  walk[p].coord[i] \in 0 .. input.dims[i]-1
      <4> DEFINE c == walk[p].coord[i]
                 x == input.dims[i]
      <4>1. i \in Dims
        BY <2>1
      <4>2. c \in Nat /\ x \in Nat /\ c < x
        BY <2>1, <2>4, <4>1
      <4> HIDE DEF c, x
      <4>3. c \in 0 .. x-1
        BY <4>2
      <4> QED
        BY <4>3 DEF c, x
    <3> QED
      BY <3>1 DEF InGrid
  <2> DEFINE at == [p \in Ranks |-> walk[p].coord]
  <2>7. AllPlaced(Ranks, at, input.dims, ndims)
    <3>1. Ranks = 0 .. Volume(input.dims, ndims)-1
      BY DEF Ranks, GridIsFull
    <3> QED
      BY <2>1, <2>4, <2>5, <3>1 DEF AllPlaced
  <2>8. RanksAt(Ranks, at, input.dims, ndims) = Ranks
    <3> HIDE DEF at
    <3> QED
      BY <2>1, <2>7, RanksOnto
  <2>9. RanksAt(Ranks, at, input.dims, ndims) = {NewRank(p) : p \in Ranks}
    BY DEF RanksAt, NewRank
  <2> QED
    BY <2>6, <2>8, <2>9
<1> QED
  BY <1>1, Invariance, PTL

\* In a full grid the next rank is in the same bundle or in one that lies next to it in
\* one dimension (stencil_strips.cpp:145-172).
THEOREM NoJumps == Spec => []SnakeContinuity
<1>1. TypeInv /\ FullInv => SnakeContinuity
  <2> SUFFICES ASSUME TypeInv, FullInv, GridIsFull, NEW p \in Ranks \ {0}
               PROVE  LET moved == {d \in Dims : walk[p].strip_coord[d] # walk[p-1].strip_coord[d]}
                      IN /\ Cardinality(moved) <= 1
                         /\ \A d \in moved :
                              walk[p].strip_coord[d] - walk[p-1].strip_coord[d] \in {-1, 1}
    BY DEF SnakeContinuity
  <2> DEFINE v == walk[p-1].strip_coord
             w == walk[p].strip_coord
             moved == {d \in Dims : w[d] # v[d]}
  <2>1. p-1 \in Ranks
    BY InputFacts DEF TypeInv, Ranks
  <2>2. v \in [Dims -> Int] /\ w \in [Dims -> Int]
    BY <2>1 DEF TypeInv, Typed, Walks
  <2>3. \/ v = w
        \/ \E e \in Cut, step \in {-1, 1} : w = [v EXCEPT ![e] = @ + step]
    BY DEF FullInv, Adjacent
  <2> HIDE DEF v, w
  <2>4. CASE v = w
    <3>1. moved = {}
      BY <2>4
    <3> QED
      BY <3>1, FS_EmptySet DEF v, w
  <2>5. CASE \E e \in Cut, step \in {-1, 1} : w = [v EXCEPT ![e] = @ + step]
    <3>1. PICK e \in Cut, step \in {-1, 1} : w = [v EXCEPT ![e] = @ + step]
      BY <2>5
    <3>2. moved \subseteq {e}
      BY <2>2, <3>1
    <3>3. ASSUME NEW d \in moved PROVE w[d] - v[d] \in {-1, 1}
      <4>1. d = e /\ d \in Dims
        BY <3>2
      <4>2. w[d] = v[d] + step /\ v[d] \in Int
        BY <2>2, <3>1, <4>1
      <4> QED
        BY <4>2
    <3>4. Cardinality(moved) <= 1
      <4>1. IsFiniteSet({e}) /\ Cardinality({e}) = 1
        BY FS_Singleton
      <4> HIDE DEF moved
      <4>2. IsFiniteSet(moved) /\ Cardinality(moved) <= Cardinality({e})
        BY <3>2, <4>1, FS_Subset
      <4> QED
        BY <4>1, <4>2
    <3> QED
      BY <3>3, <3>4 DEF v, w
  <2> QED
    BY <2>3, <2>4, <2>5
<1> QED
  BY <1>1, Invariance, PTL
=============================================================================
