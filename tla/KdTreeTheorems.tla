--------------------------- MODULE KdTreeTheorems ---------------------------
(***************************************************************************)
(* Theorems about KdTree, for grids of every number of dimensions and      *)
(* every extent, every stencil and every number of processes.              *)
(***************************************************************************)
EXTENDS KdTree, GridTheorems

\* The choice of the dimension is a recursion that has a solution.
LEMMA MaxIndexRecursion ==
  ASSUME NEW a \in Extents, NEW f
  PROVE  \E best \in [0 .. ndims -> Dims \cup {NoDim}] :
           /\ best[0] = NoDim
           /\ \A n \in 1 .. ndims :
                best[n] = IF a[n-1] > 1 /\ (best[n-1] # NoDim => Outweighs(a, f, n-1, best[n-1]))
                          THEN n-1
                          ELSE best[n-1]
           /\ skewed_max_index(a, f) = best[ndims]
<1> DEFINE Candidates == Dims \cup {NoDim}
           Better(n, j) == a[n-1] > 1 /\ (j # NoDim => Outweighs(a, f, n-1, j))
           step == [x \in Nat \X Candidates |->
                      IF x[1] \in 1 .. ndims /\ Better(x[1], x[2]) THEN x[1]-1 ELSE x[2]]
           IsBest(b) == b = [n \in 0 .. ndims |->
                               IF n = 0 THEN NoDim ELSE IF Better(n, b[n-1]) THEN n-1 ELSE b[n-1]]
           b == CHOOSE b : IsBest(b)
<1> HIDE DEF Better
<1>0. ndims \in Nat /\ NoDim \in Candidates
  BY NdimsAssumption
<1>1. step \in [Nat \X Candidates -> Candidates]
  <2> SUFFICES ASSUME NEW n \in Nat, NEW j \in Candidates
               PROVE  (IF n \in 1 .. ndims /\ Better(n, j) THEN n-1 ELSE j) \in Candidates
    OBVIOUS
  <2>1. n \in 1 .. ndims => n-1 \in Dims
    BY <1>0 DEF Dims
  <2> QED
    BY <2>1
<1>2. PICK g \in [0 .. ndims -> Candidates] : Solves(g, ndims, NoDim, step)
  <2> HIDE DEF step, Candidates
  <2> QED
    BY <1>0, <1>1, RecursionExists
<1>3. \A n \in 1 .. ndims : g[n] = IF Better(n, g[n-1]) THEN n-1 ELSE g[n-1]
  <2> TAKE n \in 1 .. ndims
  <2>1. n \in Nat /\ n-1 \in 0 .. ndims
    BY <1>0
  <2>2. g[n-1] \in Candidates
    BY <2>1
  <2>3. g[n] = step[<<n, g[n-1]>>]
    BY <1>2 DEF Solves
  <2> HIDE DEF Candidates
  <2> QED
    BY <2>1, <2>2, <2>3
<1>4. IsBest(g)
  BY <1>2, <1>3 DEF Solves
<1>5. IsBest(b)
  <2> HIDE DEF IsBest
  <2> QED
    BY <1>4
<1>6. skewed_max_index(a, f) = b[ndims]
  BY DEF skewed_max_index, Better
<1>7. b[0] = NoDim /\ \A n \in 1 .. ndims : b[n] = IF Better(n, b[n-1]) THEN n-1 ELSE b[n-1]
  <2> HIDE DEF b
  <2> QED
    BY <1>0, <1>5
<1> DEFINE T == {n \in Nat : n <= ndims => b[n] \in Candidates}
<1> HIDE DEF b
<1>8. 0 \in T
  BY <1>7
<1>9. ASSUME NEW n \in Nat, n \in T PROVE n+1 \in T
  <2> SUFFICES ASSUME n+1 <= ndims PROVE b[n+1] \in Candidates
    OBVIOUS
  <2>1. b[n] \in Candidates /\ n+1 \in 1 .. ndims /\ (n+1)-1 = n /\ n \in Dims
    BY <1>0, <1>9 DEF Dims
  <2> QED
    BY <1>7, <2>1
<1> HIDE DEF T
<1>10. Nat \subseteq T
  BY <1>8, <1>9, SetInduction
<1>11. b \in [0 .. ndims -> Candidates]
  <2>1. \A n \in 0 .. ndims : b[n] \in Candidates
    BY <1>0, <1>10 DEF T
  <2>2. b = [n \in 0 .. ndims |->
               IF n = 0 THEN NoDim ELSE IF Better(n, b[n-1]) THEN n-1 ELSE b[n-1]]
    BY <1>5
  <2> HIDE DEF Candidates
  <2> QED
    BY <2>1, <2>2
<1> QED
  BY <1>6, <1>7, <1>11 DEF Better

\* The dimension chosen for a split has an extent above 1; none is chosen only when
\* every extent is 1.
LEMMA MaxIndexSplittable ==
  ASSUME NEW a \in Extents, NEW f
  PROVE  LET s == skewed_max_index(a, f)
         IN \/ s \in Dims /\ a[s] > 1
            \/ s = NoDim /\ \A i \in Dims : a[i] = 1
<1>1. PICK best \in [0 .. ndims -> Dims \cup {NoDim}] :
        /\ best[0] = NoDim
        /\ \A n \in 1 .. ndims :
             best[n] = IF a[n-1] > 1 /\ (best[n-1] # NoDim => Outweighs(a, f, n-1, best[n-1]))
                       THEN n-1
                       ELSE best[n-1]
        /\ skewed_max_index(a, f) = best[ndims]
  BY MaxIndexRecursion
<1> DEFINE P(n) == \/ best[n] \in Dims /\ a[best[n]] > 1
                   \/ best[n] = NoDim /\ \A i \in 0 .. n-1 : a[i] = 1
           T == {n \in Nat : n <= ndims => P(n)}
<1>2. ndims \in Nat /\ a \in [Dims -> Nat \ {0}] /\ Dims = 0 .. ndims-1 /\ NoDim \notin Dims
  BY NdimsAssumption DEF Extents, Dims, NoDim
<1>3. 0 \in T
  BY <1>1
<1>4. ASSUME NEW n \in Nat, n \in T PROVE n+1 \in T
  <2> SUFFICES ASSUME n+1 <= ndims PROVE P(n+1)
    OBVIOUS
  <2>1. P(n) /\ n \in Dims /\ n+1 \in 1 .. ndims /\ (n+1)-1 = n /\ a[n] \in Nat \ {0}
    BY <1>2, <1>4
  <2>2. best[n+1] = IF a[n] > 1 /\ (best[n] # NoDim => Outweighs(a, f, n, best[n]))
                    THEN n
                    ELSE best[n]
    BY <1>1, <2>1
  <2>3. CASE best[n+1] = n /\ a[n] > 1
    BY <2>1, <2>3
  <2>4. CASE best[n+1] = best[n] /\ best[n] # NoDim
    BY <2>1, <2>4
  <2>5. CASE best[n+1] = best[n] /\ best[n] = NoDim /\ ~ (a[n] > 1)
    <3>1. \A i \in 0 .. n-1 : a[i] = 1
      BY <1>2, <2>1, <2>5
    <3>2. a[n] = 1
      BY <2>1, <2>5
    <3>3. \A i \in 0 .. (n+1)-1 : a[i] = 1
      BY <3>1, <3>2
    <3> QED
      BY <2>5, <3>3
  <2> QED
    BY <2>2, <2>3, <2>4, <2>5
<1>5. Nat \subseteq T
  <2> HIDE DEF T
  <2> QED
    BY <1>3, <1>4, SetInduction
<1>6. P(ndims)
  <2> HIDE DEF P
  <2> QED
    BY <1>2, <1>5
<1> QED
  BY <1>1, <1>2, <1>6

----------------------------------------------------------------------------
(***************************************************************************)
(* One level of the recursion.  Calls for the same subgrid agree on its    *)
(* SplitDim, LeftDim and LeftSize.                                         *)
(***************************************************************************)
IsLeaf(c) == \A d \in Dims : c.dims[d] = 1

\* A call that finds no dimension to split has a single cell, and ends.
LEMMA LeafLevel ==
  ASSUME NEW c \in Call, NEW f, NEW word, SplitDim(c, f) \notin Dims
  PROVE  /\ IsLeaf(c)
         /\ Descend(c, f, word)
              = [c EXCEPT !.status = IF word <= 1 THEN "returned" ELSE "corrupted"]
<1>1. SplitDim(c, f) = NoDim /\ \A d \in Dims : c.dims[d] = 1
  BY MaxIndexSplittable DEF SplitDim, Call
<1> QED
  BY <1>1 DEF Descend, SplitDim, IsLeaf

\* The left part has an extent and a number of processes between none and all.
LEMMA SplitLevel ==
  ASSUME NEW c \in Call, NEW f, NEW word, SplitDim(c, f) \in Dims
  PROVE  LET s == SplitDim(c, f)
             l == LeftDim(c, f)
             n == LeftSize(c, f)
         IN /\ l \in 1 .. c.dims[s]-1
            /\ n \in 0 .. c.size-1
            /\ Descend(c, f, word) = IF c.target_index < n THEN Left(c, s, l, n) ELSE Right(c, s, l, n)
<1> DEFINE s == SplitDim(c, f)
           l == LeftDim(c, f)
           n == LeftSize(c, f)
<1>1. s \in Dims /\ s # NoDim
  BY NdimsAssumption DEF Dims, NoDim
<1>2. c.dims[s] \in Nat /\ c.dims[s] > 1
  BY <1>1, MaxIndexSplittable DEF SplitDim, Call, Extents
<1>3. l \in 1 .. c.dims[s]-1
  <2> DEFINE x == c.dims[s]
  <2>1. l = x \div 2
    BY DEF LeftDim
  <2> HIDE DEF x
  <2>2. x \in Nat /\ x > 1
    BY <1>2 DEF x
  <2>3. x \div 2 \in 1 .. x-1
    BY <2>2
  <2> QED
    BY <2>1, <2>3 DEF x
<1>4. c.size \in Nat \ {0} /\ c.target_index \in Nat
  BY DEF Call
<1>5. n \in 0 .. c.size-1
  <2> DEFINE x == c.dims[s]
  <2>1. x \in Nat \ {0} /\ l \in 0 .. x-1
    BY <1>2, <1>3
  <2>2. n = (c.size \div x) * l
    BY DEF LeftSize
  <2> HIDE DEF x, l, n
  <2> QED
    BY <1>4, <2>1, <2>2, PartOfQuotient
<1>6. Descend(c, f, word) = IF c.target_index < n THEN Left(c, s, l, n) ELSE Right(c, s, l, n)
  BY <1>1, <1>4, <1>5 DEF Descend, SplitDim, LooksLeft
<1> QED
  BY <1>3, <1>5, <1>6

\* The call on the next level is well typed, and its box lies within the last one.
Inside(c, e) ==
  /\ e \in Call
  /\ \A d \in Dims : /\ c.coordinate[d] <= e.coordinate[d]
                     /\ e.coordinate[d] + e.dims[d] <= c.coordinate[d] + c.dims[d]

\* A level of the recursion stays in the box it was called with.
LEMMA DescendInside ==
  ASSUME NEW c \in Call, NEW f, NEW word
  PROVE  Inside(c, Descend(c, f, word))
<1> DEFINE e == Descend(c, f, word)
<1>1. /\ c.dims \in [Dims -> Nat \ {0}] /\ c.coordinate \in [Dims -> Nat]
      /\ c.size \in Nat \ {0} /\ c.target_index \in Nat
  BY DEF Call, Extents
<1>2. CASE SplitDim(c, f) \notin Dims
  <2>1. e = [c EXCEPT !.status = IF word <= 1 THEN "returned" ELSE "corrupted"]
    BY <1>2, LeafLevel
  <2> QED
    BY <1>1, <2>1 DEF Call, Extents, Inside
<1>3. CASE SplitDim(c, f) \in Dims
  <2> DEFINE s == SplitDim(c, f)
             l == LeftDim(c, f)
             n == LeftSize(c, f)
  <2>1. /\ s \in Dims
        /\ l \in 1 .. c.dims[s]-1
        /\ n \in 0 .. c.size-1
        /\ e = IF c.target_index < n THEN Left(c, s, l, n) ELSE Right(c, s, l, n)
    BY <1>3, SplitLevel
  <2> HIDE DEF e, s, l, n
  <2> SUFFICES Inside(c, e)
    BY DEF e
  <2>2. c.dims[s] \in Nat
    BY <1>1, <2>1
  <2>3. l \in Nat \ {0} /\ c.dims[s] - l \in Nat \ {0} /\ n \in Nat /\ c.size - n \in Nat \ {0}
    BY <1>1, <2>1, <2>2
  <2>4. CASE c.target_index < n
    <3>1. e = Left(c, s, l, n)
      BY <2>1, <2>4
    <3>2. /\ e = [dims |-> [c.dims EXCEPT ![s] = l], size |-> n,
                  target_index |-> c.target_index, coordinate |-> c.coordinate, status |-> c.status]
      BY <3>1 DEF Left, Call
    <3>3. [c.dims EXCEPT ![s] = l] \in [Dims -> Nat \ {0}]
      BY <1>1, <2>3
    <3>4. n \in Nat \ {0}
      BY <1>1, <2>3, <2>4
    <3>5. c.status \in {"calling", "returned", "corrupted"}
      BY DEF Call
    <3>6. e \in Call
      BY <1>1, <3>2, <3>3, <3>4, <3>5 DEF Call, Extents
    <3> QED
      BY <1>1, <2>1, <2>2, <3>2, <3>6 DEF Inside
  <2>5. CASE ~ (c.target_index < n)
    <3>1. e = Right(c, s, l, n)
      BY <2>1, <2>5
    <3>2. e = [dims |-> [c.dims EXCEPT ![s] = c.dims[s] - l], size |-> c.size - n,
               target_index |-> c.target_index - n,
               coordinate |-> [c.coordinate EXCEPT ![s] = c.coordinate[s] + l],
               status |-> c.status]
      BY <3>1 DEF Right, Call
    <3>3. /\ [c.dims EXCEPT ![s] = c.dims[s] - l] \in [Dims -> Nat \ {0}]
          /\ [c.coordinate EXCEPT ![s] = c.coordinate[s] + l] \in [Dims -> Nat]
      <4>1. c.coordinate[s] + l \in Nat
        BY <1>1, <2>1, <2>3
      <4> HIDE <2>5
      <4> QED
        BY <1>1, <2>3, <4>1
    <3>4. c.target_index - n \in Nat
      BY <1>1, <2>3, <2>5
    <3>5. c.status \in {"calling", "returned", "corrupted"}
      BY DEF Call
    <3>6. e \in Call
      BY <2>3, <3>2, <3>3, <3>4, <3>5 DEF Call, Extents
    <3> QED
      BY <1>1, <2>1, <2>2, <3>2, <3>6 DEF Inside
  <2> QED
    BY <2>4, <2>5
<1> QED
  BY <1>2, <1>3

\* A call that knows the number of cells of its subgrid passes on the right number.
Exact(c) == c.size = Volume(c.dims, ndims) /\ c.target_index < c.size

\* A level passes on the right number of cells, and an index below it.
LEMMA DescendExact ==
  ASSUME NEW c \in Call, NEW f, NEW word, Exact(c)
  PROVE  Exact(Descend(c, f, word))
<1> DEFINE e == Descend(c, f, word)
<1>1. /\ ndims \in Nat /\ Dims = 0 .. ndims-1
      /\ c.dims \in [Dims -> Nat \ {0}] /\ c.size \in Nat \ {0} /\ c.target_index \in Nat
  BY NdimsAssumption DEF Call, Extents, Dims
<1>2. CASE SplitDim(c, f) \notin Dims
  <2>1. e.dims = c.dims /\ e.size = c.size /\ e.target_index = c.target_index
    BY <1>2, LeafLevel DEF Call
  <2> QED
    BY <2>1 DEF Exact
<1>3. CASE SplitDim(c, f) \in Dims
  <2> DEFINE s == SplitDim(c, f)
             l == LeftDim(c, f)
             n == LeftSize(c, f)
             x == c.dims[s]
  <2>1. /\ s \in Dims
        /\ l \in 1 .. x-1
        /\ n = (c.size \div x) * l
        /\ e = IF c.target_index < n THEN Left(c, s, l, n) ELSE Right(c, s, l, n)
    BY <1>3, SplitLevel DEF LeftSize
  <2>2. PICK layer \in Nat \ {0} : \A y \in Nat : Volume([c.dims EXCEPT ![s] = y], ndims) = layer * y
    BY <1>1, <2>1, VolumeOfLayers
  <2> HIDE DEF e, s, l, n
  <2> SUFFICES Exact(e)
    BY DEF e
  <2>3. x \in Nat \ {0} /\ [c.dims EXCEPT ![s] = x] = c.dims
    BY <1>1, <2>1
  <2>4. c.size = layer * x
    BY <2>2, <2>3 DEF Exact
  <2> HIDE DEF x
  <2>5. n = layer * l
    BY <2>1, <2>3, <2>4, ExactQuotient
  <2>6. l \in Nat /\ x - l \in Nat
    BY <2>1, <2>3
  <2>7. c.size - n = layer * (x - l)
    BY <2>3, <2>4, <2>5, <2>6
  <2>8. CASE c.target_index < n
    <3>1. e.dims = [c.dims EXCEPT ![s] = l] /\ e.size = n /\ e.target_index = c.target_index
      BY <2>1, <2>8 DEF Left, Call
    <3> QED
      BY <2>2, <2>5, <2>6, <2>8, <3>1 DEF Exact
  <2>9. CASE ~ (c.target_index < n)
    <3>1. /\ e.dims = [c.dims EXCEPT ![s] = x - l]
          /\ e.size = c.size - n
          /\ e.target_index = c.target_index - n
      BY <2>1, <2>9 DEF Right, Call, x
    <3>2. e.size = Volume(e.dims, ndims)
      BY <2>2, <2>6, <2>7, <3>1
    <3>3. n \in Nat
      BY <2>5, <2>6
    <3>4. e.target_index < e.size
      BY <1>1, <3>1, <3>3 DEF Exact
    <3> QED
      BY <3>2, <3>4 DEF Exact
  <2> QED
    BY <2>8, <2>9
<1> QED
  BY <1>2, <1>3

----------------------------------------------------------------------------
(***************************************************************************)
(* Two processes: either they are in the same call but for the number they *)
(* look for, or their boxes share no cell.                                 *)
(***************************************************************************)
Together(c, e) ==
  c.dims = e.dims /\ c.coordinate = e.coordinate /\ c.size = e.size /\ c.status = e.status

Separate(c, e) == Apart(c.coordinate, c.dims, e.coordinate, e.dims)

\* Boxes inside boxes that share no cell share none either.
LEMMA SeparateInside ==
  ASSUME NEW c1 \in Call, NEW c2 \in Call, NEW e1, NEW e2,
         Inside(c1, e1), Inside(c2, e2), Separate(c1, c2)
  PROVE  Separate(e1, e2)
<1>1. /\ c1.dims \in [Dims -> Nat] /\ c2.dims \in [Dims -> Nat]
      /\ e1.dims \in [Dims -> Nat] /\ e2.dims \in [Dims -> Nat]
      /\ c1.coordinate \in [Dims -> Nat] /\ c2.coordinate \in [Dims -> Nat]
      /\ e1.coordinate \in [Dims -> Nat] /\ e2.coordinate \in [Dims -> Nat]
  BY DEF Inside, Call, Extents
<1>2. PICK d \in Dims : \/ c1.coordinate[d] + c1.dims[d] <= c2.coordinate[d]
                        \/ c2.coordinate[d] + c2.dims[d] <= c1.coordinate[d]
  BY <1>1 DEF Separate, Apart
<1>3. \/ e1.coordinate[d] + e1.dims[d] <= e2.coordinate[d]
      \/ e2.coordinate[d] + e2.dims[d] <= e1.coordinate[d]
  BY <1>1, <1>2 DEF Inside
<1> QED
  BY <1>1, <1>3 DEF Separate, Apart

\* Two processes with the same box still have the same box after a level, as far apart in it
\* as before, or boxes that share no cell.
LEMMA DescendTogether ==
  ASSUME NEW c1 \in Call, NEW c2 \in Call, Together(c1, c2), NEW f, NEW word
  PROVE  LET e1 == Descend(c1, f, word)
             e2 == Descend(c2, f, word)
         IN \/ /\ Together(e1, e2)
               /\ e1.target_index - e2.target_index = c1.target_index - c2.target_index
            \/ Separate(e1, e2)
<1> DEFINE e1 == Descend(c1, f, word)
           e2 == Descend(c2, f, word)
           s == SplitDim(c1, f)
           l == LeftDim(c1, f)
           n == LeftSize(c1, f)
<1>1. s = SplitDim(c2, f) /\ l = LeftDim(c2, f) /\ n = LeftSize(c2, f)
  BY DEF Together, SplitDim, LeftDim, LeftSize
<1>2. /\ c1.dims \in [Dims -> Nat \ {0}] /\ c1.coordinate \in [Dims -> Nat]
      /\ c1.size \in Nat \ {0} /\ c1.target_index \in Nat /\ c2.target_index \in Nat
  BY DEF Call, Extents
<1>3. CASE s \notin Dims
  <2>1. /\ e1 = [c1 EXCEPT !.status = IF word <= 1 THEN "returned" ELSE "corrupted"]
        /\ e2 = [c2 EXCEPT !.status = IF word <= 1 THEN "returned" ELSE "corrupted"]
    BY <1>1, <1>3, LeafLevel
  <2>2. Together(e1, e2) /\ e1.target_index = c1.target_index /\ e2.target_index = c2.target_index
    BY <2>1 DEF Together, Call
  <2> QED
    BY <2>2
<1>4. CASE s \in Dims
  <2>1. /\ l \in 1 .. c1.dims[s]-1
        /\ n \in 0 .. c1.size-1
        /\ e1 = IF c1.target_index < n THEN Left(c1, s, l, n) ELSE Right(c1, s, l, n)
        /\ e2 = IF c2.target_index < n THEN Left(c2, s, l, n) ELSE Right(c2, s, l, n)
    BY <1>1, <1>4, SplitLevel
  <2> DEFINE LeftBox(c, e) == /\ e.dims = [c1.dims EXCEPT ![s] = l]
                              /\ e.coordinate = c1.coordinate
                              /\ e.size = n
                              /\ e.status = c1.status
                              /\ e.target_index = c.target_index
             RightBox(c, e) == /\ e.dims = [c1.dims EXCEPT ![s] = c1.dims[s] - l]
                               /\ e.coordinate = [c1.coordinate EXCEPT ![s] = c1.coordinate[s] + l]
                               /\ e.size = c1.size - n
                               /\ e.status = c1.status
                               /\ e.target_index = c.target_index - n
  <2> HIDE DEF e1, e2, s, l, n
  <2>2. (LeftBox(c1, e1) \/ RightBox(c1, e1)) /\ (LeftBox(c2, e2) \/ RightBox(c2, e2))
    BY <2>1 DEF Left, Right, Call, Together
  <2>3. l \in Nat /\ n \in Nat
    BY <1>2, <1>4, <2>1
  <2>4. CASE LeftBox(c1, e1) /\ LeftBox(c2, e2)
    BY <2>4 DEF Together, e1, e2
  <2>5. CASE RightBox(c1, e1) /\ RightBox(c2, e2)
    <3>1. Together(e1, e2)
      BY <2>5 DEF Together
    <3>2. e1.target_index - e2.target_index = c1.target_index - c2.target_index
      BY <1>2, <2>3, <2>5
    <3> QED
      BY <3>1, <3>2 DEF e1, e2
  <2>6. ASSUME NEW a, NEW b, LeftBox(c1, a) \/ LeftBox(c2, a), RightBox(c1, b) \/ RightBox(c2, b)
        PROVE  Separate(a, b) /\ Separate(b, a)
    <3>1. /\ a.dims = [c1.dims EXCEPT ![s] = l] /\ a.coordinate = c1.coordinate
          /\ b.dims = [c1.dims EXCEPT ![s] = c1.dims[s] - l]
          /\ b.coordinate = [c1.coordinate EXCEPT ![s] = c1.coordinate[s] + l]
      BY <2>6
    <3>2. a.coordinate[s] + a.dims[s] = b.coordinate[s] /\ b.coordinate[s] \in Nat
      BY <1>2, <1>4, <2>3, <3>1
    <3>3. s \in DOMAIN a.dims /\ s \in DOMAIN b.dims
      BY <1>2, <1>4, <3>1
    <3>4. a.coordinate[s] + a.dims[s] <= b.coordinate[s]
      BY <3>2
    <3> QED
      BY <3>3, <3>4 DEF Separate, Apart
  <2> HIDE DEF LeftBox, RightBox
  <2> QED
    BY <2>2, <2>4, <2>5, <2>6 DEF e1, e2
<1> QED
  BY <1>3, <1>4

\* Of processes with one box, those that look on the same side still have one box after a
\* level.
LEMMA DescendAlike ==
  ASSUME NEW c1 \in Call, NEW c2 \in Call, Together(c1, c2), NEW f, NEW word,
         SplitDim(c1, f) \in Dims =>
           (c1.target_index < LeftSize(c1, f) <=> c2.target_index < LeftSize(c1, f))
  PROVE  Together(Descend(c1, f, word), Descend(c2, f, word))
<1> DEFINE s == SplitDim(c1, f)
           l == LeftDim(c1, f)
           n == LeftSize(c1, f)
<1>1. s = SplitDim(c2, f) /\ l = LeftDim(c2, f) /\ n = LeftSize(c2, f)
  BY DEF Together, SplitDim, LeftDim, LeftSize
<1>2. CASE s \notin Dims
  <2>1. /\ Descend(c1, f, word) = [c1 EXCEPT !.status = IF word <= 1 THEN "returned" ELSE "corrupted"]
        /\ Descend(c2, f, word) = [c2 EXCEPT !.status = IF word <= 1 THEN "returned" ELSE "corrupted"]
    BY <1>1, <1>2, LeafLevel
  <2> QED
    BY <2>1 DEF Together, Call
<1>3. CASE s \in Dims
  <2>1. /\ Descend(c1, f, word) = IF c1.target_index < n THEN Left(c1, s, l, n) ELSE Right(c1, s, l, n)
        /\ Descend(c2, f, word) = IF c2.target_index < n THEN Left(c2, s, l, n) ELSE Right(c2, s, l, n)
    BY <1>1, <1>3, SplitLevel
  <2> HIDE DEF s, l, n
  <2>2. c1.target_index < n <=> c2.target_index < n
    BY <1>3 DEF s, n
  <2>3. CASE c1.target_index < n
    BY <2>1, <2>2, <2>3 DEF Together, Call, Left
  <2>4. CASE ~ (c1.target_index < n)
    BY <2>1, <2>2, <2>4 DEF Together, Call, Right
  <2> QED
    BY <2>3, <2>4
<1> QED
  BY <1>2, <1>3

\* What a level makes of the number a process looks for, and of the number of processes.
LEMMA DescendCounts ==
  ASSUME NEW c \in Call, NEW f, NEW word
  PROVE  LET e == Descend(c, f, word)
             n == LeftSize(c, f)
         IN IF SplitDim(c, f) \notin Dims
            THEN e.target_index = c.target_index /\ e.size = c.size
            ELSE IF c.target_index < n
                 THEN e.target_index = c.target_index /\ e.size = n
                 ELSE e.target_index = c.target_index - n /\ e.size = c.size - n
<1> DEFINE e == Descend(c, f, word)
           s == SplitDim(c, f)
           l == LeftDim(c, f)
           n == LeftSize(c, f)
<1>1. CASE s \notin Dims
  <2>1. e = [c EXCEPT !.status = IF word <= 1 THEN "returned" ELSE "corrupted"]
    BY <1>1, LeafLevel
  <2> HIDE DEF e
  <2>2. e.target_index = c.target_index /\ e.size = c.size
    BY <2>1 DEF Call
  <2> QED
    BY <1>1, <2>2 DEF e
<1>2. CASE s \in Dims
  <2>1. e = IF c.target_index < n THEN Left(c, s, l, n) ELSE Right(c, s, l, n)
    BY <1>2, SplitLevel
  <2> HIDE DEF e, s, l, n
  <2>2. IF c.target_index < n
        THEN e.target_index = c.target_index /\ e.size = n
        ELSE e.target_index = c.target_index - n /\ e.size = c.size - n
    BY <2>1 DEF Left, Right, Call
  <2> QED
    BY <1>2, <2>2 DEF e, s, n
<1> QED
  BY <1>1, <1>2

----------------------------------------------------------------------------
(***************************************************************************)
(* The inductive invariant.  PlacedApart is not inductive: that two        *)
(* processes end on different cells follows from what is true of them all  *)
(* the way down.  As long as they are in the same call, they look for      *)
(* different cells of one subgrid, and the size that was computed for the  *)
(* subgrid is the number of its cells; from the level on where they part,  *)
(* their boxes share no cell.  Nor is SubgridsConsecutive: it needs that   *)
(* the processes of a call are the size many whose ranks begin at the one  *)
(* that looks for cell 0.                                                  *)
(***************************************************************************)
First(p) == p - call[p].target_index

Paired(p, q) ==
  \/ /\ Together(call[p], call[q])
     /\ call[p].target_index - call[q].target_index = p - q
  \/ Separate(call[p], call[q])

Typed ==
  /\ input \in Inputs
  /\ factors \in [Dims -> Nat]
  /\ call \in [Ranks -> Call]

LeavesAreCells == \A p \in Ranks : call[p].status # "calling" => IsLeaf(call[p])

AllExact == GridIsFull => \A p \in Ranks : Exact(call[p])

AllPaired == \A p, q \in Ranks : Paired(p, q)

\* The ranks from First(p) on are processes with the box of p.
InOneCall(p) ==
  /\ First(p) \in Nat
  /\ First(p) + call[p].size <= input.world_size
  /\ \A q \in First(p) .. First(p) + call[p].size - 1 : Together(call[p], call[q])

AllConsecutive == GridIsFull => \A p \in Ranks : InOneCall(p)

IInv ==
  Typed /\ PlacedInGrid /\ LeavesAreCells /\ AllExact /\ AllPaired /\ AllConsecutive

\* The invariant holds when every process begins with the whole grid.
LEMMA InitIInv == Init => IInv
<1> SUFFICES ASSUME Init PROVE IInv
  OBVIOUS
<1> USE DEF Init, EntryCall
<1>1. /\ input.dims \in [Dims -> Nat \ {0}] /\ input.world_size \in Nat \ {0}
      /\ ndims \in Nat /\ Dims = 0 .. ndims-1
      /\ IsFiniteSet(DOMAIN input.stencil)
  BY InputAssumption, NdimsAssumption DEF Extents, Dims
<1>2. factors \in [Dims -> Nat]
  <2> SUFFICES ASSUME NEW d \in Dims
               PROVE  Cardinality({i \in DOMAIN input.stencil : input.stencil[i][d] # 0}) \in Nat
    BY DEF calculate_factors
  <2>1. IsFiniteSet({i \in DOMAIN input.stencil : input.stencil[i][d] # 0})
    BY <1>1, FS_Subset
  <2> QED
    BY <2>1, FS_CardinalityType
<1>3. call \in [Ranks -> Call]
  BY <1>1 DEF Ranks, Call, Extents
<1>4. Typed
  BY <1>2, <1>3 DEF Typed
<1>5. \A p \in Ranks : /\ call[p].coordinate = [d \in Dims |-> 0] /\ call[p].dims = input.dims
                       /\ call[p].size = input.world_size /\ call[p].target_index = p
                       /\ call[p].status = "calling"
  BY DEF Ranks
<1>6. PlacedInGrid
  BY <1>1, <1>5 DEF PlacedInGrid
<1>7. LeavesAreCells
  BY <1>5 DEF LeavesAreCells
<1>8. AllExact
  BY <1>1, <1>5 DEF AllExact, Exact, GridIsFull, Ranks
<1>9. AllPaired
  BY <1>5 DEF AllPaired, Paired, Together
<1>10. AllConsecutive
  <2> SUFFICES ASSUME NEW p \in Ranks PROVE InOneCall(p)
    BY DEF AllConsecutive
  <2>1. First(p) = 0 /\ call[p].size = input.world_size
    BY <1>5 DEF First, Ranks
  <2>2. \A q \in Ranks : Together(call[p], call[q])
    BY <1>5 DEF Together
  <2> DEFINE w == input.world_size
             first == First(p)
             n == call[p].size
  <2>3. w \in Nat /\ first = 0 /\ n = w /\ Ranks = 0 .. w-1
    BY <1>1, <2>1 DEF Ranks
  <2> HIDE DEF w, first, n, Init, EntryCall
  <2>4. first \in Nat /\ first + n <= w /\ first .. first + n - 1 = 0 .. w-1
    BY <2>3
  <2> QED
    BY <2>2, <2>3, <2>4 DEF InOneCall, w, first, n
<1> QED
  BY <1>4, <1>6, <1>7, <1>8, <1>9, <1>10 DEF IInv

\* The step of one process in a level that others take with it.
LEMMA LevelStep ==
  ASSUME Typed, NEW word,
         call' = [p \in Ranks |->
           IF call[p].status = "calling" THEN Descend(call[p], factors, word) ELSE call[p]],
         NEW p \in Ranks
  PROVE  /\ call[p] \in Call
         /\ call'[p] = IF call[p].status = "calling" THEN Descend(call[p], factors, word) ELSE call[p]
         /\ Inside(call[p], call'[p])
<1>1. call[p] \in Call
  BY DEF Typed
<1>2. call'[p] = IF call[p].status = "calling" THEN Descend(call[p], factors, word) ELSE call[p]
  OBVIOUS
<1>3. Inside(call[p], call[p])
  BY <1>1 DEF Inside, Call, Extents
<1> QED
  BY <1>1, <1>2, <1>3, DescendInside

\* Every level keeps the invariant.
LEMMA NextIInv == IInv /\ [Next]_vars => IInv'
<1> SUFFICES ASSUME IInv, [Next]_vars PROVE IInv'
  OBVIOUS
<1> USE DEF IInv
<1>1. CASE UNCHANGED vars
  BY <1>1 DEF vars, Typed, Ranks, PlacedInGrid, LeavesAreCells, AllExact, GridIsFull, Exact,
              AllPaired, Paired, AllConsecutive, InOneCall, First
<1>2. CASE Level
  <2>1. PICK word \in HeapWords :
          call' = [p \in Ranks |->
            IF call[p].status = "calling" THEN Descend(call[p], factors, word) ELSE call[p]]
    BY <1>2 DEF Level
  <2>2. input' = input /\ factors' = factors /\ Ranks' = Ranks
    BY <1>2 DEF Level, Ranks
  <2>3. \A p \in Ranks :
          /\ call[p] \in Call
          /\ call'[p] = IF call[p].status = "calling" THEN Descend(call[p], factors, word) ELSE call[p]
          /\ Inside(call[p], call'[p])
    BY <2>1, LevelStep
  <2>4. Typed'
    <3>1. call' \in [Ranks -> Call]
      BY <2>1, <2>3 DEF Inside
    <3> QED
      BY <2>2, <3>1 DEF Typed
  <2>5. PlacedInGrid'
    <3> SUFFICES ASSUME NEW p \in Ranks, NEW d \in Dims
                 PROVE  call'[p].coordinate[d] + call'[p].dims[d] <= input.dims[d]
      BY <2>2 DEF PlacedInGrid
    <3>1. call[p].coordinate[d] + call[p].dims[d] <= input.dims[d]
      BY DEF PlacedInGrid
    <3>2. call'[p].coordinate[d] + call'[p].dims[d] <= call[p].coordinate[d] + call[p].dims[d]
      BY <2>3 DEF Inside
    <3>3. /\ call[p].coordinate[d] \in Nat /\ call[p].dims[d] \in Nat
          /\ call'[p].coordinate[d] \in Nat /\ call'[p].dims[d] \in Nat
          /\ input.dims[d] \in Nat
      BY <2>3, InputAssumption DEF Inside, Call, Extents, Typed
    <3> QED
      BY <3>1, <3>2, <3>3
  <2>6. LeavesAreCells'
    <3> SUFFICES ASSUME NEW p \in Ranks, call'[p].status # "calling" PROVE IsLeaf(call'[p])
      BY <2>2 DEF LeavesAreCells
    <3>1. CASE call[p].status # "calling"
      BY <2>3, <3>1 DEF LeavesAreCells
    <3>2. CASE call[p].status = "calling" /\ SplitDim(call[p], factors) \notin Dims
      <4>1. /\ IsLeaf(call[p])
            /\ call'[p] = [call[p] EXCEPT !.status = IF word <= 1 THEN "returned" ELSE "corrupted"]
        BY <2>3, <3>2, LeafLevel
      <4>2. call'[p].dims = call[p].dims
        BY <2>3, <4>1 DEF Call
      <4> QED
        BY <4>1, <4>2 DEF IsLeaf
    <3>3. CASE call[p].status = "calling" /\ SplitDim(call[p], factors) \in Dims
      <4> DEFINE c == call[p]
                 s == SplitDim(c, factors)
                 l == LeftDim(c, factors)
                 n == LeftSize(c, factors)
      <4>1. call'[p] = Left(c, s, l, n) \/ call'[p] = Right(c, s, l, n)
        BY <2>3, <3>3, SplitLevel
      <4> HIDE DEF s, l, n
      <4>2. call'[p].status = call[p].status
        BY <2>3, <4>1 DEF Left, Right, Call
      <4> QED
        BY <3>3, <4>2
    <3> QED
      BY <3>1, <3>2, <3>3
  <2>7. AllExact'
    <3> SUFFICES ASSUME GridIsFull, NEW p \in Ranks PROVE Exact(call'[p])
      BY <2>2 DEF AllExact, GridIsFull, Exact
    <3>1. Exact(call[p])
      BY DEF AllExact
    <3> QED
      BY <2>3, <3>1, DescendExact
  <2>8. AllPaired'
    <3> SUFFICES ASSUME NEW p \in Ranks, NEW q \in Ranks PROVE Paired(p, q)'
      BY <2>2 DEF AllPaired
    <3>1. CASE Separate(call[p], call[q])
      BY <2>3, <3>1, SeparateInside DEF Paired
    <3>2. CASE /\ Together(call[p], call[q])
               /\ call[p].target_index - call[q].target_index = p - q
      <4>1. CASE call[p].status = "calling"
        <5>1. /\ call'[p] = Descend(call[p], factors, word)
              /\ call'[q] = Descend(call[q], factors, word)
          BY <2>3, <3>2, <4>1 DEF Together
        <5> QED
          BY <2>3, <3>2, <5>1, DescendTogether DEF Paired
      <4>2. CASE call[p].status # "calling"
        BY <2>3, <3>2, <4>2 DEF Together, Paired
      <4> QED
        BY <4>1, <4>2
    <3> QED
      BY <3>1, <3>2 DEF AllPaired, Paired
  <2>9. AllConsecutive'
    <3> SUFFICES ASSUME GridIsFull, NEW p \in Ranks PROVE InOneCall(p)'
      BY <2>2 DEF AllConsecutive, GridIsFull
    <3> DEFINE w == input.world_size
               c == call[p]
               n == LeftSize(c, factors)
               first == First(p)
    <3>0. InOneCall(p) /\ w \in Nat /\ Ranks = 0 .. w-1
      BY InputAssumption DEF AllConsecutive, Typed, Ranks
    <3>1. /\ first \in Nat /\ first + c.size <= w
          /\ \A q \in first .. first + c.size - 1 : Together(c, call[q])
      BY <3>0 DEF InOneCall
    <3>2. c \in Call /\ c.size \in Nat \ {0} /\ c.target_index \in Nat /\ p \in Nat
          /\ first = p - c.target_index
      BY <2>3, <3>0 DEF Call, First
    <3>2a. w \in Int /\ first \in Nat /\ first + c.size <= w /\ c.size \in Int
      BY <3>0, <3>1, <3>2
    <3>3. \A q \in first .. first + c.size - 1 : q \in Ranks /\ call[q].target_index = q - first
      <4> TAKE q \in first .. first + c.size - 1
      <4>1. q \in Ranks /\ q \in Nat
        <5> HIDE DEF c, first, w
        <5>1. q \in 0 .. w-1
          BY <3>2a
        <5> QED
          BY <3>0, <5>1
      <4>2. Together(c, call[q]) /\ call[q] \in Call /\ Exact(c)
        BY <2>3, <3>1, <4>1 DEF AllExact
      <4>3. ~ Separate(c, call[q])
        <5> SUFFICES ASSUME Separate(c, call[q]) PROVE FALSE
          OBVIOUS
        <5>1. PICK d \in Dims : \/ c.coordinate[d] + c.dims[d] <= call[q].coordinate[d]
                                \/ call[q].coordinate[d] + call[q].dims[d] <= c.coordinate[d]
          BY <3>2 DEF Separate, Apart, Call, Extents
        <5> QED
          BY <3>2, <4>2, <5>1 DEF Together, Call, Extents
      <4>4. c.target_index - call[q].target_index = p - q
        BY <4>1, <4>3 DEF AllPaired, Paired
      <4>5. call[q].target_index \in Nat
        BY <4>2 DEF Call
      <4> QED
        BY <3>2, <4>1, <4>4, <4>5
    <3>4. CASE c.status # "calling"
      <4>1. call'[p] = c /\ First(p)' = first
        BY <2>3, <3>4 DEF First
      <4>2. \A q \in first .. first + c.size - 1 : call'[q] = call[q]
        BY <2>3, <3>1, <3>3, <3>4 DEF Together
      <4> QED
        BY <2>2, <3>1, <4>1, <4>2 DEF InOneCall
    <3>5. CASE c.status = "calling"
      <4> DEFINE e == Descend(c, factors, word)
      <4>1. call'[p] = e /\ First(p)' = p - e.target_index
        BY <2>3, <3>5 DEF First
      <4>2. \A q \in first .. first + c.size - 1 : call'[q] = Descend(call[q], factors, word)
        BY <2>3, <3>1, <3>3, <3>5 DEF Together
      <4>3. ASSUME NEW q \in first .. first + c.size - 1,
                   SplitDim(c, factors) \in Dims => (c.target_index < n <=> q - first < n)
            PROVE  Together(e, call'[q])
        <5>1. Together(c, call[q]) /\ call[q] \in Call /\ call[q].target_index = q - first
          BY <2>3, <3>1, <3>3
        <5> HIDE DEF c, first
        <5>2. Together(e, Descend(call[q], factors, word))
          BY <3>2, <4>3, <5>1, DescendAlike
        <5> QED
          BY <4>2, <5>2
      <4>4. IF SplitDim(c, factors) \notin Dims
            THEN e.target_index = c.target_index /\ e.size = c.size
            ELSE IF c.target_index < n
                 THEN e.target_index = c.target_index /\ e.size = n
                 ELSE e.target_index = c.target_index - n /\ e.size = c.size - n
        BY <3>2, DescendCounts
      <4>5. SplitDim(c, factors) \in Dims => n \in 0 .. c.size-1
        BY <3>2, SplitLevel
      <4> DEFINE start == p - e.target_index
      <4>6. /\ start \in Nat /\ start + e.size <= w
            /\ \A q \in start .. start + e.size - 1 : Together(e, call'[q])
        <5> HIDE DEF e, c, n, first
        <5>1. CASE SplitDim(c, factors) \notin Dims
          BY <3>1, <3>2, <4>3, <4>4, <5>1
        <5>2. CASE SplitDim(c, factors) \in Dims /\ c.target_index < n
          <6>1. start = first /\ e.size = n /\ n \in 0 .. c.size-1
            BY <3>2, <4>4, <4>5, <5>2
          <6>2. \A q \in start .. start + e.size - 1 :
                  q \in first .. first + c.size - 1 /\ (c.target_index < n <=> q - first < n)
            BY <3>1, <3>2, <5>2, <6>1
          <6>3. \A q \in start .. start + e.size - 1 : Together(e, call'[q])
            BY <4>3, <6>2
          <6>4. start \in Nat /\ start + e.size <= w
            <7> HIDE DEF start, w
            <7> QED
              BY <3>2a, <6>1
          <6> QED
            BY <6>3, <6>4
        <5>3. CASE SplitDim(c, factors) \in Dims /\ ~ (c.target_index < n)
          <6>1. start = first + n /\ e.size = c.size - n /\ n \in 0 .. c.size-1
            BY <3>2, <4>4, <4>5, <5>3
          <6>2. \A q \in start .. start + e.size - 1 :
                  q \in first .. first + c.size - 1 /\ (c.target_index < n <=> q - first < n)
            BY <3>1, <3>2, <5>3, <6>1
          <6>3. \A q \in start .. start + e.size - 1 : Together(e, call'[q])
            BY <4>3, <6>2
          <6>4. start \in Nat /\ start + e.size <= w
            <7> HIDE DEF start, w
            <7> QED
              BY <3>2a, <6>1
          <6> QED
            BY <6>3, <6>4
        <5> QED
          BY <5>1, <5>2, <5>3
      <4> QED
        BY <2>2, <4>1, <4>6 DEF InOneCall
    <3> QED
      BY <3>4, <3>5
  <2> QED
    BY <2>4, <2>5, <2>6, <2>7, <2>8, <2>9
<1> QED
  BY <1>1, <1>2 DEF Next

\* The invariant holds at every level.
LEMMA Invariance == Spec => []IInv
  BY InitIInv, NextIInv, PTL DEF Spec

----------------------------------------------------------------------------
\* Extents, sizes and coordinates keep their types at every level, in a communicator
\* of any size.
THEOREM TypeCorrect == Spec => []TypeOK
<1>1. IInv => TypeOK
  BY InputAssumption DEF IInv, Typed, TypeOK
<1> QED
  BY <1>1, Invariance, PTL

\* The size that is carried along by integer divisions is the number of cells of the
\* subgrid, for every grid.
THEOREM SubgridsAreExact == Spec => []SubgridExact
<1>1. IInv => SubgridExact
  BY DEF IInv, AllExact, Exact, SubgridExact
<1> QED
  BY <1>1, Invariance, PTL

\* No process leaves the grid, in a communicator of any size.
THEOREM StaysInGrid == Spec => []PlacedInGrid
<1>1. IInv => PlacedInGrid
  BY DEF IInv
<1> QED
  BY <1>1, Invariance, PTL

\* Although no process knows where the others go, no two of them end on one cell.
PlacedApart ==
  GridIsFull => \A p, q \in Ranks :
    p # q /\ call[p].status = "returned" /\ call[q].status = "returned"
      => call[p].coordinate # call[q].coordinate

\* No two processes end on one cell, for every grid that has a process for each cell.
THEOREM PlacesApart == Spec => []PlacedApart
<1>1. IInv => PlacedApart
  <2> SUFFICES ASSUME IInv, GridIsFull, NEW p \in Ranks, NEW q \in Ranks, p # q,
                      call[p].status = "returned", call[q].status = "returned"
               PROVE  call[p].coordinate # call[q].coordinate
    BY DEF PlacedApart
  <2> USE DEF IInv
  <2>1. /\ call[p] \in Call /\ call[q] \in Call
        /\ IsLeaf(call[p]) /\ IsLeaf(call[q])
        /\ Exact(call[p]) /\ Exact(call[q])
        /\ Paired(p, q)
    BY DEF Typed, LeavesAreCells, AllExact, AllPaired
  <2>2. CASE Together(call[p], call[q]) /\ call[p].target_index - call[q].target_index = p - q
    <3>1. ASSUME NEW c \in Call, IsLeaf(c), Exact(c) PROVE c.target_index = 0
      <4>1. ndims \in Nat /\ Dims = 0 .. ndims-1 /\ c.dims \in [Dims -> Nat]
        BY NdimsAssumption DEF Dims, Call, Extents
      <4>2. Volume(c.dims, ndims) = 1
        BY <3>1, <4>1, VolumeOfCell DEF IsLeaf
      <4> QED
        BY <3>1, <4>2 DEF Exact, Call
    <3>2. call[p].target_index = 0 /\ call[q].target_index = 0
      BY <2>1, <3>1
    <3>3. p - q = 0 /\ p \in Int /\ q \in Int
      BY <2>2, <3>2 DEF Ranks
    <3> QED
      BY <3>3
  <2>3. CASE Separate(call[p], call[q])
    <3>1. PICK d \in Dims :
            \/ call[p].coordinate[d] + call[p].dims[d] <= call[q].coordinate[d]
            \/ call[q].coordinate[d] + call[q].dims[d] <= call[p].coordinate[d]
      BY <2>1, <2>3 DEF Separate, Apart, Call, Extents
    <3>2. /\ call[p].dims[d] = 1 /\ call[q].dims[d] = 1
          /\ call[p].coordinate[d] \in Nat /\ call[q].coordinate[d] \in Nat
      BY <2>1 DEF IsLeaf, Call
    <3>3. call[p].coordinate[d] # call[q].coordinate[d]
      BY <3>1, <3>2
    <3> QED
      BY <3>3
  <2> QED
    BY <2>1, <2>2, <2>3 DEF Paired
<1> QED
  BY <1>1, Invariance, PTL

\* The processes of a subgrid are the ranks of sorted_comm that follow on its first: those
\* of a node stay together as long as a subgrid is not smaller than the node.
THEOREM RanksConsecutive == Spec => []SubgridsConsecutive
<1>1. IInv => SubgridsConsecutive
  <2> SUFFICES ASSUME IInv, GridIsFull, NEW p \in Ranks
               PROVE  {q \in Ranks : call[q].coordinate = call[p].coordinate
                                       /\ call[q].dims = call[p].dims}
                        = First(p) .. First(p) + call[p].size - 1
    BY DEF SubgridsConsecutive, First
  <2> USE DEF IInv
  <2> DEFINE w == input.world_size
             first == First(p)
             size == call[p].size
  <2>1. /\ first \in Nat /\ first + size <= w
        /\ \A q \in First(p) .. First(p) + call[p].size - 1 : Together(call[p], call[q])
    BY DEF AllConsecutive, InOneCall
  <2>2. /\ \A q \in Ranks : call[q] \in Call /\ Exact(call[q]) /\ Paired(p, q)
        /\ w \in Nat /\ Ranks = 0 .. w-1
    BY InputAssumption DEF Typed, AllExact, AllPaired, Ranks
  <2>3. p \in Nat /\ call[p].size \in Nat /\ call[p].target_index \in Nat
        /\ First(p) = p - call[p].target_index
    BY <2>2 DEF Call, First
  <2>4. ASSUME NEW q \in First(p) .. First(p) + call[p].size - 1
        PROVE  q \in Ranks /\ call[q].coordinate = call[p].coordinate
               /\ call[q].dims = call[p].dims
    <3>1. q \in Ranks
      <4>1. first \in Nat /\ first + size <= w /\ size \in Nat /\ w \in Nat
        BY <2>1, <2>2, <2>3
      <4>2. q \in first .. first + size - 1
        OBVIOUS
      <4> HIDE DEF first, size, w
      <4>3. q \in 0 .. w-1
        BY <4>1, <4>2
      <4> QED
        BY <2>2, <4>3
    <3> QED
      BY <2>1, <3>1 DEF Together
  <2>5. ASSUME NEW q \in Ranks, call[q].coordinate = call[p].coordinate,
               call[q].dims = call[p].dims
        PROVE  q \in First(p) .. First(p) + call[p].size - 1
    <3>1. ~ Separate(call[p], call[q])
      <4> SUFFICES ASSUME Separate(call[p], call[q]) PROVE FALSE
        OBVIOUS
      <4>1. PICK d \in Dims :
              \/ call[p].coordinate[d] + call[p].dims[d] <= call[q].coordinate[d]
              \/ call[q].coordinate[d] + call[q].dims[d] <= call[p].coordinate[d]
        BY <2>2 DEF Separate, Apart, Call, Extents
      <4> QED
        BY <2>2, <2>5, <4>1 DEF Call, Extents
    <3>2. Together(call[p], call[q]) /\ call[p].target_index - call[q].target_index = p - q
      BY <2>2, <3>1 DEF Paired
    <3>3. call[q].target_index < call[q].size /\ call[q].size = call[p].size
          /\ call[q].target_index \in Nat /\ q \in Nat
      BY <2>2, <3>2 DEF Exact, Together, Call
    <3> QED
      BY <2>3, <3>2, <3>3
  <2> HIDE DEF IInv
  <2> QED
    BY <2>4, <2>5
<1> QED
  BY <1>1, Invariance, PTL

\* The keys of the split are the ranks of the grid, each once: MPI_Comm_split gives every
\* process the rank of the cell it computed.
THEOREM KeysAreExact == Spec => []KeysAreRanks
<1>1. IInv /\ PlacedApart => KeysAreRanks
  <2> SUFFICES ASSUME IInv, PlacedApart, GridIsFull, \A p \in Ranks : call[p].status = "returned"
               PROVE  {NewRank(p) : p \in Ranks} = Ranks
    BY DEF KeysAreRanks
  <2> DEFINE d == input.dims
             at == [p \in Ranks |-> call[p].coordinate]
  <2>1. /\ ndims \in Nat \ {0} /\ Dims = 0 .. ndims-1 /\ d \in [0 .. ndims-1 -> Nat \ {0}]
        /\ Ranks = 0 .. Volume(d, ndims)-1
    BY NdimsAssumption, InputAssumption DEF IInv, Typed, Dims, Extents, Ranks, GridIsFull
  <2>2. \A p \in Ranks : at[p] \in [0 .. ndims-1 -> Nat] /\ \A i \in 0 .. ndims-1 : at[p][i] < d[i]
    <3> SUFFICES ASSUME NEW p \in Ranks
                 PROVE  /\ call[p].coordinate \in [0 .. ndims-1 -> Nat]
                        /\ \A i \in 0 .. ndims-1 : call[p].coordinate[i] < d[i]
      OBVIOUS
    <3>1. call[p] \in Call /\ IsLeaf(call[p])
      BY DEF IInv, Typed, LeavesAreCells
    <3>2. \A i \in Dims : call[p].coordinate[i] + call[p].dims[i] <= d[i]
      BY DEF IInv, PlacedInGrid
    <3>3. call[p].coordinate \in [Dims -> Nat]
      BY <3>1 DEF Call
    <3>4. ASSUME NEW i \in Dims PROVE call[p].coordinate[i] < d[i]
      <4>1. call[p].coordinate[i] \in Nat /\ call[p].dims[i] = 1 /\ d[i] \in Nat
        BY <2>1, <3>1, <3>3 DEF IsLeaf
      <4> QED
        BY <3>2, <4>1
    <3> HIDE DEF d
    <3> QED
      BY <2>1, <3>3, <3>4
  <2>3. \A p, q \in Ranks : at[p] = at[q] => p = q
    BY DEF PlacedApart
  <2>4. \A p \in Ranks : at[p] = call[p].coordinate
    OBVIOUS
  <2> HIDE DEF d, at
  <2>5. AllPlaced(Ranks, at, d, ndims)
    BY <2>1, <2>2, <2>3 DEF AllPlaced
  <2>6. RanksAt(Ranks, at, d, ndims) = Ranks
    BY <2>1, <2>5, RanksOnto
  <2> QED
    BY <2>4, <2>6 DEF NewRank, RanksAt, d
<1> QED
  BY <1>1, Invariance, PlacesApart, PTL

\* A level that goes on makes the box smaller in some dimension.
LEMMA DescendShrinks ==
  ASSUME NEW c \in Call, NEW f, NEW word, Descend(c, f, word).status = "calling"
  PROVE  \E d \in Dims : Descend(c, f, word).dims[d] < c.dims[d]
<1> DEFINE e == Descend(c, f, word)
           s == SplitDim(c, f)
           l == LeftDim(c, f)
           n == LeftSize(c, f)
<1>1. s \in Dims
  <2> SUFFICES ASSUME s \notin Dims PROVE FALSE
    OBVIOUS
  <2>1. e = [c EXCEPT !.status = IF word <= 1 THEN "returned" ELSE "corrupted"]
    BY LeafLevel
  <2>2. e.status = IF word <= 1 THEN "returned" ELSE "corrupted"
    BY <2>1 DEF Call
  <2> QED
    BY <2>2
<1>2. l \in 1 .. c.dims[s]-1 /\ (e = Left(c, s, l, n) \/ e = Right(c, s, l, n))
  BY <1>1, SplitLevel
<1>3. c.dims \in [Dims -> Nat \ {0}]
  BY DEF Call, Extents
<1> HIDE DEF e, s, l, n
<1>4. e.dims = [c.dims EXCEPT ![s] = l] \/ e.dims = [c.dims EXCEPT ![s] = c.dims[s] - l]
  <2>1. CASE e = Left(c, s, l, n)
    BY <2>1 DEF Left, Call
  <2>2. CASE e = Right(c, s, l, n)
    BY <2>2 DEF Right, Call
  <2> QED
    BY <1>2, <2>1, <2>2
<1>5. e.dims[s] < c.dims[s]
  BY <1>1, <1>2, <1>3, <1>4
<1> QED
  BY <1>1, <1>5 DEF e

\* Every level that goes on stays in the box it was called with and makes it smaller, so
\* that a process takes no more levels than the grid has rows, whatever the stencil.
THEOREM LevelsShrink == Spec => BoxesShrink
<1> DEFINE Shrinks(p) ==
             call'[p] # call[p] /\ call'[p].status = "calling" =>
               /\ \A d \in Dims :
                    /\ call'[p].coordinate[d] >= call[p].coordinate[d]
                    /\ call'[p].coordinate[d] + call'[p].dims[d]
                         <= call[p].coordinate[d] + call[p].dims[d]
               /\ \E d \in Dims : call'[p].dims[d] < call[p].dims[d]
<1>1. IInv /\ [Next]_vars => [\A p \in Ranks : Shrinks(p)]_vars
  <2> SUFFICES ASSUME IInv, Next, NEW p \in Ranks PROVE UNCHANGED vars \/ Shrinks(p)
    BY DEF vars
  <2>1. CASE UNCHANGED vars
    BY <2>1
  <2>2. CASE Level
    <3>1. PICK word \in HeapWords :
            call' = [q \in Ranks |->
              IF call[q].status = "calling" THEN Descend(call[q], factors, word) ELSE call[q]]
      BY <2>2 DEF Level
    <3>2. /\ call[p] \in Call
          /\ call'[p] = IF call[p].status = "calling" THEN Descend(call[p], factors, word) ELSE call[p]
          /\ Inside(call[p], call'[p])
      BY <3>1, LevelStep DEF IInv
    <3> SUFFICES ASSUME call'[p] # call[p], call'[p].status = "calling" PROVE Shrinks(p)
      OBVIOUS
    <3>3. call'[p] = Descend(call[p], factors, word)
      BY <3>2
    <3>4. \E d \in Dims : call'[p].dims[d] < call[p].dims[d]
      BY <3>2, <3>3, DescendShrinks
    <3>5. \A d \in Dims : /\ call'[p].coordinate[d] \in Nat
                          /\ call[p].coordinate[d] \in Nat
                          /\ call[p].coordinate[d] <= call'[p].coordinate[d]
                          /\ call'[p].coordinate[d] + call'[p].dims[d]
                               <= call[p].coordinate[d] + call[p].dims[d]
      BY <3>2 DEF Inside, Call
    <3> QED
      BY <3>4, <3>5
  <2> QED
    BY <2>1, <2>2 DEF Next
<1> QED
  BY <1>1, Invariance, PTL DEF Spec, BoxesShrink
=============================================================================
