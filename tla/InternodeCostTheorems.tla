------------------------ MODULE InternodeCostTheorems ------------------------
(***************************************************************************)
(* Theorems about InternodeCost, for every grid, every neighbourhood and   *)
(* every placement of the processes on nodes.                              *)
(***************************************************************************)
EXTENDS InternodeCost, GridTheorems

----------------------------------------------------------------------------
(***************************************************************************)
(* Coordinates and ranks.  MPI_Cart_coords takes a rank apart with strides *)
(* that are ranks themselves; it is the inverse of RowMajorRank.           *)
(***************************************************************************)
Positives == Nat \ {0}

LEMMA InputFacts ==
  ASSUME input \in Inputs
  PROVE  /\ ndims \in Nat \ {0} /\ Dims = 0 .. ndims-1
         /\ input.dims \in [Dims -> Positives] /\ input.dims \in [Dims -> Nat]
         /\ input.periods \in [Dims -> BOOLEAN]
         /\ input.stencil \in Seq([Dims -> Int])
         /\ DOMAIN input.nodeOf = Procs
         /\ Volume(input.dims, ndims) \in Positives
<1>1. /\ ndims \in Nat \ {0} /\ Dims = 0 .. ndims-1
      /\ input.dims \in [Dims -> Positives] /\ input.dims \in [Dims -> Nat]
  BY NdimsAssumption, InputAssumption DEF Dims, Positives
<1>2. Volume(input.dims, ndims) \in Positives
  <2> DEFINE d == input.dims
  <2>1. d \in [Dims -> Nat \ {0}] /\ 0 .. ndims-1 \subseteq Dims /\ ndims \in Nat
    BY <1>1 DEF Positives
  <2> HIDE DEF d
  <2>2. Volume(d, ndims) \in Nat \ {0}
    BY <2>1, VolumePositive
  <2> QED
    BY <2>2 DEF d, Positives
<1> QED
  BY <1>1, <1>2, InputAssumption DEF Procs

LEMMA ProcsFinite ==
  ASSUME input \in Inputs
  PROVE  Procs \subseteq Nat /\ 0 \in Procs /\ IsFiniteSet(Procs)
<1>1. Volume(input.dims, ndims) \in Nat \ {0}
  BY InputFacts DEF Positives
<1>2. \A n \in Int : IsFiniteSet(0 .. n)
  BY FS_Interval
<1> QED
  BY <1>1, <1>2 DEF Procs

\* The coordinates of the neighbour one further along dimension d of cell 0.
Unit(d) == [e \in Dims |-> IF e = d THEN 1 ELSE 0]

\* What the loop of RowMajorRank has made of it after i dimensions.
Part(d, i) == RowMajorRank(Unit(d), input.dims, i)

\* The recurrence of the strides, and the step from one stride to the next.
LEMMA Parts ==
  ASSUME input \in Inputs, NEW d \in Dims
  PROVE  /\ \A i \in 1 .. d : Part(d, i) = 0
         /\ Part(d, d+1) = 1
         /\ \A i \in d+1 .. ndims-1 : Part(d, i+1) = Part(d, i) * input.dims[i]
<1> DEFINE x == input.dims
           u == Unit(d)
<1>1. ndims \in Nat \ {0} /\ x \in [0 .. ndims-1 -> Nat] /\ u \in [0 .. ndims-1 -> Nat]
  BY InputFacts DEF Unit
<1>2. RankRecurrence(u, x, ndims)
  <2> HIDE DEF x, u
  <2> QED
    BY <1>1, RankStep
<1>3. d \in 0 .. ndims-1 /\ Dims = 0 .. ndims-1 /\ \A e \in Dims : x[e] \in Nat
  BY InputFacts
<1>4. /\ RowMajorRank(u, x, 1) = u[0]
      /\ \A i \in 1 .. ndims : RowMajorRank(u, x, i) \in Nat
      /\ \A i \in 1 .. ndims-1 : RowMajorRank(u, x, i+1) = RowMajorRank(u, x, i) * x[i] + u[i]
  BY <1>2 DEF RankRecurrence
<1>5. Part(d, 1) = Unit(d)[0]
  BY <1>4 DEF Part
<1>6. \A i \in 1 .. ndims : Part(d, i) \in Nat
  BY <1>4 DEF Part
<1>7. \A i \in 1 .. ndims-1 : Part(d, i+1) = Part(d, i) * x[i] + Unit(d)[i]
  BY <1>4 DEF Part
<1>8. \A e \in 0 .. ndims-1 : Unit(d)[e] = IF e = d THEN 1 ELSE 0
  BY <1>3 DEF Unit
<1> HIDE DEF x
<1>9. \A i \in 1 .. d : Part(d, i) = 0
  <2> DEFINE T == {i \in Nat : i+1 <= d => Part(d, i+1) = 0}
  <2>1. 0 \in T
    BY <1>1, <1>3, <1>5, <1>8
  <2>2. ASSUME NEW i \in Nat, i \in T PROVE i+1 \in T
    <3> SUFFICES ASSUME i+2 <= d PROVE Part(d, i+2) = 0
      OBVIOUS
    <3>1. Part(d, i+1) = 0 /\ i+1 \in 1 .. ndims-1 /\ i+1 # d
      BY <1>1, <1>3, <2>2
    <3>2. Part(d, (i+1)+1) = Part(d, i+1) * x[i+1] + Unit(d)[i+1]
      BY <1>7, <3>1
    <3>3. Unit(d)[i+1] = 0 /\ x[i+1] \in Nat
      BY <1>3, <1>8, <3>1
    <3> QED
      BY <3>1, <3>2, <3>3
  <2> HIDE DEF T
  <2>3. Nat \subseteq T
    BY <2>1, <2>2, SetInduction
  <2> SUFFICES ASSUME NEW i \in 1 .. d PROVE Part(d, i) = 0
    OBVIOUS
  <2>4. i-1 \in T /\ i-1 \in Nat
    BY <1>1, <1>3, <2>3
  <2> QED
    BY <1>3, <2>4 DEF T
<1>10. Part(d, d+1) = 1
  <2>1. CASE d = 0
    BY <1>1, <1>5, <1>8, <2>1
  <2>2. CASE d # 0
    <3>1. d \in 1 .. ndims-1
      BY <1>1, <1>3, <2>2
    <3>2. Part(d, d) = 0 /\ x[d] \in Nat
      BY <1>3, <1>9, <3>1
    <3> QED
      BY <1>3, <1>7, <1>8, <3>1, <3>2
  <2> QED
    BY <2>1, <2>2
<1>11. \A i \in d+1 .. ndims-1 : Part(d, i+1) = Part(d, i) * x[i]
  <2> SUFFICES ASSUME NEW i \in d+1 .. ndims-1 PROVE Part(d, i+1) = Part(d, i) * x[i]
    OBVIOUS
  <2>1. i \in 1 .. ndims-1 /\ i # d /\ Part(d, i) \in Nat /\ x[i] \in Nat
    BY <1>1, <1>3, <1>6
  <2>2. Unit(d)[i] = 0
    BY <1>8, <2>1
  <2> QED
    BY <1>7, <2>1, <2>2
<1> QED
  BY <1>9, <1>10, <1>11 DEF x

LEMMA Strides ==
  ASSUME input \in Inputs
  PROVE  /\ \A d \in Dims : \A i \in d+1 .. ndims : Part(d, i) \in Positives
         /\ \A d \in 1 .. ndims-1 : \A i \in d+1 .. ndims : Part(d-1, i) = Part(d, i) * input.dims[d]
         /\ \A i \in 1 .. ndims : Volume(input.dims, i) = Part(0, i) * input.dims[0]
<1> DEFINE x == input.dims
<1>1. ndims \in Nat \ {0} /\ Dims = 0 .. ndims-1 /\ \A e \in Dims : x[e] \in Nat \ {0}
  BY InputFacts DEF Positives
<1>2. \A d \in Dims : /\ \A i \in 1 .. d : Part(d, i) = 0
                      /\ Part(d, d+1) = 1
                      /\ \A i \in d+1 .. ndims-1 : Part(d, i+1) = Part(d, i) * x[i]
  BY Parts
<1>3. x \in [0 .. ndims-1 -> Nat]
  BY InputFacts
<1>4. Volume(x, 0) = 1 /\ \A i \in 0 .. ndims-1 : Volume(x, i+1) = Volume(x, i) * x[i]
  BY <1>1, <1>3, VolumeStep
<1> HIDE DEF x
<1>5. ASSUME NEW d \in Dims, NEW i \in d+1 .. ndims PROVE Part(d, i) \in Positives
  <2> DEFINE T == {k \in Nat : d+1+k <= ndims => Part(d, d+1+k) \in Nat \ {0}}
  <2>1. 0 \in T
    BY <1>1, <1>2
  <2>2. ASSUME NEW k \in Nat, k \in T PROVE k+1 \in T
    <3> SUFFICES ASSUME d+2+k <= ndims PROVE Part(d, d+2+k) \in Nat \ {0}
      BY <1>1
    <3>1. Part(d, d+1+k) \in Nat \ {0} /\ d+1+k \in d+1 .. ndims-1 /\ d+1+k \in Dims
      BY <1>1, <2>2
    <3>2. Part(d, (d+1+k)+1) = Part(d, d+1+k) * x[d+1+k]
      BY <1>2, <3>1
    <3>3. (d+1+k)+1 = d+2+k
      BY <1>1
    <3>4. x[d+1+k] \in Nat \ {0}
      BY <1>1, <3>1
    <3> QED
      BY <3>1, <3>2, <3>3, <3>4
  <2> HIDE DEF T
  <2>3. Nat \subseteq T
    BY <2>1, <2>2, SetInduction
  <2>4. i - (d+1) \in T /\ d+1+(i - (d+1)) = i /\ i <= ndims
    BY <1>1, <2>3
  <2> QED
    BY <2>4 DEF T, Positives
<1>6. ASSUME NEW d \in 1 .. ndims-1, NEW i \in d+1 .. ndims
      PROVE  Part(d-1, i) = Part(d, i) * x[d]
  <2>0. d \in Dims /\ d-1 \in Dims /\ d-1+1 = d /\ x[d] \in Nat
    BY <1>1
  <2> DEFINE T == {k \in Nat : d+1+k <= ndims => Part(d-1, d+1+k) = Part(d, d+1+k) * x[d]}
  <2>1. 0 \in T
    <3>1. d \in (d-1)+1 .. ndims-1
      BY <1>1
    <3>2. Part(d-1, d+1) = Part(d-1, d) * x[d]
      BY <1>2, <2>0, <3>1
    <3>3. Part(d-1, d) = 1 /\ Part(d, d+1) = 1
      BY <1>2, <2>0
    <3> QED
      BY <2>0, <3>2, <3>3
  <2>2. ASSUME NEW k \in Nat, k \in T PROVE k+1 \in T
    <3> SUFFICES ASSUME d+2+k <= ndims PROVE Part(d-1, d+2+k) = Part(d, d+2+k) * x[d]
      BY <1>1
    <3> DEFINE j == d+1+k
    <3>1. Part(d-1, j) = Part(d, j) * x[d] /\ j \in d+1 .. ndims-1 /\ j \in (d-1)+1 .. ndims-1
          /\ j \in Dims /\ j+1 = d+2+k
      BY <1>1, <2>2
    <3>2. Part(d-1, j+1) = Part(d-1, j) * x[j] /\ Part(d, j+1) = Part(d, j) * x[j]
      BY <1>2, <2>0, <3>1
    <3>3. Part(d, j) \in Nat /\ x[j] \in Nat
      BY <1>1, <1>5, <2>0, <3>1 DEF Positives
    <3> HIDE DEF j
    <3>4. (Part(d, j) * x[d]) * x[j] = (Part(d, j) * x[j]) * x[d]
      BY <2>0, <3>3
    <3> QED
      BY <3>1, <3>2, <3>4
  <2> HIDE DEF T
  <2>3. Nat \subseteq T
    BY <2>1, <2>2, SetInduction
  <2>4. i - (d+1) \in T /\ d+1+(i - (d+1)) = i /\ i <= ndims
    BY <1>1, <2>3
  <2> QED
    BY <2>4 DEF T
<1>7. ASSUME NEW i \in 1 .. ndims PROVE Volume(x, i) = Part(0, i) * x[0]
  <2>0. 0 \in Dims /\ x[0] \in Nat /\ 0+1 = 1
    BY <1>1
  <2> DEFINE T == {k \in Nat : 1+k <= ndims => Volume(x, 1+k) = Part(0, 1+k) * x[0]}
  <2>1. 0 \in T
    <3>1. Volume(x, 0+1) = Volume(x, 0) * x[0]
      BY <1>1, <1>4
    <3>2. Part(0, 0+1) = 1
      BY <1>2, <2>0
    <3> QED
      BY <1>4, <2>0, <3>1, <3>2
  <2>2. ASSUME NEW k \in Nat, k \in T PROVE k+1 \in T
    <3> SUFFICES ASSUME 2+k <= ndims PROVE Volume(x, 2+k) = Part(0, 2+k) * x[0]
      OBVIOUS
    <3> DEFINE j == 1+k
    <3>1. Volume(x, j) = Part(0, j) * x[0] /\ j \in 1 .. ndims-1 /\ j \in 0+1 .. ndims-1
          /\ j \in Dims /\ j+1 = 2+k
      BY <1>1, <2>2
    <3>2. Volume(x, j+1) = Volume(x, j) * x[j] /\ Part(0, j+1) = Part(0, j) * x[j]
      BY <1>2, <1>4, <2>0, <3>1
    <3>3. Part(0, j) \in Nat /\ x[j] \in Nat
      BY <1>1, <1>5, <2>0, <3>1 DEF Positives
    <3> HIDE DEF j
    <3>4. (Part(0, j) * x[0]) * x[j] = (Part(0, j) * x[j]) * x[0]
      BY <2>0, <3>3
    <3> QED
      BY <3>1, <3>2, <3>4
  <2> HIDE DEF T
  <2>3. Nat \subseteq T
    BY <2>1, <2>2, SetInduction
  <2>4. i - 1 \in T /\ 1+(i - 1) = i /\ i <= ndims
    BY <1>1, <2>3
  <2> QED
    BY <2>4 DEF T
<1> QED
  BY <1>5, <1>6, <1>7 DEF x

\* The quotient and the remainder of a number made of two digits.
LEMMA TwoDigits ==
  ASSUME NEW b \in Positives, NEW q \in Nat, NEW r \in 0 .. b-1, NEW m, m = q * b + r
  PROVE  m \div b = q /\ m % b = r
<1>0. b \in Nat \ {0} /\ m \in Nat
  BY DEF Positives
<1>1. m \div b \in Nat /\ m % b \in 0 .. b-1 /\ m = b * (m \div b) + (m % b)
  BY <1>0, Division
<1> DEFINE k == m \div b
           s == m % b
<1> HIDE DEF k, s
<1>2. k \in Nat /\ s \in 0 .. b-1 /\ m = b * k + s
  BY <1>1 DEF k, s
<1>3. SameNumber(b, q, r, k, s)
  <2>1. k * b = b * k
    BY <1>0, <1>2
  <2> QED
    BY <1>0, <1>2, <2>1 DEF SameNumber
<1>4. q = k /\ r = s
  BY <1>0, <1>2, <1>3, DigitsUnique
<1> QED
  BY <1>4 DEF k, s

\* Dividing by one number after the other is dividing by their product.
LEMMA QuotientOfQuotient ==
  ASSUME NEW m \in Nat, NEW b \in Positives, NEW s \in Positives
  PROVE  m \div b = (m \div (b * s)) * s + ((m \div b) % s)
<1> DEFINE t == b * s
           k == m \div t
           q == m \div b
           r == m % b
           v == q % s
<1>0. b \in Nat \ {0} /\ s \in Nat \ {0} /\ t \in Nat \ {0}
  BY DEF Positives
<1>1. q \in Nat /\ r \in 0 .. b-1 /\ m = b * q + r
  BY <1>0, Division
<1>2. v \in 0 .. s-1
  <2> HIDE DEF q
  <2> QED
    BY <1>0, <1>1, Division
<1>3. k \in Nat /\ m = t * k + (m % t)
  <2> HIDE DEF t
  <2> QED
    BY <1>0, Division
<1>4. m % t = v * b + r
  <2>1. m % (s * b) = ((m \div b) % s) * b + (m % b)
    BY <1>0, DigitStep DEF Positive
  <2>2. s * b = t
    BY <1>0
  <2> QED
    BY <2>1, <2>2
<1> HIDE DEF k, q, r, v
<1>5. m = (k * s + v) * b + r
  <2>1. (b * s) * k + (v * b + r) = (k * s + v) * b + r
    BY <1>0, <1>1, <1>2, <1>3
  <2> QED
    BY <1>3, <1>4, <2>1
<1>6. m \div b = k * s + v
  <2>1. k * s + v \in Nat
    BY <1>0, <1>2, <1>3
  <2> DEFINE z == k * s + v
  <2> HIDE DEF z
  <2>2. z \in Nat /\ m = z * b + r
    BY <1>5, <2>1 DEF z
  <2>3. m \div b = z
    BY <1>1, <2>2, TwoDigits
  <2> QED
    BY <2>3 DEF z
<1> QED
  BY <1>6 DEF k, v, q

\* Coordinates of a cell.
IsCell(c) == c \in [Dims -> Nat] /\ \A d \in Dims : c[d] < input.dims[d]

\* The rank of a cell, by the first dimensions and the last ones: the last ones make up a
\* remainder.
InParts(c, d, i) ==
  \E w \in 0 .. Part(d, i)-1 :
    RowMajorRank(c, input.dims, i) = RowMajorRank(c, input.dims, d+1) * Part(d, i) + w

LEMMA RankInParts ==
  ASSUME input \in Inputs, NEW c, IsCell(c), NEW d \in Dims, NEW i \in d+1 .. ndims
  PROVE  InParts(c, d, i)
<1> DEFINE x == input.dims
           R(j) == RowMajorRank(c, x, j)
           T == {k \in Nat : d+1+k <= ndims => InParts(c, d, d+1+k)}
<1>1. ndims \in Nat \ {0} /\ Dims = 0 .. ndims-1 /\ x \in [Dims -> Nat \ {0}]
  BY InputFacts DEF Positives
<1>2. (\A j \in 1 .. ndims : R(j) \in Nat) /\ \A j \in 1 .. ndims-1 : R(j+1) = R(j) * x[j] + c[j]
  <2>1. x \in [0 .. ndims-1 -> Nat] /\ c \in [0 .. ndims-1 -> Nat]
    BY <1>1 DEF IsCell
  <2> HIDE DEF x
  <2>2. RankRecurrence(c, x, ndims)
    BY <1>1, <2>1, RankStep
  <2> QED
    BY <2>2 DEF RankRecurrence
<1>3. /\ Part(d, d+1) = 1
      /\ \A j \in d+1 .. ndims-1 : Part(d, j+1) = Part(d, j) * x[j]
      /\ \A j \in d+1 .. ndims : Part(d, j) \in Nat \ {0}
  BY Parts, Strides DEF Positives
<1>4. \A j \in Dims : c[j] \in Nat /\ c[j] < x[j]
  BY DEF IsCell
<1> HIDE DEF x, R
<1>5. 0 \in T
  <2>1. R(d+1) = R(d+1) * 1 + 0 /\ 0 \in 0 .. 1-1
    BY <1>1, <1>2
  <2> QED
    BY <1>1, <1>3, <2>1 DEF InParts, R, x
<1>6. ASSUME NEW k \in Nat, k \in T PROVE k+1 \in T
  <2> DEFINE j == d+1+k
             a == R(d+1)
             b == Part(d, j)
  <2> SUFFICES ASSUME j+1 <= ndims PROVE InParts(c, d, j+1)
    <3>1. d+1+(k+1) = j+1
      BY <1>1
    <3> QED
      BY <3>1
  <2>1. j \in d+1 .. ndims-1 /\ j \in 1 .. ndims-1 /\ j \in Dims /\ d+1 \in 1 .. ndims
    BY <1>1
  <2>2. InParts(c, d, j)
    BY <1>1, <1>6, <2>1
  <2> HIDE DEF j
  <2>3. PICK w \in 0 .. b-1 : R(j) = a * b + w
    BY <2>2 DEF InParts, R, x
  <2>4. R(j+1) = R(j) * x[j] + c[j] /\ Part(d, j+1) = b * x[j] /\ a \in Nat /\ b \in Nat \ {0}
    <3>1. j \in d+1 .. ndims
      BY <1>1, <2>1
    <3> QED
      BY <1>2, <1>3, <2>1, <3>1
  <2> HIDE DEF a, b
  <2> DEFINE y == x[j]
             e == c[j]
             z == w * y + e
  <2>5. y \in Nat \ {0} /\ e \in 0 .. y-1
    BY <1>1, <1>4, <2>1
  <2> HIDE DEF y, e
  <2>6. z \in 0 .. b * y - 1
    <3>1. w \in Nat /\ w < b
      BY <2>3, <2>4
    <3> QED
      BY <2>4, <2>5, <3>1, DigitBelow
  <2>7. (a * b + w) * y + e = a * (b * y) + z
    BY <2>3, <2>4, <2>5
  <2> HIDE DEF z
  <2>8. R(j+1) = a * (b * y) + z /\ Part(d, j+1) = b * y
    BY <2>3, <2>4, <2>7 DEF y, e
  <2> QED
    BY <2>6, <2>8 DEF InParts, R, x, a
<1> HIDE DEF T
<1>7. Nat \subseteq T
  BY <1>5, <1>6, SetInduction
<1>8. i - (d+1) \in T /\ d+1+(i - (d+1)) = i /\ i <= ndims
  BY <1>1, <1>7
<1> QED
  BY <1>8 DEF T

\* The coordinates that MPI_Cart_coords finds for the rank of a cell are those of the cell.
LEMMA CoordsOfRank ==
  ASSUME input \in Inputs, NEW c, IsCell(c)
  PROVE  /\ RowMajorRank(c, input.dims, ndims) \in Procs
         /\ MPI_Cart_coords(RowMajorRank(c, input.dims, ndims)) = c
<1> DEFINE x == input.dims
           R(j) == RowMajorRank(c, x, j)
<1>1. ndims \in Nat \ {0} /\ Dims = 0 .. ndims-1 /\ x \in [Dims -> Nat \ {0}]
  BY InputFacts DEF Positives
<1>2. /\ R(1) = c[0]
      /\ \A j \in 1 .. ndims : R(j) \in Nat
      /\ \A j \in 1 .. ndims-1 : R(j+1) = R(j) * x[j] + c[j]
  <2>1. x \in [0 .. ndims-1 -> Nat] /\ c \in [0 .. ndims-1 -> Nat]
    BY <1>1 DEF IsCell
  <2> HIDE DEF x
  <2>2. RankRecurrence(c, x, ndims)
    BY <1>1, <2>1, RankStep
  <2> QED
    BY <2>2 DEF RankRecurrence
<1>3. R(ndims) \in Procs
  <2>1. x \in [0 .. ndims-1 -> Nat \ {0}] /\ c \in [0 .. ndims-1 -> Nat]
        /\ \A j \in 0 .. ndims-1 : c[j] < x[j]
    BY <1>1 DEF IsCell
  <2> HIDE DEF x
  <2>2. RowMajorRank(c, x, ndims) \in 0 .. Volume(x, ndims)-1
    BY <1>1, <2>1, RankInRange
  <2> QED
    BY <2>2 DEF Procs, x
<1>4. ASSUME NEW d \in Dims PROVE (R(ndims) \div Stride(d)) % x[d] = c[d]
  <2> DEFINE b == Part(d, ndims)
             y == x[d]
             m == R(ndims)
             q == R(d+1)
  <2>1. d+1 \in 1 .. ndims /\ ndims \in d+1 .. ndims
    BY <1>1
  <2>2. PICK w \in 0 .. b-1 : m = q * b + w
    BY <2>1, RankInParts DEF InParts
  <2>3. b \in Positives /\ q \in Nat
    BY <1>2, <2>1, Strides
  <2>4. Stride(d) = b
    BY DEF Stride, Part, Unit
  <2>5. y \in Positives /\ c[d] \in Nat /\ c[d] \in 0 .. y-1
    BY <1>1 DEF IsCell, Positives
  <2>6. \E k \in Nat : q = k * y + c[d]
    <3>1. CASE d = 0
      <4>1. q = 0 * y + c[d]
        BY <1>2, <2>5, <3>1 DEF Positives
      <4> QED
        BY <4>1
    <3>2. CASE d # 0
      <4>1. d \in 1 .. ndims-1 /\ d \in 1 .. ndims
        BY <1>1, <3>2
      <4>2. q = R(d) * x[d] + c[d] /\ R(d) \in Nat
        BY <1>2, <4>1
      <4> QED
        BY <4>2
    <3> QED
      BY <3>1, <3>2
  <2> HIDE DEF m, q, b, y
  <2>7. m \div b = q
    BY <2>2, <2>3, TwoDigits
  <2>8. PICK k \in Nat : q = k * y + c[d]
    BY <2>6
  <2>9. q % y = c[d]
    BY <2>5, <2>8, TwoDigits
  <2> QED
    BY <2>4, <2>7, <2>9 DEF m, y
<1>5. c = [d \in Dims |-> c[d]]
  BY DEF IsCell
<1> QED
  BY <1>3, <1>4, <1>5 DEF MPI_Cart_coords

\* The rank of the coordinates that MPI_Cart_coords finds is the rank it was given.
LEMMA RankOfCoords ==
  ASSUME input \in Inputs, NEW p \in Procs
  PROVE  /\ IsCell(MPI_Cart_coords(p))
         /\ RowMajorRank(MPI_Cart_coords(p), input.dims, ndims) = p
<1> DEFINE x == input.dims
           c == MPI_Cart_coords(p)
           S(d) == Part(d, ndims)
           R(j) == RowMajorRank(c, x, j)
<1>1. ndims \in Nat \ {0} /\ Dims = 0 .. ndims-1 /\ x \in [Dims -> Nat \ {0}] /\ p \in Nat
  BY InputFacts, ProcsFinite DEF Positives
<1>2. /\ \A d \in Dims : S(d) \in Positives
      /\ \A d \in 1 .. ndims-1 : S(d-1) = S(d) * x[d]
      /\ S(ndims-1) = 1
      /\ p < S(0) * x[0]
  <2>1. /\ \A d \in Dims : ndims \in d+1 .. ndims
        /\ ndims \in 1 .. ndims /\ ndims-1 \in Dims /\ (ndims-1)+1 = ndims
    BY <1>1
  <2>2. \A d \in Dims : S(d) \in Positives
    BY <2>1, Strides
  <2>3. \A d \in 1 .. ndims-1 : S(d-1) = S(d) * x[d]
    <3> SUFFICES ASSUME NEW d \in 1 .. ndims-1 PROVE S(d-1) = S(d) * x[d]
      OBVIOUS
    <3>1. ndims \in d+1 .. ndims
      BY <1>1
    <3> QED
      BY <3>1, Strides
  <2>4. S(ndims-1) = 1
    BY <2>1, Parts
  <2>5. Volume(x, ndims) = S(0) * x[0]
    BY <2>1, Strides
  <2>6. p < Volume(x, ndims)
    <3>1. Volume(x, ndims) \in Nat
      BY InputFacts DEF Positives
    <3> QED
      BY <1>1, <3>1 DEF Procs
  <2> QED
    BY <2>2, <2>3, <2>4, <2>5, <2>6
<1>3. \A d \in Dims : c[d] = (p \div S(d)) % x[d]
  BY DEF MPI_Cart_coords, Stride, Part, Unit
<1>4. \A d \in Dims : x[d] \in Positives
  BY <1>1 DEF Positives
<1>5. ASSUME NEW d \in Dims PROVE p \div S(d) \in Nat /\ c[d] \in 0 .. x[d]-1
  <2> DEFINE b == S(d)
             y == x[d]
             q == p \div b
  <2>1. b \in Nat \ {0} /\ y \in Nat \ {0}
    BY <1>2, <1>4 DEF Positives
  <2> HIDE DEF b, y
  <2>2. q \in Nat
    BY <1>1, <2>1, Division
  <2> HIDE DEF q
  <2>3. q % y \in 0 .. y-1
    BY <2>1, <2>2, Division
  <2> QED
    BY <1>3, <2>2, <2>3 DEF b, y, q
<1>6. IsCell(c)
  <2>1. c = [d \in Dims |-> c[d]]
    BY DEF MPI_Cart_coords
  <2>2. \A d \in Dims : c[d] \in Nat /\ c[d] < x[d]
    BY <1>4, <1>5 DEF Positives
  <2> HIDE DEF c, x
  <2>3. c \in [Dims -> Nat]
    BY <2>1, <2>2
  <2> QED
    BY <2>2, <2>3 DEF IsCell, x
<1>7. /\ R(1) = c[0]
      /\ \A j \in 1 .. ndims-1 : R(j+1) = R(j) * x[j] + c[j]
  <2>1. x \in [0 .. ndims-1 -> Nat] /\ c \in [0 .. ndims-1 -> Nat]
    BY <1>1, <1>6 DEF IsCell
  <2> HIDE DEF x, c
  <2>2. RankRecurrence(c, x, ndims)
    BY <1>1, <2>1, RankStep
  <2> QED
    BY <2>2 DEF RankRecurrence
<1> HIDE DEF x, c, R, S
<1> DEFINE T == {k \in Nat : k < ndims => R(k+1) = p \div S(k)}
<1>8. 0 \in T
  <2> DEFINE b == S(0)
             y == x[0]
             q == p \div b
  <2>0. 0 \in Dims /\ R(0+1) = c[0]
    BY <1>1, <1>7
  <2>1. b \in Nat \ {0} /\ y \in Nat \ {0} /\ p < b * y /\ c[0] = q % y
    BY <1>2, <1>3, <1>4, <2>0 DEF Positives
  <2> HIDE DEF b, y
  <2> DEFINE r == p % b
  <2>2. q \in Nat /\ r \in 0 .. b-1 /\ p = b * q + r
    BY <1>1, <2>1, Division
  <2> HIDE DEF q, r
  <2>3. q < y
    <3> SUFFICES ASSUME y <= q PROVE FALSE
      BY <2>1, <2>2
    <3>1. b * y <= b * q
      BY <2>1, <2>2
    <3> QED
      BY <1>1, <2>1, <2>2, <3>1
  <2>4. q % y = q
    BY <2>1, <2>2, <2>3
  <2> QED
    BY <2>0, <2>1, <2>4 DEF q, b
<1>9. ASSUME NEW k \in Nat, k \in T PROVE k+1 \in T
  <2> SUFFICES ASSUME k+1 < ndims PROVE R((k+1)+1) = p \div S(k+1)
    OBVIOUS
  <2> DEFINE b == S(k+1)
             y == x[k+1]
  <2>1. k+1 \in 1 .. ndims-1 /\ k+1 \in Dims /\ (k+1)-1 = k
    BY <1>1
  <2>2. R(k+1) = p \div S(k) /\ S(k) = b * y
    BY <1>1, <1>2, <1>9, <2>1
  <2>3. R((k+1)+1) = R(k+1) * y + c[k+1] /\ c[k+1] = (p \div b) % y
    BY <1>3, <1>7, <2>1
  <2>4. b \in Positives /\ y \in Positives
    BY <1>2, <1>4, <2>1
  <2> HIDE DEF b, y
  <2>5. p \div b = (p \div (b * y)) * y + ((p \div b) % y)
    BY <1>1, <2>4, QuotientOfQuotient
  <2> QED
    BY <2>2, <2>3, <2>5 DEF b
<1> HIDE DEF T
<1>10. Nat \subseteq T
  BY <1>8, <1>9, SetInduction
<1>11. R(ndims) = p \div S(ndims-1)
  <2>1. ndims-1 \in T /\ ndims-1 < ndims /\ (ndims-1)+1 = ndims
    BY <1>1, <1>10
  <2> QED
    BY <2>1 DEF T
<1>12. p \div 1 = p
  BY <1>1
<1> QED
  BY <1>2, <1>6, <1>11, <1>12 DEF R, c, x

----------------------------------------------------------------------------
(***************************************************************************)
(* Edges: the neighbours that the code finds are the processes that the    *)
(* offsets lead to.                                                        *)
(***************************************************************************)
\* A remainder is the only number of its range that differs by a multiple.
LEMMA RemainderUnique ==
  ASSUME NEW b \in Positives, NEW a \in Int, NEW q \in 0 .. b-1
  PROVE  (q - a) % b = 0 <=> a % b = q
<1> DEFINE k == a \div b
           r == a % b
           m == (q - a) \div b
           s == (q - a) % b
<1>0. b \in Nat \ {0} /\ q - a \in Int
  BY DEF Positives
<1>1. k \in Int /\ r \in 0 .. b-1 /\ a = b * k + r
  BY <1>0, DivMod
<1>2. m \in Int /\ s \in 0 .. b-1 /\ q - a = b * m + s
  BY <1>0, DivMod
<1> HIDE DEF k, r, m, s
<1> DEFINE z == m + k
<1>3. z \in Int /\ q - r - s = b * z
  BY <1>0, <1>1, <1>2
<1> HIDE DEF z
<1>4. ASSUME s = 0 PROVE r = q
  <2>1. z < 1
    <3> SUFFICES ASSUME z >= 1 PROVE FALSE
      BY <1>3
    <3>1. b * z >= b
      BY <1>0, <1>3
    <3> QED
      BY <1>0, <1>1, <1>3, <1>4, <3>1
  <2>2. z > -1
    <3> SUFFICES ASSUME z <= -1 PROVE FALSE
      BY <1>3
    <3>1. b * z <= -b
      BY <1>0, <1>3
    <3> QED
      BY <1>0, <1>1, <1>3, <1>4, <3>1
  <2>3. z = 0
    BY <1>3, <2>1, <2>2
  <2> QED
    BY <1>0, <1>1, <1>3, <1>4, <2>3
<1>5. ASSUME r = q PROVE s = 0
  <2>1. b * z = -s
    BY <1>1, <1>2, <1>3, <1>5
  <2>2. z < 1
    <3> SUFFICES ASSUME z >= 1 PROVE FALSE
      BY <1>3
    <3>1. b * z >= b
      BY <1>0, <1>3
    <3> QED
      BY <1>0, <1>2, <2>1, <3>1
  <2>3. z > -1
    <3> SUFFICES ASSUME z <= -1 PROVE FALSE
      BY <1>3
    <3>1. b * z <= -b
      BY <1>0, <1>3
    <3> QED
      BY <1>0, <1>2, <2>1, <3>1
  <2>4. z = 0
    BY <1>3, <2>2, <2>3
  <2> QED
    BY <1>0, <1>2, <2>1, <2>4
<1> QED
  BY <1>4, <1>5 DEF r, s

\* Coordinates with those of the periodic dimensions wrapped around.
Wrapped(c) == [d \in Dims |-> IF input.periods[d] THEN c[d] % input.dims[d] ELSE c[d]]

LEMMA WrappedIsCell ==
  ASSUME input \in Inputs, NEW c \in [Dims -> Int], Feasible(c)
  PROVE  IsCell(Wrapped(c)) /\ MPI_Cart_rank(c) = RowMajorRank(Wrapped(c), input.dims, ndims)
<1>1. ASSUME NEW d \in Dims PROVE Wrapped(c)[d] \in Nat /\ Wrapped(c)[d] < input.dims[d]
  <2> DEFINE b == input.dims[d]
             a == c[d]
  <2>1. b \in Nat \ {0} /\ a \in Int
    BY InputFacts DEF Positives
  <2>2. ~ input.periods[d] => a \in 0 .. b-1
    BY DEF Feasible
  <2> HIDE DEF a, b
  <2>3. a % b \in 0 .. b-1
    BY <2>1, DivMod
  <2>4. Wrapped(c)[d] = IF input.periods[d] THEN a % b ELSE a
    BY DEF Wrapped, a, b
  <2>5. CASE input.periods[d]
    <3>1. Wrapped(c)[d] = a % b
      BY <2>4, <2>5
    <3> QED
      BY <2>1, <2>3, <3>1 DEF b
  <2>6. CASE ~ input.periods[d]
    BY <2>1, <2>2, <2>4, <2>6 DEF b
  <2> QED
    BY <2>5, <2>6
<1>2. Wrapped(c) = [d \in Dims |-> Wrapped(c)[d]]
  BY DEF Wrapped
<1>3. Wrapped(c) \in [Dims -> Nat]
  BY <1>1, <1>2
<1> QED
  BY <1>1, <1>3 DEF IsCell, MPI_Cart_rank, Wrapped

LEMMA NeighborType ==
  ASSUME input \in Inputs, NEW p \in Procs, NEW i \in DOMAIN input.stencil
  PROVE  /\ \A d \in Dims : MPI_Cart_coords(p)[d] \in Int /\ input.stencil[i][d] \in Int
         /\ neighbor_coord(p, i) \in [Dims -> Int]
<1>1. \A d \in Dims : MPI_Cart_coords(p)[d] \in Nat
  BY RankOfCoords DEF IsCell
<1>2. \A d \in Dims : input.stencil[i][d] \in Int
  <2>1. input.stencil \in Seq([Dims -> Int])
    BY InputFacts
  <2>2. input.stencil[i] \in [Dims -> Int]
    BY <2>1
  <2> QED
    BY <2>2
<1>3. \A d \in Dims : MPI_Cart_coords(p)[d] + input.stencil[i][d] \in Int
  BY <1>1, <1>2
<1> QED
  BY <1>1, <1>2, <1>3 DEF neighbor_coord

\* An offset leads to q just if the code does not skip it and finds q.
LEMMA LeadsIff ==
  ASSUME input \in Inputs, NEW p \in Procs, NEW i \in DOMAIN input.stencil, NEW q \in Procs
  PROVE  Leads(p, i, q) <=> /\ Feasible(neighbor_coord(p, i))
                            /\ MPI_Cart_rank(neighbor_coord(p, i)) = q
<1> DEFINE c == neighbor_coord(p, i)
           at == MPI_Cart_coords(q)
           distance(d) == at[d] - MPI_Cart_coords(p)[d] - input.stencil[i][d]
<1>1. c \in [Dims -> Int] /\ IsCell(at) /\ RowMajorRank(at, input.dims, ndims) = q
  BY NeighborType, RankOfCoords
<1>2. ASSUME NEW d \in Dims
      PROVE  /\ distance(d) = at[d] - c[d] /\ c[d] \in Int
             /\ input.dims[d] \in Positives /\ at[d] \in 0 .. input.dims[d]-1
             /\ input.periods[d] \in BOOLEAN
  <2>1. MPI_Cart_coords(p)[d] \in Int /\ input.stencil[i][d] \in Int
    BY NeighborType
  <2>2. c[d] = MPI_Cart_coords(p)[d] + input.stencil[i][d]
    BY DEF neighbor_coord
  <2>3. at[d] \in Nat /\ at[d] < input.dims[d] /\ input.dims[d] \in Positives
        /\ input.periods[d] \in BOOLEAN
    BY <1>1, InputFacts DEF IsCell
  <2>4. at[d] \in 0 .. input.dims[d]-1
    BY <2>3 DEF Positives
  <2> HIDE DEF c, at
  <2>5. at[d] - MPI_Cart_coords(p)[d] - input.stencil[i][d] = at[d] - c[d]
    BY <2>1, <2>2, <2>3
  <2> QED
    BY <1>1, <2>3, <2>4, <2>5
<1>3. Leads(p, i, q) <=> \A d \in Dims : IF input.periods[d] THEN distance(d) % input.dims[d] = 0
                                                            ELSE distance(d) = 0
  BY DEF Leads
<1> HIDE DEF c, at, distance
<1>4. ASSUME NEW d \in Dims
      PROVE  (IF input.periods[d] THEN distance(d) % input.dims[d] = 0 ELSE distance(d) = 0)
               <=> Wrapped(c)[d] = at[d]
  <2>1. Wrapped(c)[d] = IF input.periods[d] THEN c[d] % input.dims[d] ELSE c[d]
    BY DEF Wrapped
  <2>2. CASE input.periods[d]
    <3>1. (at[d] - c[d]) % input.dims[d] = 0 <=> c[d] % input.dims[d] = at[d]
      BY <1>2, RemainderUnique
    <3> QED
      BY <1>2, <2>1, <2>2, <3>1
  <2>3. CASE ~ input.periods[d]
    <3>1. distance(d) = 0 <=> c[d] = at[d]
      BY <1>2
    <3> QED
      BY <2>1, <2>3, <3>1
  <2> QED
    BY <2>2, <2>3
<1>5. Leads(p, i, q) <=> \A d \in Dims : Wrapped(c)[d] = at[d]
  BY <1>3, <1>4
<1>6. (\A d \in Dims : Wrapped(c)[d] = at[d]) => Wrapped(c) = at
  <2>1. Wrapped(c) = [d \in Dims |-> Wrapped(c)[d]] /\ at = [d \in Dims |-> at[d]]
    BY <1>1 DEF Wrapped, IsCell
  <2> QED
    BY <2>1
<1>7. ASSUME Leads(p, i, q) PROVE Feasible(c) /\ MPI_Cart_rank(c) = q
  <2>1. Feasible(c)
    <3> SUFFICES ASSUME NEW d \in Dims, ~ input.periods[d] PROVE c[d] \in 0 .. input.dims[d]-1
      BY DEF Feasible
    <3>1. Wrapped(c)[d] = c[d] /\ Wrapped(c)[d] = at[d]
      BY <1>5, <1>7 DEF Wrapped
    <3> QED
      BY <1>2, <3>1
  <2> QED
    BY <1>1, <1>5, <1>6, <1>7, <2>1, WrappedIsCell
<1>8. ASSUME Feasible(c), MPI_Cart_rank(c) = q PROVE Leads(p, i, q)
  <2>1. IsCell(Wrapped(c)) /\ RowMajorRank(Wrapped(c), input.dims, ndims) = q
    BY <1>1, <1>8, WrappedIsCell
  <2>2. MPI_Cart_coords(q) = Wrapped(c)
    BY <2>1, CoordsOfRank
  <2> QED
    BY <1>5, <2>2 DEF at
<1> QED
  BY <1>7, <1>8 DEF c

----------------------------------------------------------------------------
(***************************************************************************)
(* Counts: what the loops and the reductions add up is the number of edges *)
(* that cross between nodes.                                               *)
(***************************************************************************)
NodeOf(p) == {q \in Procs : input.nodeOf[q] = input.nodeOf[p]}
Edges(p) == get_neighbors_from_stencil(p)

\* What a process counts, and what the processes of its node count together.
Leaving(p) == OffNode(Edges(p), NodeOf(p))
NodeSum(p) == Total([q \in NodeOf(p) |-> Leaving(q)])

\* The edges of p that leave its node, by their offsets.
LeavingOffsets(p) == {i \in DOMAIN Edges(p) : Edges(p)[i] \notin NodeOf(p)}

CrossingOf(p) == {e \in Crossing : e[1] = p}

LEMMA EdgesFacts ==
  ASSUME input \in Inputs, NEW p \in Procs
  PROVE  /\ IsFiniteSet(LeavingOffsets(p)) /\ LeavingOffsets(p) \subseteq DOMAIN input.stencil
         /\ Leaving(p) = Cardinality(LeavingOffsets(p)) /\ Leaving(p) \in Nat
         /\ \A i \in DOMAIN Edges(p) : Edges(p)[i] \in Procs \ {p}
         /\ \A i \in DOMAIN Edges(p) : Edges(p)[i] = MPI_Cart_rank(neighbor_coord(p, i))
         /\ \A i : i \in DOMAIN Edges(p) <=> /\ i \in DOMAIN input.stencil
                                             /\ Feasible(neighbor_coord(p, i))
                                             /\ MPI_Cart_rank(neighbor_coord(p, i)) # p
<1>1. /\ \A i : i \in DOMAIN Edges(p) <=> /\ i \in DOMAIN input.stencil
                                          /\ Feasible(neighbor_coord(p, i))
                                          /\ MPI_Cart_rank(neighbor_coord(p, i)) # p
      /\ \A i \in DOMAIN Edges(p) : Edges(p)[i] = MPI_Cart_rank(neighbor_coord(p, i))
  BY DEF Edges, get_neighbors_from_stencil
<1>2. IsFiniteSet(DOMAIN input.stencil)
  <2>1. input.stencil \in Seq([Dims -> Int])
    BY InputFacts
  <2> DEFINE n == Len(input.stencil)
  <2>2. n \in Nat /\ DOMAIN input.stencil = 1 .. n
    BY <2>1
  <2> HIDE DEF n
  <2>3. \A k \in Int : IsFiniteSet(1 .. k)
    BY FS_Interval
  <2> QED
    BY <2>2, <2>3
<1>3. LeavingOffsets(p) \subseteq DOMAIN input.stencil
  BY <1>1 DEF LeavingOffsets
<1>4. IsFiniteSet(LeavingOffsets(p))
  BY <1>2, <1>3, FS_Subset
<1>5. Leaving(p) = Cardinality(LeavingOffsets(p))
  BY DEF Leaving, OffNode, LeavingOffsets
<1>6. Leaving(p) \in Nat
  BY <1>4, <1>5, FS_CardinalityType
<1>7. ASSUME NEW i \in DOMAIN Edges(p) PROVE Edges(p)[i] \in Procs \ {p}
  <2> DEFINE c == neighbor_coord(p, i)
  <2>1. i \in DOMAIN input.stencil /\ Feasible(c) /\ Edges(p)[i] = MPI_Cart_rank(c) /\ Edges(p)[i] # p
    BY <1>1
  <2>2. c \in [Dims -> Int]
    BY <2>1, NeighborType
  <2> HIDE DEF c
  <2>3. IsCell(Wrapped(c)) /\ MPI_Cart_rank(c) = RowMajorRank(Wrapped(c), input.dims, ndims)
    BY <2>1, <2>2, WrappedIsCell
  <2> QED
    BY <2>1, <2>3, CoordsOfRank
<1> QED
  BY <1>1, <1>3, <1>4, <1>5, <1>6, <1>7

\* The offsets that a process counts are those that lead to another node.
LEMMA LeavingCounts ==
  ASSUME input \in Inputs, NEW p \in Procs
  PROVE  IsFiniteSet(CrossingOf(p)) /\ Cardinality(CrossingOf(p)) = Leaving(p)
<1> DEFINE S == LeavingOffsets(p)
           at(i) == MPI_Cart_rank(neighbor_coord(p, i))
           f == [i \in S |-> <<p, i, at(i)>>]
<1>1. ASSUME NEW i \in S PROVE <<p, i, at(i)>> \in CrossingOf(p)
  <2>1. /\ i \in DOMAIN input.stencil /\ i \in DOMAIN Edges(p)
        /\ Feasible(neighbor_coord(p, i)) /\ Edges(p)[i] = at(i)
        /\ at(i) \in Procs /\ at(i) \notin NodeOf(p)
    <3>1. i \in DOMAIN Edges(p) /\ Edges(p)[i] \notin NodeOf(p)
      BY DEF LeavingOffsets
    <3>2. i \in DOMAIN input.stencil /\ Feasible(neighbor_coord(p, i))
      BY <3>1, EdgesFacts
    <3>3. Edges(p)[i] = at(i)
      BY <3>1, EdgesFacts
    <3>4. Edges(p)[i] \in Procs
      BY <3>1, EdgesFacts
    <3> QED
      BY <3>1, <3>2, <3>3, <3>4
  <2> HIDE DEF at
  <2>2. Leads(p, i, at(i))
    BY <2>1, LeadsIff DEF at
  <2>3. input.nodeOf[p] # input.nodeOf[at(i)]
    BY <2>1 DEF NodeOf
  <2> QED
    BY <2>1, <2>2, <2>3 DEF CrossingOf, Crossing
<1>2. ASSUME NEW e \in CrossingOf(p) PROVE e[2] \in S /\ e = <<p, e[2], at(e[2])>>
  <2>1. /\ e \in Procs \X (DOMAIN input.stencil) \X Procs /\ e[1] = p
        /\ input.nodeOf[e[1]] # input.nodeOf[e[3]] /\ Leads(e[1], e[2], e[3])
    BY DEF CrossingOf, Crossing
  <2>2. e = <<p, e[2], e[3]>> /\ e[2] \in DOMAIN input.stencil /\ e[3] \in Procs
    BY <2>1
  <2>3. Feasible(neighbor_coord(p, e[2])) /\ at(e[2]) = e[3]
    BY <2>1, <2>2, LeadsIff
  <2>4. e[3] # p /\ e[3] \notin NodeOf(p)
    BY <2>1, <2>2 DEF NodeOf
  <2>5. e[2] \in DOMAIN Edges(p) /\ Edges(p)[e[2]] = e[3]
    BY <2>2, <2>3, <2>4, EdgesFacts
  <2> QED
    BY <2>2, <2>3, <2>4, <2>5 DEF LeavingOffsets
<1> HIDE DEF S, at
<1>3. f \in Bijection(S, CrossingOf(p))
  <2>1. f \in [S -> CrossingOf(p)]
    BY <1>1
  <2>2. \A i \in S : f[i][2] = i
    OBVIOUS
  <2>3. \A e \in CrossingOf(p) : \E i \in S : f[i] = e
    BY <1>2
  <2> HIDE DEF f
  <2>4. \A i, j \in S : f[i] = f[j] => i = j
    BY <2>2
  <2> QED
    BY <2>1, <2>3, <2>4 DEF Bijection, Injection, Surjection, IsInjective
<1>4. ExistsBijection(S, CrossingOf(p))
  BY <1>3 DEF ExistsBijection
<1>5. IsFiniteSet(S) /\ Leaving(p) = Cardinality(S)
  BY EdgesFacts DEF S
<1> QED
  BY <1>4, <1>5, FS_Bijection

\* Tuples are as many as the sum over their first components of how many start with it.
LEMMA CountByFirst ==
  ASSUME NEW P, IsFiniteSet(P), NEW E, NEW f,
         \A p \in P : IsFiniteSet({e \in E : e[1] = p}) /\ f[p] = Cardinality({e \in E : e[1] = p})
  PROVE  /\ IsFiniteSet({e \in E : e[1] \in P})
         /\ SumOver(f, P) = Cardinality({e \in E : e[1] \in P})
<1> DEFINE From(T) == {e \in E : e[1] \in T}
           Of(p) == {e \in E : e[1] = p}
           Good(T) == IsFiniteSet(From(T)) /\ SumOver(f, T) = Cardinality(From(T))
           C == {n \in Nat : \A T \in SUBSET P : Cardinality(T) = n => Good(T)}
<1>1. \A T \in SUBSET P : IsFiniteSet(T) /\ Cardinality(T) \in Nat
  BY FS_Subset, FS_CardinalityType
<1>2. \A p \in P : IsFiniteSet(Of(p)) /\ f[p] = Cardinality(Of(p)) /\ f[p] \in Int
  <2> SUFFICES ASSUME NEW p \in P PROVE IsFiniteSet(Of(p)) /\ f[p] = Cardinality(Of(p)) /\ f[p] \in Int
    OBVIOUS
  <2>1. IsFiniteSet(Of(p)) /\ f[p] = Cardinality(Of(p))
    OBVIOUS
  <2> QED
    BY <2>1, FS_CardinalityType
<1> HIDE DEF Of
<1>3. 0 \in C
  <2> SUFFICES ASSUME NEW T \in SUBSET P, Cardinality(T) = 0 PROVE Good(T)
    OBVIOUS
  <2>1. T = {} /\ From(T) = {}
    BY <1>1, FS_EmptySet
  <2>2. SumOver(f, {}) = 0
    BY <1>2, SumByPicking
  <2> QED
    BY <2>1, <2>2, FS_EmptySet
<1>4. ASSUME NEW n \in Nat, n \in C PROVE n+1 \in C
  <2> SUFFICES ASSUME NEW T \in SUBSET P, Cardinality(T) = n+1 PROVE Good(T)
    OBVIOUS
  <2>1. IsFiniteSet(T) /\ T # {}
    BY <1>1, FS_EmptySet
  <2>2. PICK p \in T : TRUE
    BY <2>1
  <2> DEFINE R == T \ {p}
  <2>3. R \in SUBSET P /\ Cardinality(R) = n
    <3>1. Cardinality(R) = Cardinality(T) - 1
      BY <2>1, FS_RemoveElement
    <3> QED
      BY <3>1
  <2>4. Good(R)
    BY <1>4, <2>3
  <2>5. SumOver(f, T) = f[p] + SumOver(f, R)
    BY <1>2, <2>1, SumRemove
  <2>6. From(T) = Of(p) \cup From(R) /\ Of(p) \cap From(R) = {}
    BY DEF Of
  <2>7. IsFiniteSet(Of(p)) /\ f[p] = Cardinality(Of(p))
    BY <1>2
  <2> HIDE DEF From, R
  <2>8. /\ IsFiniteSet(From(T))
        /\ Cardinality(From(T)) = Cardinality(Of(p)) + Cardinality(From(R)) - Cardinality({})
    BY <2>4, <2>6, <2>7, FS_Union
  <2>9. Cardinality({}) = 0 /\ Cardinality(Of(p)) \in Nat /\ Cardinality(From(R)) \in Nat
    BY <2>4, <2>7, FS_EmptySet, FS_CardinalityType
  <2> QED
    BY <2>4, <2>5, <2>7, <2>8, <2>9
<1> HIDE DEF C
<1>5. Nat \subseteq C
  BY <1>3, <1>4, SetInduction
<1>6. P \in SUBSET P /\ Cardinality(P) \in C
  BY <1>1, <1>5
<1>7. Good(P)
  BY <1>6 DEF C
<1> QED
  BY <1>7

LEMMA SumsCount ==
  ASSUME input \in Inputs, NEW P, P \subseteq Procs
  PROVE  /\ Total([q \in P |-> Leaving(q)]) = Cardinality({e \in Crossing : e[1] \in P})
         /\ IsFiniteSet({e \in Crossing : e[1] \in P})
<1> DEFINE f == [q \in P |-> Leaving(q)]
<1>1. IsFiniteSet(P)
  BY ProcsFinite, FS_Subset
<1>2. \A p \in P : /\ IsFiniteSet({e \in Crossing : e[1] = p})
                   /\ f[p] = Cardinality({e \in Crossing : e[1] = p})
  BY LeavingCounts DEF CrossingOf
<1>3. Total(f) = SumOver(f, P)
  <2>1. DOMAIN f = P
    OBVIOUS
  <2> HIDE DEF f
  <2> QED
    BY <2>1 DEF Total, SumOver
<1>4. \A p \in P : f[p] \in Nat
  BY EdgesFacts
<1> HIDE DEF f
<1> DEFINE E == {e \in Crossing : e[1] \in P}
<1>5. IsFiniteSet(E) /\ SumOver(f, P) = Cardinality(E)
  BY <1>1, <1>2, CountByFirst
<1> HIDE DEF E
<1>6. Total(f) = Cardinality(E)
  BY <1>3, <1>5
<1> QED
  BY <1>5, <1>6 DEF f, E

----------------------------------------------------------------------------
(***************************************************************************)
(* The inductive invariant.  What a process calls on its communicators is  *)
(* known in advance, up to the arguments: a script for each of them, which *)
(* its pc says how far it has followed.                                    *)
(***************************************************************************)
Handles == {"cart", "dist", "node"}
PCs == {"start", "dist_graph_create", "split_type", "sum_on_node", "max", "sum", "done"}

CallOf(op, arg) == [op |-> op, arg |-> arg]

CartScript(p) == <<CallOf("dist_graph_create", Edges(p))>>

DistScript(p) ==
  <<CallOf("comm_split_type", p),
    CallOf("allreduce_max", NodeSum(p)),
    CallOf("allreduce_sum", Leaving(p)),
    CallOf("comm_free", 0)>>

NodeScript(p) == <<CallOf("allreduce_sum", Leaving(p))>>

\* The first k calls of a script.
Made(script, k) == [i \in 1 .. k |-> script[i]]

CartMade(p) == IF pc[p] = "start" THEN 0 ELSE 1

DistMade(p) ==
  IF pc[p] \in {"start", "dist_graph_create"} THEN 0
  ELSE IF pc[p] = "max" THEN 2
  ELSE IF pc[p] = "sum" THEN 3
  ELSE IF pc[p] = "done" THEN 4
  ELSE 1

NodeMade(p) == IF pc[p] \in {"start", "dist_graph_create", "split_type"} THEN 0 ELSE 1

CallsFollow(p) ==
  /\ calls["cart"][p] = Made(CartScript(p), CartMade(p))
  /\ calls["dist"][p] = Made(DistScript(p), DistMade(p))
  /\ calls["node"][p] = Made(NodeScript(p), NodeMade(p))

OwnNode(p) == MPI_Comm_split_type(cart_comm, input.nodeOf, p)
AllLeaving == Total([q \in Procs |-> Leaving(q)])
Busiest == Max({NodeSum(q) : q \in Procs})

CommsFollow(p) ==
  /\ dist_graph[p] =
       IF pc[p] \in {"start", "dist_graph_create", "done"} THEN COMM_NULL ELSE cart_comm
  /\ node_comm[p] =
       IF pc[p] \in {"start", "dist_graph_create", "split_type"} THEN COMM_NULL ELSE OwnNode(p)

DataFollow(p) ==
  /\ dest[p] = IF pc[p] \in {"start", "dist_graph_create"} THEN <<>> ELSE Edges(p)
  /\ local_offnode_neighbors[p] =
       IF pc[p] \in {"start", "dist_graph_create", "split_type"} THEN UNINIT ELSE Leaving(p)
  /\ node_offnode_comm_size[p] =
       IF pc[p] \in {"max", "sum", "done"} THEN NodeSum(p) ELSE UNINIT
  /\ max[p] = IF pc[p] \in {"start", "dist_graph_create"} THEN UNINIT
              ELSE IF pc[p] \in {"sum", "done"} THEN Busiest ELSE 0
  /\ total[p] = IF pc[p] \in {"start", "dist_graph_create"} THEN UNINIT
                ELSE IF pc[p] = "done" THEN AllLeaving ELSE 0

Follows(p) == CallsFollow(p) /\ CommsFollow(p) /\ DataFollow(p)

\* Every variable is a function on the processes.
Shape ==
  /\ input \in Inputs
  /\ pc \in [Procs -> PCs]
  /\ calls = [h \in Handles |-> [p \in Procs |-> calls[h][p]]]
  /\ dest = [p \in Procs |-> dest[p]]
  /\ dist_graph = [p \in Procs |-> dist_graph[p]]
  /\ node_comm = [p \in Procs |-> node_comm[p]]
  /\ local_offnode_neighbors = [p \in Procs |-> local_offnode_neighbors[p]]
  /\ node_offnode_comm_size = [p \in Procs |-> node_offnode_comm_size[p]]
  /\ total = [p \in Procs |-> total[p]]
  /\ max = [p \in Procs |-> max[p]]

IInv == Shape /\ \A p \in Procs : Follows(p)

----------------------------------------------------------------------------
\* The next call of a script makes the script one call longer.
LEMMA MadeAppend ==
  ASSUME NEW script, NEW k \in Nat
  PROVE  Append(Made(script, k), script[k+1]) = Made(script, k+1)
<1> DEFINE U == {script[i] : i \in 1 .. k+1}
           s == Made(script, k)
           t == Append(s, script[k+1])
<1>1. script[k+1] \in U /\ \A i \in 1 .. k : script[i] \in U
  OBVIOUS
<1> HIDE DEF U
<1>2. s \in Seq(U) /\ Len(s) = k /\ \A i \in 1 .. k : s[i] = script[i]
  BY <1>1 DEF Made
<1> HIDE DEF s
<1>3. t \in Seq(U) /\ Len(t) = k+1
  BY <1>1, <1>2
<1>4. t[k+1] = script[k+1] /\ \A i \in 1 .. k : t[i] = script[i]
  BY <1>1, <1>2
<1> HIDE DEF t
<1>5. t = [i \in 1 .. k+1 |-> t[i]]
  BY <1>3
<1>6. \A i \in 1 .. k+1 : t[i] = script[i]
  BY <1>4
<1> QED
  BY <1>5, <1>6 DEF Made, s, t

\* How many calls have been made, and which.
LEMMA MadeFacts ==
  ASSUME NEW script, NEW k \in Nat
  PROVE  /\ Len(Made(script, k)) = k /\ DOMAIN Made(script, k) = 1 .. k
         /\ \A i \in 1 .. k : Made(script, k)[i] = script[i]
  BY DEF Made

\* p has made n calls of a script on its communicator h, and no other call was made.
Advanced(h, p, script, n) ==
  /\ calls' = [i \in Handles |-> [q \in Procs |-> calls'[i][q]]]
  /\ calls'[h][p] = Made(script, n)
  /\ \A i \in Handles : \A q \in Procs : i # h \/ q # p => calls'[i][q] = calls[i][q]

\* A call advances the caller in its script for one communicator, and changes no other.
LEMMA CallAdvances ==
  ASSUME Shape, NEW p \in Procs, NEW h \in Handles, NEW op, NEW arg,
         Call(p, h, op, arg),
         NEW script, NEW k \in Nat, NEW n \in Nat, n = k+1,
         calls[h][p] = Made(script, k), script[n] = CallOf(op, arg)
  PROVE  Advanced(h, p, script, n)
<1>1. calls = [i \in Handles |-> [q \in Procs |-> calls[i][q]]]
  BY DEF Shape
<1>2. calls' = [calls EXCEPT ![h][p] = Append(@, CallOf(op, arg))]
  BY DEF Call, CallOf
<1>3. calls'[h][p] = Append(Made(script, k), script[k+1])
  BY <1>1, <1>2
<1>4. calls'[h][p] = Made(script, n)
  BY <1>3, MadeAppend
<1>5. \A i \in Handles : \A q \in Procs : i # h \/ q # p => calls'[i][q] = calls[i][q]
  BY <1>1, <1>2
<1>6. calls' = [i \in Handles |-> [q \in Procs |-> calls'[i][q]]]
  BY <1>1, <1>2
<1> QED
  BY <1>4, <1>5, <1>6 DEF Advanced

\* What depends on the input alone does not change.
LEMMA Static ==
  ASSUME input' = input
  PROVE  /\ Procs' = Procs /\ cart_comm' = cart_comm
         /\ AllLeaving' = AllLeaving /\ Busiest' = Busiest
         /\ \A p : /\ Edges(p)' = Edges(p) /\ Leaving(p)' = Leaving(p)
                   /\ NodeSum(p)' = NodeSum(p) /\ OwnNode(p)' = OwnNode(p)
                   /\ CartScript(p)' = CartScript(p) /\ DistScript(p)' = DistScript(p)
                   /\ NodeScript(p)' = NodeScript(p)
<1>1. Procs' = Procs
  BY DEF Procs
<1>2. cart_comm' = cart_comm
  BY <1>1 DEF cart_comm
<1>3. \A p : Edges(p)' = Edges(p)
  <2> SUFFICES ASSUME NEW p PROVE Edges(p)' = Edges(p)
    OBVIOUS
  <2>1. MPI_Cart_coords(p)' = MPI_Cart_coords(p)
    BY DEF MPI_Cart_coords, Stride
  <2>2. \A i : neighbor_coord(p, i)' = neighbor_coord(p, i)
    BY <2>1 DEF neighbor_coord
  <2>3. \A c : MPI_Cart_rank(c)' = MPI_Cart_rank(c) /\ Feasible(c)' = Feasible(c)
    BY DEF MPI_Cart_rank, Feasible
  <2> QED
    BY <2>2, <2>3 DEF Edges, get_neighbors_from_stencil
<1>4. \A p : NodeOf(p)' = NodeOf(p)
  BY <1>1 DEF NodeOf
<1>5. \A p : Leaving(p)' = Leaving(p)
  BY <1>3, <1>4 DEF Leaving
<1>6. \A p : NodeSum(p)' = NodeSum(p)
  BY <1>4, <1>5 DEF NodeSum
<1>7. \A p : OwnNode(p)' = OwnNode(p)
  BY <1>2 DEF OwnNode
<1>8. AllLeaving' = AllLeaving /\ Busiest' = Busiest
  BY <1>1, <1>5, <1>6 DEF AllLeaving, Busiest
<1>9. \A p : /\ CartScript(p)' = CartScript(p) /\ DistScript(p)' = DistScript(p)
             /\ NodeScript(p)' = NodeScript(p)
  BY <1>3, <1>5, <1>6 DEF CartScript, DistScript, NodeScript
<1> QED
  BY <1>1, <1>2, <1>3, <1>5, <1>6, <1>7, <1>8, <1>9

----------------------------------------------------------------------------
(***************************************************************************)
(* The steps.                                                              *)
(***************************************************************************)
\* The scripts, call by call.
LEMMA Scripts ==
  ASSUME NEW p
  PROVE  /\ CartScript(p)[1] = CallOf("dist_graph_create", Edges(p))
         /\ DistScript(p)[1] = CallOf("comm_split_type", p)
         /\ DistScript(p)[2] = CallOf("allreduce_max", NodeSum(p))
         /\ DistScript(p)[3] = CallOf("allreduce_sum", Leaving(p))
         /\ DistScript(p)[4] = CallOf("comm_free", 0)
         /\ NodeScript(p)[1] = CallOf("allreduce_sum", Leaving(p))
  BY DEF CartScript, DistScript, NodeScript

LEMMA OwnNodeFacts ==
  ASSUME NEW p
  PROVE  DOMAIN OwnNode(p) = NodeOf(p) /\ Members(OwnNode(p)) = NodeOf(p)
<1>1. DOMAIN cart_comm = Procs
  BY DEF cart_comm
<1> QED
  BY <1>1 DEF OwnNode, MPI_Comm_split_type, RankBy, NodeOf, Members

\* The number of calls that a process has made, and the argument of each.
LEMMA CallsMade ==
  ASSUME IInv, NEW p \in Procs
  PROVE  /\ Len(calls["cart"][p]) = CartMade(p)
         /\ Len(calls["dist"][p]) = DistMade(p)
         /\ Len(calls["node"][p]) = NodeMade(p)
         /\ CartMade(p) >= 1 => calls["cart"][p][1].arg = Edges(p)
         /\ DistMade(p) >= 2 => calls["dist"][p][2].arg = NodeSum(p)
         /\ DistMade(p) >= 3 => calls["dist"][p][3].arg = Leaving(p)
         /\ NodeMade(p) >= 1 => calls["node"][p][1].arg = Leaving(p)
<1>1. CallsFollow(p)
  BY DEF IInv, Follows
<1>2. CartMade(p) \in Nat /\ DistMade(p) \in Nat /\ NodeMade(p) \in Nat
  BY DEF CartMade, DistMade, NodeMade
<1>3. Len(calls["cart"][p]) = CartMade(p)
  BY <1>1, <1>2, MadeFacts DEF CallsFollow
<1>4. Len(calls["dist"][p]) = DistMade(p)
  BY <1>1, <1>2, MadeFacts DEF CallsFollow
<1>5. Len(calls["node"][p]) = NodeMade(p)
  BY <1>1, <1>2, MadeFacts DEF CallsFollow
<1>6. ASSUME CartMade(p) >= 1 PROVE calls["cart"][p][1].arg = Edges(p)
  <2>1. calls["cart"][p][1] = CartScript(p)[1]
    BY <1>1, <1>2, <1>6, MadeFacts DEF CallsFollow
  <2>2. CartScript(p)[1] = CallOf("dist_graph_create", Edges(p))
    BY Scripts
  <2> QED
    BY <2>1, <2>2 DEF CallOf
<1>7. ASSUME DistMade(p) >= 2 PROVE calls["dist"][p][2].arg = NodeSum(p)
  <2>1. calls["dist"][p][2] = DistScript(p)[2]
    BY <1>1, <1>2, <1>7, MadeFacts DEF CallsFollow
  <2>2. DistScript(p)[2] = CallOf("allreduce_max", NodeSum(p))
    BY Scripts
  <2> QED
    BY <2>1, <2>2 DEF CallOf
<1>8. ASSUME DistMade(p) >= 3 PROVE calls["dist"][p][3].arg = Leaving(p)
  <2>1. calls["dist"][p][3] = DistScript(p)[3]
    BY <1>1, <1>2, <1>8, MadeFacts DEF CallsFollow
  <2>2. DistScript(p)[3] = CallOf("allreduce_sum", Leaving(p))
    BY Scripts
  <2> QED
    BY <2>1, <2>2 DEF CallOf
<1>9. ASSUME NodeMade(p) >= 1 PROVE calls["node"][p][1].arg = Leaving(p)
  <2>1. calls["node"][p][1] = NodeScript(p)[1]
    BY <1>1, <1>2, <1>9, MadeFacts DEF CallsFollow
  <2>2. NodeScript(p)[1] = CallOf("allreduce_sum", Leaving(p))
    BY Scripts
  <2> QED
    BY <2>1, <2>2 DEF CallOf
<1> QED
  BY <1>3, <1>4, <1>5, <1>6, <1>7, <1>8, <1>9

\* g is f with nothing but the value at p changed.
Changes(f, g, p) ==
  /\ g = [q \in Procs |-> g[q]]
  /\ \A q \in Procs : q # p => g[q] = f[q]

\* A step of p moves p alone, to another call, and leaves the variables of the others.
Moves(p, to) ==
  /\ input' = input
  /\ to \in PCs /\ pc'[p] = to /\ Changes(pc, pc', p)
  /\ calls' = [h \in Handles |-> [q \in Procs |-> calls'[h][q]]]
  /\ \A h \in Handles : \A q \in Procs : q # p => calls'[h][q] = calls[h][q]
  /\ Changes(dest, dest', p)
  /\ Changes(dist_graph, dist_graph', p)
  /\ Changes(node_comm, node_comm', p)
  /\ Changes(local_offnode_neighbors, local_offnode_neighbors', p)
  /\ Changes(node_offnode_comm_size, node_offnode_comm_size', p)
  /\ Changes(total, total', p)
  /\ Changes(max, max', p)

LEMMA MovesKeep ==
  ASSUME IInv, NEW p \in Procs, NEW to, Moves(p, to), Follows(p)'
  PROVE  IInv'
<1>1. Procs' = Procs /\ input' = input
  BY Static DEF Moves
<1>2. Shape'
  <2>1. pc' \in [Procs -> PCs]
    <3>1. pc' = [q \in Procs |-> pc'[q]] /\ \A q \in Procs : pc'[q] \in PCs
      BY DEF Moves, Changes, IInv, Shape
    <3> QED
      BY <3>1
  <2>2. input' \in Inputs
    BY <1>1 DEF IInv, Shape
  <2> QED
    BY <1>1, <2>1, <2>2 DEF Moves, Changes, Shape
<1>3. ASSUME NEW q \in Procs, q # p PROVE Follows(q)'
  <2>1. pc'[q] = pc[q] /\ \A h \in Handles : calls'[h][q] = calls[h][q]
    BY <1>3 DEF Moves, Changes
  <2>2. /\ dest'[q] = dest[q] /\ dist_graph'[q] = dist_graph[q] /\ node_comm'[q] = node_comm[q]
        /\ local_offnode_neighbors'[q] = local_offnode_neighbors[q]
        /\ node_offnode_comm_size'[q] = node_offnode_comm_size[q]
        /\ total'[q] = total[q] /\ max'[q] = max[q]
    BY <1>3 DEF Moves, Changes
  <2>3. Follows(q)
    BY DEF IInv
  <2>4. CallsFollow(q)'
    BY <1>1, <2>1, <2>3, Static DEF Follows, CallsFollow, CartMade, DistMade, NodeMade, Handles
  <2>5. CommsFollow(q)'
    BY <1>1, <2>1, <2>2, <2>3, Static DEF Follows, CommsFollow
  <2>6. DataFollow(q)'
    BY <1>1, <2>1, <2>2, <2>3, Static DEF Follows, DataFollow
  <2> QED
    BY <2>4, <2>5, <2>6 DEF Follows
<1> QED
  BY <1>1, <1>2, <1>3 DEF IInv

\* The variables that a step does not assign.
LEMMA Unchanged ==
  ASSUME Shape, NEW p
  PROVE  /\ dest' = dest => Changes(dest, dest', p)
         /\ dist_graph' = dist_graph => Changes(dist_graph, dist_graph', p)
         /\ node_comm' = node_comm => Changes(node_comm, node_comm', p)
         /\ local_offnode_neighbors' = local_offnode_neighbors
              => Changes(local_offnode_neighbors, local_offnode_neighbors', p)
         /\ node_offnode_comm_size' = node_offnode_comm_size
              => Changes(node_offnode_comm_size, node_offnode_comm_size', p)
         /\ total' = total => Changes(total, total', p)
         /\ max' = max => Changes(max, max', p)
  BY DEF Shape, Changes

LEMMA Assigned ==
  ASSUME NEW f, f = [q \in Procs |-> f[q]], NEW p \in Procs, NEW e, NEW g, g = [f EXCEPT ![p] = e]
  PROVE  Changes(f, g, p) /\ g[p] = e
  BY DEF Changes

LEMMA GotoMoves ==
  ASSUME Shape, NEW p \in Procs, NEW from, NEW to \in PCs, Goto(p, from, to)
  PROVE  pc[p] = from /\ pc'[p] = to /\ Changes(pc, pc', p)
<1>1. pc = [q \in Procs |-> pc[q]] /\ pc[p] = from /\ pc' = [pc EXCEPT ![p] = to]
  BY DEF Shape, Goto
<1> QED
  BY <1>1, Assigned

LEMMA EnterStep ==
  ASSUME IInv, NEW p \in Procs, Enter(p)
  PROVE  IInv'
<1>0. Shape /\ Follows(p)
  BY DEF IInv
<1>1. pc[p] = "start" /\ pc'[p] = "dist_graph_create" /\ Changes(pc, pc', p)
  BY <1>0, GotoMoves DEF Enter, PCs
<1>2. Advanced("cart", p, CartScript(p), 1)
  <2>1. Call(p, "cart", "dist_graph_create", Edges(p)) /\ CartMade(p) = 0
    BY <1>1 DEF Enter, Edges, CartMade
  <2>2. calls["cart"][p] = Made(CartScript(p), 0)
    BY <1>0, <2>1 DEF Follows, CallsFollow
  <2> QED
    BY <1>0, <2>1, <2>2, CallAdvances, Scripts DEF Handles
<1>3. Moves(p, "dist_graph_create")
  BY <1>0, <1>1, <1>2, Unchanged DEF Moves, Advanced, Enter, counts, PCs
<1>4. CallsFollow(p)'
  BY <1>0, <1>1, <1>2, <1>3, Static
     DEF Follows, CallsFollow, Advanced, Moves, CartMade, DistMade, NodeMade, Handles
<1>5. CommsFollow(p)' /\ DataFollow(p)'
  BY <1>0, <1>1, <1>3, Static DEF Follows, CommsFollow, DataFollow, Moves, Enter, counts
<1> QED
  BY <1>3, <1>4, <1>5, MovesKeep DEF Follows

LEMMA DistGraphCreateStep ==
  ASSUME IInv, NEW p \in Procs, DistGraphCreate(p)
  PROVE  IInv'
<1>0. Shape /\ Follows(p)
  BY DEF IInv
<1>1. pc[p] = "dist_graph_create" /\ pc'[p] = "split_type" /\ Changes(pc, pc', p)
  BY <1>0, GotoMoves DEF DistGraphCreate, PCs
<1>2. Advanced("dist", p, DistScript(p), 1)
  <2>1. Call(p, "dist", "comm_split_type", p) /\ DistMade(p) = 0
    BY <1>1 DEF DistGraphCreate, DistMade
  <2>2. calls["dist"][p] = Made(DistScript(p), 0)
    BY <1>0, <2>1 DEF Follows, CallsFollow
  <2> QED
    BY <1>0, <2>1, <2>2, CallAdvances, Scripts DEF Handles
<1>3. Argument(calls["cart"], p, p) = Edges(p)
  <2>1. CartMade(p) = 1
    BY <1>1 DEF CartMade
  <2> QED
    BY <2>1, CallsMade DEF Argument, Current
<1>4. /\ Changes(dest, dest', p) /\ dest'[p] = Edges(p)
      /\ Changes(dist_graph, dist_graph', p) /\ dist_graph'[p] = cart_comm
      /\ Changes(total, total', p) /\ total'[p] = 0
      /\ Changes(max, max', p) /\ max'[p] = 0
  BY <1>0, <1>3, Assigned DEF DistGraphCreate, Shape
<1>5. Moves(p, "split_type")
  BY <1>0, <1>1, <1>2, <1>4, Unchanged DEF Moves, Advanced, DistGraphCreate, PCs
<1>6. CallsFollow(p)'
  BY <1>0, <1>1, <1>2, <1>5, Static
     DEF Follows, CallsFollow, Advanced, Moves, CartMade, DistMade, NodeMade, Handles
<1>7. CommsFollow(p)' /\ DataFollow(p)'
  BY <1>0, <1>1, <1>4, <1>5, Static DEF Follows, CommsFollow, DataFollow, Moves, DistGraphCreate
<1> QED
  BY <1>5, <1>6, <1>7, MovesKeep DEF Follows

LEMMA SplitTypeStep ==
  ASSUME IInv, NEW p \in Procs, SplitType(p)
  PROVE  IInv'
<1>0. Shape /\ Follows(p)
  BY DEF IInv
<1>1. pc[p] = "split_type" /\ pc'[p] = "sum_on_node" /\ Changes(pc, pc', p)
  BY <1>0, GotoMoves DEF SplitType, PCs
<1>2. Changes(node_comm, node_comm', p) /\ node_comm'[p] = OwnNode(p)
  <2>1. dist_graph[p] = cart_comm
    BY <1>0, <1>1 DEF Follows, CommsFollow
  <2> QED
    BY <1>0, <2>1, Assigned DEF SplitType, Shape, OwnNode
<1>3. /\ Changes(local_offnode_neighbors, local_offnode_neighbors', p)
      /\ local_offnode_neighbors'[p] = Leaving(p)
  <2>1. dest[p] = Edges(p)
    BY <1>0, <1>1 DEF Follows, DataFollow
  <2>2. OffNode(dest[p], Members(node_comm'[p])) = Leaving(p)
    BY <1>2, <2>1, OwnNodeFacts DEF Leaving
  <2> QED
    BY <1>0, <2>2, Assigned DEF SplitType, Shape
<1>4. Advanced("node", p, NodeScript(p), 1)
  <2>1. Call(p, "node", "allreduce_sum", Leaving(p)) /\ NodeMade(p) = 0
    BY <1>1, <1>3 DEF SplitType, NodeMade
  <2>2. calls["node"][p] = Made(NodeScript(p), 0)
    BY <1>0, <2>1 DEF Follows, CallsFollow
  <2> QED
    BY <1>0, <2>1, <2>2, CallAdvances, Scripts DEF Handles
<1>5. Moves(p, "sum_on_node")
  BY <1>0, <1>1, <1>2, <1>3, <1>4, Unchanged DEF Moves, Advanced, SplitType, PCs
<1>6. CallsFollow(p)'
  BY <1>0, <1>1, <1>4, <1>5, Static
     DEF Follows, CallsFollow, Advanced, Moves, CartMade, DistMade, NodeMade, Handles
<1>7. CommsFollow(p)' /\ DataFollow(p)'
  BY <1>0, <1>1, <1>2, <1>3, <1>5, Static DEF Follows, CommsFollow, DataFollow, Moves, SplitType
<1> QED
  BY <1>5, <1>6, <1>7, MovesKeep DEF Follows

LEMMA SumOnNodeStep ==
  ASSUME IInv, NEW p \in Procs, SumOnNode(p)
  PROVE  IInv'
<1>0. Shape /\ Follows(p)
  BY DEF IInv
<1>1. pc[p] = "sum_on_node" /\ pc'[p] = "max" /\ Changes(pc, pc', p)
  BY <1>0, GotoMoves DEF SumOnNode, PCs
<1>2. Arguments(node_comm[p], calls["node"], p) = [q \in NodeOf(p) |-> Leaving(q)]
  <2>1. node_comm[p] = OwnNode(p)
    BY <1>0, <1>1 DEF Follows, CommsFollow
  <2>2. DOMAIN node_comm[p] = NodeOf(p)
    BY <2>1, OwnNodeFacts
  <2>3. Current(calls["node"], p) = 1
    <3>1. NodeMade(p) = 1
      BY <1>1 DEF NodeMade
    <3> QED
      BY <3>1, CallsMade DEF Current
  <2>4. ASSUME NEW q \in NodeOf(p) PROVE Argument(calls["node"], q, p) = Leaving(q)
    <3>1. q \in Procs
      BY DEF NodeOf
    <3>2. Len(calls["node"][q]) >= 1
      BY <2>2, <2>3 DEF SumOnNode, EverybodyCalled, HasMade
    <3>3. NodeMade(q) >= 1
      BY <3>1, <3>2, CallsMade
    <3> QED
      BY <2>3, <3>1, <3>3, CallsMade DEF Argument
  <2> QED
    BY <2>2, <2>4 DEF Arguments
<1>3. /\ Changes(node_offnode_comm_size, node_offnode_comm_size', p)
      /\ node_offnode_comm_size'[p] = NodeSum(p)
  BY <1>0, <1>2, Assigned DEF SumOnNode, Shape, NodeSum
<1>4. Advanced("dist", p, DistScript(p), 2)
  <2>1. Call(p, "dist", "allreduce_max", NodeSum(p)) /\ DistMade(p) = 1
    BY <1>1, <1>3 DEF SumOnNode, DistMade
  <2>2. calls["dist"][p] = Made(DistScript(p), 1)
    BY <1>0, <2>1 DEF Follows, CallsFollow
  <2> QED
    BY <1>0, <2>1, <2>2, CallAdvances, Scripts DEF Handles
<1>5. Moves(p, "max")
  BY <1>0, <1>1, <1>3, <1>4, Unchanged DEF Moves, Advanced, SumOnNode, PCs
<1>6. CallsFollow(p)'
  BY <1>0, <1>1, <1>4, <1>5, Static
     DEF Follows, CallsFollow, Advanced, Moves, CartMade, DistMade, NodeMade, Handles
<1>7. CommsFollow(p)' /\ DataFollow(p)'
  BY <1>0, <1>1, <1>3, <1>5, Static DEF Follows, CommsFollow, DataFollow, Moves, SumOnNode
<1> QED
  BY <1>5, <1>6, <1>7, MovesKeep DEF Follows

\* A process that returns from a reduction over dist_graph gets what each of the
\* processes has given to that reduction.
LEMMA ReducedArguments ==
  ASSUME IInv, NEW p \in Procs, pc[p] \in {"max", "sum"},
         EverybodyCalled(dist_graph[p], calls["dist"], p)
  PROVE  /\ pc[p] = "max" => Arguments(dist_graph[p], calls["dist"], p)
                               = [q \in Procs |-> NodeSum(q)]
         /\ pc[p] = "sum" => Arguments(dist_graph[p], calls["dist"], p)
                               = [q \in Procs |-> Leaving(q)]
<1>1. DOMAIN dist_graph[p] = Procs
  <2>1. dist_graph[p] = cart_comm
    BY DEF IInv, Follows, CommsFollow
  <2> QED
    BY <2>1 DEF cart_comm
<1>2. Current(calls["dist"], p) = DistMade(p)
  BY CallsMade DEF Current
<1>3. \A q \in Procs : DistMade(q) >= DistMade(p)
  <2> SUFFICES ASSUME NEW q \in Procs PROVE DistMade(q) >= DistMade(p)
    OBVIOUS
  <2>1. Len(calls["dist"][q]) >= DistMade(p)
    BY <1>1, <1>2 DEF EverybodyCalled, HasMade
  <2> QED
    BY <2>1, CallsMade
<1>4. ASSUME pc[p] = "max" PROVE Arguments(dist_graph[p], calls["dist"], p) = [q \in Procs |-> NodeSum(q)]
  <2>1. DistMade(p) = 2
    BY <1>4 DEF DistMade
  <2>2. \A q \in Procs : Argument(calls["dist"], q, p) = NodeSum(q)
    BY <1>2, <1>3, <2>1, CallsMade DEF Argument
  <2> QED
    BY <1>1, <2>2 DEF Arguments
<1>5. ASSUME pc[p] = "sum" PROVE Arguments(dist_graph[p], calls["dist"], p) = [q \in Procs |-> Leaving(q)]
  <2>1. DistMade(p) = 3
    BY <1>5 DEF DistMade
  <2>2. \A q \in Procs : Argument(calls["dist"], q, p) = Leaving(q)
    BY <1>2, <1>3, <2>1, CallsMade DEF Argument
  <2> QED
    BY <1>1, <2>2 DEF Arguments
<1> QED
  BY <1>4, <1>5

LEMMA MaxOfNodesStep ==
  ASSUME IInv, NEW p \in Procs, MaxOfNodes(p)
  PROVE  IInv'
<1>0. Shape /\ Follows(p)
  BY DEF IInv
<1>1. pc[p] = "max" /\ pc'[p] = "sum" /\ Changes(pc, pc', p)
  BY <1>0, GotoMoves DEF MaxOfNodes, PCs
<1> DEFINE sizes == Arguments(dist_graph[p], calls["dist"], p)
<1>2. Max({sizes[q] : q \in DOMAIN sizes}) = Busiest
  <2>1. sizes = [q \in Procs |-> NodeSum(q)]
    BY <1>1, ReducedArguments DEF MaxOfNodes
  <2> HIDE DEF sizes
  <2>2. DOMAIN sizes = Procs /\ \A q \in Procs : sizes[q] = NodeSum(q)
    BY <2>1
  <2>3. {sizes[q] : q \in DOMAIN sizes} = {NodeSum(q) : q \in Procs}
    BY <2>2
  <2> QED
    BY <2>3 DEF Busiest
<1>3. Changes(max, max', p) /\ max'[p] = Busiest
  <2>1. max' = [max EXCEPT ![p] = Max({sizes[q] : q \in DOMAIN sizes})]
    BY DEF MaxOfNodes
  <2> HIDE DEF sizes
  <2>2. max' = [max EXCEPT ![p] = Busiest]
    BY <1>2, <2>1
  <2> QED
    BY <1>0, <2>2, Assigned DEF Shape
<1>4. Advanced("dist", p, DistScript(p), 3)
  <2>1. Call(p, "dist", "allreduce_sum", Leaving(p)) /\ DistMade(p) = 2
    BY <1>0, <1>1 DEF MaxOfNodes, DistMade, Follows, DataFollow
  <2>2. calls["dist"][p] = Made(DistScript(p), 2)
    BY <1>0, <2>1 DEF Follows, CallsFollow
  <2> QED
    BY <1>0, <2>1, <2>2, CallAdvances, Scripts DEF Handles
<1>5. Moves(p, "sum")
  BY <1>0, <1>1, <1>3, <1>4, Unchanged DEF Moves, Advanced, MaxOfNodes, PCs
<1>6. CallsFollow(p)'
  BY <1>0, <1>1, <1>4, <1>5, Static
     DEF Follows, CallsFollow, Advanced, Moves, CartMade, DistMade, NodeMade, Handles
<1>7. CommsFollow(p)' /\ DataFollow(p)'
  BY <1>0, <1>1, <1>3, <1>5, Static DEF Follows, CommsFollow, DataFollow, Moves, MaxOfNodes
<1> QED
  BY <1>5, <1>6, <1>7, MovesKeep DEF Follows

LEMMA SumOfAllStep ==
  ASSUME IInv, NEW p \in Procs, SumOfAll(p)
  PROVE  IInv'
<1>0. Shape /\ Follows(p)
  BY DEF IInv
<1>1. pc[p] = "sum" /\ pc'[p] = "done" /\ Changes(pc, pc', p)
  BY <1>0, GotoMoves DEF SumOfAll, PCs
<1>2. Total(Arguments(dist_graph[p], calls["dist"], p)) = AllLeaving
  <2>1. Arguments(dist_graph[p], calls["dist"], p) = [q \in Procs |-> Leaving(q)]
    BY <1>1, ReducedArguments DEF SumOfAll
  <2> QED
    BY <2>1 DEF AllLeaving
<1>3. /\ Changes(total, total', p) /\ total'[p] = AllLeaving
      /\ Changes(dist_graph, dist_graph', p) /\ dist_graph'[p] = COMM_NULL
  BY <1>0, <1>2, Assigned DEF SumOfAll, Shape
<1>4. Advanced("dist", p, DistScript(p), 4)
  <2>1. Call(p, "dist", "comm_free", 0) /\ DistMade(p) = 3
    BY <1>1 DEF SumOfAll, DistMade
  <2>2. calls["dist"][p] = Made(DistScript(p), 3)
    BY <1>0, <2>1 DEF Follows, CallsFollow
  <2> QED
    BY <1>0, <2>1, <2>2, CallAdvances, Scripts DEF Handles
<1>5. Moves(p, "done")
  BY <1>0, <1>1, <1>3, <1>4, Unchanged DEF Moves, Advanced, SumOfAll, PCs
<1>6. CallsFollow(p)'
  BY <1>0, <1>1, <1>4, <1>5, Static
     DEF Follows, CallsFollow, Advanced, Moves, CartMade, DistMade, NodeMade, Handles
<1>7. CommsFollow(p)' /\ DataFollow(p)'
  BY <1>0, <1>1, <1>3, <1>5, Static DEF Follows, CommsFollow, DataFollow, Moves, SumOfAll
<1> QED
  BY <1>5, <1>6, <1>7, MovesKeep DEF Follows

LEMMA InitInv == Init => IInv
<1> SUFFICES ASSUME Init PROVE IInv
  OBVIOUS
<1>1. Shape
  BY DEF Init, Shape, Handles, PCs
<1>2. ASSUME NEW p \in Procs PROVE Follows(p)
  <2>1. pc[p] = "start"
    BY DEF Init
  <2>2. \A h \in Handles : calls[h][p] = <<>>
    BY DEF Init, Handles
  <2>3. \A script : Made(script, 0) = <<>>
    BY DEF Made
  <2>4. CallsFollow(p)
    BY <2>1, <2>2, <2>3 DEF CallsFollow, CartMade, DistMade, NodeMade, Handles
  <2>5. CommsFollow(p) /\ DataFollow(p)
    BY <2>1 DEF Init, CommsFollow, DataFollow
  <2> QED
    BY <2>4, <2>5 DEF Follows
<1> QED
  BY <1>1, <1>2 DEF IInv

LEMMA StepInv == IInv /\ [Next]_vars => IInv'
<1> SUFFICES ASSUME IInv, [Next]_vars PROVE IInv'
  OBVIOUS
<1>1. CASE UNCHANGED vars
  <2>1. \A p \in Procs : Follows(p)' <=> Follows(p)
    <3> SUFFICES ASSUME NEW p \in Procs PROVE Follows(p)' <=> Follows(p)
      OBVIOUS
    <3>1. input' = input /\ pc' = pc /\ calls' = calls
      BY <1>1 DEF vars
    <3>2. CallsFollow(p)' <=> CallsFollow(p)
      BY <3>1, Static DEF CallsFollow, CartMade, DistMade, NodeMade
    <3>3. CommsFollow(p)' <=> CommsFollow(p)
      BY <1>1, <3>1, Static DEF vars, CommsFollow
    <3>4. DataFollow(p)' <=> DataFollow(p)
      BY <1>1, <3>1, Static DEF vars, counts, DataFollow
    <3> QED
      BY <3>2, <3>3, <3>4 DEF Follows
  <2>2. Shape'
    BY <1>1, Static DEF IInv, Shape, vars, counts
  <2>3. Procs' = Procs
    BY <1>1, Static DEF vars
  <2> QED
    BY <2>1, <2>2, <2>3 DEF IInv
<1>2. ASSUME NEW p \in Procs, Step(p) PROVE IInv'
  <2>1. CASE Enter(p)
    BY <2>1, EnterStep
  <2>2. CASE DistGraphCreate(p)
    BY <2>2, DistGraphCreateStep
  <2>3. CASE SplitType(p)
    BY <2>3, SplitTypeStep
  <2>4. CASE SumOnNode(p)
    BY <2>4, SumOnNodeStep
  <2>5. CASE MaxOfNodes(p)
    BY <2>5, MaxOfNodesStep
  <2>6. CASE SumOfAll(p)
    BY <2>6, SumOfAllStep
  <2> QED
    BY <1>2, <2>1, <2>2, <2>3, <2>4, <2>5, <2>6 DEF Step
<1> QED
  BY <1>1, <1>2 DEF Next

LEMMA Invariance == Spec => []IInv
  BY InitInv, StepInv, PTL DEF Spec

----------------------------------------------------------------------------
(***************************************************************************)
(* What it implies.                                                        *)
(***************************************************************************)
LEMMA CountsExact ==
  ASSUME input \in Inputs
  PROVE  /\ AllLeaving = Cardinality(Crossing) /\ AllLeaving \in Nat
         /\ \A p \in Procs : /\ NodeSum(p) = Cardinality(CrossingFrom(input.nodeOf[p]))
                             /\ NodeSum(p) \in 0 .. AllLeaving
<1>1. {e \in Crossing : e[1] \in Procs} = Crossing
  BY DEF Crossing
<1>2. AllLeaving = Cardinality(Crossing) /\ IsFiniteSet(Crossing)
  BY <1>1, SumsCount DEF AllLeaving
<1>3. AllLeaving \in Nat
  BY <1>2, FS_CardinalityType
<1>4. ASSUME NEW p \in Procs
      PROVE  /\ NodeSum(p) = Cardinality(CrossingFrom(input.nodeOf[p]))
             /\ NodeSum(p) \in 0 .. AllLeaving
  <2> DEFINE E == CrossingFrom(input.nodeOf[p])
  <2>1. NodeOf(p) \subseteq Procs
    BY DEF NodeOf
  <2>2. NodeSum(p) = Cardinality({e \in Crossing : e[1] \in NodeOf(p)})
    BY <2>1, SumsCount DEF NodeSum
  <2>3. \A e \in Crossing : e[1] \in Procs
    BY DEF Crossing
  <2>4. {e \in Crossing : e[1] \in NodeOf(p)} = E
    BY <2>3 DEF CrossingFrom, NodeOf
  <2>5. E \in SUBSET Crossing
    BY DEF CrossingFrom
  <2> HIDE DEF E
  <2>6. Cardinality(E) <= Cardinality(Crossing) /\ Cardinality(E) \in Nat
    BY <1>2, <2>5, FS_Subset, FS_CardinalityType
  <2>7. NodeSum(p) = Cardinality(E) /\ NodeSum(p) \in 0 .. AllLeaving
    BY <1>2, <1>3, <2>2, <2>4, <2>6
  <2> QED
    BY <2>7 DEF E
<1> QED
  BY <1>2, <1>3, <1>4

\* Nobody is its own neighbour, the lookup of a destination always finds a process of the
\* grid, and the counts never become negative or undefined, whatever the offsets
\* (evaluation_method.cpp:62-66, 141-155).
THEOREM TypesCorrect == Spec => []TypeOK
<1>1. IInv => TypeOK
  <2> SUFFICES ASSUME IInv PROVE TypeOK
    OBVIOUS
  <2>0. Shape /\ input \in Inputs
    BY DEF IInv, Shape
  <2>1. ASSUME NEW p \in Procs PROVE Leaving(p) \in Nat /\ NodeSum(p) \in Nat
    <3>1. NodeSum(p) \in 0 .. AllLeaving /\ AllLeaving \in Nat
      BY <2>0, CountsExact
    <3>2. Leaving(p) \in Nat
      BY <2>0, EdgesFacts
    <3> QED
      BY <3>1, <3>2
  <2>2. AllLeaving \in Nat
    BY <2>0, CountsExact
  <2>3. Busiest \in Nat
    <3> DEFINE S == {NodeSum(q) : q \in Procs}
    <3>1. S \subseteq 0 .. AllLeaving /\ S # {}
      BY <2>0, CountsExact, ProcsFinite
    <3> HIDE DEF S
    <3>2. Max(S) \in S
      BY <2>2, <3>1, MaxOfSet
    <3> QED
      BY <2>2, <3>1, <3>2 DEF Busiest, S
  <2>4. \A p \in Procs : DataFollow(p)
    BY DEF IInv, Follows
  <2>5. \A p \in Procs : \A i \in DOMAIN dest[p] : dest[p][i] \in Procs \ {p}
    <3> SUFFICES ASSUME NEW p \in Procs, NEW i \in DOMAIN dest[p]
                 PROVE  dest[p][i] \in Procs \ {p}
      OBVIOUS
    <3>1. dest[p] = <<>> \/ dest[p] = Edges(p)
      BY <2>4 DEF DataFollow
    <3>2. dest[p] = Edges(p)
      BY <3>1
    <3> QED
      BY <2>0, <3>2, EdgesFacts
  <2>6. \A p \in Procs : local_offnode_neighbors[p] \in Number
    BY <2>1, <2>4 DEF DataFollow, Number
  <2>7. \A p \in Procs : node_offnode_comm_size[p] \in Number
    BY <2>1, <2>4 DEF DataFollow, Number
  <2>8. \A p \in Procs : total[p] \in Number
    BY <2>2, <2>4 DEF DataFollow, Number
  <2>9. \A p \in Procs : max[p] \in Number
    BY <2>3, <2>4 DEF DataFollow, Number
  <2>10. pc \in [Procs -> PCs]
    BY <2>0 DEF Shape
  <2>11. /\ local_offnode_neighbors \in [Procs -> Number]
         /\ node_offnode_comm_size \in [Procs -> Number]
    BY <2>0, <2>6, <2>7 DEF Shape
  <2>12. total \in [Procs -> Number] /\ max \in [Procs -> Number]
    BY <2>0, <2>8, <2>9 DEF Shape
  <2> QED
    BY <2>5, <2>10, <2>11, <2>12 DEF TypeOK, PCs
<1> QED
  BY <1>1, Invariance, PTL

\* Members of a communicator make the same calls on it in the same order, for every
\* neighbourhood and placement: a process without neighbours, or on a node that nothing
\* leaves, skips no collective call (evaluation_method.cpp:160-173, 197-208).
THEOREM CollectivesAlwaysMatch == Spec => []CollectivesMatch
<1>1. IInv => CollectivesMatch
  <2> SUFFICES ASSUME IInv, NEW h \in DOMAIN calls, NEW p \in Procs,
                      NEW q \in Members(IF h = "node" THEN node_comm[p] ELSE cart_comm),
                      NEW k \in DOMAIN calls[h][p] \cap DOMAIN calls[h][q]
               PROVE  calls[h][p][k].op = calls[h][q][k].op
    BY DEF CollectivesMatch
  <2>1. h \in Handles
    BY DEF IInv, Shape
  <2>2. q \in Procs
    <3>1. CASE h = "node"
      <4>1. q \in DOMAIN node_comm[p]
        BY <3>1 DEF Members
      <4>2. node_comm[p] = <<>> \/ node_comm[p] = OwnNode(p)
        BY DEF IInv, Follows, CommsFollow, COMM_NULL
      <4>3. q \in NodeOf(p)
        BY <4>1, <4>2, OwnNodeFacts
      <4> QED
        BY <4>3 DEF NodeOf
    <3>2. CASE h # "node"
      BY <3>2 DEF Members, cart_comm
    <3> QED
      BY <3>1, <3>2
  <2>3. CallsFollow(p) /\ CallsFollow(q)
    BY <2>2 DEF IInv, Follows
  <2>4. \A r : CartMade(r) \in 0 .. 1 /\ DistMade(r) \in 0 .. 4 /\ NodeMade(r) \in 0 .. 1
    BY DEF CartMade, DistMade, NodeMade
  <2>5. CASE h = "cart"
    <3>1. \A r \in {p, q} : DOMAIN calls[h][r] = 1 .. CartMade(r)
                            /\ \A i \in 1 .. CartMade(r) : calls[h][r][i] = CartScript(r)[i]
      BY <2>3, <2>4, <2>5, MadeFacts DEF CallsFollow
    <3>2. k = 1 /\ calls[h][p][k] = CartScript(p)[1] /\ calls[h][q][k] = CartScript(q)[1]
      BY <2>4, <3>1
    <3>3. \A r : CartScript(r)[1].op = "dist_graph_create"
      BY DEF CartScript, CallOf
    <3> QED
      BY <3>2, <3>3
  <2>6. CASE h = "node"
    <3>1. \A r \in {p, q} : DOMAIN calls[h][r] = 1 .. NodeMade(r)
                            /\ \A i \in 1 .. NodeMade(r) : calls[h][r][i] = NodeScript(r)[i]
      BY <2>3, <2>4, <2>6, MadeFacts DEF CallsFollow
    <3>2. k = 1 /\ calls[h][p][k] = NodeScript(p)[1] /\ calls[h][q][k] = NodeScript(q)[1]
      BY <2>4, <3>1
    <3>3. \A r : NodeScript(r)[1].op = "allreduce_sum"
      BY DEF NodeScript, CallOf
    <3> QED
      BY <3>2, <3>3
  <2>7. CASE h = "dist"
    <3>1. \A r \in {p, q} : DOMAIN calls[h][r] = 1 .. DistMade(r)
                            /\ \A i \in 1 .. DistMade(r) : calls[h][r][i] = DistScript(r)[i]
      BY <2>3, <2>4, <2>7, MadeFacts DEF CallsFollow
    <3>2. k \in 1 .. 4 /\ calls[h][p][k] = DistScript(p)[k] /\ calls[h][q][k] = DistScript(q)[k]
      BY <2>4, <3>1
    <3>3. \A r : /\ DistScript(r)[1].op = "comm_split_type" /\ DistScript(r)[2].op = "allreduce_max"
                 /\ DistScript(r)[3].op = "allreduce_sum" /\ DistScript(r)[4].op = "comm_free"
      BY DEF DistScript, CallOf
    <3>4. DistScript(p)[k].op = DistScript(q)[k].op
      <4>1. k = 1 \/ k = 2 \/ k = 3 \/ k = 4
        BY <3>2
      <4> QED
        BY <3>3, <4>1
    <3> QED
      BY <3>2, <3>4
  <2> QED
    BY <2>1, <2>5, <2>6, <2>7 DEF Handles
<1> QED
  BY <1>1, Invariance, PTL

\* Whoever returns reports the number of edges between nodes, for every grid, stencil and
\* placement: neighbours wrapped around a periodic dimension, offsets given twice and
\* neighbours beyond the border are counted as the grid defines them
\* (evaluation_method.cpp:29-66, 141-155, 171-173, README.md:81).
THEOREM TotalIsExact == Spec => []TotalExact
<1>1. IInv => TotalExact
  <2> SUFFICES ASSUME IInv, NEW p \in Procs, pc[p] = "done"
               PROVE  total[p] = Cardinality(Crossing)
    BY DEF TotalExact
  <2>1. total[p] = AllLeaving /\ input \in Inputs
    BY DEF IInv, Shape, Follows, DataFollow
  <2> QED
    BY <2>1, CountsExact
<1> QED
  BY <1>1, Invariance, PTL

\* From the reduction of the maximum on everybody holds what leaves the busiest node,
\* although a node's sum is formed among its own processes only
\* (evaluation_method.cpp:160-167, README.md:74).
THEOREM MaxIsExact == Spec => []MaxExact
<1>1. IInv => MaxExact
  <2> SUFFICES ASSUME IInv, NEW p \in Procs, pc[p] \in {"sum", "done"}
               PROVE  max[p] = Max({Cardinality(CrossingFrom(input.nodeOf[q])) : q \in Procs})
    BY DEF MaxExact
  <2>1. max[p] = Busiest /\ input \in Inputs
    BY DEF IInv, Shape, Follows, DataFollow
  <2>2. {NodeSum(q) : q \in Procs} = {Cardinality(CrossingFrom(input.nodeOf[q])) : q \in Procs}
    BY <2>1, CountsExact
  <2> QED
    BY <2>1, <2>2 DEF Busiest
<1> QED
  BY <1>1, Invariance, PTL

----------------------------------------------------------------------------
(***************************************************************************)
(* Deadlock.  The process that is least far can always go on.              *)
(***************************************************************************)
\* The call that p is blocked in has been made by all it needs.
CanReturn(p) ==
  \/ pc[p] = "start"
  \/ pc[p] = "dist_graph_create" /\ EverybodyCalled(cart_comm, calls["cart"], p)
  \/ pc[p] \in {"split_type", "max", "sum"} /\ EverybodyCalled(dist_graph[p], calls["dist"], p)
  \/ pc[p] = "sum_on_node" /\ EverybodyCalled(node_comm[p], calls["node"], p)

SomebodyReturns == Done \/ \E p \in Procs : CanReturn(p)

Stage(p) ==
  CASE pc[p] = "start" -> 0
    [] pc[p] = "dist_graph_create" -> 1
    [] pc[p] = "split_type" -> 2
    [] pc[p] = "sum_on_node" -> 3
    [] pc[p] = "max" -> 4
    [] pc[p] = "sum" -> 5
    [] pc[p] = "done" -> 6

LEMMA LeastFar ==
  ASSUME IInv
  PROVE  \E p \in Procs : \A q \in Procs : Stage(p) <= Stage(q)
<1> DEFINE stages == {Stage(q) : q \in Procs}
<1>1. \A q \in Procs : Stage(q) \in Nat
  BY DEF Stage, IInv, Shape, PCs
<1>2. stages \subseteq Nat /\ stages # {}
  <2>1. 0 \in Procs
    BY ProcsFinite DEF IInv, Shape
  <2> QED
    BY <1>1, <2>1
<1>3. \E s \in stages : \A t \in stages : s <= t
  <2> HIDE DEF stages
  <2> QED
    BY <1>2, LeastElement
<1> QED
  BY <1>3

LEMMA LeastFarReturns ==
  ASSUME IInv, NEW p \in Procs, \A q \in Procs : Stage(p) <= Stage(q), pc[p] # "done"
  PROVE  CanReturn(p)
<1>1. pc \in [Procs -> PCs] /\ \A q \in Procs : Follows(q)
  BY DEF IInv, Shape
<1>2. \A q \in Procs : /\ Len(calls["cart"][q]) = CartMade(q)
                       /\ Len(calls["dist"][q]) = DistMade(q)
                       /\ Len(calls["node"][q]) = NodeMade(q)
  BY CallsMade
<1>3. \A q \in Procs : pc[q] \in PCs /\ Stage(q) \in Nat /\ Stage(p) <= Stage(q)
  BY <1>1 DEF Stage, PCs
<1>4. CASE pc[p] = "dist_graph_create"
  <2>1. \A q \in Procs : CartMade(q) >= CartMade(p)
    BY <1>3, <1>4 DEF CartMade, Stage, PCs
  <2>2. EverybodyCalled(cart_comm, calls["cart"], p)
    BY <1>2, <2>1 DEF EverybodyCalled, HasMade, Current, cart_comm
  <2> QED
    BY <1>4, <2>2 DEF CanReturn
<1>5. CASE pc[p] \in {"split_type", "max", "sum"}
  <2>1. \A q \in Procs : DistMade(q) >= DistMade(p)
    BY <1>3, <1>5 DEF DistMade, Stage, PCs
  <2>2. dist_graph[p] = cart_comm
    BY <1>1, <1>5 DEF Follows, CommsFollow
  <2>3. EverybodyCalled(dist_graph[p], calls["dist"], p)
    BY <1>2, <2>1, <2>2 DEF EverybodyCalled, HasMade, Current, cart_comm
  <2> QED
    BY <1>5, <2>3 DEF CanReturn
<1>6. CASE pc[p] = "sum_on_node"
  <2>1. \A q \in Procs : NodeMade(q) >= NodeMade(p)
    BY <1>3, <1>6 DEF NodeMade, Stage, PCs
  <2>2. node_comm[p] = OwnNode(p)
    BY <1>1, <1>6 DEF Follows, CommsFollow
  <2>3. DOMAIN node_comm[p] \subseteq Procs
    BY <2>2, OwnNodeFacts DEF NodeOf
  <2>4. EverybodyCalled(node_comm[p], calls["node"], p)
    BY <1>2, <2>1, <2>3 DEF EverybodyCalled, HasMade, Current
  <2> QED
    BY <1>6, <2>4 DEF CanReturn
<1>7. CASE pc[p] = "start"
  BY <1>7 DEF CanReturn
<1> QED
  BY <1>3, <1>4, <1>5, <1>6, <1>7 DEF PCs

\* No state is a deadlock: until all have their results, the call that some process is
\* blocked in has been made by all it needs, whichever neighbours each of them has
\* (evaluation_method.cpp:91-175).
THEOREM NeverDeadlocks == Spec => []SomebodyReturns
<1>1. IInv => SomebodyReturns
  <2> SUFFICES ASSUME IInv PROVE SomebodyReturns
    OBVIOUS
  <2>1. PICK p \in Procs : \A q \in Procs : Stage(p) <= Stage(q)
    BY LeastFar
  <2>2. CASE pc[p] # "done"
    BY <2>1, <2>2, LeastFarReturns DEF SomebodyReturns
  <2>3. CASE pc[p] = "done"
    <3>1. ASSUME NEW q \in Procs
          PROVE  pc[q] = "done"
      <4>1. pc[q] \in PCs
        BY DEF IInv, Shape
      <4>2. Stage(p) = 6
        BY <2>3 DEF Stage
      <4>3. 6 <= Stage(q)
        BY <2>1, <4>2
      <4> QED
        BY <4>1, <4>3 DEF Stage, PCs
    <3> QED
      BY <3>1 DEF SomebodyReturns, Done
  <2> QED
    BY <2>2, <2>3
<1> QED
  BY <1>1, Invariance, PTL
=============================================================================
