------------------------ MODULE ConfigurationTheorems ------------------------
(***************************************************************************)
(* Theorems about Configuration, for every set of values the environment   *)
(* variables may take, every number of dimensions and any number of        *)
(* changes of the environment between the calls.                           *)
(***************************************************************************)
EXTENDS Configuration, GridTheorems, SequenceTheorems

----------------------------------------------------------------------------
(***************************************************************************)
(* What is read from the environment.                                      *)
(***************************************************************************)
Levels == {"trace", "debug", "info", "warn", "err", "critical", "off"}

Entries == {"MPI_Cart_create", "MPIX_Cart_Comm_stencil",
            "MPIX_Internode_cost", "MPIX_Internode_cost_stencil"}

LEMMA ReadFacts ==
  ASSUME NEW S, NEW variable \in Variable(S), NEW default
  PROVE  /\ variable # Unset => Value(variable) \in S
         /\ Read(variable, default) \in S \cup {default}
<1>1. ASSUME variable # {} PROVE Value(variable) \in S
  <2>1. PICK v \in S : variable = {v}
    BY <1>1 DEF Variable
  <2>2. (CHOOSE x \in {v} : TRUE) \in {v}
    OBVIOUS
  <2> QED
    BY <2>1, <2>2 DEF Value
<1> QED
  BY <1>1 DEF Read, Unset

LEMMA LevelsSet == \A lvl \in Int : set_log_level(lvl) \in Levels
<1> SUFFICES ASSUME NEW lvl \in 0 .. 6 PROVE set_log_level(lvl) \in Levels
  BY DEF set_log_level, Levels
<1>1. \/ lvl = 0 \/ lvl = 1 \/ lvl = 2 \/ lvl = 3 \/ lvl = 4 \/ lvl = 5 \/ lvl = 6
  OBVIOUS
<1> QED
  BY <1>1 DEF set_log_level, Levels

LEMMA DispatchFacts ==
  \A str : Dispatched(str) \in {"HYPERPLANE", "KD_TREE", "STENCIL_STRIPS"}
<1> SUFFICES ASSUME NEW str
             PROVE  Dispatched(str) \in {"HYPERPLANE", "KD_TREE", "STENCIL_STRIPS"}
  OBVIOUS
<1>1. Last(reorder_schemes) = "STENCIL_STRIPS"
  BY DEF Last, reorder_schemes
<1>2. ASSUME Contains(reorder_schemes, str) PROVE str \in {"HYPERPLANE", "KD_TREE", "STENCIL_STRIPS"}
  <2>1. PICK i \in 1 .. Len(reorder_schemes) : reorder_schemes[i] = str
    BY <1>2 DEF Contains
  <2>2. i = 1 \/ i = 2 \/ i = 3
    BY <2>1 DEF reorder_schemes
  <2> QED
    BY <2>1, <2>2 DEF reorder_schemes
<1> QED
  BY <1>1, <1>2 DEF Dispatched

LEMMA ConfiguredFacts ==
  ASSUME env \in Environments
  PROVE  /\ Configured \in Config
         /\ env.log_level # Unset => set_log_level(Value(env.log_level)) \in Levels
<1>1. /\ env.alg \in Variable(Algorithms) /\ env.stencil \in Variable(Stencils)
      /\ env.node_scheme \in Variable(NodeSchemes) /\ env.log_level \in Variable(LogLevels)
  BY DEF Environments
<1>2. /\ Read(env.alg, "STENCIL_STRIPS") \in Algorithms \cup {"STENCIL_STRIPS"}
      /\ Read(env.node_scheme, "NODES_MEAN") \in NodeSchemes \cup {"NODES_MEAN"}
  BY <1>1, ReadFacts
<1>3. Configured \in Config
  BY <1>1, <1>2 DEF Configured, Config
<1>4. env.log_level # Unset => Value(env.log_level) \in LogLevels
  BY <1>1, ReadFacts
<1>5. env.log_level # Unset => Value(env.log_level) \in Int
  BY <1>4, LevelAssumption
<1> QED
  BY <1>3, <1>5, LevelsSet

----------------------------------------------------------------------------
(***************************************************************************)
(* Stencils of whole offsets.                                              *)
(***************************************************************************)
Whole(s, n) ==
  /\ Len(s) = n_neighbors(s, n) * n
  /\ \E t \in Stencils \cup {five_point_stencil(n)} : IsPrefix(t, s) /\ Len(s) < Len(t) + n

LEMMA WholeArgument ==
  ASSUME NEW n \in Nat \ {0}, NEW s \in Stencils, Len(s) % n = 0
  PROVE  Whole(s, n)
<1>1. s \in Seq(Int) /\ Len(s) \in Nat
  BY StencilAssumption
<1>2. Len(s) = (Len(s) \div n) * n
  BY <1>1, Multiples
<1>3. IsPrefix(s, s) /\ Len(s) < Len(s) + n
  BY <1>1 DEF IsPrefix
<1> QED
  BY <1>2, <1>3 DEF Whole, n_neighbors

LEMMA FivePointLength ==
  ASSUME NEW n \in Nat \ {0}
  PROVE  /\ five_point_stencil(n) \in Seq(Int)
         /\ Len(five_point_stencil(n)) = (2*n + 1) * n
<1> DEFINE up == {pair_offset(k, n) + k : k \in 0 .. n-1}
           down == {pair_offset(k, n) + k + n : k \in 0 .. n-1}
           l == 2*n*n + n
           five == [j \in 1 .. l |-> IF j-1 \in down THEN -1 ELSE IF j-1 \in up THEN 1 ELSE 0]
<1>1. l = (2*n + 1) * n /\ l \in Nat
  OBVIOUS
<1>2. five_point_stencil(n) = five
  BY DEF five_point_stencil
<1> HIDE DEF up, down, l
<1>3. five \in Seq(Int) /\ Len(five) = l
  BY <1>1, IsASeq
<1> QED
  BY <1>1, <1>2, <1>3

LEMMA WholeDefault ==
  ASSUME NEW n \in Nat \ {0}
  PROVE  Whole(five_point_stencil(n), n)
<1> DEFINE s == five_point_stencil(n)
<1>1. s \in Seq(Int) /\ Len(s) = (2*n + 1) * n
  BY FivePointLength
<1>2. ((2*n + 1) * n) \div n = 2*n + 1
  <2>1. 2*n + 1 \in Nat
    OBVIOUS
  <2> HIDE DEF s
  <2> QED
    BY <2>1, ExactQuotient
<1> HIDE DEF s
<1>3. IsPrefix(s, s) /\ Len(s) < Len(s) + n
  BY <1>1 DEF IsPrefix
<1>4. Len(s) = n_neighbors(s, n) * n
  BY <1>1, <1>2 DEF n_neighbors
<1> QED
  BY <1>3, <1>4 DEF Whole, s

\* The padding completes the last offset and adds no further one.
LEMMA PaddingFacts ==
  ASSUME NEW n \in Nat \ {0}, NEW l \in Nat
  PROVE  padding(l, n) \in 0 .. n-1 /\ (l + padding(l, n)) % n = 0
<1> DEFINE r == l % n
           q == l \div n
           p == padding(l, n)
<1>1. r \in 0 .. n-1 /\ q \in Nat /\ l = n * q + r
  BY Division
<1>2. p = (n - r) % n
  BY DEF padding
<1> HIDE DEF r, q, p
<1>3. CASE r = 0
  <2>1. n % n = 0
    OBVIOUS
  <2>2. p = 0 /\ l = q * n
    BY <1>1, <1>2, <1>3, <2>1
  <2> QED
    BY <1>1, <1>3, <2>2, Multiples DEF p, r
<1>4. CASE r # 0
  <2>1. n - r \in 1 .. n-1
    BY <1>1, <1>4
  <2>2. p = n - r
    BY <1>2, <2>1
  <2>3. l + p = (q + 1) * n /\ l + p \in Nat
    BY <1>1, <2>1, <2>2
  <2>4. (l + p) % n = 0
    BY <1>1, <2>3, Multiples
  <2> QED
    BY <2>1, <2>2, <2>4 DEF p
<1> QED
  BY <1>3, <1>4

LEMMA WholeExtracted ==
  ASSUME NEW n \in Nat \ {0}, NEW tokens \in Stencils
  PROVE  Whole(extract_stencil_from_string(tokens, n), n)
<1> DEFINE p == padding(Len(tokens), n)
           zeros == [k \in 1 .. p |-> 0]
           s == tokens \o zeros
<1>1. tokens \in Seq(Int) /\ Len(tokens) \in Nat
  BY StencilAssumption
<1>2. p \in 0 .. n-1 /\ (Len(tokens) + p) % n = 0
  BY <1>1, PaddingFacts
<1>3. extract_stencil_from_string(tokens, n) = s
  BY DEF extract_stencil_from_string
<1> HIDE DEF p
<1>4. zeros \in Seq(Int) /\ Len(zeros) = p
  BY <1>2, IsASeq
<1> HIDE DEF zeros
<1>5. s \in Seq(Int) /\ Len(s) = Len(tokens) + p /\ \A i \in 1 .. Len(tokens) : s[i] = tokens[i]
  <2>1. /\ s \in Seq(Int) /\ Len(s) = Len(tokens) + Len(zeros)
        /\ \A i \in 1 .. Len(tokens) + Len(zeros) :
             s[i] = IF i <= Len(tokens) THEN tokens[i] ELSE zeros[i - Len(tokens)]
    BY <1>1, <1>4, ConcatProperties
  <2> HIDE DEF s
  <2> QED
    BY <1>1, <1>2, <1>4, <2>1
<1> HIDE DEF s
<1>6. IsPrefix(tokens, s)
  <2>1. Len(tokens) <= Len(s)
    BY <1>1, <1>2, <1>5
  <2>2. SubSeq(tokens, 1, Len(tokens)) = SubSeq(s, 1, Len(tokens))
    BY <1>1, <1>5, <2>1
  <2> QED
    BY <2>1, <2>2 DEF IsPrefix
<1>7. Len(s) = n_neighbors(s, n) * n
  BY <1>1, <1>2, <1>5, Multiples DEF n_neighbors
<1>8. Len(s) < Len(tokens) + n
  BY <1>1, <1>2, <1>5
<1> QED
  BY <1>3, <1>6, <1>7, <1>8 DEF Whole

LEMMA WholeStencil ==
  ASSUME NEW n \in Nat \ {0}, NEW str \in Variable(Stencils)
  PROVE  Whole(create_stencil(str, n), n)
<1>1. CASE str = {}
  BY <1>1, WholeDefault DEF create_stencil, UNDEFINED_STENCIL
<1>2. CASE str # {}
  <2>1. (CHOOSE tokens \in str : TRUE) \in Stencils
    BY <1>2, ReadFacts DEF Value, Unset
  <2> QED
    BY <1>2, <2>1, WholeExtracted DEF create_stencil, UNDEFINED_STENCIL
<1> QED
  BY <1>1, <1>2

----------------------------------------------------------------------------
(***************************************************************************)
(* The default stencil: one step up and one step down along each of n      *)
(* dimensions, and no step.                                                *)
(***************************************************************************)
\* Component j of offset i.
Component(i, j) == IF i-1 = 2*(j-1) THEN 1 ELSE IF i-1 = 2*(j-1) + 1 THEN -1 ELSE 0

Direction(n, i) == [j \in 1 .. n |-> Component(i, j)]

Positions(n) == 1 .. 2*n + 1

Directions(n) == {Direction(n, i) : i \in Positions(n)}

Distance(o) == Cardinality({d \in DOMAIN o : o[d] # 0})

Steps(n) == {o \in [1 .. n -> {-1, 0, 1}] : Distance(o) <= 1}

\* Where the loop that fills the array writes 1, and where -1.
LEMMA PairOffsets ==
  ASSUME NEW n \in Nat \ {0}, NEW i \in Positions(n), NEW j \in 1 .. n
  PROVE  /\ (\E k \in 0 .. n-1 : (i-1)*n + (j-1) = pair_offset(k, n) + k) <=> i-1 = 2*(j-1)
         /\ (\E k \in 0 .. n-1 : (i-1)*n + (j-1) = pair_offset(k, n) + k + n) <=> i-1 = 2*(j-1) + 1
<1> DEFINE q == i-1
           r == j-1
<1>1. q \in Nat /\ r \in 0 .. n-1
  BY DEF Positions
<1> HIDE DEF q, r
<1>2. \A k \in Nat : pair_offset(k, n) + k = (2*k) * n + k /\ pair_offset(k, n) + k + n = (2*k + 1) * n + k
  BY DEF pair_offset
<1>3. ASSUME NEW k \in 0 .. n-1, NEW m \in Nat, q * n + r = m * n + k PROVE q = m /\ r = k
  BY <1>1, <1>3, DigitsUnique DEF SameNumber
<1>4. (\E k \in 0 .. n-1 : q * n + r = pair_offset(k, n) + k) <=> q = 2 * r
  <2>1. ASSUME NEW k \in 0 .. n-1, q * n + r = pair_offset(k, n) + k PROVE q = 2 * r
    <3>1. q * n + r = (2*k) * n + k /\ 2*k \in Nat
      BY <1>2, <2>1
    <3> QED
      BY <1>3, <3>1
  <2>2. ASSUME q = 2 * r PROVE q * n + r = pair_offset(r, n) + r
    BY <1>1, <1>2, <2>2
  <2> QED
    BY <1>1, <2>1, <2>2
<1>5. (\E k \in 0 .. n-1 : q * n + r = pair_offset(k, n) + k + n) <=> q = 2 * r + 1
  <2>1. ASSUME NEW k \in 0 .. n-1, q * n + r = pair_offset(k, n) + k + n PROVE q = 2 * r + 1
    <3>1. q * n + r = (2*k + 1) * n + k /\ 2*k + 1 \in Nat
      BY <1>2, <2>1
    <3> QED
      BY <1>3, <3>1
  <2>2. ASSUME q = 2 * r + 1 PROVE q * n + r = pair_offset(r, n) + r + n
    BY <1>1, <1>2, <2>2
  <2> QED
    BY <1>1, <2>1, <2>2
<1> QED
  BY <1>4, <1>5 DEF q, r

LEMMA OffsetsAreDirections ==
  ASSUME NEW n \in Nat \ {0}, NEW i \in Positions(n)
  PROVE  Offset(five_point_stencil(n), n, i) = Direction(n, i)
<1> DEFINE s == five_point_stencil(n)
           l == 2*n*n + n
           first == (i-1)*n + 1
           end == i*n
           o == SubSeq(s, first, end)
<1>1. l = (2*n + 1) * n /\ l \in Nat
  OBVIOUS
<1>2. first \in Nat /\ end \in Nat /\ end - first + 1 = n /\ 1 <= first /\ end <= l
  <2>1. i \in Nat /\ i >= 1 /\ i <= 2*n + 1
    BY DEF Positions
  <2>2. (i-1)*n \in Nat /\ i*n \in Nat /\ (i-1)*n + n = i*n
    BY <2>1
  <2>3. i*n <= (2*n + 1) * n
    BY <2>1
  <2> QED
    BY <1>1, <2>2, <2>3
<1>3. ASSUME NEW j \in 1 .. n PROVE s[first + j - 1] = Component(i, j)
  <2> DEFINE x == first + j - 1
  <2>1. x \in 1 .. l /\ x-1 = (i-1)*n + (j-1)
    <3>1. i - 1 \in Int
      BY DEF Positions
    <3>2. (i-1)*n \in Int
      BY <3>1
    <3> QED
      BY <1>1, <1>2, <3>2
  <2>2. s[x] = IF \E k \in 0 .. n-1 : x-1 = pair_offset(k, n) + k + n THEN -1
               ELSE IF \E k \in 0 .. n-1 : x-1 = pair_offset(k, n) + k THEN 1 ELSE 0
    <3> DEFINE up == {pair_offset(k, n) + k : k \in 0 .. n-1}
               down == {pair_offset(k, n) + k + n : k \in 0 .. n-1}
    <3>1. s = [y \in 1 .. l |-> IF y-1 \in down THEN -1 ELSE IF y-1 \in up THEN 1 ELSE 0]
      BY DEF five_point_stencil
    <3>2. /\ x-1 \in down <=> \E k \in 0 .. n-1 : x-1 = pair_offset(k, n) + k + n
          /\ x-1 \in up <=> \E k \in 0 .. n-1 : x-1 = pair_offset(k, n) + k
      OBVIOUS
    <3> HIDE DEF up, down, x, l, s
    <3> QED
      BY <2>1, <3>1, <3>2
  <2>3. ~ (i-1 = 2*(j-1) /\ i-1 = 2*(j-1) + 1)
    BY DEF Positions
  <2> HIDE DEF x, s
  <2>4. s[x] = Component(i, j)
    BY <2>1, <2>2, <2>3, PairOffsets DEF Component
  <2> QED
    BY <2>4 DEF x
<1>4. \A j \in 1 .. n : s[first + j - 1] \in Int
  BY <1>3 DEF Component
<1>5. Offset(s, n, i) = o
  BY DEF Offset
<1> HIDE DEF s, first, end
<1>6. \A x \in first .. end : s[x] \in Int
  <2> SUFFICES ASSUME NEW x \in first .. end PROVE s[x] \in Int
    OBVIOUS
  <2>1. x - first + 1 \in 1 .. n /\ first + (x - first + 1) - 1 = x
    BY <1>2
  <2> QED
    BY <1>4, <2>1
<1>7. /\ o \in Seq(Int)
      /\ Len(o) = IF first <= end THEN end - first + 1 ELSE 0
      /\ \A j \in 1 .. end - first + 1 : o[j] = s[first + j - 1]
  BY <1>2, <1>6, SubSeqProperties
<1> HIDE DEF o
<1>8. Len(o) = n /\ \A j \in 1 .. n : o[j] = Component(i, j)
  <2>1. Len(o) = n /\ \A j \in 1 .. n : o[j] = s[first + j - 1]
    <3>1. first <= end /\ end - first + 1 = n
      BY <1>2
    <3> QED
      BY <1>7, <3>1
  <2> QED
    BY <1>3, <2>1
<1>9. o = Direction(n, i)
  <2>1. o = [j \in 1 .. n |-> o[j]]
    BY <1>7, <1>8
  <2> QED
    BY <1>8, <2>1 DEF Direction
<1> QED
  BY <1>5, <1>9 DEF s

LEMMA DirectionsDiffer ==
  ASSUME NEW n \in Nat \ {0}, NEW i \in Positions(n), NEW k \in Positions(n), i < k
  PROVE  Direction(n, i) # Direction(n, k)
<1>1. i \in Nat /\ k \in Nat /\ i >= 1 /\ i <= 2*n
  BY DEF Positions
<1>2. PICK m \in Nat : i-1 = 2*m \/ i-1 = 2*m + 1
  <2>1. i-1 \in Nat
    BY <1>1
  <2>2. (i-1) \div 2 \in Nat /\ (i-1) % 2 \in 0 .. 1 /\ i-1 = 2 * ((i-1) \div 2) + ((i-1) % 2)
    BY <2>1
  <2> QED
    BY <2>2
<1>3. m+1 \in 1 .. n
  BY <1>1, <1>2
<1>4. Component(i, m+1) # Component(k, m+1)
  BY <1>1, <1>2 DEF Component
<1> QED
  BY <1>3, <1>4 DEF Direction

LEMMA DirectionsAreSteps ==
  ASSUME NEW n \in Nat \ {0}
  PROVE  Directions(n) = Steps(n)
<1>1. ASSUME NEW i \in Positions(n) PROVE Direction(n, i) \in Steps(n)
  <2> DEFINE o == Direction(n, i)
             D == {d \in DOMAIN o : o[d] # 0}
  <2>1. o \in [1 .. n -> {-1, 0, 1}] /\ DOMAIN o = 1 .. n /\ \A d \in 1 .. n : o[d] = Component(i, d)
    BY DEF Direction, Component
  <2>2. \A d, e \in D : d = e
    <3> SUFFICES ASSUME NEW d \in 1 .. n, NEW e \in 1 .. n,
                        Component(i, d) # 0, Component(i, e) # 0
                 PROVE  d = e
      BY <2>1
    <3> QED
      BY DEF Component, Positions
  <2>3. Distance(o) = Cardinality(D)
    BY DEF Distance
  <2> HIDE DEF D, o
  <2>4. Cardinality(D) <= 1
    <3>1. CASE D = {}
      BY <3>1, FS_EmptySet
    <3>2. CASE D # {}
      <4>1. PICK d : D = {d}
        BY <2>2, <3>2
      <4> QED
        <5>1. Cardinality(D) = 1
          BY <4>1, FS_Singleton
        <5> QED
          BY <5>1
    <3> QED
      BY <3>1, <3>2
  <2> QED
    BY <2>1, <2>3, <2>4 DEF Steps, o
<1>2. ASSUME NEW o \in Steps(n) PROVE \E i \in Positions(n) : o = Direction(n, i)
  <2> DEFINE D == {d \in DOMAIN o : o[d] # 0}
  <2>1. o \in [1 .. n -> {-1, 0, 1}] /\ DOMAIN o = 1 .. n /\ Cardinality(D) <= 1
    BY DEF Steps, Distance
  <2>2. IsFiniteSet(D)
    <3>1. \A a, b \in Int : IsFiniteSet(a .. b)
      BY FS_Interval
    <3> QED
      BY <2>1, <3>1, FS_Subset
  <2>3. \A d \in 1 .. n : (d \in D <=> o[d] # 0)
    BY <2>1
  <2>4. D \subseteq 1 .. n
    BY <2>1
  <2> HIDE DEF D
  <2>5. CASE D = {}
    <3>1. 2*n + 1 \in Positions(n)
      BY DEF Positions
    <3>2. \A d \in 1 .. n : Component(2*n + 1, d) = 0
      BY DEF Component
    <3>3. \A d \in 1 .. n : o[d] = 0
      BY <2>3, <2>5
    <3>4. o = Direction(n, 2*n + 1)
      BY <2>1, <3>2, <3>3 DEF Direction
    <3> QED
      BY <3>1, <3>4
  <2>6. ASSUME NEW d \in D PROVE \E i \in Positions(n) : o = Direction(n, i)
    <3>1. D \ {d} = {}
      <4>1. IsFiniteSet(D \ {d}) /\ Cardinality(D \ {d}) = Cardinality(D) - 1
        BY <2>2, FS_RemoveElement
      <4>2. Cardinality(D) \in Nat /\ Cardinality(D \ {d}) \in Nat
        BY <2>2, <4>1, FS_CardinalityType
      <4>3. Cardinality(D \ {d}) = 0
        BY <2>1, <4>1, <4>2
      <4> QED
        BY <4>1, <4>3, FS_EmptySet
    <3>2. d \in 1 .. n /\ o[d] # 0 /\ \A e \in 1 .. n : e # d => o[e] = 0
      BY <2>3, <2>4, <3>1
    <3>3. o[d] = 1 \/ o[d] = -1
      BY <2>1, <3>2
    <3>4. CASE o[d] = 1
      <4> DEFINE i == 2*(d-1) + 1
      <4>1. i \in Positions(n) /\ Component(i, d) = 1 /\ \A e \in 1 .. n : e # d => Component(i, e) = 0
        BY <3>2 DEF Component, Positions
      <4> HIDE DEF i
      <4>2. \A e \in 1 .. n : o[e] = Component(i, e)
        BY <3>2, <3>4, <4>1
      <4>3. o = Direction(n, i)
        BY <2>1, <4>2 DEF Direction
      <4> QED
        BY <4>1, <4>3
    <3>5. CASE o[d] = -1
      <4> DEFINE i == 2*(d-1) + 2
      <4>1. i \in Positions(n) /\ Component(i, d) = -1 /\ \A e \in 1 .. n : e # d => Component(i, e) = 0
        BY <3>2 DEF Component, Positions
      <4> HIDE DEF i
      <4>2. \A e \in 1 .. n : o[e] = Component(i, e)
        BY <3>2, <3>5, <4>1
      <4>3. o = Direction(n, i)
        BY <2>1, <4>2 DEF Direction
      <4> QED
        BY <4>1, <4>3
    <3> QED
      BY <3>3, <3>4, <3>5
  <2> QED
    BY <2>5, <2>6
<1> QED
  BY <1>1, <1>2 DEF Directions

LEMMA NearestOffsets ==
  ASSUME NEW n \in Nat \ {0}
  PROVE  /\ n_neighbors(five_point_stencil(n), n) = 2*n + 1
         /\ {Offset(five_point_stencil(n), n, i) : i \in Positions(n)} = Steps(n)
         /\ Cardinality(Steps(n)) = 2*n + 1
<1>1. n_neighbors(five_point_stencil(n), n) = 2*n + 1
  <2>1. Len(five_point_stencil(n)) = (2*n + 1) * n
    BY FivePointLength
  <2>2. 2*n + 1 \in Nat
    OBVIOUS
  <2>3. ((2*n + 1) * n) \div n = 2*n + 1
    BY <2>2, ExactQuotient
  <2> QED
    BY <2>1, <2>3 DEF n_neighbors
<1>2. {Offset(five_point_stencil(n), n, i) : i \in Positions(n)} = Directions(n)
  BY OffsetsAreDirections DEF Directions
<1>3. Cardinality(Directions(n)) = 2*n + 1
  <2> DEFINE f == [i \in Positions(n) |-> Direction(n, i)]
  <2>1. f \in Surjection(Positions(n), Directions(n))
    BY DEF Surjection, Directions
  <2>2. f \in Injection(Positions(n), Directions(n))
    <3>1. \A i, k \in Positions(n) : i < k => Direction(n, i) # Direction(n, k)
      BY DirectionsDiffer
    <3>2. \A i, k \in Positions(n) : i # k => i < k \/ k < i
      BY DEF Positions
    <3> QED
      BY <2>1, <3>1, <3>2 DEF Injection, Surjection, IsInjective
  <2>3. IsFiniteSet(Positions(n)) /\ Cardinality(Positions(n)) = 2*n + 1
    <3>1. \A a, b \in Int : IsFiniteSet(a .. b) /\ Cardinality(a .. b) = IF a > b THEN 0 ELSE b-a+1
      BY FS_Interval
    <3> QED
      BY <3>1 DEF Positions
  <2> HIDE DEF f
  <2> QED
    BY <2>1, <2>2, <2>3, FS_Surjection
<1> QED
  BY <1>1, <1>2, <1>3, DirectionsAreSteps

----------------------------------------------------------------------------
(***************************************************************************)
(* The inductive invariant: logSet says whether there is a logger, a call  *)
(* that needed a stencil got one of whole offsets, and a communicator made *)
(* by MPI_Cart_create was reordered for the stencil of its static config.  *)
(***************************************************************************)
LoggerInv ==
  /\ logSet = (m_Logger # NullLogger)
  /\ registered = (IF logSet THEN 1 ELSE 0)

LastInv ==
  /\ last.op # "none" => last.ndims \in NumDims
  /\ last.op \in Entries => Whole(last.stencil, last.ndims)
  /\ last.op \in {"MPI_Cart_create", "MPIX_Internode_cost"} =>
       last.stencil = create_stencil(last.config.str_stencil, last.ndims)
  /\ last.op = "MPIX_Internode_cost" => last.ndims = created.ndims

CreatedInv ==
  /\ created.op # "none" => created.ndims \in NumDims
  /\ created.op = "MPI_Cart_create" =>
       created.stencil = create_stencil(cart_config.str_stencil, created.ndims)

IInv == TypeOK /\ LoggerInv /\ LastInv /\ CreatedInv

\* The configuration that a call uses is made when there is none.
LEMMA Constructing ==
  ASSUME TypeOK, LoggerInv, Construct
  PROVE  /\ logSet' = TRUE /\ m_Logger' \in Levels /\ registered' = 1
         /\ m_Logger # NullLogger /\ env.log_level = Unset => m_Logger' = m_Logger
<1>1. env \in Environments
  BY DEF TypeOK
<1>2. env.log_level # Unset => set_log_level(Value(env.log_level)) \in Levels
  BY <1>1, ConfiguredFacts
<1>3. m_Logger \in Levels \cup {NullLogger} /\ logSet \in BOOLEAN
  BY DEF TypeOK, Levels
<1>4. CASE logSet
  <2>1. KeepLogger /\ logSet' = TRUE
    BY <1>4 DEF Construct
  <2>2. m_Logger \in Levels /\ registered = 1
    BY <1>3, <1>4 DEF LoggerInv
  <2> QED
    BY <1>2, <2>1, <2>2 DEF KeepLogger
<1>5. CASE ~ logSet
  <2>1. LoggerInit /\ logSet' = TRUE
    BY <1>5 DEF Construct
  <2>2. m_Logger = NullLogger /\ registered = 0
    BY <1>3, <1>5 DEF LoggerInv
  <2>3. "off" \in Levels
    BY DEF Levels
  <2> QED
    BY <1>2, <2>1, <2>2, <2>3 DEF LoggerInit
<1> QED
  BY <1>3, <1>4, <1>5

LEMMA LoggerMade ==
  ASSUME TypeOK, LoggerInv, Construct
  PROVE  /\ logSet' \in BOOLEAN /\ LoggerInv'
         /\ m_Logger' \in {NullLogger, "trace", "debug", "info", "warn", "err", "critical", "off"}
<1>1. logSet' = TRUE /\ m_Logger' \in Levels /\ registered' = 1
  BY Constructing
<1>2. m_Logger' # NullLogger
  BY <1>1 DEF Levels, NullLogger
<1> QED
  BY <1>1, <1>2 DEF LoggerInv, Levels

LEMMA Beginning == Init => IInv
<1> SUFFICES ASSUME Init PROVE IInv
  OBVIOUS
<1>1. TypeOK
  <2>1. changes \in 0 .. MaxChanges
    BY BoundAssumption DEF Init
  <2>2. last.alg = "none"
    BY DEF Init
  <2> QED
    BY <2>1, <2>2 DEF Init, TypeOK
<1>2. LoggerInv
  BY DEF Init, LoggerInv
<1>3. LastInv /\ CreatedInv
  BY DEF Init, LastInv, CreatedInv, Entries
<1> QED
  BY <1>1, <1>2, <1>3 DEF IInv

\* What a call that reorders leaves behind.
LEMMA Reordering ==
  ASSUME NEW entry \in {"MPI_Cart_create", "MPIX_Cart_Comm_stencil"}, NEW config \in Config, NEW n \in NumDims, NEW stencil,
         Whole(stencil, n), perform_reordering(entry, config, n, stencil),
         entry = "MPI_Cart_create" => /\ config = cart_config'
                                      /\ stencil = create_stencil(config.str_stencil, n),
         created' = last'
  PROVE  /\ LastInv' /\ CreatedInv'
         /\ last'.alg \in {"none", "HYPERPLANE", "KD_TREE", "STENCIL_STRIPS"}
<1>1. /\ last'.op = entry /\ last'.ndims = n /\ last'.stencil = stencil
      /\ last'.config = config /\ last'.alg = Dispatched(config.str_alg)
  BY DEF perform_reordering
<1>2. LastInv' /\ CreatedInv'
  BY <1>1 DEF LastInv, CreatedInv
<1> QED
  BY <1>1, <1>2, DispatchFacts

LEMMA Invariance == IInv /\ [Next]_vars => IInv'
<1> SUFFICES ASSUME IInv, [Next]_vars PROVE IInv'
  OBVIOUS
<1>0. TypeOK /\ LoggerInv /\ LastInv /\ CreatedInv /\ env \in Environments
  BY DEF IInv, TypeOK
<1>1. CASE ChangeEnvironment
  <2>1. /\ env' \in Environments /\ changes' \in 0 .. MaxChanges
        /\ UNCHANGED <<cart_config, stencil_config, logSet, m_Logger, registered, last, created>>
    BY <1>0, <1>1, BoundAssumption DEF ChangeEnvironment, TypeOK, config_vars
  <2> QED
    BY <1>0, <2>1 DEF IInv, TypeOK, LoggerInv, LastInv, CreatedInv
<1>2. ASSUME NEW n \in NumDims, MPI_Cart_create(n) PROVE IInv'
  <2>0. UNCHANGED <<env, changes, stencil_config>>
    BY <1>2 DEF MPI_Cart_create
  <2>1. /\ cart_config' \in Config /\ LoggerInv' /\ logSet' \in BOOLEAN
        /\ m_Logger' \in {NullLogger, "trace", "debug", "info", "warn", "err", "critical", "off"}
    <3>1. CASE cart_config = NoConfig
      BY <1>0, <1>2, <3>1, ConfiguredFacts, LoggerMade DEF MPI_Cart_create
    <3>2. CASE cart_config # NoConfig
      BY <1>0, <1>2, <3>2 DEF MPI_Cart_create, TypeOK, LoggerInv, Logger
    <3> QED
      BY <3>1, <3>2
  <2>2. Whole(create_stencil(cart_config'.str_stencil, n), n)
    BY <2>1, NumDimsAssumption, WholeStencil DEF Config
  <2>3. LastInv' /\ CreatedInv' /\ last'.alg \in {"none", "HYPERPLANE", "KD_TREE", "STENCIL_STRIPS"}
    BY <1>2, <2>1, <2>2, Reordering DEF MPI_Cart_create
  <2> QED
    BY <1>0, <2>0, <2>1, <2>3 DEF IInv, TypeOK
<1>3. ASSUME NEW n \in NumDims, PMPI_Cart_create(n) PROVE IInv'
  <2>1. UNCHANGED <<env, changes, cart_config, stencil_config, logSet, m_Logger, registered>>
    BY <1>3 DEF PMPI_Cart_create, config_vars
  <2>2. last'.op = "pmpi" /\ last'.ndims = n /\ last'.alg = "none" /\ created' = last'
    BY <1>3 DEF PMPI_Cart_create, Used
  <2> QED
    BY <1>0, <2>1, <2>2 DEF IInv, TypeOK, LoggerInv, LastInv, CreatedInv, Entries
<1>4. ASSUME NEW n \in NumDims, NEW s \in WholeStencils(n), MPIX_Cart_Comm_stencil(n, s)
      PROVE  IInv'
  <2>0. UNCHANGED <<env, changes, cart_config>>
    BY <1>4 DEF MPIX_Cart_Comm_stencil
  <2>1. /\ stencil_config' \in Config /\ LoggerInv' /\ logSet' \in BOOLEAN
        /\ m_Logger' \in {NullLogger, "trace", "debug", "info", "warn", "err", "critical", "off"}
    <3>1. CASE stencil_config = NoConfig
      BY <1>0, <1>4, <3>1, ConfiguredFacts, LoggerMade DEF MPIX_Cart_Comm_stencil
    <3>2. CASE stencil_config # NoConfig
      BY <1>0, <1>4, <3>2 DEF MPIX_Cart_Comm_stencil, TypeOK, LoggerInv, Logger
    <3> QED
      BY <3>1, <3>2
  <2>2. Whole(s, n)
    BY NumDimsAssumption, WholeArgument DEF WholeStencils
  <2>3. LastInv' /\ CreatedInv' /\ last'.alg \in {"none", "HYPERPLANE", "KD_TREE", "STENCIL_STRIPS"}
    BY <1>4, <2>1, <2>2, Reordering DEF MPIX_Cart_Comm_stencil
  <2> QED
    BY <1>0, <2>0, <2>1, <2>3 DEF IInv, TypeOK
<1>5. CASE MPIX_Internode_cost
  <2>0. UNCHANGED <<env, changes, cart_config, stencil_config, created>>
    BY <1>5 DEF MPIX_Internode_cost
  <2>1. /\ LoggerInv' /\ logSet' \in BOOLEAN
        /\ m_Logger' \in {NullLogger, "trace", "debug", "info", "warn", "err", "critical", "off"}
    BY <1>0, <1>5, LoggerMade DEF MPIX_Internode_cost
  <2>2. created.ndims \in NumDims
    BY <1>0, <1>5 DEF MPIX_Internode_cost, HasCart, CreatedInv
  <2>3. Whole(create_stencil(Configured.str_stencil, created.ndims), created.ndims)
    BY <1>0, <2>2, ConfiguredFacts, NumDimsAssumption, WholeStencil DEF Config
  <2>4. /\ last'.op = "MPIX_Internode_cost" /\ last'.ndims = created.ndims /\ last'.alg = "none"
        /\ last'.stencil = create_stencil(Configured.str_stencil, created.ndims)
        /\ last'.config = Configured
    BY <1>5 DEF MPIX_Internode_cost, Used
  <2>5. LastInv' /\ CreatedInv'
    BY <1>0, <2>0, <2>2, <2>3, <2>4 DEF LastInv, CreatedInv
  <2> QED
    BY <1>0, <2>0, <2>1, <2>4, <2>5 DEF IInv, TypeOK
<1>6. ASSUME NEW s \in WholeStencils(created.ndims), MPIX_Internode_cost_stencil(s) PROVE IInv'
  <2>1. UNCHANGED <<env, changes, cart_config, stencil_config, logSet, m_Logger, registered, created>>
    BY <1>6 DEF MPIX_Internode_cost_stencil, config_vars
  <2>2. created.ndims \in NumDims
    BY <1>0, <1>6 DEF MPIX_Internode_cost_stencil, HasCart, CreatedInv
  <2>3. Whole(s, created.ndims)
    BY <2>2, NumDimsAssumption, WholeArgument DEF WholeStencils
  <2>4. /\ last'.op = "MPIX_Internode_cost_stencil" /\ last'.ndims = created.ndims /\ last'.alg = "none"
        /\ last'.stencil = s
    BY <1>6 DEF MPIX_Internode_cost_stencil, Used
  <2>5. LastInv' /\ CreatedInv'
    BY <1>0, <2>1, <2>2, <2>3, <2>4 DEF LastInv, CreatedInv
  <2> QED
    BY <1>0, <2>1, <2>4, <2>5 DEF IInv, TypeOK, LoggerInv
<1>7. CASE UNCHANGED vars
  BY <1>0, <1>7 DEF vars, config_vars, IInv, TypeOK, LoggerInv, LastInv, CreatedInv
<1> QED
  BY <1>1, <1>2, <1>3, <1>4, <1>5, <1>6, <1>7 DEF Next

LEMMA InvariantHolds == Spec => []IInv
  BY Beginning, Invariance, PTL DEF Spec

----------------------------------------------------------------------------
(***************************************************************************)
(* What it implies.                                                        *)
(***************************************************************************)
\* The two static configurations, the logger and the algorithm of a call have the values
\* the code expects, whatever the environment held when each was made.
THEOREM TypesCorrect == Spec => []TypeOK
  BY InvariantHolds, PTL DEF IInv

\* The flag logSet keeps the library from registering the logger's name a second time,
\* however the entry points are mixed (configuration.cpp:7-10).
THEOREM OneLogger == Spec => []RegisteredOnce
<1>1. IInv => RegisteredOnce
  BY DEF IInv, LoggerInv, RegisteredOnce
<1> QED
  BY <1>1, InvariantHolds, PTL

\* Every algorithm and every evaluation gets n_neighbors whole offsets, from whichever
\* source, and what completes the last of them is shorter than an offset.
THEOREM StencilsAreWhole == Spec => []StencilWhole
<1>1. IInv => StencilWhole
  BY DEF IInv, LastInv, StencilWhole, Reordered, Evaluated, Entries, Whole
<1> QED
  BY <1>1, InvariantHolds, PTL

\* Without CART_REORDER_STENCIL MPI_Cart_create works with the two nearest neighbours along
\* each dimension and the process itself, each of them once, whatever the number of
\* dimensions (five_point_stencil, Stencil_Creater.cpp).
THEOREM DefaultIsNearest == Spec => []NearestNeighbors
<1>1. IInv => NearestNeighbors
  <2> SUFFICES ASSUME IInv, last.op = "MPI_Cart_create", last.config.str_stencil = UNDEFINED_STENCIL
               PROVE  NearestNeighbors
    BY DEF NearestNeighbors
  <2> DEFINE n == last.ndims
             s == five_point_stencil(n)
  <2>1. n \in Nat \ {0}
    BY NumDimsAssumption DEF IInv, LastInv
  <2>2. last.stencil = s
    BY DEF IInv, LastInv, create_stencil
  <2>3. /\ n_neighbors(s, n) = 2*n + 1
        /\ {Offset(s, n, i) : i \in 1 .. 2*n + 1} = Steps(n)
        /\ Cardinality(Steps(n)) = 2*n + 1
    BY <2>1, NearestOffsets DEF Positions
  <2> HIDE DEF n, s
  <2> QED
    BY <2>2, <2>3 DEF NearestNeighbors, Steps, Distance, n
<1> QED
  BY <1>1, InvariantHolds, PTL

\* A communicator made by MPI_Cart_create is evaluated by MPIX_Internode_cost for the stencil
\* it was reordered for, however many calls lie between the two, as soon as
\* CART_REORDER_STENCIL has the value it had when the static configuration was made.
THEOREM EvaluationMatches == Spec => []EvaluatesReordered
<1>1. IInv => EvaluatesReordered
  BY DEF IInv, LastInv, CreatedInv, EvaluatesReordered
<1> QED
  BY <1>1, InvariantHolds, PTL

\* Making a further Configuration does not switch a logger back off whose level the
\* environment has set before (configuration.cpp:11-14).
THEOREM LevelStays == Spec => LevelKept
<1> DEFINE Kept == m_Logger # NullLogger /\ env.log_level = Unset => m_Logger' = m_Logger
<1>1. IInv /\ [Next]_vars => [Kept]_vars
  <2> SUFFICES ASSUME IInv, Next PROVE Kept
    OBVIOUS
  <2>0. TypeOK /\ LoggerInv
    BY DEF IInv
  <2>1. Construct => Kept
    BY <2>0, Constructing
  <2>2. m_Logger' = m_Logger \/ Construct
    BY DEF Next, ChangeEnvironment, MPI_Cart_create, PMPI_Cart_create, MPIX_Cart_Comm_stencil,
      MPIX_Internode_cost, MPIX_Internode_cost_stencil, config_vars, Logger
  <2> QED
    BY <2>1, <2>2
<1> QED
  BY <1>1, InvariantHolds, PTL DEF Spec, LevelKept
=============================================================================
