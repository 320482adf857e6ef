---------------------------- MODULE GridTheorems ----------------------------
(***************************************************************************)
(* Facts about the operators of Grid, for grids of every number of         *)
(* dimensions and every extent, and about what the models count and add up *)
(* over finite sets of numbers.                                            *)
(*                                                                         *)
(* A fact about a product of extents needs an induction on the number of   *)
(* factors.  It is done on sets: a set of numbers that holds 0 and with    *)
(* every number its successor holds all, since the least number missing    *)
(* would have a predecessor.                                               *)
(***************************************************************************)
EXTENDS Grid, FiniteSetTheorems, WellFoundedInduction, TLAPS

Below == OpToRel(<, Nat)

\* There is no infinite descent in the natural numbers.
LEMMA BelowIsWellFounded == IsWellFoundedOn(Below, Nat)
  BY NatLessThanWellFounded DEF Below

\* The relation holds the pairs of a smaller and a larger number.
LEMMA BelowIsLess == \A x, y \in Nat : x < y => <<x, y>> \in Below
  BY DEF Below, OpToRel

\* A nonempty set of natural numbers has a least element.
LEMMA LeastElement ==
  ASSUME NEW T, T \subseteq Nat, T # {}
  PROVE  \E x \in T : \A y \in T : x <= y
<1>1. PICK x \in T : \A y \in T : ~ (<<y, x>> \in Below)
  BY BelowIsWellFounded, WFMin
<1>2. ASSUME NEW y \in T PROVE x <= y
  <2>1. x \in Nat /\ y \in Nat
    OBVIOUS
  <2>2. ~ (y < x)
    BY <1>1, <2>1, BelowIsLess
  <2> QED
    BY <2>1, <2>2
<1> QED
  BY <1>2

\* Induction with a set in place of a predicate: what holds 0 and, with each number, the
\* next one, holds them all.
LEMMA SetInduction ==
  ASSUME NEW T, 0 \in T, \A n \in Nat : n \in T => n+1 \in T
  PROVE  Nat \subseteq T
<1> SUFFICES ASSUME Nat \ T # {} PROVE FALSE
  OBVIOUS
<1>1. PICK x \in Nat \ T : \A y \in Nat \ T : x <= y
  <2>1. Nat \ T \subseteq Nat
    OBVIOUS
  <2> QED
    BY <2>1, LeastElement
<1>2. x # 0 /\ x \in Nat
  OBVIOUS
<1>3. x-1 \in Nat /\ ~ (x <= x-1) /\ (x-1) + 1 = x
  BY <1>2
<1>4. x-1 \in T
  BY <1>1, <1>3
<1> QED
  BY <1>3, <1>4

----------------------------------------------------------------------------
\* Division of natural numbers rounds down.
LEMMA Quotient ==
  ASSUME NEW a \in Nat, NEW b \in Nat \ {0}
  PROVE  a \div b \in Nat /\ (a \div b) * b <= a /\ a < (a \div b) * b + b
  BY Z3

\* Fewer than b times the b-th part of a is less than a.
LEMMA PartOfQuotient ==
  ASSUME NEW a \in Nat \ {0}, NEW b \in Nat \ {0}, NEW l \in 0 .. b-1
  PROVE  (a \div b) * l \in 0 .. a-1
<1> DEFINE q == a \div b
<1>1. q \in Nat /\ q * b <= a
  BY Quotient
<1> HIDE DEF q
<1>2. CASE q = 0
  BY <1>2
<1>3. CASE q > 0
  <2>1. q * l < q * b /\ q * l \in Nat
    BY <1>1, <1>3
  <2> QED
    BY <1>1, <2>1
<1>4. q * l \in 0 .. a-1
  BY <1>1, <1>2, <1>3
<1> QED
  BY <1>4 DEF q

\* Division undoes multiplication.
LEMMA ExactQuotient ==
  ASSUME NEW m \in Nat, NEW b \in Nat \ {0}
  PROVE  (m * b) \div b = m
<1> DEFINE q == (m * b) \div b
<1>1. m * b \in Nat
  OBVIOUS
<1>2. q \in Nat /\ q * b <= m * b /\ m * b < q * b + b
  BY <1>1, Quotient
<1> HIDE DEF q
<1>3. q * b + b = (q + 1) * b
  BY <1>2
<1>4. q <= m
  <2> SUFFICES ASSUME q >= m + 1 PROVE FALSE
    BY <1>2
  <2>1. q * b >= (m + 1) * b
    BY <1>2
  <2> QED
    BY <1>2, <2>1
<1>5. m <= q
  <2> SUFFICES ASSUME m >= q + 1 PROVE FALSE
    BY <1>2
  <2>1. m * b >= (q + 1) * b
    BY <1>2
  <2> QED
    BY <1>2, <1>3, <2>1
<1>6. q = m
  BY <1>2, <1>4, <1>5
<1> QED
  BY <1>6 DEF q

\* Division of any integer: the remainder is what is left.
LEMMA DivMod ==
  ASSUME NEW a \in Int, NEW b \in Nat \ {0}
  PROVE  /\ a \div b \in Int
         /\ a % b \in 0 .. b-1
         /\ a = b * (a \div b) + (a % b)
  BY Z3

\* A number without remainder is a multiple, and its quotient the factor.
LEMMA Multiples ==
  ASSUME NEW x \in Nat, NEW n \in Nat \ {0}
  PROVE  /\ x % n = 0 => x \div n \in Nat /\ x = (x \div n) * n
         /\ \A k \in Int : x = k * n => x % n = 0
<1>1. /\ x \div n \in Int /\ x % n \in 0 .. n-1
      /\ x = n * (x \div n) + (x % n)
  BY DivMod
<1>2. x \div n \in Nat
  BY Quotient
<1>3. ASSUME NEW k \in Int, x = k * n PROVE x % n = 0
  <2> DEFINE q == x \div n
             r == x % n
  <2>1. q \in Int /\ r \in Int /\ 0 <= r /\ r < n /\ n * k = n * q + r
    BY <1>1, <1>3
  <2> HIDE DEF q, r
  <2>2. n * (k - q) = r
    BY <2>1
  <2>3. CASE k - q >= 1
    <3>1. n * (k - q) >= n
      BY <2>1, <2>3
    <3> QED
      BY <2>1, <2>2, <3>1
  <2>4. CASE k - q <= -1
    <3>1. n * (k - q) <= -n
      BY <2>1, <2>4
    <3> QED
      BY <2>1, <2>2, <3>1
  <2>5. CASE k - q = 0
    BY <2>1, <2>2, <2>5 DEF r
  <2> QED
    BY <2>1, <2>3, <2>4, <2>5
<1> QED
  BY <1>1, <1>2, <1>3

ShareFactor(m, a) ==
  \E q \in Nat : q > 1 /\ (\E u \in Nat : m = q * u) /\ (\E v \in Nat : a = q * v)

\* A number above 1 that divides a * b and not b has a factor above 1 in common with a:
\* the least number whose product with b it divides is such a factor.
LEMMA CommonFactor ==
  ASSUME NEW m \in Nat, m > 1, NEW a \in Nat \ {0}, NEW b \in Nat \ {0},
         NEW k \in Int, a * b = k * m, \A j \in Int : b # j * m
  PROVE  ShareFactor(m, a)
<1> DEFINE D == {x \in Nat \ {0} : \E j \in Int : x * b = j * m}
<1>1. m \in D /\ a \in D
  <2>1. m * b = b * m /\ b \in Int /\ m \in Nat \ {0}
    OBVIOUS
  <2> QED
    BY <2>1
<1>2. PICK q \in D : \A y \in D : q <= y
  <2>1. D \subseteq Nat /\ D # {}
    BY <1>1
  <2> HIDE DEF D
  <2> QED
    BY <2>1, LeastElement
<1>3. PICK l \in Int : q * b = l * m
  BY <1>2
<1>4. q \in Nat \ {0} /\ q # 1
  <2>1. q \in Nat \ {0}
    BY <1>2
  <2>2. q = 1 => b = l * m
    BY <1>3
  <2> QED
    BY <2>1, <2>2
<1>5. ASSUME NEW y \in D PROVE \E u \in Nat : y = q * u
  <2> DEFINE u == y \div q
             r == y % q
  <2>1. PICK j \in Int : y * b = j * m
    OBVIOUS
  <2>2. y \in Nat /\ u \in Int /\ r \in 0 .. q-1 /\ y = q * u + r
    BY <1>4, DivMod
  <2>3. u \in Nat
    BY <1>4, <2>2, Quotient
  <2> HIDE DEF u, r
  <2>4. r * b = (j - l * u) * m
    <3>1. r = y - q * u
      BY <1>4, <2>2
    <3>2. r * b = y * b - (q * u) * b
      BY <1>4, <2>2, <3>1
    <3>3. (q * u) * b = (q * b) * u
      BY <1>4, <2>2
    <3>4. (q * b) * u = (l * m) * u
      BY <1>3
    <3>5. (l * m) * u = (l * u) * m
      BY <2>2
    <3>6. (j - l * u) * m = j * m - (l * u) * m
      BY <2>2
    <3> QED
      BY <2>1, <3>2, <3>3, <3>4, <3>5, <3>6
  <2>5. r = 0
    <3>1. r \in Nat /\ r < q /\ j - l * u \in Int
      BY <1>4, <2>2
    <3>2. r # 0 => r \in D
      BY <2>4, <3>1
    <3>3. r \in D => q <= r
      BY <1>2
    <3> HIDE DEF D
    <3> QED
      BY <1>4, <3>1, <3>2, <3>3
  <2> QED
    BY <1>4, <2>2, <2>3, <2>5
<1> HIDE DEF D
<1>6. (\E u \in Nat : m = q * u) /\ (\E v \in Nat : a = q * v)
  BY <1>1, <1>5
<1>7. q \in Nat /\ q > 1
  BY <1>4
<1> QED
  BY <1>6, <1>7 DEF ShareFactor

\* The largest of some numbers up to n.
LEMMA MaxOfSet ==
  ASSUME NEW n \in Nat, NEW S, S \subseteq 0 .. n, S # {}
  PROVE  Max(S) \in S /\ \A y \in S : Max(S) >= y
<1> DEFINE T == {n - x : x \in S}
<1>1. T \subseteq Nat /\ T # {}
  <2>1. \A x \in S : n - x \in Nat
    OBVIOUS
  <2> QED
    BY <2>1
<1>2. PICK y \in T : \A z \in T : y <= z
  BY <1>1, LeastElement
<1>3. PICK x \in S : y = n - x
  BY <1>2
<1>4. \A z \in S : x >= z
  <2> TAKE z \in S
  <2>1. y <= n - z
    BY <1>2
  <2> QED
    BY <1>3, <2>1
<1> QED
  BY <1>4 DEF Max

----------------------------------------------------------------------------
\* f is the function on 0 .. n with value base at 0 and, from there on, the result of
\* step on its previous value.
Solves(f, n, base, step) ==
  f[0] = base /\ \A i \in 1 .. n : f[i] = step[<<i, f[i-1]>>]

\* Every such recursion has a solution.
LEMMA RecursionExists ==
  ASSUME NEW S, NEW base \in S, NEW step \in [Nat \X S -> S]
  PROVE  \A n \in Nat : \E f \in [0 .. n -> S] : Solves(f, n, base, step)
<1> DEFINE T == {n \in Nat : \E f \in [0 .. n -> S] : Solves(f, n, base, step)}
<1> USE DEF Solves
<1>1. 0 \in T
  <2>1. [i \in 0 .. 0 |-> base] \in [0 .. 0 -> S] /\ Solves([i \in 0 .. 0 |-> base], 0, base, step)
    OBVIOUS
  <2> QED
    BY <2>1
<1>2. ASSUME NEW n \in Nat, n \in T PROVE n+1 \in T
  <2>1. PICK f \in [0 .. n -> S] : Solves(f, n, base, step)
    BY <1>2
  <2>2. step[<<n+1, f[n]>>] \in S
    OBVIOUS
  <2> DEFINE g == [i \in 0 .. n+1 |-> IF i = n+1 THEN step[<<n+1, f[n]>>] ELSE f[i]]
  <2>3. g \in [0 .. n+1 -> S]
    BY <2>2
  <2>4. g[0] = base
    BY <2>1
  <2>5. ASSUME NEW i \in 1 .. n+1 PROVE g[i] = step[<<i, g[i-1]>>]
    <3>1. CASE i = n+1
      <4>1. i \in 0 .. n+1 /\ i-1 \in 0 .. n+1 /\ i-1 # n+1 /\ i-1 = n
        BY <3>1
      <4>2. g[i] = step[<<n+1, f[n]>>] /\ g[i-1] = f[n]
        BY <3>1, <4>1
      <4> QED
        BY <3>1, <4>2
    <3>2. CASE i # n+1
      <4>1. i \in 1 .. n /\ i \in 0 .. n+1 /\ i-1 \in 0 .. n+1 /\ i-1 # n+1
        BY <3>2
      <4>2. g[i] = f[i] /\ g[i-1] = f[i-1]
        BY <3>2, <4>1
      <4> QED
        BY <2>1, <4>1, <4>2
    <3> QED
      BY <3>1, <3>2
  <2>6. Solves(g, n+1, base, step)
    BY <2>4, <2>5
  <2> HIDE DEF g, Solves
  <2> QED
    BY <2>3, <2>6
<1> HIDE DEF T
<1>3. Nat \subseteq T
  BY <1>1, <1>2, SetInduction
<1> QED
  BY <1>3 DEF T

----------------------------------------------------------------------------
\* The recursion that Volume is defined by has a solution, and Volume is its last
\* value.
LEMMA VolumeRecursion ==
  ASSUME NEW n \in Nat, NEW D, 0 .. n-1 \subseteq D, NEW d \in [D -> Nat]
  PROVE  \E f \in [0 .. n -> Nat] :
           /\ f[0] = 1
           /\ \A i \in 1 .. n : f[i] = f[i-1] * d[i-1]
           /\ Volume(d, n) = f[n]
<1> DEFINE step == [x \in Nat \X Nat |-> IF x[1] \in 1 .. n THEN x[2] * d[x[1]-1] ELSE 0]
           Product(f) == f = [i \in 0 .. n |-> IF i = 0 THEN 1 ELSE f[i-1] * d[i-1]]
<1>1. step \in [Nat \X Nat -> Nat]
  OBVIOUS
<1>2. PICK f \in [0 .. n -> Nat] : Solves(f, n, 1, step)
  <2> HIDE DEF step
  <2>1. 1 \in Nat
    OBVIOUS
  <2> QED
    BY <1>1, <2>1, RecursionExists
<1>3. \A i \in 1 .. n : f[i] = f[i-1] * d[i-1]
  <2> TAKE i \in 1 .. n
  <2>1. <<i, f[i-1]>> \in Nat \X Nat
    OBVIOUS
  <2>2. step[<<i, f[i-1]>>] = f[i-1] * d[i-1]
    BY <2>1
  <2> QED
    BY <1>2, <2>2 DEF Solves
<1>4. Product(f)
  BY <1>2, <1>3 DEF Solves
<1>5. Product(CHOOSE g : Product(g))
  <2> HIDE DEF Product
  <2> QED
    BY <1>4
<1> DEFINE g == CHOOSE g : Product(g)
<1>6. Volume(d, n) = g[n]
  BY DEF Volume
<1>7. g = [i \in 0 .. n |-> IF i = 0 THEN 1 ELSE g[i-1] * d[i-1]]
  BY <1>5
<1> HIDE DEF g
<1>8. /\ g[0] = 1
      /\ \A i \in 1 .. n : g[i] = g[i-1] * d[i-1]
  BY <1>7
<1> DEFINE T == {i \in Nat : i <= n => g[i] \in Nat}
<1>9. ASSUME NEW i \in Nat, i \in T PROVE i+1 \in T
  <2> SUFFICES ASSUME i+1 <= n PROVE g[i+1] \in Nat
    OBVIOUS
  <2>1. g[i] \in Nat /\ d[i] \in Nat
    BY <1>9
  <2>2. i+1 \in 1 .. n /\ (i+1)-1 = i
    OBVIOUS
  <2>3. g[i+1] = g[i] * d[i]
    BY <1>8, <2>2
  <2> QED
    BY <2>1, <2>3
<1>10. 0 \in T
  BY <1>8
<1>11. Nat \subseteq T
  <2> HIDE DEF T
  <2> QED
    BY <1>9, <1>10, SetInduction
<1>12. g \in [0 .. n -> Nat]
  <2>1. \A i \in 0 .. n : g[i] \in Nat
    BY <1>11
  <2> QED
    BY <1>7, <2>1
<1> QED
  BY <1>6, <1>8, <1>12

\* The recurrence, and the type of the result.
LEMMA VolumeStep ==
  ASSUME NEW n \in Nat, NEW D, 0 .. n-1 \subseteq D, NEW d \in [D -> Nat]
  PROVE  /\ Volume(d, 0) = 1
         /\ \A i \in 0 .. n : Volume(d, i) \in Nat
         /\ \A i \in 0 .. n-1 : Volume(d, i+1) = Volume(d, i) * d[i]
<1> DEFINE IsProduct(f, k) ==
      f[0] = 1 /\ (\A i \in 1 .. k : f[i] = f[i-1] * d[i-1]) /\ Volume(d, k) = f[k]
<1>1. ASSUME NEW k \in 0 .. n
      PROVE  \E f \in [0 .. k -> Nat] : IsProduct(f, k)
  <2>1. k \in Nat /\ 0 .. k-1 \subseteq D
    OBVIOUS
  <2> QED
    BY <2>1, VolumeRecursion
<1>2. Volume(d, 0) = 1
  BY <1>1
<1>3. \A i \in 0 .. n : Volume(d, i) \in Nat
  BY <1>1
<1>4. ASSUME NEW i \in 0 .. n-1 PROVE Volume(d, i+1) = Volume(d, i) * d[i]
  <2>0. i \in Nat /\ i \in 0 .. n /\ i+1 \in 0 .. n
    OBVIOUS
  <2> HIDE DEF IsProduct
  <2>1. PICK f \in [0 .. i -> Nat] : IsProduct(f, i)
    BY <1>1, <2>0
  <2>2. PICK g \in [0 .. i+1 -> Nat] : IsProduct(g, i+1)
    BY <1>1, <2>0
  <2> USE DEF IsProduct
  <2> DEFINE T == {k \in Nat : k <= i => f[k] = g[k]}
  <2>3. 0 \in T
    BY <2>1, <2>2
  <2>4. ASSUME NEW k \in Nat, k \in T PROVE k+1 \in T
    <3> SUFFICES ASSUME k+1 <= i PROVE f[k+1] = g[k+1]
      OBVIOUS
    <3>1. f[k] = g[k]
      BY <2>4
    <3>2. k+1 \in 1 .. i /\ k+1 \in 1 .. i+1 /\ (k+1)-1 = k
      OBVIOUS
    <3> QED
      BY <2>1, <2>2, <3>1, <3>2
  <2>5. Nat \subseteq T
    <3> HIDE DEF T
    <3> QED
      BY <2>3, <2>4, SetInduction
  <2>6. f[i] = g[i]
    BY <2>5
  <2>7. i+1 \in 1 .. i+1 /\ (i+1)-1 = i
    OBVIOUS
  <2> QED
    BY <2>1, <2>2, <2>6, <2>7
<1> QED
  BY <1>2, <1>3, <1>4

\* A grid with a row in every dimension has a cell.
LEMMA VolumePositive ==
  ASSUME NEW n \in Nat, NEW D, 0 .. n-1 \subseteq D, NEW d \in [D -> Nat \ {0}]
  PROVE  Volume(d, n) \in Nat \ {0}
<1> DEFINE T == {i \in Nat : i <= n => Volume(d, i) \in Nat \ {0}}
<1>1. d \in [D -> Nat]
  OBVIOUS
<1>2. 0 \in T
  <2>1. Volume(d, 0) = 1
    BY <1>1, VolumeStep
  <2> QED
    BY <2>1
<1>3. ASSUME NEW i \in Nat, i \in T PROVE i+1 \in T
  <2> SUFFICES ASSUME i+1 <= n PROVE Volume(d, i+1) \in Nat \ {0}
    OBVIOUS
  <2>1. Volume(d, i) \in Nat \ {0} /\ d[i] \in Nat \ {0} /\ i \in 0 .. n-1
    BY <1>3
  <2>2. Volume(d, i+1) = Volume(d, i) * d[i]
    BY <1>1, <2>1, VolumeStep
  <2> QED
    BY <2>1, <2>2
<1> HIDE DEF T
<1>4. Nat \subseteq T
  BY <1>2, <1>3, SetInduction
<1> QED
  BY <1>4 DEF T

\* A grid whose extents are all 1 has one cell.
LEMMA VolumeOfCell ==
  ASSUME NEW n \in Nat, NEW D, 0 .. n-1 \subseteq D, NEW d \in [D -> Nat],
         \A i \in 0 .. n-1 : d[i] = 1
  PROVE  Volume(d, n) = 1
<1> DEFINE T == {i \in Nat : i <= n => Volume(d, i) = 1}
<1>1. 0 \in T
  BY VolumeStep
<1>2. ASSUME NEW i \in Nat, i \in T PROVE i+1 \in T
  <2> SUFFICES ASSUME i+1 <= n PROVE Volume(d, i+1) = 1
    OBVIOUS
  <2>1. Volume(d, i) = 1 /\ d[i] = 1 /\ i \in 0 .. n-1
    BY <1>2
  <2>2. Volume(d, i+1) = Volume(d, i) * d[i]
    BY <2>1, VolumeStep
  <2> QED
    BY <2>1, <2>2
<1> HIDE DEF T
<1>3. Nat \subseteq T
  BY <1>1, <1>2, SetInduction
<1> QED
  BY <1>3 DEF T

\* All layers of a grid across one dimension have the same number of cells: with the
\* extent of that dimension replaced, the grid has that many times the new extent.
LEMMA VolumeOfLayers ==
  ASSUME NEW n \in Nat, NEW d \in [0 .. n-1 -> Nat \ {0}], NEW s \in 0 .. n-1
  PROVE  \E layer \in Nat \ {0} : \A x \in Nat : Volume([d EXCEPT ![s] = x], n) = layer * x
<1> DEFINE e(x) == [d EXCEPT ![s] = x]
           Linear(i) == \E layer \in Nat \ {0} : \A x \in Nat : Volume(e(x), i) = layer * x
           T == {i \in Nat : /\ i <= s => \A x \in Nat : Volume(e(x), i) = Volume(d, i)
                             /\ s < i /\ i <= n => Linear(i)}
<1>1. d \in [0 .. n-1 -> Nat] /\ \A x \in Nat : e(x) \in [0 .. n-1 -> Nat]
  OBVIOUS
<1>2. \A x \in Nat : \A i \in 0 .. n-1 : Volume(e(x), i+1) = Volume(e(x), i) * e(x)[i]
  BY <1>1, VolumeStep
<1>3. \A i \in 0 .. n-1 : Volume(d, i+1) = Volume(d, i) * d[i]
  BY <1>1, VolumeStep
<1>4. \A i \in 0 .. n : Volume(d, i) \in Nat \ {0}
  <2> TAKE i \in 0 .. n
  <2>1. i \in Nat /\ 0 .. i-1 \subseteq 0 .. n-1
    OBVIOUS
  <2> QED
    BY <2>1, VolumePositive
<1>5. 0 \in T
  <2>1. Volume(d, 0) = 1 /\ \A x \in Nat : Volume(e(x), 0) = 1
    BY <1>1, VolumeStep
  <2> QED
    BY <2>1
<1>6. ASSUME NEW i \in Nat, i \in T PROVE i+1 \in T
  <2> HIDE DEF e, Linear
  <2>1. /\ i <= s => \A x \in Nat : Volume(e(x), i) = Volume(d, i)
        /\ s < i /\ i <= n => Linear(i)
    BY <1>6
  <2> USE DEF e, Linear
  <2> HIDE DEF T
  <2>2. ASSUME i+1 <= s, NEW x \in Nat PROVE Volume(e(x), i+1) = Volume(d, i+1)
    <3>1. i \in 0 .. n-1 /\ i # s /\ i <= s
      BY <2>2
    <3>2. Volume(e(x), i) = Volume(d, i)
      BY <2>1, <3>1
    <3>3. e(x)[i] = d[i]
      BY <3>1
    <3>4. Volume(d, i+1) = Volume(d, i) * d[i]
      BY <1>3, <3>1
    <3> QED
      BY <1>2, <3>1, <3>3, <3>4, <3>2
  <2>3. ASSUME s < i+1, i+1 <= n PROVE Linear(i+1)
    <3>1. i \in 0 .. n-1 /\ i \in 0 .. n
      BY <2>3
    <3>2. CASE i = s
      <4>1. \A x \in Nat : Volume(e(x), i) = Volume(d, i)
        <5> HIDE DEF e, Linear
        <5>1. i <= s
          BY <3>2
        <5> QED
          BY <2>1, <5>1
      <4>2. \A x \in Nat : e(x)[i] = x
        BY <3>1, <3>2
      <4>3. \A x \in Nat : Volume(e(x), i+1) = Volume(d, i) * x
        BY <1>2, <3>1, <4>1, <4>2
      <4>4. Volume(d, i) \in Nat \ {0}
        BY <1>4, <3>1
      <4> QED
        BY <4>3, <4>4
    <3>3. CASE i # s
      <4>1. s < i /\ i <= n
        BY <2>3, <3>3
      <4>2. PICK layer \in Nat \ {0} : \A x \in Nat : Volume(e(x), i) = layer * x
        BY <2>1, <4>1
      <4>3. \A x \in Nat : e(x)[i] = d[i]
        BY <3>1, <3>3
      <4>4. d[i] \in Nat \ {0}
        BY <3>1
      <4>5. layer * d[i] \in Nat \ {0}
        BY <4>4
      <4>6. \A x \in Nat : (layer * x) * d[i] = (layer * d[i]) * x
        BY <4>4
      <4>7. \A x \in Nat : Volume(e(x), i+1) = (layer * d[i]) * x
        BY <1>2, <3>1, <4>2, <4>3, <4>6
      <4> QED
        BY <4>5, <4>7
    <3> QED
      BY <3>2, <3>3
  <2> HIDE DEF Linear, e
  <2> USE DEF T
  <2> QED
    BY <2>2, <2>3
<1> HIDE DEF T
<1>7. Nat \subseteq T
  BY <1>5, <1>6, SetInduction
<1>8. Linear(n)
  <2> HIDE DEF Linear
  <2>1. n \in T /\ s < n
    BY <1>7
  <2> QED
    BY <2>1 DEF T
<1> QED
  BY <1>8

\* A number above 1 that divides the volume of a grid has a factor above 1 in common with
\* one of its extents.
LEMMA VolumeFactor ==
  ASSUME NEW n \in Nat, NEW d \in [0 .. n-1 -> Nat \ {0}], NEW m \in Nat, m > 1,
         NEW k \in Int, Volume(d, n) = k * m
  PROVE  \E i \in 0 .. n-1 : ShareFactor(m, d[i])
<1> DEFINE K == {j \in Nat : j <= n /\ \E l \in Int : Volume(d, j) = l * m}
<1>1. d \in [0 .. n-1 -> Nat] /\ \A j \in 0 .. n : 0 .. j-1 \subseteq 0 .. n-1
  OBVIOUS
<1>2. Volume(d, 0) = 1 /\ \A i \in 0 .. n-1 : Volume(d, i+1) = Volume(d, i) * d[i]
  BY <1>1, VolumeStep
<1>3. \A j \in 0 .. n : Volume(d, j) \in Nat \ {0}
  <2> TAKE j \in 0 .. n
  <2>1. j \in Nat /\ 0 .. j-1 \subseteq 0 .. n-1
    OBVIOUS
  <2> QED
    BY <2>1, VolumePositive
<1>4. n \in K
  OBVIOUS
<1>5. PICK j \in K : \A i \in K : j <= i
  <2>1. K \subseteq Nat /\ K # {}
    BY <1>4
  <2> HIDE DEF K
  <2> QED
    BY <2>1, LeastElement
<1>6. PICK l \in Int : Volume(d, j) = l * m
  BY <1>5
<1>7. j # 0
  <2> SUFFICES ASSUME 1 = l * m PROVE FALSE
    BY <1>2, <1>6
  <2>1. CASE l >= 1
    <3>1. l * m >= m
      BY <2>1
    <3> QED
      BY <3>1
  <2>2. CASE l <= 0
    <3>1. l * m <= 0
      BY <2>2
    <3> QED
      BY <3>1
  <2> QED
    BY <2>1, <2>2
<1> DEFINE i == j-1
           a == d[i]
           b == Volume(d, i)
<1>8. i \in 0 .. n-1 /\ i \in 0 .. n /\ i+1 = j /\ i \in Nat /\ i < j /\ i <= n
  BY <1>5, <1>7
<1>9. a \in Nat \ {0} /\ b \in Nat \ {0} /\ a * b = l * m
  <2>1. Volume(d, j) = b * a
    BY <1>2, <1>8
  <2>2. a \in Nat \ {0} /\ b \in Nat \ {0}
    BY <1>3, <1>8
  <2> HIDE DEF a, b
  <2> QED
    BY <1>6, <2>1, <2>2
<1>10. \A x \in Int : b # x * m
  <2> SUFFICES ASSUME NEW x \in Int, b = x * m PROVE FALSE
    OBVIOUS
  <2>1. i \in K
    BY <1>8
  <2>2. j <= i
    BY <1>5, <2>1
  <2> HIDE DEF i
  <2> QED
    BY <1>5, <1>8, <2>2
<1> HIDE DEF a, b
<1>11. ShareFactor(m, a)
  BY <1>9, <1>10, CommonFactor
<1> QED
  BY <1>8, <1>11 DEF a

----------------------------------------------------------------------------
(***************************************************************************)
(* Counting: the rank of a number among the numbers of a set.              *)
(***************************************************************************)
\* A nonempty set of natural numbers has a minimum, and Min is it.
LEMMA MinOfSet ==
  ASSUME NEW S, S \subseteq Nat, S # {}
  PROVE  Min(S) \in S /\ \A y \in S : Min(S) <= y
<1>1. \E x \in S : \A y \in S : x <= y
  BY LeastElement
<1> QED
  BY <1>1 DEF Min

RankIn(S) == [x \in S |-> Cardinality({y \in S : y < x})]

\* In a finite set of numbers, ranks start at 0, are below the number of elements, and
\* grow with the numbers.
LEMMA RankOrder ==
  ASSUME NEW S, S \subseteq Nat, IsFiniteSet(S)
  PROVE  /\ Cardinality(S) \in Nat
         /\ RankIn(S) \in [S -> 0 .. Cardinality(S)-1]
         /\ \A x, y \in S : x < y => RankIn(S)[x] < RankIn(S)[y]
         /\ \A x, y \in S : RankIn(S)[x] = RankIn(S)[y] => x = y
         /\ \A x \in S : RankIn(S)[x] = 0 <=> \A y \in S : x <= y
<1> DEFINE Before(x) == {y \in S : y < x}
<1>1. Cardinality(S) \in Nat /\ \A x \in S : x \in Nat
  BY FS_CardinalityType
<1>2. ASSUME NEW x \in S
      PROVE  /\ IsFiniteSet(Before(x)) /\ Cardinality(Before(x)) \in Nat
             /\ Cardinality(Before(x)) < Cardinality(S)
  <2>1. Before(x) \in SUBSET S /\ x \notin Before(x)
    OBVIOUS
  <2>2. IsFiniteSet(Before(x)) /\ Cardinality(Before(x)) <= Cardinality(S)
        /\ (Cardinality(S) = Cardinality(Before(x)) => S = Before(x))
    BY <2>1, FS_Subset
  <2>3. Cardinality(Before(x)) \in Nat
    BY <2>2, FS_CardinalityType
  <2> QED
    BY <1>1, <2>1, <2>2, <2>3
<1>3. ASSUME NEW x \in S, NEW y \in S, x < y
      PROVE  Cardinality(Before(x)) < Cardinality(Before(y))
  <2>0. x \in Nat /\ y \in Nat /\ ~ (x < x) /\ \A z \in S : z < x => z < y
    BY <1>1, <1>3
  <2>1. Before(x) \in SUBSET Before(y) /\ x \in Before(y) /\ x \notin Before(x)
    BY <1>3, <2>0
  <2>2. IsFiniteSet(Before(y))
    BY <1>2
  <2> HIDE DEF Before
  <2>3. /\ Cardinality(Before(x)) <= Cardinality(Before(y))
        /\ Cardinality(Before(y)) = Cardinality(Before(x)) => Before(y) = Before(x)
    BY <2>1, <2>2, FS_Subset
  <2>4. Cardinality(Before(x)) \in Nat /\ Cardinality(Before(y)) \in Nat
    BY <1>2
  <2> QED
    BY <2>1, <2>3, <2>4
<1>4. ASSUME NEW x \in S PROVE Cardinality(Before(x)) = 0 <=> \A y \in S : x <= y
  <2>1. Cardinality(Before(x)) = 0 <=> Before(x) = {}
    BY <1>2, FS_EmptySet
  <2>2. \A y \in S : y < x <=> ~ (x <= y)
    BY <1>1
  <2>3. Before(x) = {} <=> \A y \in S : x <= y
    BY <2>2
  <2> QED
    BY <2>1, <2>3
<1> HIDE DEF Before
<1>5. \A x \in S : RankIn(S)[x] = Cardinality(Before(x))
  BY DEF RankIn, Before
<1>6. RankIn(S) \in [S -> 0 .. Cardinality(S)-1]
  <2>1. \A x \in S : Cardinality(Before(x)) \in 0 .. Cardinality(S)-1
    BY <1>1, <1>2
  <2> QED
    BY <2>1 DEF RankIn, Before
<1>7. \A x, y \in S : x < y => RankIn(S)[x] < RankIn(S)[y]
  BY <1>3, <1>5
<1>8. ASSUME NEW x \in S, NEW y \in S, RankIn(S)[x] = RankIn(S)[y] PROVE x = y
  <2>1. RankIn(S)[x] \in Nat /\ x \in Nat /\ y \in Nat
    BY <1>6
  <2>2. ~ (x < y) /\ ~ (y < x)
    BY <1>7, <1>8, <2>1
  <2> QED
    BY <2>1, <2>2
<1>9. \A x \in S : RankIn(S)[x] = 0 <=> \A y \in S : x <= y
  BY <1>4, <1>5
<1> QED
  BY <1>1, <1>6, <1>7, <1>8, <1>9

\* Each rank below the number of elements is that of exactly one element.
LEMMA RankOnto ==
  ASSUME NEW S, S \subseteq Nat, IsFiniteSet(S), NEW i \in 0 .. Cardinality(S)-1
  PROVE  \E x \in S : RankIn(S)[x] = i
<1> DEFINE T == 0 .. Cardinality(S)-1
<1>1. RankIn(S) \in Injection(S, T)
  BY RankOrder DEF Injection, IsInjective
<1>2. IsFiniteSet(T) /\ Cardinality(T) = Cardinality(S)
  <2>1. Cardinality(S) \in Nat
    BY FS_CardinalityType
  <2>2. \A n \in Int : /\ IsFiniteSet(0 .. n)
                      /\ Cardinality(0 .. n) = IF 0 > n THEN 0 ELSE n - 0 + 1
    BY FS_Interval
  <2> QED
    BY <2>1, <2>2
<1>3. RankIn(S) \in Surjection(S, T)
  BY <1>1, <1>2, FS_Injection
<1> QED
  BY <1>3 DEF Surjection

----------------------------------------------------------------------------
(***************************************************************************)
(* Sums over finite sets, which the model writes as folds.                 *)
(***************************************************************************)
SumOver(f, S) == MapThenSumSet(LAMBDA i : f[i], S)

\* The element a fold takes next.
Picked(S) == CHOOSE x \in S : TRUE

\* A recursion over the subsets of a set, one element at a time.
IsFold(g, S, op, base, f) ==
  \A T \in SUBSET S :
    /\ T # {} => Picked(T) \in T
    /\ g[T] = IF T = {} THEN base ELSE op[<<f[Picked(T)], g[T \ {Picked(T)}]>>]

\* Such a recursion has a solution on the subsets of a finite set.
LEMMA FoldExists ==
  ASSUME NEW V, NEW op \in [V \X V -> V], NEW base \in V,
         NEW S, IsFiniteSet(S), NEW f, \A x \in S : f[x] \in V
  PROVE  \E g \in [SUBSET S -> V] : IsFold(g, S, op, base, f)
<1>1. \A T \in SUBSET S : T # {} => Picked(T) \in T
  BY DEF Picked
\* h[n] is the fold as it comes out of at most n steps.
<1> DEFINE Steps == [SUBSET S -> V]
           bottom == [T \in SUBSET S |-> base]
           step == [x \in Nat \X Steps |-> [T \in SUBSET S |->
                      IF T = {} THEN base ELSE op[<<f[Picked(T)], x[2][T \ {Picked(T)}]>>]]]
           card == Cardinality(S)
<1>2. card \in Nat
  BY FS_CardinalityType
<1>3. bottom \in Steps /\ step \in [Nat \X Steps -> Steps]
  <2>1. ASSUME NEW n \in Nat, NEW g \in Steps, NEW T \in SUBSET S, T # {}
        PROVE  op[<<f[Picked(T)], g[T \ {Picked(T)}]>>] \in V
    <3>1. Picked(T) \in S /\ T \ {Picked(T)} \in SUBSET S
      BY <1>1, <2>1
    <3> QED
      BY <3>1
  <2>2. ASSUME NEW x \in Nat \X Steps
        PROVE  [T \in SUBSET S |-> IF T = {} THEN base ELSE op[<<f[Picked(T)], x[2][T \ {Picked(T)}]>>]] \in Steps
    <3>1. PICK n \in Nat, g \in Steps : x = <<n, g>>
      OBVIOUS
    <3>2. ASSUME NEW T \in SUBSET S
          PROVE  (IF T = {} THEN base ELSE op[<<f[Picked(T)], g[T \ {Picked(T)}]>>]) \in V
      <4>1. CASE T = {}
        BY <4>1
      <4>2. CASE T # {}
        BY <2>1, <4>2
      <4> QED
        BY <4>1, <4>2
    <3>3. [T \in SUBSET S |-> IF T = {} THEN base ELSE op[<<f[Picked(T)], g[T \ {Picked(T)}]>>]] \in Steps
      BY <3>2
    <3> QED
      BY <3>1, <3>3
  <2>3. step \in [Nat \X Steps -> Steps]
    <3> HIDE DEF Steps
    <3> QED
      BY <2>2
  <2>4. bottom \in Steps
    OBVIOUS
  <2> QED
    BY <2>3, <2>4
<1>4. PICK h \in [0 .. card -> Steps] : Solves(h, card, bottom, step)
  <2> HIDE DEF Steps, bottom, step, card
  <2> QED
    BY <1>2, <1>3, RecursionExists
<1>5. h[0] = bottom /\ \A n \in 1 .. card : \A T \in SUBSET S :
        h[n][T] = IF T = {} THEN base ELSE op[<<f[Picked(T)], h[n-1][T \ {Picked(T)}]>>]
  <2>1. h[0] = bottom /\ \A n \in 1 .. card : h[n] = step[<<n, h[n-1]>>]
    BY <1>4 DEF Solves
  <2>2. ASSUME NEW n \in 1 .. card
        PROVE  h[n] = [T \in SUBSET S |-> IF T = {} THEN base ELSE op[<<f[Picked(T)], h[n-1][T \ {Picked(T)}]>>]]
    <3>1. n \in Nat /\ n-1 \in 0 .. card
      BY <1>2
    <3>2. h[n-1] \in Steps
      BY <1>4, <3>1
    <3>3. <<n, h[n-1]>> \in Nat \X Steps
      BY <3>1, <3>2
    <3> HIDE DEF Steps, bottom, card
    <3> QED
      BY <2>1, <3>3
  <2>3. ASSUME NEW n \in 1 .. card, NEW T \in SUBSET S
        PROVE  h[n][T] = IF T = {} THEN base ELSE op[<<f[Picked(T)], h[n-1][T \ {Picked(T)}]>>]
    BY <2>2
  <2> QED
    BY <2>1, <2>3
<1> DEFINE g == [T \in SUBSET S |-> h[Cardinality(T)][T]]
<1>6. \A T \in SUBSET S : Cardinality(T) \in 0 .. card
  BY <1>2, FS_Subset, FS_CardinalityType
<1>7. ASSUME NEW T \in SUBSET S
      PROVE  g[T] = IF T = {} THEN base ELSE op[<<f[Picked(T)], g[T \ {Picked(T)}]>>]
  <2>1. CASE T = {}
    <3>1. Cardinality(T) = 0
      BY <2>1, FS_EmptySet
    <3> QED
      BY <1>5, <2>1, <3>1
  <2>2. CASE T # {}
    <3> DEFINE R == T \ {Picked(T)}
    <3>1. IsFiniteSet(T) /\ Picked(T) \in T /\ R \in SUBSET S
      BY <1>1, <2>2, FS_Subset
    <3>2. Cardinality(R) = Cardinality(T) - 1
      BY <3>1, FS_RemoveElement
    <3>3. Cardinality(T) \in 1 .. card
      <4>1. Cardinality(T) \in 0 .. card /\ Cardinality(R) \in 0 .. card
        BY <1>6, <3>1
      <4> QED
        BY <1>2, <3>2, <4>1
    <3>4. g[T] = h[Cardinality(T)][T] /\ g[R] = h[Cardinality(T)-1][R]
      BY <3>1, <3>2
    <3> HIDE DEF g
    <3> QED
      BY <1>5, <2>2, <3>3, <3>4
  <2> QED
    BY <2>1, <2>2
<1>8. g \in [SUBSET S -> V]
  <2>1. ASSUME NEW T \in SUBSET S PROVE h[Cardinality(T)][T] \in V
    <3>1. h[Cardinality(T)] \in Steps
      BY <1>4, <1>6
    <3> QED
      BY <3>1
  <2> QED
    BY <2>1
<1> HIDE DEF g
<1> QED
  BY <1>1, <1>7, <1>8 DEF IsFold

\* The recursion a sum is defined by has a solution on the subsets of a finite set, and
\* the sum is its last value.
LEMMA SumRecursion ==
  ASSUME NEW S, IsFiniteSet(S), NEW f, \A x \in S : f[x] \in Int
  PROVE  \E sum \in [SUBSET S -> Int] :
           /\ sum[{}] = 0
           /\ \A T \in SUBSET S : T # {} =>
                Picked(T) \in T /\ sum[T] = f[Picked(T)] + sum[T \ {Picked(T)}]
           /\ SumOver(f, S) = sum[S]
<1> DEFINE Eq(sum) == sum = [T \in SUBSET S |->
                        IF T = {} THEN 0 ELSE f[Picked(T)] + sum[T \ {Picked(T)}]]
           sum == CHOOSE sum : Eq(sum)
<1>1. SumOver(f, S) = sum[S]
  BY DEF SumOver, MapThenSumSet, MapThenFoldSet, Picked
<1>2. PICK g \in [SUBSET S -> Int] : \A T \in SUBSET S :
        /\ T # {} => Picked(T) \in T
        /\ g[T] = IF T = {} THEN 0 ELSE f[Picked(T)] + g[T \ {Picked(T)}]
  <2> DEFINE op == [x \in Int \X Int |-> x[1] + x[2]]
  <2>1. op \in [Int \X Int -> Int] /\ 0 \in Int
    OBVIOUS
  <2>2. \A m, n \in Int : op[<<m, n>>] = m + n
    OBVIOUS
  <2> HIDE DEF op
  <2>3. PICK g \in [SUBSET S -> Int] : IsFold(g, S, op, 0, f)
    BY <2>1, FoldExists
  <2>4. ASSUME NEW T \in SUBSET S
        PROVE  g[T] = IF T = {} THEN 0 ELSE f[Picked(T)] + g[T \ {Picked(T)}]
    <3>1. CASE T = {}
      BY <2>3, <3>1 DEF IsFold
    <3>2. CASE T # {}
      <4>1. Picked(T) \in S /\ T \ {Picked(T)} \in SUBSET S
        BY <2>3, <3>2 DEF IsFold
      <4>2. f[Picked(T)] \in Int /\ g[T \ {Picked(T)}] \in Int
        BY <4>1
      <4>3. g[T] = op[<<f[Picked(T)], g[T \ {Picked(T)}]>>]
        BY <2>3, <3>2 DEF IsFold
      <4> QED
        BY <2>2, <3>2, <4>2, <4>3
    <3> QED
      BY <3>1, <3>2
  <2> QED
    BY <2>3, <2>4 DEF IsFold
<1>3. \A T \in SUBSET S : IsFiniteSet(T) /\ Cardinality(T) \in Nat
  BY FS_Subset, FS_CardinalityType
<1>4. Eq(g)
  <2> DEFINE g2 == [T \in SUBSET S |-> IF T = {} THEN 0 ELSE f[Picked(T)] + g[T \ {Picked(T)}]]
  <2>1. g2 = [T \in SUBSET S |-> g2[T]] /\ g = [T \in SUBSET S |-> g[T]]
    OBVIOUS
  <2>2. \A T \in SUBSET S : g2[T] = g[T]
    BY <1>2
  <2>3. g = g2
    <3> HIDE DEF g2
    <3> QED
      BY <2>1, <2>2
  <2> QED
    BY <2>3
<1>5. Eq(sum)
  <2> HIDE DEF Eq
  <2> QED
    BY <1>4
<1> HIDE DEF sum
<1>6. sum[{}] = 0 /\ \A T \in SUBSET S : T # {} => sum[T] = f[Picked(T)] + sum[T \ {Picked(T)}]
  <2>1. {} \in SUBSET S
    OBVIOUS
  <2> QED
    BY <1>5, <2>1
<1> DEFINE N == {n \in Nat : \A T \in SUBSET S : Cardinality(T) = n => sum[T] \in Int}
<1>7. 0 \in N
  BY <1>3, <1>6, FS_EmptySet, FS_Subset
<1>8. ASSUME NEW n \in Nat, n \in N PROVE n+1 \in N
  <2> SUFFICES ASSUME NEW T \in SUBSET S, Cardinality(T) = n+1 PROVE sum[T] \in Int
    OBVIOUS
  <2>1. IsFiniteSet(T) /\ T # {}
    BY FS_Subset, FS_EmptySet
  <2>2. Picked(T) \in T /\ T \ {Picked(T)} \in SUBSET S /\ Cardinality(T \ {Picked(T)}) = n
    <3>1. Picked(T) \in T /\ T \ {Picked(T)} \in SUBSET S
      BY <1>2, <2>1
    <3>2. Cardinality(T \ {Picked(T)}) = Cardinality(T) - 1
      BY <2>1, <3>1, FS_RemoveElement
    <3> QED
      BY <3>1, <3>2
  <2>3. sum[T \ {Picked(T)}] \in Int /\ f[Picked(T)] \in Int
    BY <1>8, <2>2
  <2> QED
    <3>1. sum[T] = f[Picked(T)] + sum[T \ {Picked(T)}]
      BY <1>6, <2>1
    <3> QED
      BY <2>3, <3>1
<1>9. Nat \subseteq N
  <2> HIDE DEF N
  <2> QED
    BY <1>7, <1>8, SetInduction
<1>10. sum \in [SUBSET S -> Int]
  <2>1. \A T \in SUBSET S : sum[T] \in Int
    BY <1>3, <1>9
  <2>2. sum = [T \in SUBSET S |-> IF T = {} THEN 0 ELSE f[Picked(T)] + sum[T \ {Picked(T)}]]
    BY <1>5
  <2> QED
    BY <2>1, <2>2
<1> QED
  BY <1>1, <1>2, <1>6, <1>10

\* Folds with the same step agree on every subset.
LEMMA FoldUnique ==
  ASSUME NEW S, IsFiniteSet(S), NEW R, S \subseteq R, NEW op, NEW base, NEW f,
         NEW g, NEW h, IsFold(g, S, op, base, f), IsFold(h, R, op, base, f)
  PROVE  g[S] = h[S]
<1> DEFINE C == {n \in Nat : \A T \in SUBSET S : Cardinality(T) = n => g[T] = h[T]}
<1>1. \A T \in SUBSET S : T \in SUBSET R /\ IsFiniteSet(T) /\ Cardinality(T) \in Nat
  BY FS_Subset, FS_CardinalityType
<1>2. 0 \in C
  <2>1. \A T \in SUBSET S : Cardinality(T) = 0 => T = {}
    BY <1>1, FS_EmptySet
  <2>2. {} \in SUBSET S /\ {} \in SUBSET R
    OBVIOUS
  <2>3. g[{}] = base /\ h[{}] = base
    BY <2>2 DEF IsFold
  <2> QED
    BY <2>1, <2>3
<1>3. ASSUME NEW n \in Nat, n \in C PROVE n+1 \in C
  <2> SUFFICES ASSUME NEW T \in SUBSET S, Cardinality(T) = n+1 PROVE g[T] = h[T]
    OBVIOUS
  <2>1. IsFiniteSet(T) /\ T # {} /\ T \in SUBSET R
    BY <1>1, FS_EmptySet
  <2> DEFINE x == Picked(T)
  <2>2. /\ x \in T /\ g[T] = op[<<f[x], g[T \ {x}]>>]
        /\ h[T] = op[<<f[x], h[T \ {x}]>>]
    BY <2>1 DEF IsFold
  <2> HIDE DEF x
  <2>3. T \ {x} \in SUBSET S /\ Cardinality(T \ {x}) = n
    <3>1. Cardinality(T \ {x}) = Cardinality(T) - 1
      BY <2>1, <2>2, FS_RemoveElement
    <3> QED
      BY <3>1
  <2>4. g[T \ {x}] = h[T \ {x}]
    BY <1>3, <2>3
  <2> QED
    BY <2>2, <2>4
<1>4. Nat \subseteq C
  <2> HIDE DEF C
  <2> QED
    BY <1>2, <1>3, SetInduction
<1> QED
  BY <1>1, <1>4

\* Products over finite sets, which the model writes as folds.
Positive == Nat \ {0}

Times == [x \in Positive \X Positive |-> x[1] * x[2]]

LEMMA TimesFacts ==
  /\ Times \in [Positive \X Positive -> Positive]
  /\ \A m, n \in Positive : m * n \in Positive /\ Times[<<m, n>>] = m * n
<1>1. \A m, n \in Positive : m * n \in Positive
  BY DEF Positive
<1> QED
  BY <1>1 DEF Times

\* The recursion a product is defined by has a solution, and it is its last value.
LEMMA ProductFold ==
  ASSUME NEW S, IsFiniteSet(S), NEW f, \A x \in S : f[x] \in Positive
  PROVE  \E g \in [SUBSET S -> Positive] :
           IsFold(g, S, Times, 1, f) /\ ProductOver(f, S) = g[S]
<1> DEFINE Eq(g) == g = [T \in SUBSET S |->
                      IF T = {} THEN 1 ELSE f[Picked(T)] * g[T \ {Picked(T)}]]
           prod == CHOOSE g : Eq(g)
<1>1. ProductOver(f, S) = prod[S]
  BY DEF ProductOver, FoldFunctionOnSet, MapThenFoldSet, Picked
<1>2. PICK g \in [SUBSET S -> Positive] : IsFold(g, S, Times, 1, f)
  <2>1. 1 \in Positive
    BY DEF Positive
  <2> QED
    BY <2>1, TimesFacts, FoldExists
<1>3. \A T \in SUBSET S : g[T] = IF T = {} THEN 1 ELSE f[Picked(T)] * g[T \ {Picked(T)}]
  <2> TAKE T \in SUBSET S
  <2>1. CASE T = {}
    BY <1>2, <2>1 DEF IsFold
  <2>2. CASE T # {}
    <3>1. Picked(T) \in S /\ T \ {Picked(T)} \in SUBSET S
      BY <1>2, <2>2 DEF IsFold
    <3>2. f[Picked(T)] \in Positive /\ g[T \ {Picked(T)}] \in Positive
      BY <3>1
    <3>3. g[T] = Times[<<f[Picked(T)], g[T \ {Picked(T)}]>>]
      BY <1>2, <2>2 DEF IsFold
    <3> QED
      BY <2>2, <3>2, <3>3, TimesFacts
  <2> QED
    BY <2>1, <2>2
<1>4. Eq(g)
  <2> DEFINE g2 == [T \in SUBSET S |-> IF T = {} THEN 1 ELSE f[Picked(T)] * g[T \ {Picked(T)}]]
  <2>1. g2 = [T \in SUBSET S |-> g2[T]] /\ g = [T \in SUBSET S |-> g[T]]
    OBVIOUS
  <2>2. \A T \in SUBSET S : g2[T] = g[T]
    BY <1>3
  <2>3. g = g2
    <3> HIDE DEF g2
    <3> QED
      BY <2>1, <2>2
  <2> QED
    BY <2>3
<1>5. Eq(prod)
  <2> HIDE DEF Eq
  <2> QED
    BY <1>4
<1> HIDE DEF prod
<1>6. \A T \in SUBSET S : T # {} => Picked(T) \in T
  BY <1>2 DEF IsFold
<1>7. \A T \in SUBSET S : prod[T] = IF T = {} THEN 1 ELSE f[Picked(T)] * prod[T \ {Picked(T)}]
  BY <1>5
<1> DEFINE C == {n \in Nat : \A T \in SUBSET S : Cardinality(T) = n => prod[T] = g[T]}
<1>8. \A T \in SUBSET S : IsFiniteSet(T) /\ Cardinality(T) \in Nat
  BY FS_Subset, FS_CardinalityType
<1>9. 0 \in C
  <2>1. \A T \in SUBSET S : Cardinality(T) = 0 => T = {}
    BY <1>8, FS_EmptySet
  <2>2. prod[{}] = 1 /\ g[{}] = 1
    BY <1>3, <1>7
  <2> QED
    BY <2>1, <2>2
<1>10. ASSUME NEW n \in Nat, n \in C PROVE n+1 \in C
  <2> SUFFICES ASSUME NEW T \in SUBSET S, Cardinality(T) = n+1 PROVE prod[T] = g[T]
    OBVIOUS
  <2>1. IsFiniteSet(T) /\ T # {}
    BY FS_Subset, FS_EmptySet
  <2>2. Picked(T) \in T /\ T \ {Picked(T)} \in SUBSET S
    BY <1>6, <2>1
  <2>3. Cardinality(T \ {Picked(T)}) = n
    <3>1. Cardinality(T \ {Picked(T)}) = Cardinality(T) - 1
      BY <2>1, <2>2, FS_RemoveElement
    <3> QED
      BY <3>1
  <2>4. prod[T \ {Picked(T)}] = g[T \ {Picked(T)}]
    BY <1>10, <2>2, <2>3
  <2> QED
    BY <1>3, <1>7, <2>1, <2>4
<1>11. Nat \subseteq C
  <2> HIDE DEF C
  <2> QED
    BY <1>9, <1>10, SetInduction
<1>12. prod[S] = g[S]
  BY <1>8, <1>11
<1> QED
  BY <1>1, <1>2, <1>12

\* A product of positive numbers is positive.
LEMMA ProductPositive ==
  ASSUME NEW S, IsFiniteSet(S), NEW f, \A x \in S : f[x] \in Nat \ {0}
  PROVE  ProductOver(f, S) \in Nat \ {0}
<1>1. PICK g \in [SUBSET S -> Positive] :
        IsFold(g, S, Times, 1, f) /\ ProductOver(f, S) = g[S]
  BY ProductFold DEF Positive
<1> QED
  BY <1>1 DEF Positive

\* A fold of products may be taken in any order.
LEMMA FoldRemove ==
  ASSUME NEW S, IsFiniteSet(S), NEW f, \A x \in S : f[x] \in Positive,
         NEW g \in [SUBSET S -> Positive], IsFold(g, S, Times, 1, f),
         NEW T0 \in SUBSET S, NEW x0 \in T0
  PROVE  g[T0] = f[x0] * g[T0 \ {x0}]
<1> DEFINE C == {n \in Nat : \A T \in SUBSET S : Cardinality(T) = n =>
                   \A x \in T : g[T] = f[x] * g[T \ {x}]}
<1>1. \A T \in SUBSET S : IsFiniteSet(T) /\ Cardinality(T) \in Nat /\ g[T] \in Positive
  BY FS_Subset, FS_CardinalityType
<1>2. 0 \in C
  BY <1>1, FS_EmptySet
<1>3. ASSUME NEW n \in Nat, n \in C PROVE n+1 \in C
  <2> SUFFICES ASSUME NEW T \in SUBSET S, Cardinality(T) = n+1, NEW x \in T
               PROVE  g[T] = f[x] * g[T \ {x}]
    OBVIOUS
  <2> DEFINE y == Picked(T)
             Tx == T \ {x}
             Ty == T \ {y}
             Txy == Tx \ {y}
  <2>1. y \in T /\ g[T] = f[y] * g[Ty]
    <3>1. T # {}
      OBVIOUS
    <3>2. y \in T /\ g[T] = Times[<<f[y], g[Ty]>>]
      BY <3>1 DEF IsFold
    <3>3. f[y] \in Positive /\ g[Ty] \in Positive
      BY <3>2
    <3> QED
      BY <3>2, <3>3, TimesFacts
  <2>2. CASE x = y
    BY <2>1, <2>2
  <2>3. CASE x # y
    <3> HIDE DEF y
    <3>1. IsFiniteSet(T)
      BY <1>1
    <3>2. Cardinality(Ty) = n /\ Cardinality(Tx) = n
      <4>1. Cardinality(Ty) = Cardinality(T) - 1
        BY <2>1, <3>1, FS_RemoveElement
      <4>2. Cardinality(Tx) = Cardinality(T) - 1
        BY <3>1, FS_RemoveElement
      <4> QED
        BY <4>1, <4>2
    <3>3. Tx \in SUBSET S /\ Ty \in SUBSET S /\ Txy \in SUBSET S /\ x \in Ty /\ y \in Tx
          /\ Ty \ {x} = Txy /\ f[x] \in Positive /\ f[y] \in Positive
      BY <2>1, <2>3
    <3> HIDE DEF Tx, Ty, Txy
    <3>4. g[Ty] = f[x] * g[Txy]
      BY <1>3, <3>2, <3>3
    <3>5. g[Tx] = f[y] * g[Txy]
      BY <1>3, <3>2, <3>3 DEF Txy
    <3>6. g[Txy] \in Positive
      BY <3>3
    <3>7. f[y] * (f[x] * g[Txy]) = f[x] * (f[y] * g[Txy])
      BY <3>3, <3>6 DEF Positive
    <3> QED
      BY <2>1, <3>4, <3>5, <3>7 DEF Tx
  <2> QED
    BY <2>2, <2>3
<1>4. Nat \subseteq C
  <2> HIDE DEF C
  <2> QED
    BY <1>2, <1>3, SetInduction
<1>5. Cardinality(T0) \in C
  BY <1>1, <1>4
<1> QED
  BY <1>5

\* The product over no elements, and the step to a product with one element less.
LEMMA ProductRemove ==
  ASSUME NEW S, IsFiniteSet(S), NEW f, \A x \in S : f[x] \in Nat \ {0}
  PROVE  /\ ProductOver(f, {}) = 1
         /\ \A x \in S : ProductOver(f, S) = f[x] * ProductOver(f, S \ {x})
<1>0. \A x \in S : f[x] \in Positive
  BY DEF Positive
<1>1. ProductOver(f, {}) = 1
  <2>1. IsFiniteSet({}) /\ \A x \in {} : f[x] \in Positive
    BY FS_EmptySet
  <2>2. PICK g \in [SUBSET {} -> Positive] :
          IsFold(g, {}, Times, 1, f) /\ ProductOver(f, {}) = g[{}]
    BY <2>1, ProductFold
  <2>3. {} \in SUBSET {}
    OBVIOUS
  <2> QED
    BY <2>2, <2>3 DEF IsFold
<1>2. ASSUME NEW x \in S PROVE ProductOver(f, S) = f[x] * ProductOver(f, S \ {x})
  <2> DEFINE R == S \ {x}
  <2>1. PICK g \in [SUBSET S -> Positive] :
          IsFold(g, S, Times, 1, f) /\ ProductOver(f, S) = g[S]
    BY <1>0, ProductFold
  <2>2. IsFiniteSet(R) /\ R \subseteq S
    BY FS_Subset
  <2>3. g[S] = f[x] * g[R]
    BY <1>0, <2>1, FoldRemove
  <2> HIDE DEF R
  <2>4. PICK h \in [SUBSET R -> Positive] :
          IsFold(h, R, Times, 1, f) /\ ProductOver(f, R) = h[R]
    BY <1>0, <2>2, ProductFold
  <2>5. h[R] = g[R]
    BY <2>1, <2>2, <2>4, FoldUnique
  <2> QED
    BY <2>1, <2>3, <2>4, <2>5 DEF R
<1> QED
  BY <1>1, <1>2

\* The product of the extents is the number of cells.
LEMMA ProductIsVolume ==
  ASSUME NEW n \in Nat, NEW d \in [0 .. n-1 -> Nat \ {0}]
  PROVE  ProductOver(d, 0 .. n-1) = Volume(d, n)
<1> DEFINE T == {i \in Nat : i <= n => ProductOver(d, 0 .. i-1) = Volume(d, i)}
<1>0. d \in [0 .. n-1 -> Nat]
  OBVIOUS
<1>1. 0 \in T
  <2>1. 0 .. 0-1 = {}
    OBVIOUS
  <2>2. ProductOver(d, {}) = 1
    BY FS_EmptySet, ProductRemove
  <2>3. Volume(d, 0) = 1
    BY <1>0, VolumeStep
  <2> QED
    BY <2>1, <2>2, <2>3
<1>2. ASSUME NEW i \in Nat, i \in T PROVE i+1 \in T
  <2> SUFFICES ASSUME i+1 <= n PROVE ProductOver(d, 0 .. (i+1)-1) = Volume(d, i+1)
    OBVIOUS
  <2>1. ProductOver(d, 0 .. i-1) = Volume(d, i)
    BY <1>2
  <2>2. i \in 0 .. n-1 /\ 0 .. (i+1)-1 = 0 .. i /\ (0 .. i) \ {i} = 0 .. i-1
    OBVIOUS
  <2>3. Volume(d, i+1) = Volume(d, i) * d[i] /\ Volume(d, i) \in Nat
    <3>1. \A k \in 0 .. n-1 : Volume(d, k+1) = Volume(d, k) * d[k]
      BY <1>0, VolumeStep
    <3>2. \A k \in 0 .. n : Volume(d, k) \in Nat
      BY <1>0, VolumeStep
    <3> QED
      BY <2>2, <3>1, <3>2
  <2>4. IsFiniteSet(0 .. i) /\ i \in 0 .. i /\ \A x \in 0 .. i : d[x] \in Nat \ {0}
    <3>1. \A m, k \in Int : IsFiniteSet(m .. k)
      BY FS_Interval
    <3> QED
      BY <3>1
  <2>5. ProductOver(d, 0 .. i) = d[i] * ProductOver(d, (0 .. i) \ {i})
    <3> DEFINE S == 0 .. i
    <3> HIDE DEF S
    <3>1. IsFiniteSet(S) /\ i \in S /\ \A x \in S : d[x] \in Nat \ {0}
      BY <2>4 DEF S
    <3>2. ProductOver(d, S) = d[i] * ProductOver(d, S \ {i})
      BY <3>1, ProductRemove
    <3> QED
      BY <3>2 DEF S
  <2>6. d[i] * Volume(d, i) = Volume(d, i) * d[i]
    BY <2>2, <2>3
  <2> QED
    BY <2>1, <2>2, <2>3, <2>5, <2>6
<1> HIDE DEF T
<1>3. Nat \subseteq T
  BY <1>1, <1>2, SetInduction
<1> QED
  BY <1>3 DEF T

\* The sum over no elements, the type of a sum, and the step to a sum with one element
\* less, which the fold picks.
LEMMA SumByPicking ==
  ASSUME NEW S, IsFiniteSet(S), NEW f, \A x \in S : f[x] \in Int
  PROVE  /\ SumOver(f, {}) = 0
         /\ SumOver(f, S) \in Int
         /\ S # {} => \E x \in S : SumOver(f, S) = f[x] + SumOver(f, S \ {x})
<1> DEFINE Adds(sum, T) ==
             /\ sum[{}] = 0
             /\ \A U \in SUBSET T : U # {} =>
                  Picked(U) \in U /\ sum[U] = f[Picked(U)] + sum[U \ {Picked(U)}]
             /\ SumOver(f, T) = sum[T]
<1>1. \A T \in SUBSET S : \E sum \in [SUBSET T -> Int] : Adds(sum, T)
  <2> TAKE T \in SUBSET S
  <2>1. IsFiniteSet(T) /\ \A x \in T : f[x] \in Int
    BY FS_Subset
  <2> QED
    BY <2>1, SumRecursion
<1>2. SumOver(f, {}) = 0
  BY <1>1
<1>3. SumOver(f, S) \in Int
  <2>1. S \in SUBSET S
    OBVIOUS
  <2>2. PICK sum \in [SUBSET S -> Int] : Adds(sum, S)
    <3> HIDE DEF Adds
    <3> QED
      BY <1>1, <2>1
  <2> QED
    BY <2>1, <2>2
<1>4. ASSUME S # {} PROVE \E x \in S : SumOver(f, S) = f[x] + SumOver(f, S \ {x})
  <2> DEFINE R == S \ {Picked(S)}
  <2>1. PICK sum \in [SUBSET S -> Int] : Adds(sum, S)
    BY <1>1
  <2>2. PICK rest \in [SUBSET R -> Int] : Adds(rest, R)
    BY <1>1
  <2>3. /\ Picked(S) \in S /\ SumOver(f, S) = f[Picked(S)] + sum[R]
        /\ SumOver(f, R) = rest[R]
    BY <1>4, <2>1, <2>2
  <2> DEFINE N == {n \in Nat : \A U \in SUBSET R : Cardinality(U) = n => sum[U] = rest[U]}
  <2>4. R \in SUBSET S /\ IsFiniteSet(R)
    BY FS_Subset
  <2> HIDE DEF R
  <2>5. \A U \in SUBSET R : U \in SUBSET S /\ IsFiniteSet(U) /\ Cardinality(U) \in Nat
    BY <2>4, FS_Subset, FS_CardinalityType
  <2>6. 0 \in N
    <3> SUFFICES ASSUME NEW U \in SUBSET R, Cardinality(U) = 0 PROVE sum[U] = rest[U]
      OBVIOUS
    <3>1. U = {}
      BY <2>5, FS_EmptySet
    <3> QED
      BY <2>1, <2>2, <3>1
  <2>7. ASSUME NEW n \in Nat, n \in N PROVE n+1 \in N
    <3> SUFFICES ASSUME NEW U \in SUBSET R, Cardinality(U) = n+1 PROVE sum[U] = rest[U]
      OBVIOUS
    <3>1. U # {} /\ IsFiniteSet(U)
      BY <2>5, FS_EmptySet
    <3>2. /\ Picked(U) \in U /\ sum[U] = f[Picked(U)] + sum[U \ {Picked(U)}]
          /\ rest[U] = f[Picked(U)] + rest[U \ {Picked(U)}]
      BY <2>1, <2>2, <2>5, <3>1
    <3>3. Cardinality(U \ {Picked(U)}) = n
      <4>1. \A x \in U : Cardinality(U \ {x}) = Cardinality(U) - 1
        BY <3>1, FS_RemoveElement
      <4> QED
        BY <3>2, <4>1
    <3>4. sum[U \ {Picked(U)}] = rest[U \ {Picked(U)}]
      BY <2>7, <3>3
    <3> QED
      BY <3>2, <3>4
  <2>8. Nat \subseteq N
    <3> HIDE DEF N
    <3> QED
      BY <2>6, <2>7, SetInduction
  <2>9. sum[R] = rest[R]
    BY <2>4, <2>5, <2>8
  <2> QED
    BY <2>3, <2>9 DEF R
<1> QED
  BY <1>2, <1>3, <1>4

\* A sum may be taken in any order.
LEMMA SumRemove ==
  ASSUME NEW S, IsFiniteSet(S), NEW f, \A x \in S : f[x] \in Int, NEW y \in S
  PROVE  SumOver(f, S) = f[y] + SumOver(f, S \ {y})
<1> DEFINE N == {n \in Nat : \A T \in SUBSET S : Cardinality(T) = n =>
                   \A x \in T : SumOver(f, T) = f[x] + SumOver(f, T \ {x})}
<1>1. \A T \in SUBSET S : IsFiniteSet(T) /\ Cardinality(T) \in Nat /\ SumOver(f, T) \in Int
  <2> TAKE T \in SUBSET S
  <2>1. IsFiniteSet(T) /\ \A x \in T : f[x] \in Int
    BY FS_Subset
  <2> QED
    BY <2>1, FS_CardinalityType, SumByPicking
<1>2. 0 \in N
  BY <1>1, FS_EmptySet
<1>3. ASSUME NEW n \in Nat, n \in N PROVE n+1 \in N
  <2> SUFFICES ASSUME NEW T \in SUBSET S, Cardinality(T) = n+1, NEW x \in T
               PROVE  SumOver(f, T) = f[x] + SumOver(f, T \ {x})
    OBVIOUS
  <2>1. PICK p \in T : SumOver(f, T) = f[p] + SumOver(f, T \ {p})
    <3>1. IsFiniteSet(T) /\ T # {} /\ \A z \in T : f[z] \in Int
      BY <1>1
    <3> QED
      BY <3>1, SumByPicking
  <2>2. CASE p = x
    BY <2>1, <2>2
  <2>3. CASE p # x
    <3>1. /\ T \ {p} \in SUBSET S /\ T \ {x} \in SUBSET S
          /\ x \in T \ {p} /\ p \in T \ {x} /\ (T \ {p}) \ {x} = (T \ {x}) \ {p}
      BY <2>3
    <3>2. /\ Cardinality(T \ {p}) = Cardinality(T) - 1
          /\ Cardinality(T \ {x}) = Cardinality(T) - 1
      BY <1>1, FS_RemoveElement
    <3>3. Cardinality(T \ {p}) = n /\ Cardinality(T \ {x}) = n
      BY <3>2
    <3>4. SumOver(f, T \ {p}) = f[x] + SumOver(f, (T \ {p}) \ {x})
      BY <1>3, <3>1, <3>3
    <3>5. SumOver(f, T \ {x}) = f[p] + SumOver(f, (T \ {p}) \ {x})
      BY <1>3, <3>1, <3>3
    <3>6. /\ f[x] \in Int /\ f[p] \in Int
          /\ SumOver(f, (T \ {p}) \ {x}) \in Int
      BY <1>1
    <3> QED
      BY <2>1, <3>4, <3>5, <3>6
  <2> QED
    BY <2>2, <2>3
<1>4. Nat \subseteq N
  <2> HIDE DEF N
  <2> QED
    BY <1>2, <1>3, SetInduction
<1>5. S \in SUBSET S /\ Cardinality(S) \in N
  BY <1>1, <1>4
<1> QED
  BY <1>5

\* A sum depends on the values at the elements summed over, and on nothing else.
LEMMA SumCongruence ==
  ASSUME NEW S, IsFiniteSet(S), NEW f, NEW g, \A x \in S : f[x] \in Int /\ f[x] = g[x]
  PROVE  SumOver(f, S) = SumOver(g, S)
<1> DEFINE N == {n \in Nat : \A T \in SUBSET S : Cardinality(T) = n => SumOver(f, T) = SumOver(g, T)}
<1>1. \A T \in SUBSET S : /\ IsFiniteSet(T) /\ Cardinality(T) \in Nat
                          /\ \A x \in T : f[x] \in Int /\ g[x] \in Int /\ f[x] = g[x]
  BY FS_Subset, FS_CardinalityType
<1>2. 0 \in N
  BY <1>1, FS_EmptySet, SumByPicking
<1>3. ASSUME NEW n \in Nat, n \in N PROVE n+1 \in N
  <2> SUFFICES ASSUME NEW T \in SUBSET S, Cardinality(T) = n+1
               PROVE  SumOver(f, T) = SumOver(g, T)
    OBVIOUS
  <2>1. IsFiniteSet(T) /\ \E x \in T : TRUE
    BY <1>1, FS_EmptySet
  <2>2. PICK x \in T : TRUE
    BY <2>1
  <2>3. T \ {x} \in SUBSET S /\ Cardinality(T \ {x}) = Cardinality(T) - 1
    BY <2>1, FS_RemoveElement
  <2>4. Cardinality(T \ {x}) = n
    BY <2>3
  <2>5. SumOver(f, T \ {x}) = SumOver(g, T \ {x})
    BY <1>3, <2>3, <2>4
  <2>6. SumOver(f, T) = f[x] + SumOver(f, T \ {x})
    BY <1>1, <2>1, SumRemove
  <2>7. SumOver(g, T) = g[x] + SumOver(g, T \ {x})
    BY <1>1, <2>1, SumRemove
  <2> QED
    BY <1>1, <2>5, <2>6, <2>7
<1>4. Nat \subseteq N
  <2> HIDE DEF N
  <2> QED
    BY <1>2, <1>3, SetInduction
<1>5. S \in SUBSET S /\ Cardinality(S) \in N
  BY <1>1, <1>4
<1> QED
  BY <1>5

\* One more term at the end of a range.
LEMMA SumOfRange ==
  ASSUME NEW n \in Nat, NEW f, \A i \in 0 .. n : f[i] \in Int
  PROVE  SumOver(f, 0 .. n) = SumOver(f, 0 .. n-1) + f[n]
<1>1. IsFiniteSet(0 .. n) /\ n \in 0 .. n
  BY FS_Interval
<1>2. (0 .. n) \ {n} = 0 .. n-1
  OBVIOUS
<1>3. SumOver(f, 0 .. n) = f[n] + SumOver(f, (0 .. n) \ {n})
  BY <1>1, SumRemove
<1>4. IsFiniteSet(0 .. n-1) /\ \A i \in 0 .. n-1 : f[i] \in Int
  BY FS_Interval
<1>5. SumOver(f, 0 .. n-1) \in Int
  BY <1>4, SumByPicking
<1>6. f[n] \in Int /\ SumOver(f, 0 .. n) = f[n] + SumOver(f, 0 .. n-1)
  BY <1>1, <1>2, <1>3
<1> QED
  BY <1>5, <1>6

----------------------------------------------------------------------------
(***************************************************************************)
(* Ranks of a grid: RowMajorRank numbers the cells, each once.             *)
(***************************************************************************)
\* f holds the values that the loop of RowMajorRank takes on for the first n dimensions.
RankLoop(f, c, d, n) ==
  /\ f \in [1 .. n -> Nat] /\ f[1] = c[0]
  /\ \A i \in 2 .. n : f[i] = f[i-1] * d[i-1] + c[i-1]
  /\ RowMajorRank(c, d, n) = f[n]

\* The recursion that RowMajorRank is defined by has a solution, and it is its last value.
LEMMA RankRecursion ==
  ASSUME NEW n \in Nat \ {0}, NEW D, 0 .. n-1 \subseteq D, NEW d \in [D -> Nat],
         NEW c \in [D -> Nat]
  PROVE  \E f : RankLoop(f, c, d, n)
<1> DEFINE step == [x \in Nat \X Nat |-> IF x[1] \in 1 .. n-1 THEN x[2] * d[x[1]] + c[x[1]] ELSE 0]
           IsRank(f) == f = [i \in 1 .. n |-> IF i = 1 THEN c[0] ELSE f[i-1] * d[i-1] + c[i-1]]
<1>0. 0 \in D /\ c[0] \in Nat /\ n-1 \in Nat
  OBVIOUS
<1>1. step \in [Nat \X Nat -> Nat]
  <2> SUFFICES ASSUME NEW i \in Nat, NEW y \in Nat
               PROVE  (IF i \in 1 .. n-1 THEN y * d[i] + c[i] ELSE 0) \in Nat
    OBVIOUS
  <2>1. i \in 1 .. n-1 => d[i] \in Nat /\ c[i] \in Nat
    OBVIOUS
  <2> QED
    BY <2>1
<1>2. PICK h \in [0 .. n-1 -> Nat] : Solves(h, n-1, c[0], step)
  <2> HIDE DEF step
  <2> QED
    BY <1>0, <1>1, RecursionExists
<1> DEFINE f == [i \in 1 .. n |-> h[i-1]]
<1>3. ASSUME NEW i \in 2 .. n PROVE f[i] = f[i-1] * d[i-1] + c[i-1]
  <2>1. i-1 \in 1 .. n-1 /\ i-1 \in 1 .. n /\ (i-1)-1 \in 0 .. n-1 /\ i-1 \in Nat
    OBVIOUS
  <2>2. <<i-1, h[(i-1)-1]>> \in Nat \X Nat
    BY <2>1
  <2>3. h[i-1] = step[<<i-1, h[(i-1)-1]>>]
    BY <1>2, <2>1 DEF Solves
  <2>4. step[<<i-1, h[(i-1)-1]>>] = h[(i-1)-1] * d[i-1] + c[i-1]
    BY <2>1, <2>2
  <2> QED
    BY <2>1, <2>3, <2>4
<1>4. IsRank(f)
  <2>1. f[1] = c[0]
    BY <1>2 DEF Solves
  <2>2. f = [i \in 1 .. n |-> f[i]]
    OBVIOUS
  <2>3. \A i \in 1 .. n : i = 1 \/ i \in 2 .. n
    OBVIOUS
  <2> HIDE DEF f
  <2> QED
    BY <1>3, <2>1, <2>2, <2>3
<1> DEFINE g == CHOOSE x : IsRank(x)
<1>5. IsRank(g)
  <2> HIDE DEF IsRank
  <2> QED
    BY <1>4
<1>6. RowMajorRank(c, d, n) = g[n]
  BY DEF RowMajorRank
<1> HIDE DEF g
<1>7. g[1] = c[0] /\ \A i \in 2 .. n : g[i] = g[i-1] * d[i-1] + c[i-1]
  BY <1>5
<1> DEFINE T == {i \in Nat : i+1 <= n => g[i+1] \in Nat}
<1>8. 0 \in T
  BY <1>0, <1>7
<1>9. ASSUME NEW i \in Nat, i \in T PROVE i+1 \in T
  <2> SUFFICES ASSUME (i+1)+1 <= n PROVE g[(i+1)+1] \in Nat
    OBVIOUS
  <2>1. g[i+1] \in Nat /\ (i+1)+1 \in 2 .. n /\ ((i+1)+1)-1 = i+1 /\ i+1 \in D
    BY <1>9
  <2>2. g[(i+1)+1] = g[i+1] * d[i+1] + c[i+1] /\ d[i+1] \in Nat /\ c[i+1] \in Nat
    BY <1>7, <2>1
  <2>3. g[i+1] * d[i+1] + c[i+1] \in Nat
    <3>1. g[i+1] * d[i+1] \in Nat
      BY <2>1, <2>2
    <3> QED
      BY <2>2, <3>1
  <2> QED
    BY <2>2, <2>3
<1> HIDE DEF T
<1>10. Nat \subseteq T
  BY <1>8, <1>9, SetInduction
<1>11. g \in [1 .. n -> Nat]
  <2>1. ASSUME NEW i \in 1 .. n PROVE g[i] \in Nat
    <3>1. i-1 \in T /\ (i-1)+1 = i
      BY <1>10
    <3> QED
      BY <3>1 DEF T
  <2> QED
    BY <1>5, <2>1
<1> QED
  BY <1>6, <1>7, <1>11 DEF RankLoop

\* What the loop computes is the same for every number of dimensions it goes on to.
RankRecurrence(c, d, n) ==
  /\ RowMajorRank(c, d, 1) = c[0]
  /\ \A i \in 1 .. n : RowMajorRank(c, d, i) \in Nat
  /\ \A i \in 1 .. n-1 : RowMajorRank(c, d, i+1) = RowMajorRank(c, d, i) * d[i] + c[i]

LEMMA RankStep ==
  ASSUME NEW n \in Nat \ {0}, NEW d \in [0 .. n-1 -> Nat], NEW c \in [0 .. n-1 -> Nat]
  PROVE  RankRecurrence(c, d, n)
<1>1. ASSUME NEW k \in 1 .. n
      PROVE  \E f : RankLoop(f, c, d, k)
  <2>1. k \in Nat \ {0} /\ 0 .. k-1 \subseteq 0 .. n-1
    OBVIOUS
  <2> DEFINE D == 0 .. n-1
  <2>2. d \in [D -> Nat] /\ c \in [D -> Nat] /\ 0 .. k-1 \subseteq D
    BY <2>1
  <2> HIDE DEF D
  <2> QED
    BY <2>1, <2>2, RankRecursion
<1>2. RowMajorRank(c, d, 1) = c[0]
  <2>0. 1 \in 1 .. n
    OBVIOUS
  <2>1. PICK f : RankLoop(f, c, d, 1)
    BY <1>1, <2>0
  <2> QED
    BY <2>1 DEF RankLoop
<1>3. \A i \in 1 .. n : RowMajorRank(c, d, i) \in Nat
  <2> TAKE i \in 1 .. n
  <2>1. PICK f : RankLoop(f, c, d, i)
    BY <1>1
  <2> QED
    BY <2>1 DEF RankLoop
<1>4. ASSUME NEW i \in 1 .. n-1
      PROVE  RowMajorRank(c, d, i+1) = RowMajorRank(c, d, i) * d[i] + c[i]
  <2>0. i \in Nat /\ i \in 1 .. n /\ i+1 \in 1 .. n
    OBVIOUS
  <2>1. PICK f : RankLoop(f, c, d, i)
    BY <1>1, <2>0
  <2>2. PICK g : RankLoop(g, c, d, i+1)
    BY <1>1, <2>0
  <2> USE DEF RankLoop
  <2> DEFINE T == {k \in Nat : k+1 <= i => f[k+1] = g[k+1]}
  <2>3. 0 \in T
    BY <2>1, <2>2
  <2>4. ASSUME NEW k \in Nat, k \in T PROVE k+1 \in T
    <3> SUFFICES ASSUME (k+1)+1 <= i PROVE f[(k+1)+1] = g[(k+1)+1]
      OBVIOUS
    <3>1. f[k+1] = g[k+1]
      BY <2>4
    <3>2. (k+1)+1 \in 2 .. i /\ (k+1)+1 \in 2 .. i+1 /\ ((k+1)+1)-1 = k+1
      OBVIOUS
    <3> QED
      BY <2>1, <2>2, <3>1, <3>2
  <2>5. Nat \subseteq T
    <3> HIDE DEF T
    <3> QED
      BY <2>3, <2>4, SetInduction
  <2>6. f[i] = g[i]
    <3> DEFINE k == i-1
    <3>1. k \in Nat /\ k+1 = i /\ k+1 <= i
      BY <2>0
    <3> HIDE DEF k
    <3>2. f[k+1] = g[k+1]
      BY <2>5, <3>1
    <3> QED
      BY <3>1, <3>2
  <2>7. i+1 \in 2 .. i+1 /\ (i+1)-1 = i
    OBVIOUS
  <2> QED
    BY <2>1, <2>2, <2>6, <2>7
<1> QED
  BY <1>2, <1>3, <1>4 DEF RankRecurrence

\* Another digit keeps a number below the product.
LEMMA DigitBelow ==
  ASSUME NEW b \in Nat \ {0}, NEW q \in Nat, NEW r \in 0 .. b-1, NEW m \in Nat, q < m
  PROVE  q * b + r \in 0 .. m * b - 1
<1>1. m * b >= (q + 1) * b
  OBVIOUS
<1>2. (q + 1) * b = q * b + b /\ q * b \in Nat /\ m * b \in Nat
  OBVIOUS
<1> QED
  BY <1>1, <1>2

\* A number is determined by its quotient and remainder.
SameNumber(b, q, r, k, s) == q * b + r = k * b + s

LEMMA DigitsUnique ==
  ASSUME NEW b \in Nat \ {0}, NEW q \in Nat, NEW r \in 0 .. b-1,
         NEW k \in Nat, NEW s \in 0 .. b-1, SameNumber(b, q, r, k, s)
  PROVE  q = k /\ r = s
<1>0. q * b \in Nat /\ k * b \in Nat /\ q * b + r = k * b + s
  BY DEF SameNumber
<1>1. CASE q >= k + 1
  <2>1. q * b >= (k + 1) * b /\ (k + 1) * b = k * b + b
    BY <1>1
  <2> QED
    BY <1>0, <2>1
<1>2. CASE k >= q + 1
  <2>1. k * b >= (q + 1) * b /\ (q + 1) * b = q * b + b
    BY <1>2
  <2> QED
    BY <1>0, <2>1
<1>3. CASE q = k
  BY <1>0, <1>3
<1> QED
  BY <1>1, <1>2, <1>3

\* The rank of a cell is below the number of cells.
LEMMA RankInRange ==
  ASSUME NEW n \in Nat \ {0}, NEW d \in [0 .. n-1 -> Nat \ {0}], NEW c \in [0 .. n-1 -> Nat],
         \A i \in 0 .. n-1 : c[i] < d[i]
  PROVE  RowMajorRank(c, d, n) \in 0 .. Volume(d, n)-1
<1> DEFINE R(i) == RowMajorRank(c, d, i)
           V(i) == Volume(d, i)
           T == {k \in Nat : k+1 <= n => R(k+1) < V(k+1)}
<1>0. d \in [0 .. n-1 -> Nat] /\ n \in Nat
  OBVIOUS
<1>0a. RankRecurrence(c, d, n)
  BY <1>0, RankStep
<1>1. R(1) = c[0] /\ \A i \in 1 .. n-1 : R(i+1) = R(i) * d[i] + c[i]
  BY <1>0a DEF RankRecurrence
<1>2. \A i \in 1 .. n : R(i) \in Nat
  BY <1>0a DEF RankRecurrence
<1>3. V(0) = 1 /\ \A i \in 0 .. n-1 : V(i+1) = V(i) * d[i]
  BY <1>0, VolumeStep
<1>4. \A i \in 0 .. n : V(i) \in Nat
  BY <1>0, VolumeStep
<1> HIDE DEF R, V
<1>5. 0 \in T
  <2>1. 0 \in 0 .. n-1 /\ d[0] \in Nat /\ c[0] < d[0] /\ 0+1 = 1
    OBVIOUS
  <2>2. V(0+1) = 1 * d[0]
    BY <1>3, <2>1
  <2> QED
    BY <1>1, <2>1, <2>2
<1>6. ASSUME NEW k \in Nat, k \in T PROVE k+1 \in T
  <2> SUFFICES ASSUME (k+1)+1 <= n PROVE R((k+1)+1) < V((k+1)+1)
    OBVIOUS
  <2> DEFINE i == k+1
  <2>1. i \in 1 .. n-1 /\ i \in 0 .. n-1 /\ i \in 1 .. n /\ i \in 0 .. n /\ R(i) < V(i)
    BY <1>6
  <2>2. R(i+1) = R(i) * d[i] + c[i] /\ V(i+1) = V(i) * d[i] /\ R(i) \in Nat /\ V(i) \in Nat
    BY <1>1, <1>2, <1>3, <1>4, <2>1
  <2>3. d[i] \in Nat \ {0} /\ c[i] \in 0 .. d[i]-1
    BY <2>1
  <2> HIDE DEF i
  <2> DEFINE r == R(i)
             v == V(i)
             b == d[i]
             x == c[i]
  <2>4. r \in Nat /\ v \in Nat /\ r < v /\ b \in Nat \ {0} /\ x \in 0 .. b-1
    BY <2>1, <2>2, <2>3
  <2> HIDE DEF r, v, b, x
  <2>5. r * b + x \in 0 .. v * b - 1
    BY <2>4, DigitBelow
  <2>6. v * b \in Int
    BY <2>4
  <2>7. R(i+1) < V(i+1)
    BY <2>2, <2>5, <2>6 DEF r, v, b, x
  <2> QED
    BY <2>7 DEF i
<1> HIDE DEF T
<1>7. Nat \subseteq T
  BY <1>5, <1>6, SetInduction
<1>8. R(n) < V(n)
  <2>1. n-1 \in T /\ (n-1)+1 = n
    BY <1>7
  <2> QED
    BY <2>1 DEF T
<1>9. R(n) \in Nat /\ V(n) \in Nat
  BY <1>2, <1>4
<1>10. R(n) \in 0 .. V(n)-1
  BY <1>8, <1>9
<1> QED
  BY <1>10 DEF R, V

\* Two cells with one rank are the same cell.
LEMMA RankInjective ==
  ASSUME NEW n \in Nat \ {0}, NEW d \in [0 .. n-1 -> Nat \ {0}],
         NEW c \in [0 .. n-1 -> Nat], \A i \in 0 .. n-1 : c[i] < d[i],
         NEW e \in [0 .. n-1 -> Nat], \A i \in 0 .. n-1 : e[i] < d[i],
         RowMajorRank(c, d, n) = RowMajorRank(e, d, n)
  PROVE  c = e
<1> DEFINE R(i) == RowMajorRank(c, d, i)
           Q(i) == RowMajorRank(e, d, i)
           T == {k \in Nat : k+1 <= n /\ R(k+1) = Q(k+1) => \A j \in 0 .. k : c[j] = e[j]}
<1>0. d \in [0 .. n-1 -> Nat] /\ n \in Nat
  OBVIOUS
<1>1. /\ R(1) = c[0] /\ \A i \in 1 .. n-1 : R(i+1) = R(i) * d[i] + c[i]
      /\ \A i \in 1 .. n : R(i) \in Nat
  <2>1. RankRecurrence(c, d, n)
    BY <1>0, RankStep
  <2> QED
    BY <2>1 DEF RankRecurrence
<1>2. /\ Q(1) = e[0] /\ \A i \in 1 .. n-1 : Q(i+1) = Q(i) * d[i] + e[i]
      /\ \A i \in 1 .. n : Q(i) \in Nat
  <2>1. RankRecurrence(e, d, n)
    BY <1>0, RankStep
  <2> QED
    BY <2>1 DEF RankRecurrence
<1>3. R(n) = Q(n)
  OBVIOUS
<1> HIDE DEF R, Q
<1>4. 0 \in T
  BY <1>1, <1>2
<1>5. ASSUME NEW k \in Nat, k \in T PROVE k+1 \in T
  <2> SUFFICES ASSUME (k+1)+1 <= n, R((k+1)+1) = Q((k+1)+1), NEW j \in 0 .. k+1
               PROVE  c[j] = e[j]
    OBVIOUS
  <2> DEFINE i == k+1
             r == R(i)
             q == Q(i)
             b == d[i]
             x == c[i]
             y == e[i]
  <2>1. i \in 1 .. n-1 /\ i \in 0 .. n-1 /\ i \in 1 .. n
    OBVIOUS
  <2>2. SameNumber(b, r, x, q, y)
    BY <1>1, <1>2, <2>1 DEF SameNumber
  <2>3. r \in Nat /\ q \in Nat
    BY <1>1, <1>2, <2>1
  <2>4. b \in Nat \ {0} /\ x \in 0 .. b-1 /\ y \in 0 .. b-1
    BY <2>1
  <2> HIDE DEF r, q, b, x, y
  <2>5. r = q /\ x = y
    BY <2>2, <2>3, <2>4, DigitsUnique
  <2>6. \A l \in 0 .. k : c[l] = e[l]
    BY <1>5, <2>1, <2>5 DEF r, q
  <2>7. j \in 0 .. k \/ j = i
    OBVIOUS
  <2> QED
    BY <2>5, <2>6, <2>7 DEF x, y
<1> HIDE DEF T
<1>6. Nat \subseteq T
  BY <1>4, <1>5, SetInduction
<1>7. \A j \in 0 .. n-1 : c[j] = e[j]
  <2>1. n-1 \in T /\ (n-1)+1 = n
    BY <1>6
  <2> QED
    BY <1>3, <2>1 DEF T
<1> QED
  BY <1>7

\* The processes P are as many as the grid has cells, and on different cells.
AllPlaced(P, at, d, n) ==
  /\ P = 0 .. Volume(d, n)-1
  /\ \A p \in P : at[p] \in [0 .. n-1 -> Nat] /\ \A i \in 0 .. n-1 : at[p][i] < d[i]
  /\ \A p, q \in P : at[p] = at[q] => p = q

RanksAt(P, at, d, n) == {RowMajorRank(at[p], d, n) : p \in P}

\* They have all its ranks.
LEMMA RanksOnto ==
  ASSUME NEW n \in Nat \ {0}, NEW d \in [0 .. n-1 -> Nat \ {0}], NEW P, NEW at,
         AllPlaced(P, at, d, n)
  PROVE  RanksAt(P, at, d, n) = P
<1>0. /\ P = 0 .. Volume(d, n)-1
      /\ \A p \in P : at[p] \in [0 .. n-1 -> Nat] /\ \A i \in 0 .. n-1 : at[p][i] < d[i]
      /\ \A p, q \in P : at[p] = at[q] => p = q
  BY DEF AllPlaced
<1> DEFINE f == [p \in P |-> RowMajorRank(at[p], d, n)]
<1>1. \A p \in P : f[p] \in P
  BY <1>0, RankInRange
<1>2. \A p, q \in P : f[p] = f[q] => p = q
  <2> TAKE p, q \in P
  <2> SUFFICES ASSUME f[p] = f[q] PROVE p = q
    OBVIOUS
  <2>1. at[p] = at[q]
    BY <1>0, RankInjective
  <2> QED
    BY <1>0, <2>1
<1>3. f \in [P -> P]
  BY <1>1
<1>4. f \in Injection(P, P)
  <2> HIDE DEF f
  <2> QED
    BY <1>2, <1>3 DEF Injection, IsInjective
<1>5. IsFiniteSet(P)
  <2>1. Volume(d, n)-1 \in Int
    <3>1. d \in [0 .. n-1 -> Nat] /\ n \in 0 .. n
      OBVIOUS
    <3>2. Volume(d, n) \in Nat
      BY <3>1, VolumeStep
    <3> QED
      BY <3>2
  <2>2. \A m \in Int : IsFiniteSet(0 .. m)
    BY FS_Interval
  <2> QED
    BY <1>0, <2>1, <2>2
<1>6. f \in Surjection(P, P)
  BY <1>4, <1>5, FS_Injection
<1>7. \A q \in P : \E p \in P : f[p] = q
  BY <1>6 DEF Surjection
<1>8. \A p \in P : f[p] = RowMajorRank(at[p], d, n)
  OBVIOUS
<1> HIDE DEF f
<1>9. \A p \in P : RowMajorRank(at[p], d, n) \in P
  BY <1>1, <1>8
<1>10. \A q \in P : \E p \in P : q = RowMajorRank(at[p], d, n)
  BY <1>7, <1>8
<1> QED
  BY <1>9, <1>10 DEF RanksAt

----------------------------------------------------------------------------
(***************************************************************************)
(* Mixed-radix numbers whose digits have an order: the weight of a digit   *)
(* is the product of the bases of the digits that come after it.           *)
(***************************************************************************)
IsOrder(before, S) ==
  /\ \A T \in SUBSET S : T # {} => \E x \in T : \A y \in T \ {x} : <<x, y>> \in before
  /\ \A x, y \in S : <<x, y>> \in before => <<y, x>> \notin before

After(before, S, x) == {y \in S : <<x, y>> \in before}

SameDigit(m, k, b, s) == (m \div b) % s = (k \div b) % s

SameRemainder(m, k, b) == m % b = k % b

\* Quotient and remainder make up a natural number.
LEMMA Division ==
  ASSUME NEW a \in Nat, NEW b \in Nat \ {0}
  PROVE  /\ a \div b \in Nat
         /\ a % b \in 0 .. b-1
         /\ a = b * (a \div b) + (a % b)
<1>1. a \in Int /\ a \div b \in Nat
  BY Quotient
<1>2. a % b \in 0 .. b-1 /\ a = b * (a \div b) + (a % b)
  BY <1>1, DivMod
<1> QED
  BY <1>1, <1>2

\* The remainder of two digits is made of them.
LEMMA DigitStep ==
  ASSUME NEW m \in Nat, NEW s \in Positive, NEW b \in Positive
  PROVE  m % (s * b) = ((m \div b) % s) * b + (m % b)
<1> DEFINE q == m \div b
           r == m % b
           u == q \div s
           v == q % s
           t == s * b
           x == m \div t
           w == m % t
           z == v * b + r
<1>0. s \in Nat \ {0} /\ b \in Nat \ {0} /\ t \in Nat \ {0}
  BY DEF Positive
<1>1. q \in Nat /\ r \in 0 .. b-1 /\ m = b * q + r
  BY <1>0, Division
<1> HIDE DEF q, r
<1>2. u \in Nat /\ v \in 0 .. s-1 /\ q = s * u + v
  BY <1>0, <1>1, Division
<1> HIDE DEF t
<1>3. x \in Nat /\ w \in 0 .. t-1 /\ m = t * x + w
  BY <1>0, Division
<1> HIDE DEF u, v, x, w
<1>4. z \in 0 .. t-1
  <2>1. v \in Nat /\ v < s
    BY <1>0, <1>2
  <2> QED
    BY <1>0, <1>1, <2>1, DigitBelow DEF t
<1>5. SameNumber(t, x, w, u, z)
  <2>1. b * (s * u + v) = (s * b) * u + v * b
    BY <1>0, <1>2
  <2>2. m = t * u + z
    BY <1>0, <1>1, <1>2, <2>1 DEF t
  <2>3. t * u = u * t /\ t * x = x * t
    BY <1>0, <1>2, <1>3
  <2> HIDE DEF z
  <2> QED
    BY <1>3, <2>2, <2>3 DEF SameNumber
<1> HIDE DEF z
<1>6. w = z
  BY <1>0, <1>2, <1>3, <1>4, <1>5, DigitsUnique
<1> QED
  BY <1>6 DEF w, z, t, v, q, r

\* Two numbers with a digit in common, and the digits below it, have the digits up to it.
LEMMA OneDigitMore ==
  ASSUME NEW m \in Nat, NEW k \in Nat, NEW s \in Positive, NEW b \in Positive,
         SameDigit(m, k, b, s), SameRemainder(m, k, b)
  PROVE  SameRemainder(m, k, s * b)
<1>1. m % (s * b) = ((m \div b) % s) * b + (m % b)
  BY DigitStep
<1>2. k % (s * b) = ((k \div b) % s) * b + (k % b)
  BY DigitStep
<1> QED
  BY <1>1, <1>2 DEF SameDigit, SameRemainder

\* Numbers below the product of all bases that have the same digits are equal.
LEMMA MixedRadix ==
  ASSUME NEW S, IsFiniteSet(S), NEW f, \A x \in S : f[x] \in Positive,
         NEW before, IsOrder(before, S), NEW m \in Nat, NEW k \in Nat,
         \A x \in S : SameDigit(m, k, ProductOver(f, After(before, S, x)), f[x]),
         m < ProductOver(f, S), k < ProductOver(f, S)
  PROVE  m = k
<1> DEFINE Tail(T) == \A x \in T : After(before, S, x) \subseteq T
           Same(T) == SameRemainder(m, k, ProductOver(f, T))
           C == {n \in Nat : \A T \in SUBSET S : Cardinality(T) = n /\ Tail(T) => Same(T)}
<1>1. \A T \in SUBSET S : IsFiniteSet(T) /\ Cardinality(T) \in Nat
  BY FS_Subset, FS_CardinalityType
<1>2. \A T \in SUBSET S : ProductOver(f, T) \in Positive
  <2> TAKE T \in SUBSET S
  <2>1. IsFiniteSet(T) /\ \A x \in T : f[x] \in Nat \ {0}
    BY <1>1 DEF Positive
  <2> QED
    BY <2>1, ProductPositive DEF Positive
<1>3. 0 \in C
  <2> SUFFICES ASSUME NEW T \in SUBSET S, Cardinality(T) = 0 PROVE Same(T)
    OBVIOUS
  <2>1. T = {} /\ IsFiniteSet({})
    BY <1>1, FS_EmptySet
  <2>2. ProductOver(f, T) = 1
    BY <2>1, ProductRemove
  <2>3. m % 1 = 0 /\ k % 1 = 0
    OBVIOUS
  <2> QED
    BY <2>2, <2>3 DEF SameRemainder
<1>4. ASSUME NEW n \in Nat, n \in C PROVE n+1 \in C
  <2> SUFFICES ASSUME NEW T \in SUBSET S, Cardinality(T) = n+1, Tail(T) PROVE Same(T)
    OBVIOUS
  <2>0. IsFiniteSet(T) /\ T # {}
    BY <1>1, FS_EmptySet
  <2>1. PICK x \in T : \A y \in T \ {x} : <<x, y>> \in before
    BY <2>0 DEF IsOrder
  <2> DEFINE R == T \ {x}
  <2>2. After(before, S, x) = R
    <3>1. After(before, S, x) \subseteq T
      OBVIOUS
    <3>2. x \notin After(before, S, x)
      BY DEF After, IsOrder
    <3>3. R \subseteq After(before, S, x)
      BY <2>1 DEF After
    <3> QED
      BY <3>1, <3>2, <3>3
  <2>3. Tail(R)
    <3> SUFFICES ASSUME NEW y \in R, NEW z \in After(before, S, y) PROVE z \in T /\ z # x
      OBVIOUS
    <3>1. z \in T
      OBVIOUS
    <3>2. <<x, y>> \in before /\ <<y, z>> \in before /\ x \in S /\ y \in S
      BY <2>1 DEF After
    <3> QED
      BY <3>1, <3>2 DEF IsOrder
  <2>4. R \in SUBSET S /\ Cardinality(R) = n
    <3>1. Cardinality(R) = Cardinality(T) - 1
      BY <2>0, FS_RemoveElement
    <3> QED
      BY <3>1
  <2> HIDE DEF Tail, R
  <2>5. Same(R)
    BY <1>4, <2>3, <2>4
  <2>6. ProductOver(f, T) = f[x] * ProductOver(f, R)
    <3>1. \A y \in T : f[y] \in Nat \ {0}
      BY DEF Positive
    <3> QED
      BY <2>0, <3>1, ProductRemove DEF R
  <2>7. SameDigit(m, k, ProductOver(f, R), f[x]) /\ f[x] \in Positive
    BY <2>2
  <2> QED
    BY <1>2, <2>4, <2>5, <2>6, <2>7, OneDigitMore
<1>5. Nat \subseteq C
  <2> HIDE DEF C
  <2> QED
    BY <1>3, <1>4, SetInduction
<1>6. Same(S)
  <2>1. Tail(S)
    BY DEF After
  <2>2. S \in SUBSET S /\ Cardinality(S) \in C
    BY <1>1, <1>5
  <2> HIDE DEF Tail, Same
  <2> QED
    BY <2>1, <2>2
<1> DEFINE P == ProductOver(f, S)
<1>7. P \in Nat \ {0}
  BY <1>2 DEF Positive
<1> HIDE DEF P
<1>8. m % P = m /\ k % P = k
  BY <1>7 DEF P
<1> QED
  BY <1>6, <1>8 DEF SameRemainder, P
=============================================================================
