------------------------ MODULE CartReorderTheorems ------------------------
(***************************************************************************)
(* Theorems about CartReorder, for every number of processes, every grid,  *)
(* placement, environment and number of calls.  Only ReorderingPlaces      *)
(* relies on what the algorithms compute in a full grid; otherwise a key   *)
(* may be any integer.                                                     *)
(***************************************************************************)
EXTENDS CartReorder, GridTheorems

----------------------------------------------------------------------------
(***************************************************************************)
(* Sequences, whatever their elements.                                     *)
(***************************************************************************)
IsSeq(s) == s \in Seq({s[i] : i \in DOMAIN s})

LEMMA Appended ==
  ASSUME NEW s, IsSeq(s), NEW e
  PROVE  /\ Len(s) \in Nat /\ DOMAIN s = 1 .. Len(s)
         /\ IsSeq(Append(s, e))
         /\ Len(Append(s, e)) = Len(s) + 1
         /\ DOMAIN Append(s, e) = 1 .. Len(s) + 1
         /\ Append(s, e)[Len(s) + 1] = e
         /\ \A i \in 1 .. Len(s) : Append(s, e)[i] = s[i]
<1> DEFINE U == {s[i] : i \in DOMAIN s} \cup {e}
           t == Append(s, e)
<1>1. s \in Seq(U) /\ e \in U
  BY DEF IsSeq
<1> HIDE DEF U
<1>2. /\ Len(s) \in Nat /\ DOMAIN s = 1 .. Len(s)
      /\ t \in Seq(U) /\ Len(t) = Len(s) + 1 /\ DOMAIN t = 1 .. Len(s) + 1
      /\ t[Len(s) + 1] = e /\ \A i \in 1 .. Len(s) : t[i] = s[i]
  BY <1>1
<1> HIDE DEF t
<1>3. t \in [1 .. Len(t) -> {t[i] : i \in DOMAIN t}] /\ Len(t) \in Nat
  <2>1. t = [i \in 1 .. Len(t) |-> t[i]] /\ Len(t) \in Nat
    BY <1>2
  <2> QED
    BY <1>2, <2>1
<1>4. IsSeq(t)
  BY <1>3 DEF IsSeq
<1> QED
  BY <1>2, <1>4 DEF t

SeqOf(s, n) == IsSeq(s) /\ Len(s) = n

\* A sequence and one element more, as an operator that the provers do not look into.
Extend(s, e) == Append(s, e)

LEMMA Extended ==
  ASSUME NEW s, NEW n \in Nat, SeqOf(s, n), NEW e
  PROVE  SeqOf(Extend(s, e), n + 1)
  BY Appended DEF Extend, SeqOf

LEMMA EmptySeq == IsSeq(<<>>) /\ Len(<<>>) = 0
  BY DEF IsSeq

\* What has been extended, and with what.
LEMMA ExtendInjective ==
  ASSUME NEW s, IsSeq(s), NEW t, IsSeq(t), NEW d, NEW e, Extend(s, d) = Extend(t, e)
  PROVE  s = t /\ d = e
<1>1. Len(s) = Len(t)
  BY Appended DEF Extend
<1>2. d = e
  BY <1>1, Appended DEF Extend
<1>3. \A i \in 1 .. Len(s) : s[i] = t[i]
  <2> TAKE i \in 1 .. Len(s)
  <2>1. Extend(s, d)[i] = s[i] /\ Extend(t, e)[i] = t[i]
    BY <1>1, Appended DEF Extend
  <2> QED
    BY <2>1
<1>4. s = [i \in 1 .. Len(s) |-> s[i]] /\ t = [i \in 1 .. Len(t) |-> t[i]]
  BY DEF IsSeq
<1> QED
  BY <1>1, <1>2, <1>3, <1>4

----------------------------------------------------------------------------
(***************************************************************************)
(* Ranks: counting those before one in an order numbers all from 0.        *)
(***************************************************************************)
IsStrictOrder(R, S) ==
  /\ \A x \in S : <<x, x>> \notin R
  /\ \A x, y, z \in S : <<x, y>> \in R /\ <<y, z>> \in R => <<x, z>> \in R
  /\ \A x, y \in S : x # y => <<x, y>> \in R \/ <<y, x>> \in R

RankUnder(R, S) == [x \in S |-> Cardinality({y \in S : <<y, x>> \in R})]

LEMMA OrderRanks ==
  ASSUME NEW S, IsFiniteSet(S), NEW R, IsStrictOrder(R, S)
  PROVE  RankUnder(R, S) \in Bijection(S, 0 .. Cardinality(S)-1)
<1> DEFINE Before(x) == {y \in S : <<y, x>> \in R}
           rank == [x \in S |-> Cardinality(Before(x))]
           T == 0 .. Cardinality(S)-1
<1>1. ASSUME NEW x \in S
      PROVE  /\ Before(x) \subseteq S /\ x \notin Before(x)
             /\ IsFiniteSet(Before(x)) /\ Cardinality(Before(x)) \in Nat
  <2>1. Before(x) \subseteq S /\ x \notin Before(x)
    BY DEF IsStrictOrder
  <2> HIDE DEF Before
  <2> QED
    BY <2>1, FS_Subset, FS_CardinalityType
<1>2. Cardinality(S) \in Nat
  BY FS_CardinalityType
<1>3. ASSUME NEW x \in S PROVE Cardinality(Before(x)) \in T
  <2> HIDE DEF Before
  <2>1. /\ Cardinality(Before(x)) <= Cardinality(S)
        /\ Cardinality(S) = Cardinality(Before(x)) => S = Before(x)
    BY <1>1, FS_Subset
  <2>2. Cardinality(Before(x)) # Cardinality(S)
    BY <1>1, <2>1
  <2> QED
    BY <1>1, <1>2, <2>1, <2>2
<1>4. ASSUME NEW x \in S, NEW y \in S, <<x, y>> \in R
      PROVE  Cardinality(Before(x)) # Cardinality(Before(y))
  <2>1. Before(x) \subseteq Before(y) /\ x \in Before(y)
    BY <1>4 DEF IsStrictOrder
  <2> HIDE DEF Before
  <2>2. Cardinality(Before(y)) = Cardinality(Before(x)) => Before(y) = Before(x)
    BY <1>1, <2>1, FS_Subset
  <2> QED
    BY <1>1, <2>1, <2>2
<1>5. rank \in Injection(S, T)
  <2>1. rank \in [S -> T]
    BY <1>3
  <2>2. ASSUME NEW x \in S, NEW y \in S, rank[x] = rank[y] PROVE x = y
    <3>1. Cardinality(Before(x)) = Cardinality(Before(y))
      BY <2>2
    <3> HIDE DEF Before, rank
    <3> QED
      BY <1>4, <3>1 DEF IsStrictOrder
  <2> HIDE DEF rank
  <2> QED
    BY <2>1, <2>2 DEF Injection, IsInjective
<1>6. IsFiniteSet(T) /\ Cardinality(T) = Cardinality(S)
  <2>1. PICK n \in Nat : n = Cardinality(S)
    BY <1>2
  <2>2. /\ IsFiniteSet(0 .. n-1)
        /\ Cardinality(0 .. n-1) = IF 0 > n-1 THEN 0 ELSE n-1 - 0 + 1
    BY FS_Interval
  <2>3. IsFiniteSet(0 .. n-1) /\ Cardinality(0 .. n-1) = n
    BY <2>2
  <2> QED
    BY <2>1, <2>3
<1> HIDE DEF rank, T
<1>7. rank \in Surjection(S, T)
  BY <1>5, <1>6, FS_Injection
<1> QED
  BY <1>5, <1>7 DEF Bijection, rank, T, Before, RankUnder

----------------------------------------------------------------------------
(***************************************************************************)
(* The communicators of a call to algorithm a.  STENCIL_STRIPS makes two   *)
(* calls on oldcomm in a round, the others one.                            *)
(***************************************************************************)
Strips(a) == a = "STENCIL_STRIPS"

Old == <<"old">>
NodeId(a, k) == Extend(Old, IF Strips(a) THEN 2 * k - 1 ELSE k)
BaseId(a, k) == IF Strips(a) THEN Old ELSE NodeId(a, k)
SplitIndex(a, k) == IF Strips(a) THEN 2 * k ELSE 1
TmpId(a, k) == Extend(BaseId(a, k), SplitIndex(a, k))
CartId(a, k) == Extend(TmpId(a, k), 1)
ResultId(a, k) == IF Strips(a) THEN Extend(CartId(a, k), 1) ELSE CartId(a, k)

Rounds == Nat \ {0}

LEMMA IdLengths ==
  ASSUME NEW a, NEW k \in Rounds
  PROVE  /\ IsSeq(Old) /\ Len(Old) = 1
         /\ IsSeq(NodeId(a, k)) /\ Len(NodeId(a, k)) = 2
         /\ IsSeq(BaseId(a, k)) /\ Len(BaseId(a, k)) = IF Strips(a) THEN 1 ELSE 2
         /\ IsSeq(TmpId(a, k)) /\ Len(TmpId(a, k)) = IF Strips(a) THEN 2 ELSE 3
         /\ IsSeq(CartId(a, k)) /\ Len(CartId(a, k)) = IF Strips(a) THEN 3 ELSE 4
         /\ IsSeq(ResultId(a, k)) /\ Len(ResultId(a, k)) = 4
<1>1. SeqOf(Old, 1)
  BY DEF Old, SeqOf, IsSeq
<1>2. SeqOf(NodeId(a, k), 2)
  BY <1>1, Extended DEF NodeId
<1>3. SeqOf(BaseId(a, k), IF Strips(a) THEN 1 ELSE 2)
  BY <1>1, <1>2 DEF BaseId
<1>4. SeqOf(TmpId(a, k), IF Strips(a) THEN 2 ELSE 3)
  <2>1. CASE Strips(a)
    BY <1>3, <2>1, Extended DEF TmpId
  <2>2. CASE ~ Strips(a)
    BY <1>3, <2>2, Extended DEF TmpId
  <2> QED
    BY <2>1, <2>2
<1>5. SeqOf(CartId(a, k), IF Strips(a) THEN 3 ELSE 4)
  <2>1. CASE Strips(a)
    BY <1>4, <2>1, Extended DEF CartId
  <2>2. CASE ~ Strips(a)
    BY <1>4, <2>2, Extended DEF CartId
  <2> QED
    BY <2>1, <2>2
<1>6. SeqOf(ResultId(a, k), 4)
  <2>1. CASE Strips(a)
    BY <1>5, <2>1, Extended DEF ResultId
  <2>2. CASE ~ Strips(a)
    BY <1>5, <2>2 DEF ResultId
  <2> QED
    BY <2>1, <2>2
<1> QED
  BY <1>1, <1>2, <1>3, <1>4, <1>5, <1>6 DEF SeqOf

\* An id names one communicator of one round.
LEMMA IdsDiffer ==
  ASSUME NEW a, NEW k \in Rounds, NEW j \in Rounds
  PROVE  /\ NodeId(a, k) = NodeId(a, j) => k = j
         /\ TmpId(a, k) = TmpId(a, j) => k = j
         /\ CartId(a, k) = CartId(a, j) => k = j
         /\ ResultId(a, k) = ResultId(a, j) => k = j
         /\ NodeId(a, k) # TmpId(a, j) /\ NodeId(a, k) # CartId(a, j)
         /\ NodeId(a, k) # ResultId(a, j) /\ TmpId(a, k) # CartId(a, j)
         /\ TmpId(a, k) # ResultId(a, j) /\ (Strips(a) => CartId(a, k) # ResultId(a, j))
         /\ Old # NodeId(a, k) /\ Old # TmpId(a, k) /\ Old # CartId(a, k) /\ Old # ResultId(a, k)
<1>1. NodeId(a, k) = NodeId(a, j) => k = j
  <2> SUFFICES ASSUME NodeId(a, k) = NodeId(a, j) PROVE k = j
    OBVIOUS
  <2>1. (IF Strips(a) THEN 2 * k - 1 ELSE k) = (IF Strips(a) THEN 2 * j - 1 ELSE j)
    BY IdLengths, ExtendInjective DEF NodeId
  <2> QED
    BY <2>1 DEF Rounds
<1>2. TmpId(a, k) = TmpId(a, j) => k = j
  <2> SUFFICES ASSUME TmpId(a, k) = TmpId(a, j) PROVE k = j
    OBVIOUS
  <2>1. BaseId(a, k) = BaseId(a, j) /\ SplitIndex(a, k) = SplitIndex(a, j)
    BY IdLengths, ExtendInjective DEF TmpId
  <2>2. CASE Strips(a)
    BY <2>1, <2>2 DEF SplitIndex, Rounds
  <2>3. CASE ~ Strips(a)
    BY <1>1, <2>1, <2>3 DEF BaseId
  <2> QED
    BY <2>2, <2>3
<1>3. CartId(a, k) = CartId(a, j) => k = j
  <2> SUFFICES ASSUME CartId(a, k) = CartId(a, j) PROVE k = j
    OBVIOUS
  <2>1. TmpId(a, k) = TmpId(a, j)
    BY IdLengths, ExtendInjective DEF CartId
  <2> QED
    BY <1>2, <2>1
<1>4. ResultId(a, k) = ResultId(a, j) => k = j
  <2> SUFFICES ASSUME ResultId(a, k) = ResultId(a, j) PROVE k = j
    OBVIOUS
  <2>1. CartId(a, k) = CartId(a, j)
    <3>1. IsSeq(CartId(a, k)) /\ IsSeq(CartId(a, j))
      BY IdLengths
    <3> QED
      BY <3>1, ExtendInjective DEF ResultId
  <2> QED
    BY <1>3, <2>1
<1>5. NodeId(a, k) # TmpId(a, j)
  <2>1. CASE Strips(a)
    <3> SUFFICES ASSUME NodeId(a, k) = TmpId(a, j) PROVE FALSE
      OBVIOUS
    <3>1. Extend(Old, 2 * k - 1) = Extend(Old, 2 * j)
      BY <2>1 DEF NodeId, TmpId, BaseId, SplitIndex
    <3>2. 2 * k - 1 = 2 * j
      BY <3>1, IdLengths, ExtendInjective
    <3> QED
      BY <3>2 DEF Rounds
  <2>2. CASE ~ Strips(a)
    BY <2>2, IdLengths
  <2> QED
    BY <2>1, <2>2
<1> QED
  BY <1>1, <1>2, <1>3, <1>4, <1>5, IdLengths

----------------------------------------------------------------------------
(***************************************************************************)
(* The inductive invariant.  How many calls a process has made on each of  *)
(* its communicators, which communicators these are and which handles it   *)
(* holds follows from the number of its results and from its pc: the       *)
(* script of the algorithm it has been dispatched to.                      *)
(***************************************************************************)
\* The calls p has made on the communicator with this id, and their number.
Calls(p, id) == IF id \in DOMAIN made[p] THEN made[p][id] ELSE <<>>
Count(p, id) == Len(Calls(p, id))

\* How often p has come to each call of its script.
Given(p) == Len(carts[p])
Round(p) == Given(p) + 1
Asked(p) == Given(p) + (IF pc[p] = "application" THEN 0 ELSE 1)
Split(p) == Given(p) + (IF pc[p] \in {"application", "node_comm"} THEN 0 ELSE 1)
Carted(p) == Given(p) + (IF pc[p] \in {"application", "node_comm", "split"} THEN 0 ELSE 1)
CartedTwice(p) == Given(p) + (IF pc[p] = "second_cart_create" THEN 1 ELSE 0)

CallsFollow(p) ==
  /\ \A id : IsSeq(Calls(p, id))
  /\ Count(p, Old) = IF Strips(alg(p)) THEN Asked(p) + Split(p) ELSE Asked(p)
  /\ \A k \in Rounds :
       /\ Count(p, NodeId(alg(p), k)) = IF ~ Strips(alg(p)) /\ k <= Split(p) THEN 1 ELSE 0
       /\ Count(p, TmpId(alg(p), k)) = IF k <= Carted(p) THEN 1 ELSE 0
       /\ Strips(alg(p)) => Count(p, CartId(alg(p), k)) = IF k <= CartedTwice(p) THEN 1 ELSE 0

PCs == {"application", "node_comm", "split", "cart_create", "second_cart_create", "aborted"}

CommsFollow(p) ==
  /\ pc[p] \in PCs
  /\ IsSeq(carts[p]) /\ Asked(p) <= input.calls
  /\ pc[p] \in {"application", "node_comm"} => node_world_comm[p] = No_comm
  /\ pc[p] \in {"split", "cart_create"} =>
       node_world_comm[p] = [id |-> NodeId(alg(p), Round(p)), rank |-> NodeMajor(input.nodeOf)]
  /\ pc[p] \in {"second_cart_create", "aborted"} =>
       Strips(alg(p)) /\ node_world_comm[p].id = CartId(alg(p), Round(p))
  /\ pc[p] = "second_cart_create" =>
       p \in DOMAIN node_world_comm[p].rank /\ DOMAIN node_world_comm[p].rank \subseteq Procs
  /\ pc[p] = "aborted" => node_world_comm[p].rank = COMM_NULL
  /\ pc[p] = "cart_create" =>
       tmp[p].id = TmpId(alg(p), Round(p)) /\ DOMAIN tmp[p].rank = Procs
  /\ pc[p] # "cart_create" => tmp[p] = No_comm

Results(p) ==
  {ResultId(alg(p), k) : k \in {k \in 1 .. Given(p) : carts[p][k] # COMM_NULL}}

NodeComms(p) ==
  IF Strips(alg(p)) THEN {NodeId(alg(p), k) : k \in 1 .. Split(p)}
  ELSE IF pc[p] \in {"split", "cart_create"} THEN {NodeId(alg(p), Round(p))} ELSE {}

HeldFollow(p) ==
  held[p] = Results(p) \cup NodeComms(p)
            \cup (IF pc[p] = "cart_create" THEN {TmpId(alg(p), Round(p))} ELSE {})
            \cup (IF pc[p] = "second_cart_create" THEN {CartId(alg(p), Round(p))} ELSE {})

\* The ranks by which p has asked its algorithm for a key, the key it has passed to the
\* split of round k, and those it may pass.
BaseRanks(p) == IF Strips(alg(p)) THEN oldcomm.rank ELSE NodeMajor(input.nodeOf)

KeyArg(p, k) == Calls(p, BaseId(alg(p), k))[SplitIndex(alg(p), k)].arg

KeyChoices(p) ==
  UNION {keys[input.config[p]][ppn][BaseRanks(p)[p]] : ppn \in DOMAIN keys[input.config[p]]}

KeysFollow(p) == \A k \in 1 .. Split(p) : KeyArg(p, k) \in KeyChoices(p)

Shape ==
  /\ input \in Inputs
  /\ keys = [c \in ConfigsOf(input) |->
       [k \in PpnUnder(c.scheme, input.nodeOf) |-> KeysOf(input, c, k)]]
  /\ pc = [p \in Procs |-> pc[p]]
  /\ made = [p \in Procs |-> made[p]]
  /\ node_world_comm = [p \in Procs |-> node_world_comm[p]]
  /\ tmp = [p \in Procs |-> tmp[p]]
  /\ held = [p \in Procs |-> held[p]]
  /\ carts = [p \in Procs |-> carts[p]]

Follows(p) == CallsFollow(p) /\ CommsFollow(p) /\ HeldFollow(p) /\ KeysFollow(p)

IInv == Shape /\ \A p \in Procs : Follows(p)

----------------------------------------------------------------------------
(***************************************************************************)
(* Inputs, and the calls of the model in terms of Calls and Count.         *)
(***************************************************************************)
LEMMA InputFacts ==
  ASSUME input \in Inputs
  PROVE  /\ Cardinality(Procs) \in Nat /\ Procs = 0 .. Cardinality(Procs)-1
         /\ IsFiniteSet(Procs) /\ 0 \in Procs
         /\ Cells \in 1 .. Cardinality(Procs)
         /\ input.calls \in Nat
         /\ \A p \in Procs : /\ alg(p) \in reorder_schemes
                             /\ input.config[p].scheme \in node_approximation_schemes
<1>1. /\ Cardinality(Procs) \in Nat /\ Procs = 0 .. Cardinality(Procs)-1
      /\ Cells \in 1 .. Cardinality(Procs)
      /\ input.calls \in Nat
      /\ input.config \in [0 .. Cardinality(Procs)-1 ->
            [alg : reorder_schemes, scheme : node_approximation_schemes, stencil : Stencils]]
  BY InputAssumption DEF Procs, Cells
<1>2. IsFiniteSet(0 .. Cardinality(Procs)-1)
  BY <1>1, FS_Interval
<1>3. \A p \in Procs : /\ alg(p) \in reorder_schemes
                       /\ input.config[p].scheme \in node_approximation_schemes
  BY <1>1 DEF alg
<1> QED
  BY <1>1, <1>2, <1>3

LEMMA OnIsCalls ==
  ASSUME NEW comm
  PROVE  On(comm) = [p \in Procs |-> Calls(p, comm.id)]
  BY DEF On, Calls

LEMMA CompleteCounts ==
  ASSUME NEW comm, DOMAIN comm.rank \subseteq Procs, NEW p \in Procs
  PROVE  /\ Complete(comm, p) <=>
              \A q \in DOMAIN comm.rank : Count(q, comm.id) >= Count(p, comm.id)
         /\ NewId(comm, p) = Extend(comm.id, Count(p, comm.id))
  BY OnIsCalls DEF Complete, EverybodyCalled, HasMade, Current, Count, NewId, Extend

\* p has made a call on the communicator with this id, and no other has been made.
CallMade(p, id, op, arg) ==
  /\ made' = [q \in Procs |-> made'[q]]
  /\ IsSeq(Calls(p, id)')
  /\ Count(p, id)' = Count(p, id) + 1
  /\ Calls(p, id)'[Count(p, id) + 1] = [op |-> op, arg |-> arg]
  /\ \A k \in 1 .. Count(p, id) : Calls(p, id)'[k] = Calls(p, id)[k]
  /\ \A q \in Procs : \A i : q # p \/ i # id =>
       Calls(q, i)' = Calls(q, i) /\ Count(q, i)' = Count(q, i)

LEMMA CallAdvances ==
  ASSUME Shape, NEW p \in Procs, Follows(p), input' = input,
         NEW comm, NEW id, comm.id = id, NEW op, NEW arg, Call(p, comm, op, arg)
  PROVE  CallMade(p, id, op, arg)
<1> DEFINE call == [op |-> op, arg |-> arg]
           calls == Append(Calls(p, id), call)
<1>1. made = [q \in Procs |-> made[q]] /\ Procs' = Procs
  BY DEF Shape, Procs
<1>2. made' = [made EXCEPT ![p] =
         [i \in {id} \cup DOMAIN made[p] |-> IF i = id THEN calls ELSE made[p][i]]]
  BY OnIsCalls DEF Call
<1>3. IsSeq(Calls(p, id))
  BY DEF Follows, CallsFollow
<1> HIDE DEF calls
<1>4. /\ made' = [q \in Procs |-> made'[q]]
      /\ made'[p] = [i \in {id} \cup DOMAIN made[p] |->
                       IF i = id THEN calls ELSE made[p][i]]
      /\ \A q \in Procs \ {p} : made'[q] = made[q]
  BY <1>1, <1>2
<1>5. Calls(p, id)' = calls
  BY <1>4 DEF Calls
<1>6. \A i : i # id => Calls(p, i)' = Calls(p, i)
  BY <1>4 DEF Calls
<1>7. \A q \in Procs \ {p} : \A i : Calls(q, i)' = Calls(q, i)
  BY <1>4 DEF Calls
<1>8. \A q \in Procs : \A i : q # p \/ i # id =>
        Calls(q, i)' = Calls(q, i) /\ Count(q, i)' = Count(q, i)
  BY <1>6, <1>7 DEF Count
<1>9. /\ IsSeq(calls) /\ Len(calls) = Count(p, id) + 1
      /\ calls[Count(p, id) + 1] = call
      /\ \A k \in 1 .. Count(p, id) : calls[k] = Calls(p, id)[k]
  BY <1>3, Appended DEF calls, Count
<1> QED
  BY <1>4, <1>5, <1>8, <1>9 DEF CallMade, Count

\* A step of p that leaves the other processes alone.
OthersKeep(p) ==
  /\ input' = input /\ keys' = keys
  /\ pc' = [q \in Procs |-> pc'[q]]
  /\ made' = [q \in Procs |-> made'[q]]
  /\ node_world_comm' = [q \in Procs |-> node_world_comm'[q]]
  /\ tmp' = [q \in Procs |-> tmp'[q]]
  /\ held' = [q \in Procs |-> held'[q]]
  /\ carts' = [q \in Procs |-> carts'[q]]
  /\ \A q \in Procs \ {p} :
       /\ pc'[q] = pc[q] /\ node_world_comm'[q] = node_world_comm[q] /\ tmp'[q] = tmp[q]
       /\ held'[q] = held[q] /\ carts'[q] = carts[q]
       /\ \A i : Calls(q, i)' = Calls(q, i)

\* What the input alone determines does not change.
LEMMA Static ==
  ASSUME input' = input, keys' = keys, NEW p
  PROVE  /\ Procs' = Procs /\ Cells' = Cells /\ alg(p)' = alg(p) /\ oldcomm' = oldcomm
         /\ BaseRanks(p)' = BaseRanks(p) /\ KeyChoices(p)' = KeyChoices(p)
<1>1. Procs' = Procs /\ alg(p)' = alg(p) /\ Cells' = Cells
  BY DEF Procs, alg, Cells
<1>2. oldcomm' = oldcomm
  BY <1>1 DEF oldcomm
<1>3. BaseRanks(p)' = BaseRanks(p)
  BY <1>1, <1>2 DEF BaseRanks
<1> QED
  BY <1>1, <1>2, <1>3 DEF KeyChoices

LEMMA OthersFollow ==
  ASSUME IInv, NEW p, OthersKeep(p)
  PROVE  Shape' /\ \A q \in Procs \ {p} : Follows(q)'
<1>1. Shape'
  <2>1. Procs' = Procs /\ input' = input /\ keys' = keys
    BY DEF OthersKeep, Procs
  <2> QED
    BY <2>1 DEF IInv, Shape, OthersKeep
<1>2. ASSUME NEW q \in Procs \ {p} PROVE Follows(q)'
  <2>1. /\ input' = input /\ keys' = keys /\ pc'[q] = pc[q] /\ carts'[q] = carts[q]
        /\ node_world_comm'[q] = node_world_comm[q] /\ tmp'[q] = tmp[q] /\ held'[q] = held[q]
        /\ \A i : Calls(q, i)' = Calls(q, i)
    BY DEF OthersKeep
  <2>2. /\ alg(q)' = alg(q) /\ Procs' = Procs /\ BaseRanks(q)' = BaseRanks(q)
        /\ KeyChoices(q)' = KeyChoices(q)
    BY <2>1, Static
  <2>3. /\ Given(q)' = Given(q) /\ Round(q)' = Round(q) /\ Asked(q)' = Asked(q)
        /\ Split(q)' = Split(q) /\ Carted(q)' = Carted(q) /\ CartedTwice(q)' = CartedTwice(q)
        /\ \A i : Count(q, i)' = Count(q, i)
    BY <2>1 DEF Given, Round, Asked, Split, Carted, CartedTwice, Count
  <2>4. Follows(q)
    BY DEF IInv
  <2>5. CallsFollow(q)'
    BY <2>1, <2>2, <2>3, <2>4 DEF Follows, CallsFollow
  <2>6. CommsFollow(q)'
    BY <2>1, <2>2, <2>3, <2>4 DEF Follows, CommsFollow
  <2>7. HeldFollow(q)'
    BY <2>1, <2>2, <2>3, <2>4 DEF Follows, HeldFollow, Results, NodeComms
  <2>8. KeysFollow(q)'
    BY <2>1, <2>2, <2>3, <2>4 DEF Follows, KeysFollow, KeyArg
  <2> QED
    BY <2>5, <2>6, <2>7, <2>8 DEF Follows
<1> QED
  BY <1>1, <1>2

\* A call on a communicator that is not the one whose calls are the splits, or a call
\* after them, changes no key.
LEMMA KeysStay ==
  ASSUME IInv, NEW p \in Procs, OthersKeep(p), NEW q \in Procs,
         NEW id, NEW op, NEW arg,
         CallMade(p, id, op, arg) \/ \A i : Calls(p, i)' = Calls(p, i),
         NEW k \in 1 .. Split(q)
  PROVE  KeyArg(q, k)' = KeyArg(q, k)
<1>a. PICK b : b = BaseId(alg(q), k)
  OBVIOUS
<1>b. PICK n : n = SplitIndex(alg(q), k)
  OBVIOUS
<1>1. alg(q)' = alg(q) /\ Follows(q)
  BY Static DEF OthersKeep, IInv
<1>2. Given(q) \in Nat /\ Split(q) \in Nat /\ Asked(q) \in Nat /\ Split(q) <= Asked(q) /\ k \in Rounds
  <2>1. Given(q) \in Nat
    BY <1>1, Appended DEF Follows, CommsFollow, Given
  <2> QED
    BY <2>1 DEF Split, Asked, Rounds
<1>3. n \in 1 .. Count(q, b)
  <2>1. CASE Strips(alg(q))
    <3>1. Count(q, b) = Asked(q) + Split(q) /\ n = 2 * k
      BY <1>1, <1>a, <1>b, <2>1 DEF Follows, CallsFollow, BaseId, SplitIndex
    <3> QED
      BY <1>2, <3>1
  <2>2. CASE ~ Strips(alg(q))
    <3>1. Count(q, b) = 1 /\ n = 1
      BY <1>1, <1>2, <1>a, <1>b, <2>2 DEF Follows, CallsFollow, BaseId, SplitIndex
    <3> QED
      BY <3>1
  <2> QED
    BY <2>1, <2>2
<1>4. Calls(q, b)'[n] = Calls(q, b)[n]
  <2>1. CASE CallMade(p, id, op, arg) /\ q = p
    BY <1>3, <2>1 DEF CallMade
  <2>2. CASE q # p
    BY <2>2 DEF OthersKeep
  <2>3. CASE (\A i : Calls(p, i)' = Calls(p, i)) /\ q = p
    BY <2>3
  <2> QED
    BY <2>1, <2>2, <2>3
<1> QED
  BY <1>1, <1>4, <1>a, <1>b DEF KeyArg

LEMMA Counters ==
  ASSUME IInv, NEW p \in Procs
  PROVE  /\ Given(p) \in Nat /\ Round(p) \in Rounds /\ Round(p) = Given(p) + 1
         /\ Asked(p) \in Nat /\ Split(p) \in Nat /\ Carted(p) \in Nat /\ CartedTwice(p) \in Nat
         /\ Carted(p) <= Split(p) /\ Split(p) <= Asked(p) /\ Asked(p) <= Round(p)
         /\ Given(p) <= Carted(p)
         /\ pc[p] \in PCs
<1>1. Given(p) \in Nat /\ pc[p] \in PCs
  BY Appended DEF IInv, Follows, CommsFollow, Given
<1> QED
  BY <1>1 DEF Round, Rounds, Asked, Split, Carted, CartedTwice, PCs

\* The handles of p after a call of Hold with one new communicator.
LEMMA Holds ==
  ASSUME IInv, NEW p \in Procs, NEW freed, NEW comm, Hold(p, freed, {comm})
  PROVE  /\ held' = [q \in Procs |-> held'[q]]
         /\ \A q \in Procs \ {p} : held'[q] = held[q]
         /\ held'[p] = (held[p] \ {c.id : c \in freed})
                       \cup (IF comm.rank # COMM_NULL THEN {comm.id} ELSE {})
<1>1. held = [q \in Procs |-> held[q]]
  BY DEF IInv, Shape
<1>2. {c.id : c \in {n \in {comm} : n.rank # COMM_NULL}}
        = IF comm.rank # COMM_NULL THEN {comm.id} ELSE {}
  OBVIOUS
<1> QED
  BY <1>1, <1>2 DEF Hold

\* The rank functions of oldcomm and of the node communicator.
LEMMA BaseDomains ==
  ASSUME input \in Inputs
  PROVE  /\ DOMAIN NodeMajor(input.nodeOf) = Procs /\ NodeMajor(input.nodeOf) # COMM_NULL
         /\ DOMAIN oldcomm.rank = Procs /\ oldcomm.id = Old
<1>1. DOMAIN NodeMajor(input.nodeOf) = Procs
  BY DEF NodeMajor, Procs
<1>2. 0 \in Procs
  BY InputFacts
<1>3. NodeMajor(input.nodeOf) # COMM_NULL
  BY <1>1, <1>2 DEF COMM_NULL
<1> QED
  BY <1>1, <1>3 DEF oldcomm, Old

\* A process enters the function.
LEMMA EnterStep ==
  ASSUME IInv, NEW p \in Procs, perform_reordering(p)
  PROVE  /\ OthersKeep(p) /\ Follows(p)'
         /\ CallMade(p, Old, "node_comm", 0)
         /\ pc[p] = "application" /\ pc'[p] = "node_comm"
         /\ carts' = carts /\ tmp' = tmp /\ node_world_comm' = node_world_comm
<1>1. /\ pc[p] = "application" /\ pc'[p] = "node_comm" /\ pc' = [pc EXCEPT ![p] = "node_comm"]
      /\ Given(p) < input.calls
      /\ Call(p, oldcomm, "node_comm", 0)
      /\ input' = input /\ keys' = keys /\ node_world_comm' = node_world_comm
      /\ tmp' = tmp /\ held' = held /\ carts' = carts
  BY DEF perform_reordering, Goto, IInv, Shape, Given
<1>2. CallMade(p, Old, "node_comm", 0)
  BY <1>1, CallAdvances, BaseDomains DEF IInv, Shape
<1>3. OthersKeep(p)
  BY <1>1, <1>2 DEF OthersKeep, IInv, Shape, CallMade
<1>4. /\ Given(p)' = Given(p) /\ Round(p)' = Round(p) /\ Asked(p)' = Asked(p) + 1
      /\ Split(p)' = Split(p) /\ Carted(p)' = Carted(p) /\ CartedTwice(p)' = CartedTwice(p)
      /\ Asked(p) = Given(p) /\ Procs' = Procs /\ alg(p)' = alg(p)
  BY <1>1, Counters, Static DEF Given, Round, Asked, Split, Carted, CartedTwice
<1>5. Follows(p)
  BY DEF IInv
<1>6. CallsFollow(p)'
  <2>1. \A i : IsSeq(Calls(p, i)')
    BY <1>2, <1>5 DEF Follows, CallsFollow, CallMade
  <2>2. Count(p, Old)' = IF Strips(alg(p)) THEN Asked(p)' + Split(p)' ELSE Asked(p)'
    BY <1>2, <1>4, <1>5, Counters DEF Follows, CallsFollow, CallMade
  <2>3. \A k \in Rounds : \A i \in {NodeId(alg(p), k), TmpId(alg(p), k), CartId(alg(p), k)} :
          Count(p, i)' = Count(p, i)
    BY <1>2, IdsDiffer DEF CallMade
  <2> QED
    BY <1>4, <1>5, <2>1, <2>2, <2>3 DEF Follows, CallsFollow
<1>7. CommsFollow(p)'
  <2>1. Asked(p)' <= input.calls
    <3>1. input.calls \in Nat /\ Given(p) \in Nat
      BY InputFacts, Counters DEF IInv, Shape
    <3> QED
      BY <1>1, <1>4, <3>1
  <2>2. CommsFollow(p)
    BY <1>5 DEF Follows
  <2> QED
    BY <1>1, <2>1, <2>2 DEF CommsFollow, PCs, No_comm
<1>8. HeldFollow(p)'
  BY <1>1, <1>4, <1>5 DEF Follows, HeldFollow, Results, NodeComms
<1>9. KeysFollow(p)'
  BY <1>2, <1>3, <1>4, <1>5, KeysStay, Static DEF Follows, KeysFollow, OthersKeep
<1> QED
  BY <1>1, <1>2, <1>3, <1>6, <1>7, <1>8, <1>9 DEF Follows

\* The node communicator has come back, and the key goes into the split.
LEMMA NodeCommStep ==
  ASSUME IInv, NEW p \in Procs, NodeCommReturns(p)
  PROVE  /\ OthersKeep(p) /\ Follows(p)'
         /\ \E key \in KeyChoices(p) : \E b :
              b = BaseId(alg(p), Round(p)) /\ CallMade(p, b, "split", key)
         /\ pc[p] = "node_comm" /\ pc'[p] = "split"
         /\ carts' = carts /\ tmp' = tmp
<1>1. /\ pc[p] = "node_comm" /\ pc'[p] = "split" /\ pc' = [pc EXCEPT ![p] = "split"]
      /\ Complete(oldcomm, p)
      /\ node_world_comm' = [node_world_comm EXCEPT ![p] =
           [id |-> NewId(oldcomm, p), rank |-> NodeMajor(input.nodeOf)]]
      /\ node_world_comm'[p] = [id |-> NewId(oldcomm, p), rank |-> NodeMajor(input.nodeOf)]
      /\ Hold(p, {}, {node_world_comm'[p]})
      /\ input' = input /\ keys' = keys /\ tmp' = tmp /\ carts' = carts
  BY DEF NodeCommReturns, Goto, IInv, Shape
<1>2. Follows(p) /\ input \in Inputs
  BY DEF IInv, Shape
<1>3. /\ Given(p) \in Nat /\ Round(p) = Given(p) + 1 /\ Round(p) \in Rounds
      /\ Asked(p) = Given(p) + 1 /\ Split(p) = Given(p) /\ Carted(p) = Given(p)
      /\ CartedTwice(p) = Given(p)
  BY <1>1, Counters DEF Asked, Split, Carted, CartedTwice
<1>4. /\ Given(p)' = Given(p) /\ Round(p)' = Round(p) /\ Asked(p)' = Asked(p)
      /\ Split(p)' = Split(p) + 1 /\ Carted(p)' = Carted(p) /\ CartedTwice(p)' = CartedTwice(p)
      /\ Procs' = Procs /\ alg(p)' = alg(p) /\ KeyChoices(p)' = KeyChoices(p)
  BY <1>1, <1>3, Static DEF Given, Round, Asked, Split, Carted, CartedTwice
<1>5. node_world_comm'[p] = [id |-> NodeId(alg(p), Round(p)), rank |-> NodeMajor(input.nodeOf)]
  <2>1. Count(p, Old) = IF Strips(alg(p)) THEN 2 * Round(p) - 1 ELSE Round(p)
    BY <1>2, <1>3 DEF Follows, CallsFollow
  <2>2. NewId(oldcomm, p) = Extend(Old, Count(p, Old))
    BY <1>2, BaseDomains, CompleteCounts
  <2> QED
    BY <1>1, <2>1, <2>2 DEF NodeId
<1>b. PICK b : b = BaseId(alg(p), Round(p))
  OBVIOUS
<1>6. PICK key \in KeyChoices(p) : CallMade(p, b, "split", key)
  <2>1. PICK ppn \in DOMAIN keys[input.config[p]] :
          \E new_rank \in keys[input.config[p]][ppn][Base(p, node_world_comm'[p]).rank[p]] :
            Call(p, Base(p, node_world_comm'[p]), "split", new_rank)
    BY DEF NodeCommReturns
  <2>2. PICK key \in keys[input.config[p]][ppn][Base(p, node_world_comm'[p]).rank[p]] :
          Call(p, Base(p, node_world_comm'[p]), "split", key)
    BY <2>1
  <2>3. /\ Base(p, node_world_comm'[p]).rank = BaseRanks(p)
        /\ Base(p, node_world_comm'[p]).id = b
    BY <1>2, <1>5, <1>b, BaseDomains DEF Base, BaseRanks, BaseId, Strips
  <2>4. key \in KeyChoices(p)
    BY <2>1, <2>2, <2>3 DEF KeyChoices
  <2>5. CallMade(p, b, "split", key)
    BY <1>1, <1>2, <2>2, <2>3, CallAdvances DEF IInv
  <2> QED
    BY <2>4, <2>5
<1>7. /\ held' = [q \in Procs |-> held'[q]] /\ \A q \in Procs \ {p} : held'[q] = held[q]
      /\ held'[p] = held[p] \cup {NodeId(alg(p), Round(p))}
  BY <1>1, <1>2, <1>5, Holds, BaseDomains
<1>8. OthersKeep(p)
  BY <1>1, <1>6, <1>7 DEF OthersKeep, IInv, Shape, CallMade
<1>9. CallsFollow(p)'
  <2>1. \A i : IsSeq(Calls(p, i)')
    BY <1>2, <1>6 DEF Follows, CallsFollow, CallMade
  <2>2. \A i : Count(p, i)' = IF i = b THEN Count(p, i) + 1 ELSE Count(p, i)
    BY <1>6 DEF CallMade
  <2>3. CASE Strips(alg(p))
    <3>1. b = Old
      BY <1>b, <2>3 DEF BaseId
    <3>2. \A k \in Rounds : \A i \in {NodeId(alg(p), k), TmpId(alg(p), k), CartId(alg(p), k)} :
            Count(p, i)' = Count(p, i)
      BY <2>2, <3>1, IdsDiffer
    <3>3. Count(p, Old)' = Count(p, Old) + 1
      BY <2>2, <3>1
    <3>4. Count(p, Old)' = Asked(p)' + Split(p)'
      BY <1>2, <1>3, <1>4, <2>3, <3>3 DEF Follows, CallsFollow
    <3> QED
      BY <1>2, <1>4, <2>1, <2>3, <3>2, <3>4 DEF Follows, CallsFollow
  <2>4. CASE ~ Strips(alg(p))
    <3>1. b = NodeId(alg(p), Round(p))
      BY <1>b, <2>4 DEF BaseId
    <3>2. ASSUME NEW k \in Rounds PROVE Count(p, TmpId(alg(p), k))' = Count(p, TmpId(alg(p), k))
      <4>1. TmpId(alg(p), k) # b
        BY <1>3, <3>1, IdsDiffer
      <4>2. PICK t : t = TmpId(alg(p), k)
        OBVIOUS
      <4>3. Count(p, t)' = Count(p, t)
        BY <2>2, <4>1, <4>2
      <4> QED
        BY <1>4, <4>2, <4>3
    <3>3. Count(p, Old)' = Count(p, Old)
      BY <1>3, <2>2, <3>1, IdsDiffer
    <3>4. ASSUME NEW k \in Rounds
          PROVE  Count(p, NodeId(alg(p), k))' = IF k <= Split(p)' THEN 1 ELSE 0
      <4>1. Count(p, NodeId(alg(p), k)) = IF k <= Split(p) THEN 1 ELSE 0
        BY <1>2, <2>4 DEF Follows, CallsFollow
      <4>2. CASE k = Round(p)
        BY <1>3, <1>4, <2>2, <3>1, <4>1, <4>2 DEF Rounds
      <4>3. CASE k # Round(p)
        <5>1. NodeId(alg(p), k) # b
          BY <1>3, <3>1, <4>3, IdsDiffer
        <5>2. Count(p, NodeId(alg(p), k))' = Count(p, NodeId(alg(p), k))
          BY <1>4, <2>2, <5>1
        <5> QED
          BY <1>3, <1>4, <4>1, <4>3, <5>2 DEF Rounds
      <4> QED
        BY <4>2, <4>3
    <3> QED
      BY <1>2, <1>4, <2>1, <2>4, <3>2, <3>3, <3>4 DEF Follows, CallsFollow
  <2> QED
    BY <2>3, <2>4
<1>10. CommsFollow(p)'
  <2>1. CommsFollow(p)
    BY <1>2 DEF Follows
  <2> QED
    BY <1>1, <1>4, <1>5, <2>1 DEF CommsFollow, PCs
<1>11. HeldFollow(p)'
  <2>1. Results(p)' = Results(p)
    BY <1>1, <1>4 DEF Results
  <2>2. NodeComms(p)' = NodeComms(p) \cup {NodeId(alg(p), Round(p))}
    <3>1. 1 .. Split(p)' = 1 .. Split(p) \cup {Round(p)}
      BY <1>3, <1>4
    <3>2. CASE Strips(alg(p))
      BY <1>4, <3>1, <3>2 DEF NodeComms
    <3>3. CASE ~ Strips(alg(p))
      BY <1>1, <1>4, <3>3 DEF NodeComms
    <3> QED
      BY <3>2, <3>3
  <2>3. held[p] = Results(p) \cup NodeComms(p)
    BY <1>1, <1>2 DEF Follows, HeldFollow
  <2> QED
    BY <1>1, <1>7, <2>1, <2>2, <2>3 DEF HeldFollow
<1>12. KeysFollow(p)'
  <2>1. \A k \in 1 .. Split(p) : KeyArg(p, k)' = KeyArg(p, k)
    BY <1>6, <1>8, KeysStay
  <2>2. KeyArg(p, Round(p))' = key
    <3>1. PICK n, a, r : n = SplitIndex(alg(p), Round(p)) /\ a = alg(p) /\ r = Round(p)
      OBVIOUS
    <3>2. Count(p, b) + 1 = n
      BY <1>2, <1>3, <1>b, <3>1 DEF Follows, CallsFollow, BaseId, SplitIndex
    <3>3. Calls(p, b)'[n] = [op |-> "split", arg |-> key]
      BY <1>6, <3>2 DEF CallMade
    <3>4. BaseId(a, r) = b /\ SplitIndex(a, r) = n
      BY <1>b, <3>1
    <3>5. KeyArg(p, r)' = Calls(p, b)'[n].arg
      BY <1>4, <3>1, <3>4 DEF KeyArg
    <3> QED
      BY <1>4, <3>1, <3>3, <3>5
  <2>3. \A k \in 1 .. Split(p)' : k \in 1 .. Split(p) \/ k = Round(p)
    BY <1>3, <1>4
  <2> QED
    BY <1>2, <1>4, <1>6, <2>1, <2>2, <2>3 DEF Follows, KeysFollow
<1> QED
  BY <1>1, <1>b, <1>6, <1>8, <1>9, <1>10, <1>11, <1>12 DEF Follows

\* What p is blocked on in its split, and that it has come to the call of its round.
LEMMA SplitBase ==
  ASSUME IInv, NEW p \in Procs, pc[p] = "split"
  PROVE  /\ Base(p, node_world_comm[p]).id = BaseId(alg(p), Round(p))
         /\ Base(p, node_world_comm[p]).rank = BaseRanks(p)
         /\ DOMAIN BaseRanks(p) = Procs
         /\ Count(p, BaseId(alg(p), Round(p))) = SplitIndex(alg(p), Round(p))
         /\ Round(p) = Given(p) + 1 /\ Round(p) \in Rounds
         /\ Asked(p) = Round(p) /\ Split(p) = Round(p) /\ Carted(p) = Given(p)
         /\ CartedTwice(p) = Given(p)
<1>1. /\ Given(p) \in Nat /\ Round(p) = Given(p) + 1 /\ Round(p) \in Rounds
      /\ Asked(p) = Round(p) /\ Split(p) = Round(p) /\ Carted(p) = Given(p)
      /\ CartedTwice(p) = Given(p)
  BY Counters DEF Asked, Split, Carted, CartedTwice, Round
<1>2. Follows(p) /\ input \in Inputs
  BY DEF IInv, Shape
<1>3. node_world_comm[p] = [id |-> NodeId(alg(p), Round(p)), rank |-> NodeMajor(input.nodeOf)]
  BY <1>2 DEF Follows, CommsFollow
<1>4. /\ Base(p, node_world_comm[p]).id = BaseId(alg(p), Round(p))
      /\ Base(p, node_world_comm[p]).rank = BaseRanks(p)
      /\ DOMAIN BaseRanks(p) = Procs
  BY <1>2, <1>3, BaseDomains DEF Base, BaseRanks, BaseId, Strips
<1>5. Count(p, BaseId(alg(p), Round(p))) = SplitIndex(alg(p), Round(p))
  BY <1>1, <1>2 DEF Follows, CallsFollow, BaseId, SplitIndex
<1> QED
  BY <1>1, <1>4, <1>5

\* The communicator has been split by the keys of all.
LEMMA SplitStep ==
  ASSUME IInv, NEW p \in Procs, SplitReturns(p)
  PROVE  /\ OthersKeep(p) /\ Follows(p)'
         /\ \E i : i = TmpId(alg(p), Round(p)) /\ CallMade(p, i, "cart_create", 0)
         /\ pc[p] = "split" /\ pc'[p] = "cart_create"
         /\ carts' = carts /\ node_world_comm' = node_world_comm
         /\ \A q \in Procs :
              Count(q, BaseId(alg(p), Round(p))) >= SplitIndex(alg(p), Round(p))
         /\ tmp'[p].rank = RankBy(BaseRanks(p), [q \in Procs |->
              Calls(q, BaseId(alg(p), Round(p)))[SplitIndex(alg(p), Round(p))].arg], Procs)
<1> DEFINE base == Base(p, node_world_comm[p])
           args == Arguments(base.rank, On(base), p)
           split == [id |-> NewId(base, p),
                     rank |-> MPI_Comm_split(base.rank, [q \in Procs |-> 0], args, p)]
<1>1. /\ pc[p] = "split" /\ pc'[p] = "cart_create" /\ pc' = [pc EXCEPT ![p] = "cart_create"]
      /\ Complete(base, p)
      /\ tmp' = [tmp EXCEPT ![p] = split]
      /\ tmp'[p] = split
      /\ Call(p, tmp'[p], "cart_create", 0)
      /\ Hold(p, {}, {tmp'[p]})
      /\ input' = input /\ keys' = keys /\ node_world_comm' = node_world_comm /\ carts' = carts
  BY DEF SplitReturns, Goto, IInv, Shape
<1>2. Follows(p) /\ input \in Inputs
  BY DEF IInv, Shape
<1>3. /\ base.id = BaseId(alg(p), Round(p)) /\ base.rank = BaseRanks(p)
      /\ DOMAIN BaseRanks(p) = Procs
      /\ Count(p, BaseId(alg(p), Round(p))) = SplitIndex(alg(p), Round(p))
      /\ Given(p) \in Nat /\ Round(p) = Given(p) + 1 /\ Round(p) \in Rounds
      /\ Asked(p) = Round(p) /\ Split(p) = Round(p) /\ Carted(p) = Given(p)
      /\ CartedTwice(p) = Given(p)
  BY <1>1, SplitBase, Counters
<1>4. /\ Given(p)' = Given(p) /\ Round(p)' = Round(p) /\ Asked(p)' = Asked(p)
      /\ Split(p)' = Split(p) /\ Carted(p)' = Carted(p) + 1 /\ CartedTwice(p)' = CartedTwice(p)
      /\ Procs' = Procs /\ alg(p)' = alg(p) /\ KeyChoices(p)' = KeyChoices(p)
  BY <1>1, <1>3, Static DEF Given, Round, Asked, Split, Carted, CartedTwice
<1>5. /\ \A q \in Procs :
           Count(q, BaseId(alg(p), Round(p))) >= SplitIndex(alg(p), Round(p))
      /\ NewId(base, p) = TmpId(alg(p), Round(p))
  <2> HIDE DEF base
  <2> QED
    BY <1>1, <1>3, CompleteCounts DEF TmpId
<1>6. args = [q \in Procs |->
         Calls(q, BaseId(alg(p), Round(p)))[SplitIndex(alg(p), Round(p))].arg]
  <2> HIDE DEF base
  <2>1. On(base) = [q \in Procs |-> Calls(q, BaseId(alg(p), Round(p)))]
    BY <1>3, OnIsCalls
  <2>2. Current(On(base), p) = SplitIndex(alg(p), Round(p))
    BY <1>3, <2>1 DEF Current, Count
  <2> QED
    BY <1>3, <2>1, <2>2 DEF Arguments, Argument
<1>7. split.rank = RankBy(BaseRanks(p), args, Procs) /\ DOMAIN split.rank = Procs
  <2> HIDE DEF base, args
  <2>1. {q \in Procs : [r \in Procs |-> 0][q] = [r \in Procs |-> 0][p]} = Procs
    OBVIOUS
  <2>2. [r \in Procs |-> 0][p] # UNDEFINED
    BY DEF UNDEFINED
  <2>3. split.rank = RankBy(BaseRanks(p), args, Procs)
    BY <1>3, <2>1, <2>2 DEF MPI_Comm_split
  <2> QED
    BY <2>3 DEF RankBy
<1> HIDE DEF base, args
<1>8. split.id = TmpId(alg(p), Round(p)) /\ split.rank # COMM_NULL
  BY <1>5, <1>7 DEF COMM_NULL
<1> HIDE DEF split
<1>9. PICK i : i = TmpId(alg(p), Round(p))
  OBVIOUS
<1>10. CallMade(p, i, "cart_create", 0)
  BY <1>1, <1>2, <1>8, <1>9, CallAdvances DEF IInv
<1>11. /\ held' = [q \in Procs |-> held'[q]] /\ \A q \in Procs \ {p} : held'[q] = held[q]
       /\ held'[p] = held[p] \cup {TmpId(alg(p), Round(p))}
  BY <1>1, <1>8, Holds
<1>12. OthersKeep(p)
  BY <1>1, <1>10, <1>11 DEF OthersKeep, IInv, Shape, CallMade
<1>13. CallsFollow(p)'
  <2>1. \A j : IsSeq(Calls(p, j)')
    BY <1>2, <1>10 DEF Follows, CallsFollow, CallMade
  <2>2. \A j : Count(p, j)' = IF j = i THEN Count(p, j) + 1 ELSE Count(p, j)
    BY <1>10 DEF CallMade
  <2>3. Count(p, Old)' = Count(p, Old)
    BY <1>3, <1>9, <2>2, IdsDiffer
  <2>4. ASSUME NEW k \in Rounds
        PROVE  /\ Count(p, NodeId(alg(p), k))' = Count(p, NodeId(alg(p), k))
               /\ Strips(alg(p)) => Count(p, CartId(alg(p), k))' = Count(p, CartId(alg(p), k))
               /\ Count(p, TmpId(alg(p), k))' = IF k <= Carted(p)' THEN 1 ELSE 0
    <3>1. NodeId(alg(p), k) # i /\ CartId(alg(p), k) # i /\ (TmpId(alg(p), k) = i => k = Round(p))
      BY <1>3, <1>9, IdsDiffer
    <3>2. Count(p, TmpId(alg(p), k)) = IF k <= Carted(p) THEN 1 ELSE 0
      BY <1>2 DEF Follows, CallsFollow
    <3>3. /\ Count(p, NodeId(alg(p), k))' = Count(p, NodeId(alg(p), k))
          /\ Count(p, CartId(alg(p), k))' = Count(p, CartId(alg(p), k))
      BY <1>4, <2>2, <3>1
    <3>4. CASE k = Round(p)
      BY <1>3, <1>4, <1>9, <2>2, <3>2, <3>3, <3>4 DEF Rounds
    <3>5. CASE k # Round(p)
      <4>1. Count(p, TmpId(alg(p), k))' = Count(p, TmpId(alg(p), k))
        BY <1>4, <2>2, <3>1, <3>5
      <4> QED
        BY <1>3, <1>4, <3>2, <3>3, <3>5, <4>1 DEF Rounds
    <3> QED
      BY <3>3, <3>4, <3>5
  <2> QED
    BY <1>2, <1>4, <2>1, <2>3, <2>4 DEF Follows, CallsFollow
<1>14. CommsFollow(p)'
  <2>1. CommsFollow(p)
    BY <1>2 DEF Follows
  <2> QED
    BY <1>1, <1>4, <1>7, <1>8, <2>1 DEF CommsFollow, PCs
<1>15. HeldFollow(p)'
  BY <1>1, <1>2, <1>4, <1>11 DEF Follows, HeldFollow, Results, NodeComms
<1>16. KeysFollow(p)'
  BY <1>2, <1>4, <1>10, <1>12, KeysStay DEF Follows, KeysFollow
<1> QED
  BY <1>1, <1>5, <1>6, <1>7, <1>9, <1>10, <1>12, <1>13, <1>14, <1>15, <1>16 DEF Follows, split

\* The answer to p when the processes with these ranks fill the grid.
View(rank, p) ==
  IF rank[p] < Cells THEN [q \in {r \in Procs : rank[r] < Cells} |-> rank[q]] ELSE COMM_NULL

\* What p knows in its MPI_Cart_create on tmp.
LEMMA TmpFacts ==
  ASSUME IInv, NEW p \in Procs, pc[p] = "cart_create", Complete(tmp[p], p)
  PROVE  /\ NewCart(tmp[p], p).id = CartId(alg(p), Round(p))
         /\ NewCart(tmp[p], p).rank = View(tmp[p].rank, p)
         /\ View(tmp[p].rank, p) # COMM_NULL =>
              p \in DOMAIN View(tmp[p].rank, p) /\ DOMAIN View(tmp[p].rank, p) \subseteq Procs
         /\ Given(p) \in Nat /\ Round(p) = Given(p) + 1 /\ Round(p) \in Rounds
         /\ Asked(p) = Round(p) /\ Split(p) = Round(p) /\ Carted(p) = Round(p)
         /\ CartedTwice(p) = Given(p)
<1>1. /\ Given(p) \in Nat /\ Round(p) = Given(p) + 1 /\ Round(p) \in Rounds
      /\ Asked(p) = Round(p) /\ Split(p) = Round(p) /\ Carted(p) = Round(p)
      /\ CartedTwice(p) = Given(p)
  BY Counters DEF Asked, Split, Carted, CartedTwice, Round
<1>2. tmp[p].id = TmpId(alg(p), Round(p)) /\ DOMAIN tmp[p].rank = Procs
  BY DEF IInv, Follows, CommsFollow
<1>3. Count(p, TmpId(alg(p), Round(p))) = 1
  BY <1>1 DEF IInv, Follows, CallsFollow
<1>4. NewCart(tmp[p], p).id = CartId(alg(p), Round(p))
  BY <1>2, <1>3, CompleteCounts DEF NewCart, CartId
<1>5. NewCart(tmp[p], p).rank = View(tmp[p].rank, p)
  BY <1>2 DEF NewCart, Cartesian, View, Members
<1>6. View(tmp[p].rank, p) # COMM_NULL =>
        p \in DOMAIN View(tmp[p].rank, p) /\ DOMAIN View(tmp[p].rank, p) \subseteq Procs
  BY DEF View
<1> QED
  BY <1>1, <1>4, <1>5, <1>6

\* The results of p with one more.
LEMMA OneMoreResult ==
  ASSUME IInv, NEW p \in Procs, NEW cart, carts' = [carts EXCEPT ![p] = Append(@, cart)],
         alg(p)' = alg(p)
  PROVE  /\ carts' = [q \in Procs |-> carts'[q]] /\ \A q \in Procs \ {p} : carts'[q] = carts[q]
         /\ IsSeq(carts'[p]) /\ Given(p)' = Given(p) + 1 /\ Round(p)' = Round(p) + 1
         /\ carts'[p][Round(p)] = cart /\ \A k \in 1 .. Given(p) : carts'[p][k] = carts[p][k]
         /\ carts'[p] = Append(carts[p], cart)
         /\ Results(p)' = Results(p)
              \cup (IF cart # COMM_NULL THEN {ResultId(alg(p), Round(p))} ELSE {})
<1>1. IsSeq(carts[p]) /\ Given(p) \in Nat
  BY Counters DEF IInv, Follows, CommsFollow
<1>2. carts = [q \in Procs |-> carts[q]]
  BY DEF IInv, Shape
<1>3. /\ carts' = [q \in Procs |-> carts'[q]] /\ \A q \in Procs \ {p} : carts'[q] = carts[q]
      /\ carts'[p] = Append(carts[p], cart)
  BY <1>2
<1>4. /\ IsSeq(carts'[p]) /\ Given(p)' = Given(p) + 1 /\ carts'[p][Given(p) + 1] = cart
      /\ \A k \in 1 .. Given(p) : carts'[p][k] = carts[p][k]
  BY <1>1, <1>3, Appended DEF Given
<1>5. Round(p) = Given(p) + 1 /\ Round(p)' = Round(p) + 1
  BY <1>1, <1>4 DEF Round
<1>6. {k \in 1 .. Given(p)' : carts'[p][k] # COMM_NULL}
        = {k \in 1 .. Given(p) : carts[p][k] # COMM_NULL}
          \cup (IF cart # COMM_NULL THEN {Round(p)} ELSE {})
  <2>1. \A k : k \in 1 .. Given(p)' <=> k \in 1 .. Given(p) \/ k = Round(p)
    BY <1>1, <1>4, <1>5
  <2>2. Round(p) \notin 1 .. Given(p)
    BY <1>1, <1>5
  <2> QED
    BY <1>4, <1>5, <2>1, <2>2
<1>7. Results(p)' = Results(p)
        \cup (IF cart # COMM_NULL THEN {ResultId(alg(p), Round(p))} ELSE {})
  <2>1. Results(p)' = {ResultId(alg(p), k) : k \in {k \in 1 .. Given(p)' : carts'[p][k] # COMM_NULL}}
    BY DEF Results
  <2> QED
    BY <1>6, <2>1 DEF Results
<1> QED
  BY <1>3, <1>4, <1>5, <1>7

\* No result has the id of another communicator of p.
LEMMA ResultIds ==
  ASSUME IInv, NEW p \in Procs, NEW k \in Rounds
  PROVE  /\ NodeId(alg(p), k) \notin Results(p) /\ TmpId(alg(p), k) \notin Results(p)
         /\ Strips(alg(p)) => CartId(alg(p), k) \notin Results(p)
<1>1. Given(p) \in Nat
  BY Counters
<1>2. ASSUME NEW id \in Results(p)
      PROVE  \E j \in Rounds : id = ResultId(alg(p), j)
  BY <1>1, <1>2 DEF Results, Rounds
<1>3. ASSUME NEW j \in Rounds
      PROVE  /\ NodeId(alg(p), k) # ResultId(alg(p), j) /\ TmpId(alg(p), k) # ResultId(alg(p), j)
             /\ Strips(alg(p)) => CartId(alg(p), k) # ResultId(alg(p), j)
  BY IdsDiffer
<1> QED
  BY <1>2, <1>3

\* KD_TREE and HYPERPLANE return.
LEMMA CartStep ==
  ASSUME IInv, NEW p \in Procs, CartReturns(p)
  PROVE  /\ OthersKeep(p) /\ Follows(p)'
         /\ \A i : Calls(p, i)' = Calls(p, i)
         /\ pc[p] = "cart_create" /\ pc'[p] = "application" /\ ~ Strips(alg(p))
         /\ tmp' = [tmp EXCEPT ![p] = No_comm]
         /\ node_world_comm' = [node_world_comm EXCEPT ![p] = No_comm]
         /\ carts' = [carts EXCEPT ![p] = Append(@, View(tmp[p].rank, p))]
         /\ \A q \in Procs : Count(q, TmpId(alg(p), Round(p))) >= 1
<1> DEFINE cart == NewCart(tmp[p], p)
<1>1. /\ pc[p] = "cart_create" /\ pc'[p] = "application" /\ pc' = [pc EXCEPT ![p] = "application"]
      /\ ~ Strips(alg(p))
      /\ Complete(tmp[p], p)
      /\ carts' = [carts EXCEPT ![p] = Append(@, cart.rank)]
      /\ Hold(p, {tmp[p], node_world_comm[p]}, {cart})
      /\ tmp' = [tmp EXCEPT ![p] = No_comm] /\ tmp'[p] = No_comm
      /\ node_world_comm' = [node_world_comm EXCEPT ![p] = No_comm]
      /\ node_world_comm'[p] = No_comm
      /\ input' = input /\ keys' = keys /\ made' = made
  BY DEF CartReturns, Goto, Give, IInv, Shape, Strips
<1>2. Follows(p) /\ input \in Inputs
  BY DEF IInv, Shape
<1>3. /\ cart.id = CartId(alg(p), Round(p)) /\ cart.rank = View(tmp[p].rank, p)
      /\ Given(p) \in Nat /\ Round(p) = Given(p) + 1 /\ Round(p) \in Rounds
      /\ Asked(p) = Round(p) /\ Split(p) = Round(p) /\ Carted(p) = Round(p)
      /\ CartedTwice(p) = Given(p)
  BY <1>1, TmpFacts
<1> HIDE DEF cart
<1>4. Procs' = Procs /\ alg(p)' = alg(p) /\ KeyChoices(p)' = KeyChoices(p)
  BY <1>1, Static
<1>5. /\ carts' = [q \in Procs |-> carts'[q]] /\ \A q \in Procs \ {p} : carts'[q] = carts[q]
      /\ IsSeq(carts'[p]) /\ Given(p)' = Given(p) + 1 /\ Round(p)' = Round(p) + 1
      /\ Results(p)' = Results(p)
           \cup (IF cart.rank # COMM_NULL THEN {ResultId(alg(p), Round(p))} ELSE {})
  BY <1>1, <1>4, OneMoreResult
<1>6. /\ Asked(p)' = Round(p) /\ Split(p)' = Round(p) /\ Carted(p)' = Round(p)
      /\ CartedTwice(p)' = Round(p)
  BY <1>1, <1>3, <1>5 DEF Asked, Split, Carted, CartedTwice
<1>7. \A q, i : Calls(q, i)' = Calls(q, i) /\ Count(q, i)' = Count(q, i)
  BY <1>1 DEF Calls, Count
<1>8. /\ tmp[p].id = TmpId(alg(p), Round(p)) /\ DOMAIN tmp[p].rank = Procs
      /\ node_world_comm[p].id = NodeId(alg(p), Round(p))
  BY <1>1, <1>2 DEF Follows, CommsFollow
<1>9. /\ held' = [q \in Procs |-> held'[q]] /\ \A q \in Procs \ {p} : held'[q] = held[q]
      /\ held'[p] = (held[p] \ {TmpId(alg(p), Round(p)), NodeId(alg(p), Round(p))})
                    \cup (IF cart.rank # COMM_NULL THEN {CartId(alg(p), Round(p))} ELSE {})
  <2>1. {c.id : c \in {tmp[p], node_world_comm[p]}}
          = {TmpId(alg(p), Round(p)), NodeId(alg(p), Round(p))}
    BY <1>8
  <2>2. PICK freed, comm : freed = {tmp[p], node_world_comm[p]} /\ comm = cart
    OBVIOUS
  <2>3. Hold(p, freed, {comm})
    BY <1>1, <2>2
  <2>4. /\ held' = [q \in Procs |-> held'[q]] /\ \A q \in Procs \ {p} : held'[q] = held[q]
        /\ held'[p] = (held[p] \ {c.id : c \in freed})
                      \cup (IF comm.rank # COMM_NULL THEN {comm.id} ELSE {})
    BY <2>3, Holds
  <2> QED
    BY <1>3, <2>1, <2>2, <2>4
<1>10. OthersKeep(p)
  BY <1>1, <1>5, <1>7, <1>9 DEF OthersKeep, IInv, Shape
<1>11. CallsFollow(p)'
  BY <1>1, <1>2, <1>3, <1>4, <1>6, <1>7 DEF Follows, CallsFollow
<1>12. CommsFollow(p)'
  BY <1>1, <1>2, <1>3, <1>4, <1>5, <1>6 DEF Follows, CommsFollow, PCs
<1>13. HeldFollow(p)'
  <2>1. held[p] = Results(p) \cup {NodeId(alg(p), Round(p))} \cup {TmpId(alg(p), Round(p))}
    BY <1>1, <1>2 DEF Follows, HeldFollow, NodeComms
  <2>2. /\ NodeId(alg(p), Round(p)) \notin Results(p)
        /\ TmpId(alg(p), Round(p)) \notin Results(p)
    BY <1>3, ResultIds
  <2>3. NodeComms(p)' = {}
    BY <1>1, <1>4 DEF NodeComms
  <2>4. ResultId(alg(p), Round(p)) = CartId(alg(p), Round(p))
    BY <1>1 DEF ResultId
  <2> QED
    BY <1>1, <1>5, <1>9, <2>1, <2>2, <2>3, <2>4 DEF HeldFollow
<1>14. KeysFollow(p)'
  <2>1. \A k \in 1 .. Split(p) : KeyArg(p, k)' = KeyArg(p, k)
    BY <1>7, <1>10, KeysStay
  <2> QED
    BY <1>2, <1>3, <1>4, <1>6, <2>1 DEF Follows, KeysFollow
<1>15. \A q \in Procs : Count(q, TmpId(alg(p), Round(p))) >= 1
  <2>1. Count(p, TmpId(alg(p), Round(p))) = 1
    BY <1>2, <1>3 DEF Follows, CallsFollow
  <2> QED
    BY <1>1, <1>8, <2>1, CompleteCounts
<1> QED
  BY <1>1, <1>3, <1>7, <1>10, <1>11, <1>12, <1>13, <1>14, <1>15 DEF Follows

\* STENCIL_STRIPS goes on to its second MPI_Cart_create, or ends the job.
LEMMA StripsCartStep ==
  ASSUME IInv, NEW p \in Procs, StripsCartReturns(p)
  PROVE  /\ OthersKeep(p) /\ Follows(p)'
         /\ pc[p] = "cart_create" /\ pc'[p] \in {"second_cart_create", "aborted"}
         /\ Strips(alg(p))
         /\ \/ \E i : i = CartId(alg(p), Round(p)) /\ CallMade(p, i, "cart_create", 0)
            \/ \A i : Calls(p, i)' = Calls(p, i)
         /\ carts' = carts
         /\ tmp' = [tmp EXCEPT ![p] = No_comm]
         /\ node_world_comm'[p].rank = View(tmp[p].rank, p)
         /\ \A q \in Procs : Count(q, TmpId(alg(p), Round(p))) >= 1
<1> DEFINE cart == NewCart(tmp[p], p)
<1>1. /\ pc[p] = "cart_create"
      /\ Strips(alg(p))
      /\ Complete(tmp[p], p)
      /\ node_world_comm' = [node_world_comm EXCEPT ![p] = cart]
      /\ node_world_comm'[p] = cart
      /\ \/ /\ cart.rank = COMM_NULL
            /\ pc'[p] = "aborted" /\ pc' = [pc EXCEPT ![p] = "aborted"] /\ made' = made
         \/ /\ cart.rank # COMM_NULL
            /\ pc'[p] = "second_cart_create" /\ pc' = [pc EXCEPT ![p] = "second_cart_create"]
            /\ Call(p, cart, "cart_create", 0)
      /\ Hold(p, {tmp[p]}, {cart})
      /\ tmp' = [tmp EXCEPT ![p] = No_comm] /\ tmp'[p] = No_comm
      /\ input' = input /\ keys' = keys /\ carts' = carts
  BY DEF StripsCartReturns, Goto, IInv, Shape, Strips
<1>2. Follows(p) /\ input \in Inputs
  BY DEF IInv, Shape
<1>3. /\ cart.id = CartId(alg(p), Round(p)) /\ cart.rank = View(tmp[p].rank, p)
      /\ (cart.rank # COMM_NULL => p \in DOMAIN cart.rank /\ DOMAIN cart.rank \subseteq Procs)
      /\ Given(p) \in Nat /\ Round(p) = Given(p) + 1 /\ Round(p) \in Rounds
      /\ Asked(p) = Round(p) /\ Split(p) = Round(p) /\ Carted(p) = Round(p)
      /\ CartedTwice(p) = Given(p)
  BY <1>1, TmpFacts
<1> HIDE DEF cart
<1>4. Procs' = Procs /\ alg(p)' = alg(p) /\ KeyChoices(p)' = KeyChoices(p)
  BY <1>1, Static
<1>5. /\ Given(p)' = Given(p) /\ Round(p)' = Round(p) /\ Asked(p)' = Asked(p)
      /\ Split(p)' = Split(p) /\ Carted(p)' = Carted(p)
      /\ CartedTwice(p)' = IF cart.rank = COMM_NULL THEN Given(p) ELSE Given(p) + 1
  BY <1>1, <1>3 DEF Given, Round, Asked, Split, Carted, CartedTwice
<1>6. PICK i : i = CartId(alg(p), Round(p))
  OBVIOUS
<1>7. cart.rank # COMM_NULL => CallMade(p, i, "cart_create", 0)
  BY <1>1, <1>2, <1>3, <1>6, CallAdvances DEF IInv
<1>8. cart.rank = COMM_NULL => \A q, j : Calls(q, j)' = Calls(q, j) /\ Count(q, j)' = Count(q, j)
  BY <1>1 DEF Calls, Count
<1>9. /\ tmp[p].id = TmpId(alg(p), Round(p)) /\ DOMAIN tmp[p].rank = Procs
      /\ node_world_comm[p].id = NodeId(alg(p), Round(p))
  BY <1>1, <1>2 DEF Follows, CommsFollow
<1>10. /\ held' = [q \in Procs |-> held'[q]] /\ \A q \in Procs \ {p} : held'[q] = held[q]
       /\ held'[p] = (held[p] \ {TmpId(alg(p), Round(p))})
                     \cup (IF cart.rank # COMM_NULL THEN {CartId(alg(p), Round(p))} ELSE {})
  <2>1. {c.id : c \in {tmp[p]}} = {TmpId(alg(p), Round(p))}
    BY <1>9
  <2>2. PICK freed, comm : freed = {tmp[p]} /\ comm = cart
    OBVIOUS
  <2>3. Hold(p, freed, {comm})
    BY <1>1, <2>2
  <2>4. /\ held' = [q \in Procs |-> held'[q]] /\ \A q \in Procs \ {p} : held'[q] = held[q]
        /\ held'[p] = (held[p] \ {c.id : c \in freed})
                      \cup (IF comm.rank # COMM_NULL THEN {comm.id} ELSE {})
    BY <2>3, Holds
  <2> QED
    BY <1>3, <2>1, <2>2, <2>4
<1>11. OthersKeep(p)
  <2>1. made' = [q \in Procs |-> made'[q]]
    BY <1>1, <1>7 DEF CallMade, IInv, Shape
  <2>2. \A q \in Procs \ {p} : \A j : Calls(q, j)' = Calls(q, j)
    BY <1>7, <1>8 DEF CallMade
  <2>3. /\ pc' = [q \in Procs |-> pc'[q]] /\ \A q \in Procs \ {p} : pc'[q] = pc[q]
    BY <1>1 DEF IInv, Shape
  <2> QED
    BY <1>1, <1>10, <2>1, <2>2, <2>3 DEF OthersKeep, IInv, Shape
<1>12. CallsFollow(p)'
  <2>1. CASE cart.rank = COMM_NULL
    BY <1>2, <1>3, <1>4, <1>5, <1>8, <2>1 DEF Follows, CallsFollow
  <2>2. CASE cart.rank # COMM_NULL
    <3>1. \A j : IsSeq(Calls(p, j)')
      BY <1>2, <1>7, <2>2 DEF Follows, CallsFollow, CallMade
    <3>2. \A j : Count(p, j)' = IF j = i THEN Count(p, j) + 1 ELSE Count(p, j)
      BY <1>7, <2>2 DEF CallMade
    <3>3. Count(p, Old)' = Count(p, Old)
      BY <1>3, <1>6, <3>2, IdsDiffer
    <3>4. ASSUME NEW k \in Rounds
          PROVE  /\ Count(p, NodeId(alg(p), k))' = Count(p, NodeId(alg(p), k))
                 /\ Count(p, TmpId(alg(p), k))' = Count(p, TmpId(alg(p), k))
                 /\ Count(p, CartId(alg(p), k))' = IF k <= CartedTwice(p)' THEN 1 ELSE 0
      <4>1. NodeId(alg(p), k) # i /\ TmpId(alg(p), k) # i /\ (CartId(alg(p), k) = i => k = Round(p))
        BY <1>3, <1>6, IdsDiffer
      <4>2. Count(p, CartId(alg(p), k)) = IF k <= CartedTwice(p) THEN 1 ELSE 0
        BY <1>1, <1>2 DEF Follows, CallsFollow
      <4>3. /\ Count(p, NodeId(alg(p), k))' = Count(p, NodeId(alg(p), k))
            /\ Count(p, TmpId(alg(p), k))' = Count(p, TmpId(alg(p), k))
        BY <1>4, <3>2, <4>1
      <4>4. CASE k = Round(p)
        BY <1>3, <1>4, <1>5, <1>6, <2>2, <3>2, <4>2, <4>3, <4>4 DEF Rounds
      <4>5. CASE k # Round(p)
        <5>1. Count(p, CartId(alg(p), k))' = Count(p, CartId(alg(p), k))
          BY <1>4, <3>2, <4>1, <4>5
        <5> QED
          BY <1>3, <1>5, <2>2, <4>2, <4>3, <4>5, <5>1 DEF Rounds
      <4> QED
        BY <4>4, <4>5
    <3> QED
      BY <1>1, <1>2, <1>4, <1>5, <3>1, <3>3, <3>4 DEF Follows, CallsFollow
  <2> QED
    BY <2>1, <2>2
<1>13. CommsFollow(p)'
  <2>1. CommsFollow(p)
    BY <1>2 DEF Follows
  <2> QED
    BY <1>1, <1>3, <1>4, <1>5, <2>1 DEF CommsFollow, PCs
<1>14. HeldFollow(p)'
  <2>1. held[p] = Results(p) \cup NodeComms(p) \cup {TmpId(alg(p), Round(p))}
    BY <1>1, <1>2 DEF Follows, HeldFollow
  <2>2. TmpId(alg(p), Round(p)) \notin Results(p)
    BY <1>3, ResultIds
  <2>3. TmpId(alg(p), Round(p)) \notin NodeComms(p)
    <3>1. \A k \in 1 .. Split(p) : k \in Rounds
      BY <1>3 DEF Rounds
    <3>2. NodeComms(p) = {NodeId(alg(p), k) : k \in 1 .. Split(p)}
      BY <1>1 DEF NodeComms
    <3>3. \A k \in 1 .. Split(p) : NodeId(alg(p), k) # TmpId(alg(p), Round(p))
      BY <1>3, <3>1, IdsDiffer
    <3> QED
      BY <3>2, <3>3
  <2>4. NodeComms(p)' = NodeComms(p) /\ Results(p)' = Results(p)
    BY <1>1, <1>4, <1>5 DEF NodeComms, Results
  <2> QED
    BY <1>1, <1>4, <1>5, <1>10, <2>1, <2>2, <2>3, <2>4 DEF HeldFollow
<1>15. KeysFollow(p)'
  <2>1. \A k \in 1 .. Split(p) : KeyArg(p, k)' = KeyArg(p, k)
    BY <1>7, <1>8, <1>11, KeysStay
  <2> QED
    BY <1>2, <1>3, <1>4, <1>5, <2>1 DEF Follows, KeysFollow
<1>16. \A q \in Procs : Count(q, TmpId(alg(p), Round(p))) >= 1
  <2>1. Count(p, TmpId(alg(p), Round(p))) = 1
    BY <1>2, <1>3 DEF Follows, CallsFollow
  <2> QED
    BY <1>1, <1>9, <2>1, CompleteCounts
<1> QED
  BY <1>1, <1>3, <1>6, <1>7, <1>8, <1>11, <1>12, <1>13, <1>14, <1>15, <1>16 DEF Follows

\* STENCIL_STRIPS returns.
LEMMA SecondCartStep ==
  ASSUME IInv, NEW p \in Procs, SecondCartReturns(p)
  PROVE  /\ OthersKeep(p) /\ Follows(p)'
         /\ \A i : Calls(p, i)' = Calls(p, i)
         /\ pc[p] = "second_cart_create" /\ pc'[p] = "application" /\ Strips(alg(p))
         /\ tmp' = tmp
         /\ carts' = [carts EXCEPT ![p] = Append(@, Cartesian(node_world_comm[p], p))]
<1> DEFINE cart == NewCart(node_world_comm[p], p)
<1>1. /\ pc[p] = "second_cart_create" /\ pc'[p] = "application"
      /\ pc' = [pc EXCEPT ![p] = "application"]
      /\ carts' = [carts EXCEPT ![p] = Append(@, cart.rank)]
      /\ Hold(p, {node_world_comm[p]}, {cart})
      /\ node_world_comm' = [node_world_comm EXCEPT ![p] = No_comm]
      /\ node_world_comm'[p] = No_comm
      /\ input' = input /\ keys' = keys /\ made' = made /\ tmp' = tmp
  BY DEF SecondCartReturns, Goto, Give, IInv, Shape
<1>2. Follows(p) /\ input \in Inputs
  BY DEF IInv, Shape
<1>3. /\ Given(p) \in Nat /\ Round(p) = Given(p) + 1 /\ Round(p) \in Rounds
      /\ Asked(p) = Round(p) /\ Split(p) = Round(p) /\ Carted(p) = Round(p)
      /\ CartedTwice(p) = Round(p)
  BY <1>1, Counters DEF Asked, Split, Carted, CartedTwice, Round
<1>4. /\ Procs' = Procs /\ alg(p)' = alg(p) /\ KeyChoices(p)' = KeyChoices(p)
      /\ Strips(alg(p))
  BY <1>1, <1>2, Static DEF Follows, CommsFollow
<1>5. /\ node_world_comm[p].id = CartId(alg(p), Round(p))
      /\ DOMAIN node_world_comm[p].rank \subseteq Procs
  BY <1>1, <1>2 DEF Follows, CommsFollow
<1>6. cart.id = ResultId(alg(p), Round(p)) /\ cart.rank = Cartesian(node_world_comm[p], p)
  <2>1. Count(p, CartId(alg(p), Round(p))) = 1
    BY <1>2, <1>3, <1>4 DEF Follows, CallsFollow
  <2>2. NewId(node_world_comm[p], p)
          = Extend(node_world_comm[p].id, Count(p, node_world_comm[p].id))
    BY <1>5, CompleteCounts
  <2> QED
    BY <1>4, <1>5, <2>1, <2>2 DEF NewCart, ResultId
<1> HIDE DEF cart
<1>7. /\ carts' = [q \in Procs |-> carts'[q]] /\ \A q \in Procs \ {p} : carts'[q] = carts[q]
      /\ IsSeq(carts'[p]) /\ Given(p)' = Given(p) + 1 /\ Round(p)' = Round(p) + 1
      /\ Results(p)' = Results(p)
           \cup (IF cart.rank # COMM_NULL THEN {ResultId(alg(p), Round(p))} ELSE {})
  BY <1>1, <1>4, OneMoreResult
<1>8. /\ Asked(p)' = Round(p) /\ Split(p)' = Round(p) /\ Carted(p)' = Round(p)
      /\ CartedTwice(p)' = Round(p)
  BY <1>1, <1>3, <1>7 DEF Asked, Split, Carted, CartedTwice
<1>9. \A q, i : Calls(q, i)' = Calls(q, i) /\ Count(q, i)' = Count(q, i)
  BY <1>1 DEF Calls, Count
<1>10. /\ held' = [q \in Procs |-> held'[q]] /\ \A q \in Procs \ {p} : held'[q] = held[q]
       /\ held'[p] = (held[p] \ {CartId(alg(p), Round(p))})
                     \cup (IF cart.rank # COMM_NULL THEN {ResultId(alg(p), Round(p))} ELSE {})
  <2>1. {c.id : c \in {node_world_comm[p]}} = {CartId(alg(p), Round(p))}
    BY <1>5
  <2>2. PICK freed, comm : freed = {node_world_comm[p]} /\ comm = cart
    OBVIOUS
  <2>3. Hold(p, freed, {comm})
    BY <1>1, <2>2
  <2>4. /\ held' = [q \in Procs |-> held'[q]] /\ \A q \in Procs \ {p} : held'[q] = held[q]
        /\ held'[p] = (held[p] \ {c.id : c \in freed})
                      \cup (IF comm.rank # COMM_NULL THEN {comm.id} ELSE {})
    BY <2>3, Holds
  <2> QED
    BY <1>6, <2>1, <2>2, <2>4
<1>11. OthersKeep(p)
  BY <1>1, <1>7, <1>9, <1>10 DEF OthersKeep, IInv, Shape
<1>12. CallsFollow(p)'
  BY <1>2, <1>3, <1>4, <1>8, <1>9 DEF Follows, CallsFollow
<1>13. CommsFollow(p)'
  BY <1>1, <1>2, <1>3, <1>4, <1>7, <1>8 DEF Follows, CommsFollow, PCs
<1>14. HeldFollow(p)'
  <2>1. held[p] = Results(p) \cup NodeComms(p) \cup {CartId(alg(p), Round(p))}
    BY <1>1, <1>2 DEF Follows, HeldFollow
  <2>2. CartId(alg(p), Round(p)) \notin Results(p)
    BY <1>3, <1>4, ResultIds
  <2>3. CartId(alg(p), Round(p)) \notin NodeComms(p)
    <3>1. \A k \in 1 .. Split(p) : k \in Rounds
      BY <1>3 DEF Rounds
    <3>2. NodeComms(p) = {NodeId(alg(p), k) : k \in 1 .. Split(p)}
      BY <1>4 DEF NodeComms
    <3>3. \A k \in 1 .. Split(p) : NodeId(alg(p), k) # CartId(alg(p), Round(p))
      BY <1>3, <3>1, IdsDiffer
    <3> QED
      BY <3>2, <3>3
  <2>4. NodeComms(p)' = NodeComms(p)
    BY <1>3, <1>4, <1>8 DEF NodeComms
  <2> QED
    BY <1>1, <1>4, <1>7, <1>10, <2>1, <2>2, <2>3, <2>4 DEF HeldFollow
<1>15. KeysFollow(p)'
  <2>1. \A k \in 1 .. Split(p) : KeyArg(p, k)' = KeyArg(p, k)
    BY <1>9, <1>11, KeysStay
  <2> QED
    BY <1>2, <1>3, <1>4, <1>8, <2>1 DEF Follows, KeysFollow
<1> QED
  BY <1>1, <1>4, <1>6, <1>9, <1>11, <1>12, <1>13, <1>14, <1>15 DEF Follows

----------------------------------------------------------------------------
(***************************************************************************)
(* The invariant holds.                                                    *)
(***************************************************************************)
LEMMA InitIInv == Init => IInv
<1> SUFFICES ASSUME Init PROVE IInv
  OBVIOUS
<1>1. Shape
  BY DEF Init, Shape
<1>2. input.calls \in Nat
  BY InputFacts DEF Init
<1> SUFFICES ASSUME NEW p \in Procs PROVE Follows(p)
  BY <1>1 DEF IInv
<1>3. /\ pc[p] = "application" /\ made[p] = <<>> /\ node_world_comm[p] = No_comm
      /\ tmp[p] = No_comm /\ held[p] = {} /\ carts[p] = <<>>
  BY DEF Init
<1>4. IsSeq(<<>>) /\ Len(<<>>) = 0
  BY EmptySeq
<1>5. /\ Given(p) = 0 /\ Asked(p) = 0 /\ Split(p) = 0 /\ Carted(p) = 0 /\ CartedTwice(p) = 0
  BY <1>3, <1>4 DEF Given, Asked, Split, Carted, CartedTwice
<1>6. \A id : Calls(p, id) = <<>> /\ Count(p, id) = 0
  BY <1>3, <1>4 DEF Calls, Count
<1>7. CallsFollow(p)
  BY <1>4, <1>5, <1>6 DEF CallsFollow, Rounds
<1>8. CommsFollow(p)
  BY <1>2, <1>3, <1>4, <1>5 DEF CommsFollow, PCs
<1>9. HeldFollow(p)
  BY <1>3, <1>5 DEF HeldFollow, Results, NodeComms
<1>10. KeysFollow(p)
  BY <1>5 DEF KeysFollow
<1> QED
  BY <1>7, <1>8, <1>9, <1>10 DEF Follows

LEMMA NextIInv == IInv /\ [Next]_vars => IInv'
<1> SUFFICES ASSUME IInv, [Next]_vars PROVE IInv'
  OBVIOUS
<1>1. ASSUME NEW p \in Procs, Step(p) PROVE IInv'
  <2>1. OthersKeep(p) /\ Follows(p)'
    <3>1. CASE perform_reordering(p)
      BY <3>1, EnterStep
    <3>2. CASE NodeCommReturns(p)
      BY <3>2, NodeCommStep
    <3>3. CASE SplitReturns(p)
      BY <3>3, SplitStep
    <3>4. CASE CartReturns(p)
      BY <3>4, CartStep
    <3>5. CASE StripsCartReturns(p)
      BY <3>5, StripsCartStep
    <3>6. CASE SecondCartReturns(p)
      BY <3>6, SecondCartStep
    <3> QED
      BY <1>1, <3>1, <3>2, <3>3, <3>4, <3>5, <3>6 DEF Step
  <2>2. Shape' /\ \A q \in Procs \ {p} : Follows(q)'
    BY <2>1, OthersFollow
  <2>3. Procs' = Procs
    BY <2>1 DEF OthersKeep, Procs
  <2> QED
    BY <2>1, <2>2, <2>3 DEF IInv
<1>2. CASE UNCHANGED vars
  <2>1. PICK nobody : nobody = Cardinality(Procs)
    OBVIOUS
  <2>2. nobody \notin Procs
    BY <2>1, InputFacts DEF IInv, Shape
  <2>3. OthersKeep(nobody) /\ Procs' = Procs
    BY <1>2 DEF vars, OthersKeep, IInv, Shape, Calls, Procs
  <2>4. Shape' /\ \A q \in Procs : Follows(q)'
    BY <2>2, <2>3, OthersFollow
  <2> QED
    BY <2>3, <2>4 DEF IInv
<1> QED
  BY <1>1, <1>2 DEF Next

LEMMA Invariance == Spec => []IInv
  BY InitIInv, NextIInv, PTL DEF Spec

\* Whatever a process is blocked on, it is a member of, and has not freed; no application
\* asks for more results than it wants.
THEOREM TypesCorrect == Spec => []TypeOK
<1>1. IInv => TypeOK
  <2> SUFFICES ASSUME IInv PROVE TypeOK
    OBVIOUS
  <2>1. input \in Inputs
    BY DEF IInv, Shape
  <2> SUFFICES ASSUME NEW p \in Procs
               PROVE  /\ Len(carts[p]) + (IF pc[p] = "application" THEN 0 ELSE 1) <= input.calls
                      /\ pc[p] \in {"application", "node_comm", "split", "cart_create",
                                    "second_cart_create", "aborted"}
                      /\ \A comm \in {node_world_comm[p], tmp[p]} :
                           comm # No_comm /\ comm.rank # COMM_NULL =>
                             comm.id \in held[p] /\ p \in Members(comm.rank)
                      /\ pc[p] = "cart_create" => tmp[p] # No_comm
                      /\ pc[p] \in {"split", "second_cart_create"} =>
                           node_world_comm[p].rank # COMM_NULL
    BY <2>1 DEF TypeOK
  <2>2. Follows(p)
    BY DEF IInv
  <2>3. /\ Len(carts[p]) + (IF pc[p] = "application" THEN 0 ELSE 1) <= input.calls
        /\ pc[p] \in PCs
    BY <2>2 DEF Follows, CommsFollow, Asked, Given
  <2>4. /\ DOMAIN NodeMajor(input.nodeOf) = Procs /\ NodeMajor(input.nodeOf) # COMM_NULL
    BY <2>1, BaseDomains
  <2>5. ASSUME node_world_comm[p] # No_comm, node_world_comm[p].rank # COMM_NULL
        PROVE  node_world_comm[p].id \in held[p] /\ p \in DOMAIN node_world_comm[p].rank
    <3>1. pc[p] \in {"split", "cart_create", "second_cart_create"}
      BY <2>2, <2>3, <2>5 DEF Follows, CommsFollow, PCs
    <3>2. CASE pc[p] \in {"split", "cart_create"}
      <4>1. node_world_comm[p] = [id |-> NodeId(alg(p), Round(p)),
                                  rank |-> NodeMajor(input.nodeOf)]
        BY <2>2, <3>2 DEF Follows, CommsFollow
      <4>2. NodeId(alg(p), Round(p)) \in NodeComms(p)
        <5>1. Round(p) \in 1 .. Split(p)
          BY <3>2, Counters DEF Split
        <5> QED
          BY <3>2, <5>1 DEF NodeComms
      <4> QED
        BY <2>2, <2>4, <4>1, <4>2 DEF Follows, HeldFollow
    <3>3. CASE pc[p] = "second_cart_create"
      BY <2>2, <3>3 DEF Follows, CommsFollow, HeldFollow
    <3> QED
      BY <3>1, <3>2, <3>3
  <2>6. ASSUME tmp[p] # No_comm
        PROVE  tmp[p].id \in held[p] /\ p \in DOMAIN tmp[p].rank
    BY <2>2, <2>6 DEF Follows, CommsFollow, HeldFollow
  <2>7. pc[p] = "cart_create" => tmp[p] # No_comm
    BY <2>2 DEF Follows, CommsFollow, No_comm, COMM_NULL
  <2>8. pc[p] \in {"split", "second_cart_create"} => node_world_comm[p].rank # COMM_NULL
    BY <2>2, <2>4 DEF Follows, CommsFollow, COMM_NULL
  <2> QED
    BY <2>3, <2>5, <2>6, <2>7, <2>8 DEF PCs, Members
<1> QED
  BY <1>1, Invariance, PTL

----------------------------------------------------------------------------
(***************************************************************************)
(* The communicators that are left over.                                   *)
(***************************************************************************)
\* The ids of the node communicators, and of the results, of some rounds.
NodeIds(a, S) == {NodeId(a, k) : k \in S}
Ids(a, S) == {ResultId(a, k) : k \in S}

\* As many ids as there are rounds in S.
LEMMA IdsOfRounds ==
  ASSUME NEW a, NEW S, IsFiniteSet(S), S \subseteq Rounds
  PROVE  /\ IsFiniteSet(NodeIds(a, S)) /\ Cardinality(NodeIds(a, S)) = Cardinality(S)
         /\ IsFiniteSet(Ids(a, S)) /\ Cardinality(Ids(a, S)) = Cardinality(S)
         /\ NodeIds(a, S) \cap Ids(a, S) = {}
<1> DEFINE node == [k \in S |-> NodeId(a, k)]
           result == [k \in S |-> ResultId(a, k)]
<1>1. ASSUME NEW k \in S, NEW j \in S
      PROVE  /\ NodeId(a, k) = NodeId(a, j) => k = j
             /\ ResultId(a, k) = ResultId(a, j) => k = j
             /\ NodeId(a, k) # ResultId(a, j)
  BY IdsDiffer
<1>2. node \in Bijection(S, NodeIds(a, S))
  BY <1>1 DEF Bijection, Injection, IsInjective, Surjection, NodeIds
<1>3. result \in Bijection(S, Ids(a, S))
  BY <1>1 DEF Bijection, Injection, IsInjective, Surjection, Ids
<1>4. NodeIds(a, S) \cap Ids(a, S) = {}
  BY <1>1 DEF NodeIds, Ids
<1> HIDE DEF node, result
<1>5. ExistsBijection(S, NodeIds(a, S)) /\ ExistsBijection(S, Ids(a, S))
  BY <1>2, <1>3 DEF ExistsBijection
<1> QED
  BY <1>4, <1>5, FS_Bijection

\* Between two calls KD_TREE and HYPERPLANE have left nothing but their results, and
\* STENCIL_STRIPS one node communicator for each call.
THEOREM NodeCommsLeftOver == Spec => []LeftOver
<1>1. IInv => LeftOver
  <2> SUFFICES ASSUME IInv, NEW p \in Procs, pc[p] = "application"
               PROVE  Cardinality(held[p]) =
                        Cardinality({call \in DOMAIN carts[p] : carts[p][call] # COMM_NULL})
                        + (IF alg(p) = "STENCIL_STRIPS" THEN Len(carts[p]) ELSE 0)
    BY DEF LeftOver
  <2> DEFINE given == {k \in 1 .. Given(p) : carts[p][k] # COMM_NULL}
             rounds == 1 .. Given(p)
  <2>1. Given(p) \in Nat /\ Split(p) = Given(p) /\ DOMAIN carts[p] = rounds
    BY Counters, Appended DEF Split, IInv, Follows, CommsFollow, Given
  <2>2. IsFiniteSet(rounds) /\ Cardinality(rounds) = Given(p) /\ rounds \subseteq Rounds
    <3>1. /\ IsFiniteSet(1 .. Given(p))
          /\ Cardinality(1 .. Given(p)) = IF 1 > Given(p) THEN 0 ELSE Given(p) - 1 + 1
      BY <2>1, FS_Interval
    <3> QED
      BY <2>1, <3>1 DEF Rounds
  <2>3. IsFiniteSet(given) /\ given \subseteq rounds
    <3>1. given \subseteq rounds
      OBVIOUS
    <3> HIDE DEF given, rounds
    <3> QED
      BY <2>2, <3>1, FS_Subset
  <2>4. held[p] = Ids(alg(p), given) \cup NodeComms(p)
    BY DEF IInv, Follows, HeldFollow, Results, Ids
  <2>5. given = {call \in DOMAIN carts[p] : carts[p][call] # COMM_NULL}
    BY <2>1
  <2> HIDE DEF given
  <2>6. /\ IsFiniteSet(Ids(alg(p), given))
        /\ Cardinality(Ids(alg(p), given)) = Cardinality(given)
    BY <2>2, <2>3, IdsOfRounds
  <2>7. CASE Strips(alg(p))
    <3>1. NodeComms(p) = NodeIds(alg(p), rounds)
      BY <2>1, <2>7 DEF NodeComms, NodeIds
    <3>2. /\ IsFiniteSet(NodeComms(p)) /\ Cardinality(NodeComms(p)) = Given(p)
          /\ NodeComms(p) \cap Ids(alg(p), rounds) = {}
      <4> HIDE DEF rounds
      <4> QED
        BY <2>2, <3>1, IdsOfRounds
    <3>3. NodeComms(p) \cap Ids(alg(p), given) = {}
      BY <2>3, <3>2 DEF Ids
    <3> DEFINE X == Ids(alg(p), given)
    <3>4. PICK R, N : R = X /\ N = NodeComms(p)
      OBVIOUS
    <3>5. /\ IsFiniteSet(R) /\ IsFiniteSet(N) /\ R \cap N = {} /\ held[p] = R \cup N
          /\ Cardinality(R) = Cardinality(given) /\ Cardinality(N) = Given(p)
      BY <2>4, <2>6, <3>2, <3>3, <3>4
    <3>6. Cardinality(R \cup N) = Cardinality(R) + Cardinality(N) - Cardinality(R \cap N)
      BY <3>5, FS_Union
    <3>7. Cardinality(R \cap N) = 0
      BY <3>5, FS_EmptySet
    <3>8. Cardinality(R) \in Nat /\ Cardinality(N) \in Nat
      BY <3>5, FS_CardinalityType
    <3> QED
      BY <2>5, <2>7, <3>5, <3>6, <3>7, <3>8 DEF Strips, Given
  <2>8. CASE ~ Strips(alg(p))
    <3>1. NodeComms(p) = {}
      BY <2>8 DEF NodeComms
    <3>2. Cardinality(given) \in Nat
      BY <2>3, FS_CardinalityType
    <3> QED
      BY <2>4, <2>5, <2>6, <2>8, <3>1, <3>2 DEF Strips
  <2> QED
    BY <2>7, <2>8
<1> QED
  BY <1>1, Invariance, PTL

----------------------------------------------------------------------------
(***************************************************************************)
(* The order of the processes in tmp.  The keys being integers, MPI's      *)
(* order is total, so that the ranks are those of a communicator.          *)
(***************************************************************************)
LEMMA LeaderFacts ==
  ASSUME input \in Inputs, NEW p \in Procs, NEW q \in Procs
  PROVE  /\ LeaderOf(input.nodeOf, p) \in Procs /\ LeaderOf(input.nodeOf, p) \in Nat
         /\ LeaderOf(input.nodeOf, p) = LeaderOf(input.nodeOf, q)
              <=> input.nodeOf[p] = input.nodeOf[q]
<1>1. ASSUME NEW r \in Procs
      PROVE  LeaderOf(input.nodeOf, r) \in NodeMembers(input.nodeOf, input.nodeOf[r])
  <2>1. NodeMembers(input.nodeOf, input.nodeOf[r]) \subseteq Nat
    BY InputFacts DEF NodeMembers, Procs
  <2>2. r \in NodeMembers(input.nodeOf, input.nodeOf[r])
    BY DEF NodeMembers, Procs
  <2> QED
    BY <2>1, <2>2, MinOfSet DEF LeaderOf
<1>2. ASSUME NEW r \in Procs
      PROVE  /\ LeaderOf(input.nodeOf, r) \in Procs
             /\ input.nodeOf[LeaderOf(input.nodeOf, r)] = input.nodeOf[r]
  BY <1>1 DEF NodeMembers, Procs
<1>3. input.nodeOf[p] = input.nodeOf[q] => LeaderOf(input.nodeOf, p) = LeaderOf(input.nodeOf, q)
  BY DEF LeaderOf
<1> QED
  BY <1>2, <1>3, InputFacts

LEMMA NodeMajorBijective ==
  ASSUME input \in Inputs
  PROVE  NodeMajor(input.nodeOf) \in Bijection(Procs, 0 .. Cardinality(Procs)-1)
<1> DEFINE Before(q, p) == \/ LeaderOf(input.nodeOf, q) < LeaderOf(input.nodeOf, p)
                           \/ input.nodeOf[q] = input.nodeOf[p] /\ q < p
           R == {e \in Procs \X Procs : Before(e[1], e[2])}
<1>1. IsFiniteSet(Procs) /\ Procs \subseteq Nat
  BY InputFacts
<1>2. ASSUME NEW p \in Procs, NEW q \in Procs, NEW r \in Procs
      PROVE  /\ ~ Before(p, p) /\ (Before(p, q) /\ Before(q, r) => Before(p, r))
             /\ p # q => Before(p, q) \/ Before(q, p)
  BY <1>1, LeaderFacts
<1>3. \A p, q \in Procs : <<q, p>> \in R <=> Before(q, p)
  OBVIOUS
<1>4. NodeMajor(input.nodeOf) = RankUnder(R, Procs)
  <2>1. NodeMajor(input.nodeOf) = [p \in Procs |-> Cardinality({q \in Procs : Before(q, p)})]
    BY DEF NodeMajor, Procs
  <2> HIDE DEF Before, R
  <2>2. \A p \in Procs : {q \in Procs : Before(q, p)} = {q \in Procs : <<q, p>> \in R}
    BY <1>3
  <2> QED
    BY <2>1, <2>2 DEF RankUnder
<1> HIDE DEF Before, R
<1>5. IsStrictOrder(R, Procs)
  BY <1>2, <1>3 DEF IsStrictOrder
<1> QED
  BY <1>1, <1>4, <1>5, OrderRanks

LEMMA BaseRanksBijective ==
  ASSUME input \in Inputs, NEW p
  PROVE  BaseRanks(p) \in Bijection(Procs, 0 .. Cardinality(Procs)-1)
<1>1. [q \in Procs |-> q] \in Bijection(Procs, Procs)
  BY DEF Bijection, Injection, IsInjective, Surjection
<1>2. oldcomm.rank \in Bijection(Procs, 0 .. Cardinality(Procs)-1)
  BY <1>1, InputFacts DEF oldcomm
<1> QED
  BY <1>2, NodeMajorBijective DEF BaseRanks

\* Sorting by integer keys, ties broken by rank, gives every process a rank of its own.
LEMMA RanksByKeys ==
  ASSUME NEW S, IsFiniteSet(S), NEW comm \in Injection(S, Int), NEW key \in [S -> Int]
  PROVE  RankBy(comm, key, S) \in Bijection(S, 0 .. Cardinality(S)-1)
<1> DEFINE R == {e \in S \X S : Precedes(comm, key, e[1], e[2])}
<1>1. comm \in [S -> Int] /\ \A p, q \in S : comm[p] = comm[q] => p = q
  BY DEF Injection, IsInjective
<1>2. ASSUME NEW p \in S, NEW q \in S, NEW r \in S
      PROVE  /\ ~ Precedes(comm, key, p, p)
             /\ Precedes(comm, key, p, q) /\ Precedes(comm, key, q, r) => Precedes(comm, key, p, r)
             /\ p # q => Precedes(comm, key, p, q) \/ Precedes(comm, key, q, p)
  <2>1. /\ comm[p] \in Int /\ comm[q] \in Int /\ comm[r] \in Int
        /\ key[p] \in Int /\ key[q] \in Int /\ key[r] \in Int
        /\ p # q => comm[p] # comm[q]
    BY <1>1
  <2> QED
    BY <2>1 DEF Precedes
<1>3. \A p, q \in S : <<q, p>> \in R <=> Precedes(comm, key, q, p)
  OBVIOUS
<1> HIDE DEF R
<1>4. RankBy(comm, key, S) = RankUnder(R, S)
  <2>1. \A p \in S : {q \in S : Precedes(comm, key, q, p)} = {q \in S : <<q, p>> \in R}
    BY <1>3
  <2> QED
    BY <2>1 DEF RankBy, RankUnder
<1>5. IsStrictOrder(R, S)
  BY <1>2, <1>3 DEF IsStrictOrder
<1> QED
  BY <1>4, <1>5, OrderRanks

\* What may be computed with the configuration of p.
LEMMA KeySets ==
  ASSUME Shape, NEW p \in Procs
  PROVE  /\ input.config[p] \in ConfigsOf(input)
         /\ DOMAIN keys[input.config[p]] = PpnUnder(input.config[p].scheme, input.nodeOf)
         /\ \A k \in DOMAIN keys[input.config[p]] :
              keys[input.config[p]][k] = KeysOf(input, input.config[p], k)
  BY DEF Shape, ConfigsOf, Procs

LEMMA KeysAreInts ==
  ASSUME IInv, NEW p \in Procs, NEW k \in 1 .. Split(p)
  PROVE  KeyArg(p, k) \in Int
<1>1. Shape /\ input \in Inputs
  BY DEF IInv, Shape
<1>2. KeyArg(p, k) \in KeyChoices(p)
  BY DEF IInv, Follows, KeysFollow
<1>3. PICK ppn \in DOMAIN keys[input.config[p]] :
        KeyArg(p, k) \in keys[input.config[p]][ppn][BaseRanks(p)[p]]
  BY <1>2 DEF KeyChoices
<1>4. BaseRanks(p)[p] \in Procs
  <2>1. BaseRanks(p) \in [Procs -> 0 .. Cardinality(Procs)-1]
    BY <1>1, BaseRanksBijective DEF Bijection, Injection
  <2> QED
    BY <1>1, <2>1, InputFacts
<1>5. keys[input.config[p]][ppn][BaseRanks(p)[p]] \subseteq Int
  <2>1. PICK c, r : c = input.config[p] /\ r = BaseRanks(p)[p]
    OBVIOUS
  <2>2. /\ c \in ConfigsOf(input) /\ ppn \in PpnUnder(c.scheme, input.nodeOf)
        /\ r \in Procs /\ keys[c][ppn] = KeysOf(input, c, ppn)
    BY <1>1, <1>4, <2>1, KeySets
  <2>3. KeysOf(input, c, ppn)[r] \subseteq Int
    BY <1>1, <2>2, KeysAssumption DEF Reliable, Procs
  <2> QED
    BY <2>1, <2>2, <2>3
<1> QED
  BY <1>3, <1>5

\* The processes in the order of the keys that they have passed in round k.
Order(p, k) == RankBy(BaseRanks(p), [q \in Procs |-> KeyArg(q, k)], Procs)

LEMMA OrderBijective ==
  ASSUME IInv, NEW p, NEW k, \A q \in Procs : k \in 1 .. Split(q)
  PROVE  Order(p, k) \in Bijection(Procs, 0 .. Cardinality(Procs)-1)
<1>1. input \in Inputs
  BY DEF IInv, Shape
<1>2. [q \in Procs |-> KeyArg(q, k)] \in [Procs -> Int]
  BY KeysAreInts
<1>3. IsFiniteSet(Procs) /\ Cardinality(Procs) \in Nat
  BY <1>1, InputFacts
<1>4. BaseRanks(p) \in Injection(Procs, Int)
  <2>1. BaseRanks(p) \in Bijection(Procs, 0 .. Cardinality(Procs)-1)
    BY <1>1, BaseRanksBijective
  <2>2. 0 .. Cardinality(Procs)-1 \subseteq Int
    BY <1>3
  <2> QED
    BY <2>1, <2>2 DEF Bijection, Injection
<1> QED
  BY <1>2, <1>3, <1>4, RanksByKeys DEF Order

----------------------------------------------------------------------------
(***************************************************************************)
(* How far the processes get with one another, and where they are placed.  *)
(***************************************************************************)
\* Nobody comes to MPI_Cart_create before everybody has passed its key; where
\* STENCIL_STRIPS meets another algorithm, nobody comes to it.
Waits ==
  \A p \in Procs : /\ \A q \in Procs : Carted(p) <= Split(q)
                   /\ MixesStrips => Carted(p) = 0

Placed(p) ==
  /\ \A k \in 1 .. Given(p) : carts[p][k] = View(Order(p, k), p)
  /\ pc[p] = "cart_create" => tmp[p].rank = Order(p, Round(p))
  /\ pc[p] \in {"second_cart_create", "aborted"} =>
       node_world_comm[p].rank = View(Order(p, Round(p)), p)

GInv == IInv /\ Waits /\ \A p \in Procs : Placed(p)

\* The communicator that is split depends on nothing but whether p uses STENCIL_STRIPS.
LEMMA SameIds ==
  ASSUME NEW a, NEW b, Strips(a) <=> Strips(b), NEW k
  PROVE  /\ NodeId(a, k) = NodeId(b, k) /\ BaseId(a, k) = BaseId(b, k)
         /\ SplitIndex(a, k) = SplitIndex(b, k)
<1>1. CASE Strips(a)
  BY <1>1 DEF NodeId, BaseId, SplitIndex
<1>2. CASE ~ Strips(a)
  BY <1>2 DEF NodeId, BaseId, SplitIndex
<1> QED
  BY <1>1, <1>2

\* A split returns only where all use one communicator, and after all keys have come.
LEMMA SplitWaits ==
  ASSUME IInv, Waits, NEW p \in Procs, SplitReturns(p)
  PROVE  ~ MixesStrips /\ \A q \in Procs : Round(p) \in 1 .. Split(q)
<1>1. PICK b, n : b = BaseId(alg(p), Round(p)) /\ n = SplitIndex(alg(p), Round(p))
  OBVIOUS
<1>2. /\ pc[p] = "split" /\ \A q \in Procs : Count(q, b) >= n
  BY <1>1, SplitStep
<1>3. Round(p) = Given(p) + 1 /\ Given(p) \in Nat /\ Carted(p) = Given(p) /\ Round(p) \in Rounds
  BY <1>2, SplitBase, Counters
<1>4. ASSUME NEW q \in Procs
      PROVE  (Strips(alg(p)) <=> Strips(alg(q))) /\ Round(p) \in 1 .. Split(q)
  <2>1. /\ Given(q) \in Nat /\ Asked(q) \in Nat /\ Split(q) \in Nat /\ Asked(q) <= Split(q) + 1
        /\ Asked(q) <= Given(q) + 1 /\ Given(q) <= Carted(q)
        /\ Count(q, b) >= n
    BY <1>2, Counters DEF Asked, Split, Round
  <2>2. Follows(q)
    BY DEF IInv
  <2>3. CASE Strips(alg(p)) /\ Strips(alg(q))
    <3>1. b = Old /\ n = 2 * Round(p) /\ Count(q, Old) = Asked(q) + Split(q)
      BY <1>1, <2>2, <2>3 DEF BaseId, SplitIndex, Follows, CallsFollow
    <3> QED
      BY <1>3, <2>1, <2>3, <3>1
  <2>4. CASE Strips(alg(p)) /\ ~ Strips(alg(q))
    <3>1. b = Old /\ n = 2 * Round(p) /\ Count(q, Old) = Asked(q)
      BY <1>1, <2>2, <2>4 DEF BaseId, SplitIndex, Follows, CallsFollow
    <3>2. Carted(q) = 0
      BY <2>4 DEF Waits, MixesStrips, Strips
    <3> QED
      BY <1>3, <2>1, <3>1, <3>2
  <2>5. CASE ~ Strips(alg(p)) /\ Strips(alg(q))
    <3>1. Carted(p) = 0
      BY <2>5 DEF Waits, MixesStrips, Strips
    <3>2. b = NodeId(alg(q), 1) /\ n = 1
      BY <1>1, <1>3, <2>5, <3>1 DEF BaseId, SplitIndex, NodeId
    <3>3. 1 \in Rounds
      BY DEF Rounds
    <3>4. Count(q, NodeId(alg(q), 1)) = 0
      BY <2>2, <2>5, <3>3 DEF Follows, CallsFollow
    <3> QED
      BY <2>1, <3>2, <3>4
  <2>6. CASE ~ Strips(alg(p)) /\ ~ Strips(alg(q))
    <3>1. b = NodeId(alg(q), Round(p)) /\ n = 1
      BY <1>1, <2>6, SameIds DEF BaseId, SplitIndex
    <3>2. Count(q, NodeId(alg(q), Round(p))) = IF Round(p) <= Split(q) THEN 1 ELSE 0
      BY <1>3, <2>2, <2>6 DEF Follows, CallsFollow
    <3> QED
      BY <1>3, <2>1, <2>6, <3>1, <3>2
  <2> QED
    BY <2>3, <2>4, <2>5, <2>6
<1>5. ~ MixesStrips
  BY <1>4 DEF MixesStrips, Strips
<1> QED
  BY <1>4, <1>5

\* What every step of p leaves as it is, and how far it takes p.
LEMMA Progress ==
  ASSUME IInv, NEW p \in Procs, Step(p)
  PROVE  /\ OthersKeep(p)
         /\ \A q \in Procs : \A k \in 1 .. Split(q) : KeyArg(q, k)' = KeyArg(q, k)
         /\ Split(p)' \in Nat /\ Split(p) <= Split(p)'
         /\ Carted(p)' = IF SplitReturns(p) THEN Round(p) ELSE Carted(p)
<1>0. /\ Given(p) \in Nat /\ Round(p) = Given(p) + 1
  BY Counters
<1>1. CASE perform_reordering(p)
  <2>1. /\ OthersKeep(p) /\ CallMade(p, Old, "node_comm", 0)
        /\ pc[p] = "application" /\ pc'[p] = "node_comm" /\ carts' = carts
    BY <1>1, EnterStep
  <2>2. \A q \in Procs : \A k \in 1 .. Split(q) : KeyArg(q, k)' = KeyArg(q, k)
    BY <2>1, KeysStay
  <2>3. Split(p)' = Split(p) /\ Carted(p)' = Carted(p) /\ ~ SplitReturns(p) /\ Split(p) \in Nat
    BY <2>1, Counters DEF Split, Carted, Given, SplitReturns, Goto
  <2> QED
    BY <2>1, <2>2, <2>3
<1>2. CASE NodeCommReturns(p)
  <2>1. /\ OthersKeep(p) /\ pc[p] = "node_comm" /\ pc'[p] = "split" /\ carts' = carts
    BY <1>2, NodeCommStep
  <2>2. PICK key, b : CallMade(p, b, "split", key)
    BY <1>2, NodeCommStep
  <2>3. \A q \in Procs : \A k \in 1 .. Split(q) : KeyArg(q, k)' = KeyArg(q, k)
    BY <2>1, <2>2, KeysStay
  <2>4. Split(p)' = Split(p) + 1 /\ Carted(p)' = Carted(p) /\ ~ SplitReturns(p)
    BY <1>0, <2>1 DEF Split, Carted, Given, SplitReturns, Goto
  <2> QED
    BY <2>1, <2>3, <2>4, Counters
<1>3. CASE SplitReturns(p)
  <2>1. /\ OthersKeep(p) /\ pc[p] = "split" /\ pc'[p] = "cart_create" /\ carts' = carts
    BY <1>3, SplitStep
  <2>2. PICK i : CallMade(p, i, "cart_create", 0)
    BY <1>3, SplitStep
  <2>3. \A q \in Procs : \A k \in 1 .. Split(q) : KeyArg(q, k)' = KeyArg(q, k)
    BY <2>1, <2>2, KeysStay
  <2>4. Split(p)' = Split(p) /\ Carted(p)' = Round(p) /\ Split(p) \in Nat
    BY <1>0, <2>1, Counters DEF Split, Carted, Given
  <2> QED
    BY <1>3, <2>1, <2>3, <2>4
<1>4. CASE CartReturns(p)
  <2>1. /\ OthersKeep(p) /\ \A i : Calls(p, i)' = Calls(p, i)
        /\ pc[p] = "cart_create" /\ pc'[p] = "application"
        /\ carts' = [carts EXCEPT ![p] = Append(@, View(tmp[p].rank, p))]
    BY <1>4, CartStep
  <2>2. \A q \in Procs : \A k \in 1 .. Split(q) : KeyArg(q, k)' = KeyArg(q, k)
    BY <2>1, KeysStay
  <2>3. Given(p)' = Given(p) + 1
    BY <2>1, OneMoreResult, Static DEF OthersKeep
  <2>4. Split(p)' = Split(p) /\ Carted(p)' = Carted(p) /\ ~ SplitReturns(p) /\ Split(p) \in Nat
    BY <1>0, <2>1, <2>3 DEF Split, Carted, SplitReturns, Goto
  <2> QED
    BY <2>1, <2>2, <2>4
<1>5. CASE StripsCartReturns(p)
  <2>1. /\ OthersKeep(p) /\ pc[p] = "cart_create" /\ pc'[p] \in {"second_cart_create", "aborted"}
        /\ carts' = carts
    BY <1>5, StripsCartStep
  <2>2. \/ \E i : CallMade(p, i, "cart_create", 0)
        \/ \A i : Calls(p, i)' = Calls(p, i)
    BY <1>5, StripsCartStep
  <2>3. \A q \in Procs : \A k \in 1 .. Split(q) : KeyArg(q, k)' = KeyArg(q, k)
    BY <2>1, <2>2, KeysStay
  <2>4. ~ SplitReturns(p) /\ Given(p)' = Given(p)
    BY <2>1 DEF SplitReturns, Goto, Given
  <2>5. Split(p)' = Split(p) /\ Carted(p)' = Carted(p) /\ Split(p) \in Nat
    BY <1>0, <2>1, <2>4 DEF Split, Carted
  <2> QED
    BY <2>1, <2>3, <2>4, <2>5
<1>6. CASE SecondCartReturns(p)
  <2>1. /\ OthersKeep(p) /\ \A i : Calls(p, i)' = Calls(p, i)
        /\ pc[p] = "second_cart_create" /\ pc'[p] = "application"
        /\ carts' = [carts EXCEPT ![p] = Append(@, Cartesian(node_world_comm[p], p))]
    BY <1>6, SecondCartStep
  <2>2. \A q \in Procs : \A k \in 1 .. Split(q) : KeyArg(q, k)' = KeyArg(q, k)
    BY <2>1, KeysStay
  <2>3. Given(p)' = Given(p) + 1
    BY <2>1, OneMoreResult, Static DEF OthersKeep
  <2>4. Split(p)' = Split(p) /\ Carted(p)' = Carted(p) /\ ~ SplitReturns(p) /\ Split(p) \in Nat
    BY <1>0, <2>1, <2>3 DEF Split, Carted, SplitReturns, Goto
  <2> QED
    BY <2>1, <2>2, <2>4
<1> QED
  BY <1>1, <1>2, <1>3, <1>4, <1>5, <1>6 DEF Step

LEMMA WaitsStays ==
  ASSUME IInv, Waits, NEW p \in Procs, Step(p)
  PROVE  Waits'
<1>1. /\ OthersKeep(p) /\ Split(p)' \in Nat /\ Split(p) <= Split(p)'
      /\ Carted(p)' = IF SplitReturns(p) THEN Round(p) ELSE Carted(p)
  BY Progress
<1>2. Procs' = Procs /\ MixesStrips' = MixesStrips
  BY <1>1 DEF OthersKeep, Procs, MixesStrips, alg
<1>3. \A q \in Procs \ {p} : Split(q)' = Split(q) /\ Carted(q)' = Carted(q)
  BY <1>1 DEF OthersKeep, Split, Carted, Given
<1>4. ASSUME NEW q \in Procs
      PROVE  /\ Split(q) \in Nat /\ Carted(q) \in Nat
             /\ Split(q)' \in Nat /\ Carted(q)' \in Nat /\ Split(q) <= Split(q)'
  <2>1. Split(q) \in Nat /\ Carted(q) \in Nat /\ Round(p) \in Nat
    BY Counters
  <2> QED
    BY <1>1, <1>3, <2>1
<1>5. ASSUME NEW q \in Procs
      PROVE  /\ \A r \in Procs : Carted(q)' <= Split(r)
             /\ MixesStrips => Carted(q)' = 0
  <2>1. CASE q = p /\ SplitReturns(p)
    BY <1>1, <2>1, <1>4, SplitWaits
  <2>2. CASE ~ (q = p /\ SplitReturns(p))
    BY <1>1, <1>3, <2>2 DEF Waits
  <2> QED
    BY <2>1, <2>2
<1>6. ASSUME NEW q \in Procs, NEW r \in Procs PROVE Carted(q)' <= Split(r)'
  BY <1>4, <1>5
<1> QED
  BY <1>2, <1>5, <1>6 DEF Waits

\* The order of a round does not change once all keys have come.
LEMMA OrderStays ==
  ASSUME IInv, NEW p, OthersKeep(p),
         \A q \in Procs : \A k \in 1 .. Split(q) : KeyArg(q, k)' = KeyArg(q, k),
         NEW q, NEW k, \A r \in Procs : k \in 1 .. Split(r)
  PROVE  Order(q, k)' = Order(q, k)
<1>1. Procs' = Procs /\ BaseRanks(q)' = BaseRanks(q)
  BY Static DEF OthersKeep
<1>2. [r \in Procs |-> KeyArg(r, k)]' = [r \in Procs |-> KeyArg(r, k)]
  BY <1>1
<1> QED
  BY <1>1, <1>2 DEF Order

\* The part of an order that fills the grid.
LEMMA ViewFacts ==
  ASSUME input \in Inputs, NEW o, o \in Bijection(Procs, 0 .. Cardinality(Procs)-1),
         NEW p \in Procs
  PROVE  /\ View(o, p) # COMM_NULL <=> o[p] < Cells
         /\ View(o, p) # COMM_NULL =>
              /\ DOMAIN View(o, p) = {q \in Procs : o[q] < Cells}
              /\ \A q \in DOMAIN View(o, p) : View(o, p)[q] = o[q] /\ View(o, q) = View(o, p)
              /\ View(o, p) \in Bijection(DOMAIN View(o, p), 0 .. Cells-1)
<1> DEFINE S == {q \in Procs : o[q] < Cells}
           W == [q \in S |-> o[q]]
<1>1. /\ Cardinality(Procs) \in Nat /\ Cells \in 1 .. Cardinality(Procs)
      /\ o \in [Procs -> 0 .. Cardinality(Procs)-1]
      /\ \A q, r \in Procs : o[q] = o[r] => q = r
      /\ \A i \in 0 .. Cardinality(Procs)-1 : \E q \in Procs : o[q] = i
  BY InputFacts DEF Bijection, Injection, IsInjective, Surjection
<1>2. CASE o[p] < Cells
  <2>1. p \in S /\ \A q \in S : View(o, q) = W
    BY <1>2 DEF View
  <2>2. W # COMM_NULL
    <3>1. DOMAIN W = S /\ p \in S
      BY <2>1
    <3> HIDE DEF W, S
    <3> QED
      BY <3>1 DEF COMM_NULL
  <2>3. W \in Bijection(S, 0 .. Cells-1)
    <3>1. W \in [S -> 0 .. Cells-1]
      BY <1>1
    <3>2. \A q, r \in S : W[q] = W[r] => q = r
      BY <1>1
    <3>3. \A i \in 0 .. Cells-1 : \E q \in S : W[q] = i
      <4> TAKE i \in 0 .. Cells-1
      <4>1. i \in 0 .. Cardinality(Procs)-1 /\ i < Cells
        BY <1>1
      <4>2. PICK q \in Procs : o[q] = i
        BY <1>1, <4>1
      <4> QED
        BY <4>1, <4>2
    <3> HIDE DEF W, S
    <3> QED
      BY <3>1, <3>2, <3>3 DEF Bijection, Injection, IsInjective, Surjection
  <2>4. DOMAIN W = S /\ \A q \in S : W[q] = o[q]
    OBVIOUS
  <2> HIDE DEF W
  <2> QED
    BY <1>2, <2>1, <2>2, <2>3, <2>4
<1>3. CASE ~ o[p] < Cells
  BY <1>3 DEF View
<1> QED
  BY <1>2, <1>3

\* The second MPI_Cart_create, on a grid that its processes fill, changes nothing.
LEMMA SecondCart ==
  ASSUME input \in Inputs, NEW o, o \in Bijection(Procs, 0 .. Cardinality(Procs)-1),
         NEW p \in Procs, NEW comm, comm.rank = View(o, p), p \in DOMAIN comm.rank
  PROVE  Cartesian(comm, p) = View(o, p)
<1>1. View(o, p) # COMM_NULL
  BY DEF COMM_NULL
<1>2. PICK W : W = comm.rank
  OBVIOUS
<1>3. /\ W = View(o, p) /\ p \in DOMAIN W
      /\ \A q \in DOMAIN W : W[q] = o[q] /\ o[q] < Cells
  <2>1. /\ DOMAIN View(o, p) = {q \in Procs : o[q] < Cells}
        /\ \A q \in DOMAIN View(o, p) : View(o, p)[q] = o[q]
    BY <1>1, ViewFacts
  <2> QED
    BY <1>2, <2>1
<1>4. {r \in DOMAIN W : W[r] < Cells} = DOMAIN W
  BY <1>3
<1>5. Cartesian(comm, p) = [q \in DOMAIN W |-> W[q]]
  BY <1>2, <1>3, <1>4 DEF Cartesian, Members
<1>6. W = [q \in DOMAIN W |-> W[q]]
  BY <1>1, <1>3 DEF View
<1> QED
  BY <1>3, <1>5, <1>6

LEMMA PlacedStays ==
  ASSUME IInv, Waits, \A q \in Procs : Placed(q), NEW p \in Procs, Step(p)
  PROVE  \A q \in Procs : Placed(q)'
<1>1. /\ OthersKeep(p) /\ input \in Inputs
      /\ \A q \in Procs : \A k \in 1 .. Split(q) : KeyArg(q, k)' = KeyArg(q, k)
  BY Progress DEF IInv, Shape
<1>2. Procs' = Procs /\ Cells' = Cells
  BY <1>1, Static DEF OthersKeep
<1>3. ASSUME NEW q \in Procs, NEW k, \A r \in Procs : k \in 1 .. Split(r)
      PROVE  /\ Order(q, k)' = Order(q, k) /\ View(Order(q, k), q)' = View(Order(q, k), q)
             /\ Order(q, k) \in Bijection(Procs, 0 .. Cardinality(Procs)-1)
  <2>1. Order(q, k)' = Order(q, k)
    BY <1>1, <1>3, OrderStays
  <2>2. View(Order(q, k), q)' = View(Order(q, k), q)
    BY <1>2, <2>1 DEF View
  <2> QED
    BY <1>3, <2>1, <2>2, OrderBijective
<1>4. ASSUME NEW q \in Procs, NEW k \in 1 .. Carted(q), NEW r \in Procs
      PROVE  k \in 1 .. Split(r)
  BY Counters DEF Waits
<1>5. ASSUME NEW q \in Procs \ {p} PROVE Placed(q)'
  <2>1. /\ pc'[q] = pc[q] /\ carts'[q] = carts[q] /\ tmp'[q] = tmp[q]
        /\ node_world_comm'[q] = node_world_comm[q]
        /\ Given(q)' = Given(q) /\ Round(q)' = Round(q)
    BY <1>1 DEF OthersKeep, Given, Round
  <2>2. Given(q) \in Nat /\ Carted(q) \in Nat /\ Given(q) <= Carted(q) /\ Round(q) = Given(q) + 1
    BY Counters
  <2>3. ASSUME NEW k \in 1 .. Given(q)'
        PROVE  (carts[q][k] = View(Order(q, k), q))'
    <3>1. k \in 1 .. Given(q) /\ k \in 1 .. Carted(q)
      BY <2>1, <2>2
    <3>2. View(Order(q, k), q)' = View(Order(q, k), q)
      BY <1>3, <1>4, <3>1
    <3> QED
      BY <2>1, <3>1, <3>2 DEF Placed
  <2>4. PICK r : r = Round(q)
    OBVIOUS
  <2>5. ASSUME pc[q] \in {"cart_create", "second_cart_create", "aborted"}
        PROVE  Order(q, r)' = Order(q, r) /\ View(Order(q, r), q)' = View(Order(q, r), q)
    <3>1. r \in 1 .. Carted(q)
      BY <2>2, <2>4, <2>5 DEF Carted
    <3> QED
      BY <1>3, <1>4, <3>1
  <2>6. Order(q, Round(q))' = Order(q, r)' /\ View(Order(q, Round(q)), q)' = View(Order(q, r), q)'
    BY <2>1, <2>4
  <2> QED
    BY <2>1, <2>3, <2>4, <2>5, <2>6 DEF Placed
<1> SUFFICES Placed(p)'
  BY <1>2, <1>5
<1>6. PICK r : r = Round(p)
  OBVIOUS
<1>7. /\ Given(p) \in Nat /\ Carted(p) \in Nat /\ Given(p) <= Carted(p) /\ r = Given(p) + 1
  BY <1>6, Counters
<1>8. ASSUME NEW k \in 1 .. Given(p)
      PROVE  View(Order(p, k), p)' = carts[p][k]
  <2>1. k \in 1 .. Carted(p)
    BY <1>7
  <2> QED
    BY <1>3, <1>4, <2>1 DEF Placed
<1>9. pc[p] \in {"cart_create", "second_cart_create"} => \A q \in Procs : r \in 1 .. Split(q)
  <2>1. pc[p] \in {"cart_create", "second_cart_create"} => r \in 1 .. Carted(p)
    BY <1>7 DEF Carted
  <2> QED
    BY <1>4, <2>1
<1>10. ASSUME carts' = carts, pc'[p] \notin {"cart_create", "second_cart_create", "aborted"}
       PROVE  Placed(p)'
  <2>1. Given(p)' = Given(p)
    BY <1>10 DEF Given
  <2> QED
    BY <1>8, <1>10, <2>1 DEF Placed
<1>11. ASSUME carts' = [carts EXCEPT ![p] = Append(@, View(Order(p, r), p))],
              pc'[p] = "application", \A q \in Procs : r \in 1 .. Split(q)
       PROVE  Placed(p)'
  <2>1. /\ Given(p)' = Given(p) + 1 /\ carts'[p][r] = View(Order(p, r), p)
        /\ \A k \in 1 .. Given(p) : carts'[p][k] = carts[p][k]
    <3>1. PICK cart : cart = View(Order(p, r), p)
      OBVIOUS
    <3>2. carts' = [carts EXCEPT ![p] = Append(@, cart)] /\ alg(p)' = alg(p)
      BY <1>1, <1>11, <3>1, Static DEF OthersKeep
    <3>3. /\ Given(p)' = Given(p) + 1 /\ carts'[p][Round(p)] = cart
          /\ \A k \in 1 .. Given(p) : carts'[p][k] = carts[p][k]
      BY <3>2, OneMoreResult
    <3> QED
      BY <1>6, <3>1, <3>3
  <2>2. View(Order(p, r), p)' = View(Order(p, r), p)
    BY <1>3, <1>11
  <2>3. ASSUME NEW k \in 1 .. Given(p)' PROVE (carts[p][k] = View(Order(p, k), p))'
    <3>1. k \in 1 .. Given(p) \/ k = r
      BY <1>7, <2>1
    <3>2. CASE k \in 1 .. Given(p)
      BY <1>8, <2>1, <3>2
    <3>3. CASE k = r
      BY <2>1, <2>2, <3>3
    <3> QED
      BY <3>1, <3>2, <3>3
  <2> QED
    BY <1>11, <2>3 DEF Placed
<1>12. CASE perform_reordering(p)
  BY <1>10, <1>12, EnterStep
<1>13. CASE NodeCommReturns(p)
  BY <1>10, <1>13, NodeCommStep
<1>14. CASE SplitReturns(p)
  <2>1. /\ pc'[p] = "cart_create" /\ carts' = carts
        /\ tmp'[p].rank = RankBy(BaseRanks(p), [q \in Procs |->
             Calls(q, BaseId(alg(p), Round(p)))[SplitIndex(alg(p), Round(p))].arg], Procs)
    BY <1>14, SplitStep
  <2>2. ~ MixesStrips /\ \A q \in Procs : r \in 1 .. Split(q)
    BY <1>6, <1>14, SplitWaits
  <2>3. ASSUME NEW q \in Procs
        PROVE  BaseId(alg(q), r) = BaseId(alg(p), r) /\ SplitIndex(alg(q), r) = SplitIndex(alg(p), r)
    <3>1. Strips(alg(q)) <=> Strips(alg(p))
      BY <2>2 DEF MixesStrips, Strips
    <3> QED
      BY <3>1, SameIds
  <2>4. ASSUME NEW q \in Procs
        PROVE  Calls(q, BaseId(alg(p), Round(p)))[SplitIndex(alg(p), Round(p))].arg = KeyArg(q, r)
    <3>1. PICK b, n : b = BaseId(alg(p), r) /\ n = SplitIndex(alg(p), r)
      OBVIOUS
    <3>2. b = BaseId(alg(q), r) /\ n = SplitIndex(alg(q), r)
      BY <2>3, <3>1
    <3> QED
      BY <1>6, <3>1, <3>2 DEF KeyArg
  <2>5. tmp'[p].rank = Order(p, r)
    <3>1. [q \in Procs |-> Calls(q, BaseId(alg(p), Round(p)))[SplitIndex(alg(p), Round(p))].arg]
            = [q \in Procs |-> KeyArg(q, r)]
      BY <2>4
    <3> QED
      BY <2>1, <3>1 DEF Order
  <2>6. Order(p, r)' = Order(p, r)
    BY <1>3, <2>2
  <2>7. Given(p)' = Given(p) /\ Round(p)' = r
    BY <1>6, <2>1 DEF Given, Round
  <2> QED
    BY <1>8, <2>1, <2>5, <2>6, <2>7 DEF Placed
<1>15. CASE CartReturns(p)
  <2>1. /\ pc[p] = "cart_create" /\ pc'[p] = "application"
        /\ carts' = [carts EXCEPT ![p] = Append(@, View(tmp[p].rank, p))]
    BY <1>15, CartStep
  <2>2. tmp[p].rank = Order(p, r)
    BY <1>6, <2>1 DEF Placed
  <2> QED
    BY <1>9, <1>11, <2>1, <2>2
<1>16. CASE StripsCartReturns(p)
  <2>1. /\ pc[p] = "cart_create" /\ pc'[p] \in {"second_cart_create", "aborted"}
        /\ carts' = carts /\ node_world_comm'[p].rank = View(tmp[p].rank, p)
    BY <1>16, StripsCartStep
  <2>2. tmp[p].rank = Order(p, r)
    BY <1>6, <2>1 DEF Placed
  <2>3. View(Order(p, r), p)' = View(Order(p, r), p)
    BY <1>3, <1>9, <2>1
  <2>4. Given(p)' = Given(p) /\ Round(p)' = r
    BY <1>6, <2>1 DEF Given, Round
  <2> QED
    BY <1>8, <2>1, <2>2, <2>3, <2>4 DEF Placed
<1>17. CASE SecondCartReturns(p)
  <2>1. /\ pc[p] = "second_cart_create" /\ pc'[p] = "application"
        /\ carts' = [carts EXCEPT ![p] = Append(@, Cartesian(node_world_comm[p], p))]
    BY <1>17, SecondCartStep
  <2>2. node_world_comm[p].rank = View(Order(p, r), p) /\ p \in DOMAIN node_world_comm[p].rank
    BY <1>6, <2>1 DEF Placed, IInv, Follows, CommsFollow
  <2>3. \A q \in Procs : r \in 1 .. Split(q)
    BY <1>9, <2>1
  <2>4. Cartesian(node_world_comm[p], p) = View(Order(p, r), p)
    BY <1>1, <1>3, <2>2, <2>3, SecondCart
  <2> QED
    BY <1>11, <2>1, <2>3, <2>4
<1> QED
  BY <1>12, <1>13, <1>14, <1>15, <1>16, <1>17 DEF Step

LEMMA InitGInv == Init => GInv
<1> SUFFICES ASSUME Init PROVE GInv
  OBVIOUS
<1>1. IInv
  BY InitIInv
<1>2. ASSUME NEW p \in Procs
      PROVE  pc[p] = "application" /\ Given(p) = 0 /\ Carted(p) = 0 /\ Split(p) \in Nat
  BY <1>1, EmptySeq, Counters DEF Init, Given, Carted
<1>3. Waits
  BY <1>2 DEF Waits
<1>4. \A p \in Procs : Placed(p)
  BY <1>2 DEF Placed
<1> QED
  BY <1>1, <1>3, <1>4 DEF GInv

LEMMA NextGInv == GInv /\ [Next]_vars => GInv'
<1> SUFFICES ASSUME GInv, [Next]_vars PROVE GInv'
  OBVIOUS
<1>1. IInv /\ IInv' /\ Waits /\ \A p \in Procs : Placed(p)
  BY NextIInv DEF GInv
<1>2. ASSUME NEW p \in Procs, Step(p) PROVE GInv'
  <2>1. Waits' /\ \A q \in Procs : Placed(q)'
    BY <1>1, <1>2, WaitsStays, PlacedStays
  <2>2. Procs' = Procs
    BY <1>1, <1>2, Progress DEF OthersKeep, Procs
  <2> QED
    BY <1>1, <2>1, <2>2 DEF GInv
<1>3. CASE UNCHANGED vars
  <2>1. /\ input' = input /\ keys' = keys /\ pc' = pc /\ made' = made /\ tmp' = tmp
        /\ node_world_comm' = node_world_comm /\ carts' = carts
        /\ Procs' = Procs /\ Cells' = Cells /\ MixesStrips' = MixesStrips
    BY <1>3 DEF vars, Procs, Cells, MixesStrips, alg
  <2>2. \A q, k : KeyArg(q, k)' = KeyArg(q, k)
    BY <2>1 DEF KeyArg, Calls, alg
  <2>3. ASSUME NEW q
        PROVE  /\ Given(q)' = Given(q) /\ Round(q)' = Round(q) /\ Split(q)' = Split(q)
               /\ Carted(q)' = Carted(q) /\ BaseRanks(q)' = BaseRanks(q)
    BY <2>1, Static DEF Given, Round, Split, Carted
  <2>4. ASSUME NEW q, NEW k
        PROVE  Order(q, k)' = Order(q, k) /\ View(Order(q, k), q)' = View(Order(q, k), q)
    <3>1. Order(q, k)' = Order(q, k)
      <4>1. [r \in Procs |-> KeyArg(r, k)]' = [r \in Procs |-> KeyArg(r, k)]
        BY <2>1, <2>2
      <4> QED
        BY <2>1, <2>3, <4>1 DEF Order
    <3> QED
      BY <2>1, <3>1 DEF View
  <2>5. Waits'
    BY <1>1, <2>1, <2>3 DEF Waits
  <2>6. ASSUME NEW q \in Procs PROVE Placed(q)'
    <3>1. PICK r : r = Round(q)
      OBVIOUS
    <3>2. /\ Order(q, Round(q))' = Order(q, r)'
          /\ View(Order(q, Round(q)), q)' = View(Order(q, r), q)'
      BY <2>3, <3>1
    <3>3. Placed(q)
      BY <1>1
    <3>4. \A k \in 1 .. Given(q) : (carts[q][k] = View(Order(q, k), q))'
      BY <2>1, <2>4, <3>3 DEF Placed
    <3> QED
      BY <2>1, <2>3, <2>4, <3>1, <3>2, <3>3, <3>4 DEF Placed
  <2> QED
    BY <1>1, <2>1, <2>5, <2>6 DEF GInv
<1> QED
  BY <1>2, <1>3 DEF Next

LEMMA GlobalInvariance == Spec => []GInv
  BY InitGInv, NextGInv, PTL DEF Spec

----------------------------------------------------------------------------
(***************************************************************************)
(* The refinement of CartCreate: entering the function is a step of Ask,   *)
(* returning from it one of Answer, and every step in between a stutter.   *)
(***************************************************************************)
AskedBy == [p \in Procs |-> Len(carts[p]) + (IF pc[p] = "application" THEN 0 ELSE 1)]

LEMMA SameDefinitions ==
  ASSUME input \in Inputs
  PROVE  /\ Abstract!Procs = Procs /\ Abstract!COMM_NULL = COMM_NULL
         /\ \A S : Abstract!Cardinality(S) = Cardinality(S)
         /\ \A S, T : Abstract!Bijection(S, T) = Bijection(S, T)
<1>1. Abstract!Procs = Procs
  BY InputFacts DEF Abstract!Procs
<1>2. \A S : Abstract!Cardinality(S) = Cardinality(S)
  BY DEF Abstract!Cardinality, Cardinality
<1>3. \A S, T : Abstract!Bijection(S, T) = Bijection(S, T)
  BY DEF Abstract!Bijection, Bijection, Abstract!Injection, Injection, Abstract!Surjection,
     Surjection, Abstract!IsInjective, IsInjective
<1>4. Abstract!COMM_NULL = COMM_NULL
  BY DEF Abstract!COMM_NULL, COMM_NULL
<1> QED
  BY <1>1, <1>2, <1>3, <1>4

LEMMA EnterIsAsk ==
  ASSUME IInv, NEW p \in Procs, perform_reordering(p)
  PROVE  Abstract!Ask(p)
<1>1. /\ OthersKeep(p) /\ pc[p] = "application" /\ pc'[p] = "node_comm" /\ carts' = carts
  BY EnterStep
<1>2. Cells' = Cells /\ Procs' = Procs
  BY <1>1, Static DEF OthersKeep
<1>3. Given(p) \in Nat
  BY Counters
<1>4. AskedBy[p] = Len(carts[p])
  <2>1. AskedBy[p] = Len(carts[p]) + 0
    BY <1>1 DEF AskedBy
  <2> QED
    BY <1>3, <2>1 DEF Given
<1>5. AskedBy' = [AskedBy EXCEPT ![p] = @ + 1]
  <2>1. \A q \in Procs : Len(carts'[q]) + (IF pc'[q] = "application" THEN 0 ELSE 1)
           = IF q = p THEN AskedBy[q] + 1 ELSE AskedBy[q]
    BY <1>1, <1>3 DEF OthersKeep, AskedBy, Given
  <2>2. AskedBy' = [q \in Procs |-> IF q = p THEN AskedBy[q] + 1 ELSE AskedBy[q]]
    BY <1>2, <2>1 DEF AskedBy
  <2>3. DOMAIN AskedBy = Procs
    BY DEF AskedBy
  <2> HIDE DEF AskedBy
  <2> QED
    BY <2>2, <2>3
<1> QED
  BY <1>1, <1>2, <1>4, <1>5 DEF Abstract!Ask, AskedBy

LEMMA MiddleIsStutter ==
  ASSUME IInv, NEW p \in Procs, OthersKeep(p), carts' = carts,
         pc[p] # "application", pc'[p] # "application"
  PROVE  UNCHANGED Abstract!vars
<1>1. Cells' = Cells /\ Procs' = Procs
  BY Static DEF OthersKeep
<1>2. \A q \in Procs : (pc'[q] = "application") <=> (pc[q] = "application")
  BY DEF OthersKeep
<1>3. AskedBy' = AskedBy
  BY <1>1, <1>2 DEF AskedBy
<1> QED
  BY <1>1, <1>3 DEF Abstract!vars, AskedBy

\* A process with rank 0 .. Cells-1 sits on a cell; as many are left as there are spare.
LEMMA SpareProcesses ==
  ASSUME input \in Inputs, NEW o, o \in Bijection(Procs, 0 .. Cardinality(Procs)-1)
  PROVE  LET spare == {q \in Procs : ~ o[q] < Cells}
         IN IsFiniteSet(spare) /\ Cardinality(spare) = Cardinality(Procs) - Cells
<1> DEFINE S == {q \in Procs : ~ o[q] < Cells}
           T == Cells .. Cardinality(Procs)-1
           f == [q \in S |-> o[q]]
<1>1. /\ Cardinality(Procs) \in Nat /\ Cells \in 1 .. Cardinality(Procs)
      /\ o \in [Procs -> 0 .. Cardinality(Procs)-1]
      /\ \A q, r \in Procs : o[q] = o[r] => q = r
      /\ \A i \in 0 .. Cardinality(Procs)-1 : \E q \in Procs : o[q] = i
      /\ IsFiniteSet(Procs)
  BY InputFacts DEF Bijection, Injection, IsInjective, Surjection
<1>2. f \in [S -> T]
  <2>1. \A q \in S : o[q] \in T
    BY <1>1
  <2> QED
    BY <2>1
<1>3. \A q, r \in S : f[q] = f[r] => q = r
  BY <1>1
<1>4. \A i \in T : \E q \in S : f[q] = i
  <2> TAKE i \in T
  <2>1. i \in 0 .. Cardinality(Procs)-1 /\ ~ i < Cells
    BY <1>1
  <2>2. PICK q \in Procs : o[q] = i
    BY <1>1, <2>1
  <2> QED
    BY <2>1, <2>2
<1>5. IsFiniteSet(S)
  <2>1. S \subseteq Procs
    OBVIOUS
  <2> HIDE DEF S
  <2> QED
    BY <1>1, <2>1, FS_Subset
<1>6. Cardinality(T) = Cardinality(Procs) - Cells
  <2>1. PICK m \in Nat, n \in Nat : m = Cells /\ n = Cardinality(Procs) /\ m <= n
    BY <1>1
  <2>2. Cardinality(m .. n-1) = IF m > n-1 THEN 0 ELSE n-1 - m + 1
    BY FS_Interval
  <2>3. Cardinality(m .. n-1) = n - m
    BY <2>1, <2>2
  <2> QED
    BY <2>1, <2>3
<1> HIDE DEF S, T, f
<1>7. f \in Bijection(S, T)
  BY <1>2, <1>3, <1>4 DEF Bijection, Injection, IsInjective, Surjection
<1>8. ExistsBijection(S, T)
  BY <1>7 DEF ExistsBijection
<1> QED
  BY <1>5, <1>6, <1>8, FS_Bijection DEF S

\* The views of one order are parts of one placement.
LEMMA ViewsAreOnePlacement ==
  ASSUME input \in Inputs, NEW o, o \in Bijection(Procs, 0 .. Cardinality(Procs)-1),
         NEW given \in SUBSET Procs, NEW answers, answers = [q \in given |-> View(o, q)]
  PROVE  Abstract!OnePlacement(answers)
<1> DEFINE placed == {q \in given : answers[q] # COMM_NULL}
<1>1. /\ Abstract!Procs = Procs /\ Abstract!COMM_NULL = COMM_NULL
      /\ \A S : Abstract!Cardinality(S) = Cardinality(S)
      /\ \A S, T : Abstract!Bijection(S, T) = Bijection(S, T)
      /\ DOMAIN answers = given /\ \A q \in given : answers[q] = View(o, q)
  BY SameDefinitions
<1>2. ASSUME NEW q \in placed
      PROVE  /\ DOMAIN answers[q] \subseteq Procs
             /\ answers[q] \in Bijection(DOMAIN answers[q], 0 .. Cells-1)
             /\ \A r \in given :
                  answers[r] = IF r \in DOMAIN answers[q] THEN answers[q] ELSE COMM_NULL
  <2>1. PICK W : W = View(o, q)
    OBVIOUS
  <2>2. /\ q \in Procs /\ W # COMM_NULL /\ answers[q] = W
    BY <1>1, <2>1
  <2>3. /\ DOMAIN W = {r \in Procs : o[r] < Cells}
        /\ \A r \in DOMAIN W : View(o, r) = W
        /\ W \in Bijection(DOMAIN W, 0 .. Cells-1)
    <3>1. View(o, q) # COMM_NULL
      BY <2>1, <2>2
    <3>2. /\ DOMAIN View(o, q) = {r \in Procs : o[r] < Cells}
          /\ \A r \in DOMAIN View(o, q) : View(o, r) = View(o, q)
          /\ View(o, q) \in Bijection(DOMAIN View(o, q), 0 .. Cells-1)
      BY <2>2, <3>1, ViewFacts
    <3> QED
      BY <2>1, <3>2
  <2>4. ASSUME NEW r \in given
        PROVE  answers[r] = IF r \in DOMAIN W THEN W ELSE COMM_NULL
    <3>1. r \in DOMAIN W => answers[r] = W
      BY <1>1, <2>3
    <3>2. r \notin DOMAIN W => View(o, r) = COMM_NULL
      BY <2>3 DEF View
    <3> QED
      BY <1>1, <3>1, <3>2
  <2> QED
    BY <2>2, <2>3, <2>4
<1>3. Cardinality(given \ placed) <= Cardinality(Procs) - Cells
  <2>1. PICK spare : spare = {q \in Procs : ~ o[q] < Cells}
    OBVIOUS
  <2>2. IsFiniteSet(spare) /\ Cardinality(spare) = Cardinality(Procs) - Cells
    BY <2>1, SpareProcesses
  <2>3. given \ placed \subseteq spare
    <3>1. ASSUME NEW q \in given \ placed PROVE ~ o[q] < Cells
      <4>1. View(o, q) = COMM_NULL /\ q \in Procs
        BY <1>1
      <4> QED
        BY <4>1, ViewFacts
    <3> QED
      BY <2>1, <3>1
  <2> HIDE DEF placed
  <2>4. Cardinality(given \ placed) <= Cardinality(spare)
    BY <2>2, <2>3, FS_Subset
  <2> QED
    BY <2>2, <2>4
<1> QED
  BY <1>1, <1>2, <1>3 DEF Abstract!OnePlacement

\* The order of a round is the same for all.
LEMMA OneOrder ==
  ASSUME ~ MixesStrips, NEW p \in Procs, NEW q \in Procs, NEW k
  PROVE  Order(q, k) = Order(p, k)
<1>1. Strips(alg(p)) <=> Strips(alg(q))
  BY DEF MixesStrips, Strips
<1> QED
  BY <1>1 DEF Order, BaseRanks

LEMMA ReturnIsAnswer ==
  ASSUME GInv, NEW p \in Procs, Step(p), pc[p] \in {"cart_create", "second_cart_create"},
         pc'[p] = "application",
         carts' = [carts EXCEPT ![p] = Append(@, View(Order(p, Round(p)), p))]
  PROVE  Abstract!Answer(p)
<1>a. PICK r, o, answer : r = Round(p) /\ o = Order(p, r) /\ answer = View(o, p)
  OBVIOUS
<1>1. /\ IInv /\ Waits /\ input \in Inputs /\ \A q \in Procs : Placed(q)
      /\ OthersKeep(p)
  BY Progress DEF GInv, IInv, Shape
<1>2. Procs' = Procs /\ Cells' = Cells /\ alg(p)' = alg(p)
  BY <1>1, Static DEF OthersKeep
<1>3. Given(p) \in Nat /\ r = Given(p) + 1 /\ Carted(p) = r /\ Asked(p) = r
  BY <1>1, <1>a, Counters DEF Carted, Asked
<1>4. ASSUME NEW q \in Procs
      PROVE  r \in 1 .. Split(q) /\ Asked(q) \in Nat /\ Asked(q) >= r /\ Given(q) \in Nat
  <2>1. /\ Asked(q) \in Nat /\ Split(q) \in Nat /\ Given(q) \in Nat /\ Split(q) <= Asked(q)
        /\ Carted(p) <= Split(q)
    BY <1>1, Counters DEF Waits
  <2> QED
    BY <1>3, <2>1
<1>5. ~ MixesStrips
  BY <1>1, <1>3 DEF Waits
<1>6. o \in Bijection(Procs, 0 .. Cardinality(Procs)-1)
  BY <1>1, <1>4, <1>a, OrderBijective
<1>7. /\ carts' = [carts EXCEPT ![p] = Append(@, answer)] /\ carts'[p][r] = answer
      /\ Len(carts'[p]) = r /\ \A q \in Procs \ {p} : carts'[q] = carts[q]
      /\ carts'[p] = Append(carts[p], answer)
  <2>1. carts' = [carts EXCEPT ![p] = Append(@, answer)]
    BY <1>a
  <2>2. /\ Given(p)' = Given(p) + 1 /\ carts'[p][Round(p)] = answer
        /\ \A q \in Procs \ {p} : carts'[q] = carts[q] /\ carts'[p] = Append(carts[p], answer)
        /\ carts'[p] = Append(carts[p], answer)
    BY <1>1, <1>2, <2>1, OneMoreResult
  <2> QED
    BY <1>3, <1>a, <2>1, <2>2 DEF Given
<1>8. PICK given : given = {q \in Procs : Len(carts[q]) >= r} \cup {p}
  OBVIOUS
<1>9. ASSUME NEW q \in given PROVE carts'[q][r] = View(o, q)
  <2>1. CASE q = p
    BY <1>7, <1>a, <2>1
  <2>2. CASE q # p
    <3>1. q \in Procs /\ Given(q) >= r /\ carts'[q] = carts[q]
      BY <1>7, <1>8, <2>2 DEF Given
    <3>2. r \in 1 .. Given(q)
      BY <1>3, <1>4, <3>1
    <3>3. carts[q][r] = View(Order(q, r), q)
      BY <1>1, <3>1, <3>2 DEF Placed
    <3>4. Order(q, r) = o
      BY <1>5, <1>a, <3>1, OneOrder
    <3> QED
      BY <3>1, <3>3, <3>4
  <2> QED
    BY <2>1, <2>2
<1>10. Abstract!OnePlacement([q \in given |-> carts'[q][r]])
  <2>1. [q \in given |-> carts'[q][r]] = [q \in given |-> View(o, q)]
    BY <1>9
  <2>2. PICK answers : answers = [q \in given |-> carts'[q][r]]
    OBVIOUS
  <2>3. given \in SUBSET Procs
    BY <1>8
  <2>4. Abstract!OnePlacement(answers)
    BY <1>1, <1>6, <2>1, <2>2, <2>3, ViewsAreOnePlacement
  <2> QED
    BY <2>2, <2>4
<1>11. AskedBy' = AskedBy
  <2>1. \A q \in Procs : Len(carts'[q]) + (IF pc'[q] = "application" THEN 0 ELSE 1)
           = Len(carts[q]) + (IF pc[q] = "application" THEN 0 ELSE 1)
    <3>1. \A q \in Procs \ {p} : pc'[q] = pc[q] /\ carts'[q] = carts[q]
      BY <1>1 DEF OthersKeep
    <3>2. Len(carts'[p]) + 0 = Len(carts[p]) + 1
      BY <1>3, <1>7 DEF Given
    <3> QED
      BY <3>1, <3>2
  <2> QED
    BY <1>2, <2>1 DEF AskedBy
<1>12. \A q \in Abstract!Procs : AskedBy[q] >= r
  BY <1>1, <1>4, SameDefinitions DEF AskedBy, Asked, Given
<1>13. r = Len(carts[p]) + 1 /\ Abstract!Procs = Procs
  BY <1>1, <1>3, SameDefinitions DEF Given
<1>14. Abstract!OnePlacement(
         [q \in {q \in Abstract!Procs : Len(carts[q]) >= Len(carts[p]) + 1} \cup {p} |->
            carts'[q][Len(carts[p]) + 1]])
  <2>1. PICK n, dom : /\ n = Len(carts[p]) + 1
                      /\ dom = {q \in Abstract!Procs : Len(carts[q]) >= Len(carts[p]) + 1} \cup {p}
    OBVIOUS
  <2>2. n = r /\ dom = given
    BY <1>8, <1>13, <2>1
  <2>3. [q \in dom |-> carts'[q][n]] = [q \in given |-> carts'[q][r]]
    BY <2>2
  <2>4. [q \in dom |-> carts'[q][n]]
          = [q \in {q \in Abstract!Procs : Len(carts[q]) >= Len(carts[p]) + 1} \cup {p} |->
               carts'[q][Len(carts[p]) + 1]]
    BY <2>1
  <2> QED
    BY <1>10, <2>3, <2>4
<1>15. /\ Len(carts'[p]) = Len(carts[p]) + 1
       /\ carts' = [carts EXCEPT ![p] = Append(@, carts'[p][Len(carts[p]) + 1])]
       /\ \A q \in Abstract!Procs : AskedBy[q] >= Len(carts[p]) + 1
  BY <1>7, <1>12, <1>13
<1> QED
  BY <1>2, <1>11, <1>14, <1>15 DEF Abstract!Answer, AskedBy

LEMMA InitIsInit == Init => Abstract!Init
<1> SUFFICES ASSUME Init PROVE Abstract!Init
  OBVIOUS
<1>1. input \in Inputs /\ Abstract!Procs = Procs
  BY SameDefinitions DEF Init
<1>2. /\ Cardinality(Procs) \in Nat \ {0} /\ Cells \in 1 .. Cardinality(Procs)
  BY <1>1, InputFacts
<1>3. AskedBy = [p \in Procs |-> 0]
  <2>1. \A p \in Procs : Len(carts[p]) + (IF pc[p] = "application" THEN 0 ELSE 1) = 0
    BY EmptySeq DEF Init
  <2> QED
    BY <2>1 DEF AskedBy
<1>4. carts = [p \in Procs |-> <<>>]
  BY DEF Init
<1> QED
  BY <1>1, <1>2, <1>3, <1>4 DEF Abstract!Init, AskedBy

\* Whatever algorithms the processes use, whatever keys these compute and however far some
\* run ahead: reordering keeps what MPI_Cart_create promises (configuration.cpp:41-58,
\* kd_tree.cpp:44-63, hyperplane.cpp:276-301, stencil_strips.cpp:180-219).
THEOREM ReorderingImplementsCartCreate == Spec => Implements
<1>1. GInv /\ [Next]_vars => [Abstract!Next]_(Abstract!vars)
  <2> SUFFICES ASSUME GInv, [Next]_vars
               PROVE  Abstract!Next \/ UNCHANGED Abstract!vars
    OBVIOUS
  <2>1. IInv /\ Abstract!Procs = Procs /\ input \in Inputs /\ \A q \in Procs : Placed(q)
    BY SameDefinitions DEF GInv, IInv, Shape
  <2>2. ASSUME NEW p \in Procs, Step(p) PROVE Abstract!Next \/ UNCHANGED Abstract!vars
    <3> SUFFICES Abstract!Ask(p) \/ Abstract!Answer(p) \/ UNCHANGED Abstract!vars
      BY <2>1 DEF Abstract!Next
    <3>1. CASE perform_reordering(p)
      BY <2>1, <3>1, EnterIsAsk
    <3>2. CASE NodeCommReturns(p)
      BY <2>1, <3>2, NodeCommStep, MiddleIsStutter
    <3>3. CASE SplitReturns(p)
      BY <2>1, <3>3, SplitStep, MiddleIsStutter
    <3>4. CASE CartReturns(p)
      <4>1. /\ pc[p] = "cart_create" /\ pc'[p] = "application"
            /\ carts' = [carts EXCEPT ![p] = Append(@, View(tmp[p].rank, p))]
        BY <2>1, <3>4, CartStep
      <4>2. tmp[p].rank = Order(p, Round(p))
        BY <2>1, <4>1 DEF Placed
      <4> QED
        BY <2>2, <4>1, <4>2, ReturnIsAnswer
    <3>5. CASE StripsCartReturns(p)
      BY <2>1, <3>5, StripsCartStep, MiddleIsStutter
    <3>6. CASE SecondCartReturns(p)
      <4>1. /\ pc[p] = "second_cart_create" /\ pc'[p] = "application"
            /\ carts' = [carts EXCEPT ![p] = Append(@, Cartesian(node_world_comm[p], p))]
        BY <2>1, <3>6, SecondCartStep
      <4>2. PICK r, o : r = Round(p) /\ o = Order(p, r)
        OBVIOUS
      <4>3. node_world_comm[p].rank = View(o, p) /\ p \in DOMAIN node_world_comm[p].rank
        BY <2>1, <4>1, <4>2 DEF Placed, IInv, Follows, CommsFollow
      <4>4. \A q \in Procs : r \in 1 .. Split(q)
        <5>1. /\ r = Carted(p) /\ r \in Nat \ {0}
          BY <2>1, <4>1, <4>2, Counters DEF Carted
        <5>2. \A q \in Procs : Split(q) \in Nat /\ r <= Split(q)
          BY <2>1, <5>1, Counters DEF GInv, Waits
        <5> QED
          BY <5>1, <5>2
      <4>5. o \in Bijection(Procs, 0 .. Cardinality(Procs)-1)
        BY <2>1, <4>2, <4>4, OrderBijective
      <4>6. Cartesian(node_world_comm[p], p) = View(Order(p, Round(p)), p)
        BY <2>1, <4>2, <4>3, <4>5, SecondCart
      <4> QED
        BY <2>2, <4>1, <4>6, ReturnIsAnswer
    <3> QED
      BY <2>2, <3>1, <3>2, <3>3, <3>4, <3>5, <3>6 DEF Step
  <2>3. ASSUME UNCHANGED vars PROVE UNCHANGED Abstract!vars
    BY <2>3 DEF vars, Abstract!vars, Procs, Cells
  <2> QED
    BY <2>2, <2>3 DEF Next
<1> QED
  BY <1>1, InitIsInit, GlobalInvariance, PTL DEF Spec, Implements, Abstract!Spec

----------------------------------------------------------------------------
(***************************************************************************)
(* In a full grid, where the keys are the cells: the order of the keys     *)
(* puts every process on the cell that is its key.                         *)
(***************************************************************************)
LEMMA PermutationRanks ==
  ASSUME NEW n \in Nat, NEW S, S = 0 .. n-1, NEW comm \in [S -> Int],
         NEW key \in Injection(S, S), NEW p \in S
  PROVE  RankBy(comm, key, S)[p] = key[p]
<1>1. IsFiniteSet(S)
  BY FS_Interval
<1>2. /\ key \in [S -> S] /\ \A q, r \in S : key[q] = key[r] => q = r
      /\ \A i \in S : \E q \in S : key[q] = i
  <2>1. key \in Surjection(S, S)
    BY <1>1, FS_Injection
  <2> QED
    BY <2>1 DEF Injection, IsInjective, Surjection
<1>3. PICK k \in S : k = key[p]
  BY <1>2
<1> DEFINE Before == {q \in S : Precedes(comm, key, q, p)}
           T == 0 .. k-1
           f == [q \in Before |-> key[q]]
<1>4. \A q \in S : Precedes(comm, key, q, p) <=> key[q] < k
  <2> TAKE q \in S
  <2>1. key[q] = key[p] => ~ comm[q] < comm[p]
    BY <1>2
  <2> QED
    BY <1>3, <2>1 DEF Precedes
<1>5. f \in Bijection(Before, T)
  <2>1. f \in [Before -> T]
    <3>1. \A q \in Before : key[q] \in T
      BY <1>2, <1>4
    <3> QED
      BY <3>1
  <2>2. \A q, r \in Before : f[q] = f[r] => q = r
    BY <1>2
  <2>3. \A i \in T : \E q \in Before : f[q] = i
    <3> TAKE i \in T
    <3>1. i \in S /\ i < k
      OBVIOUS
    <3>2. PICK q \in S : key[q] = i
      BY <1>2, <3>1
    <3>3. q \in Before
      BY <1>4, <3>1, <3>2
    <3> QED
      BY <3>2, <3>3
  <2> HIDE DEF f, T, Before
  <2> QED
    BY <2>1, <2>2, <2>3 DEF Bijection, Injection, IsInjective, Surjection
<1>6. Cardinality(T) = k
  <2>1. k \in Nat
    BY <1>3
  <2>2. Cardinality(0 .. k-1) = IF 0 > k-1 THEN 0 ELSE k-1 - 0 + 1
    BY <2>1, FS_Interval
  <2> QED
    BY <2>1, <2>2
<1>7. Before \subseteq S
  OBVIOUS
<1>8. RankBy(comm, key, S)[p] = Cardinality(Before)
  BY DEF RankBy
<1> HIDE DEF f, T, Before
<1>9. ExistsBijection(Before, T) /\ IsFiniteSet(Before)
  BY <1>1, <1>5, <1>7, FS_Subset DEF ExistsBijection
<1> QED
  BY <1>3, <1>6, <1>8, <1>9, FS_Bijection

\* What is relied on in the algorithms, for the keys of the model.
OneKeyPerRank(p, k) ==
  /\ \A r \in Procs : \E key \in Procs : keys[input.config[p]][k][r] = {key}
  /\ \A r, s \in Procs : keys[input.config[p]][k][r] = keys[input.config[p]][k][s] => r = s
  /\ \A q \in Procs : \A l \in DOMAIN keys[input.config[q]] :
       /\ alg(q) = alg(p) /\ input.config[q].stencil = input.config[p].stencil
       /\ alg(p) = "KD_TREE" \/ k = l
       => keys[input.config[q]][l] = keys[input.config[p]][k]

LEMMA FullGridKeys ==
  ASSUME IInv, Cells = Cardinality(Procs), NEW p \in Procs, NEW k \in DOMAIN keys[input.config[p]]
  PROVE  OneKeyPerRank(p, k)
<1>1. Shape /\ input \in Inputs
  BY DEF IInv, Shape
<1>2. PICK c : c = input.config[p]
  OBVIOUS
<1>3. /\ c \in ConfigsOf(input) /\ k \in PpnUnder(c.scheme, input.nodeOf)
      /\ keys[c][k] = KeysOf(input, c, k)
  BY <1>1, <1>2, KeySets
<1>4. Volume(input.dims, ndims) = Cardinality(DOMAIN input.nodeOf)
  BY DEF Procs, Cells
<1>5. Reliable(input, c, k)
  BY <1>1, <1>3, KeysAssumption
<1>6. /\ \A r \in Procs : \E key \in Procs : keys[c][k][r] = {key}
      /\ \A r, s \in Procs : keys[c][k][r] = keys[c][k][s] => r = s
  BY <1>3, <1>4, <1>5 DEF Reliable, Procs
<1>7. ASSUME NEW q \in Procs, NEW l \in DOMAIN keys[input.config[q]],
             alg(q) = alg(p) /\ input.config[q].stencil = input.config[p].stencil,
             alg(p) = "KD_TREE" \/ k = l
      PROVE  keys[input.config[q]][l] = keys[c][k]
  <2>1. PICK d : d = input.config[q]
    OBVIOUS
  <2>2. /\ d \in ConfigsOf(input) /\ l \in PpnUnder(d.scheme, input.nodeOf)
        /\ keys[d][l] = KeysOf(input, d, l)
    BY <1>1, <2>1, KeySets
  <2>3. c.alg = d.alg /\ c.stencil = d.stencil /\ (c.alg = "KD_TREE" \/ k = l)
    BY <1>2, <1>7, <2>1 DEF alg
  <2>4. KeysOf(input, c, k) = KeysOf(input, d, l)
    BY <1>4, <1>5, <2>2, <2>3 DEF Reliable
  <2> QED
    BY <1>3, <2>1, <2>2, <2>4
<1> QED
  BY <1>2, <1>6, <1>7 DEF OneKeyPerRank

\* The key of every process in a round that it has come to, in a full grid.
LEMMA RightKeys ==
  ASSUME IInv, Cells = Cardinality(Procs), NEW p \in Procs, NEW call,
         \A q \in Procs : /\ alg(q) = alg(p)
                          /\ input.config[q].stencil = input.config[p].stencil
                          /\ call \in 1 .. Split(q),
         SamePpn, NEW k \in DOMAIN keys[input.config[p]]
  PROVE  /\ [q \in Procs |-> KeyArg(q, call)] \in Injection(Procs, Procs)
         /\ KeyArg(p, call) \in keys[input.config[p]][k][BaseRanks(p)[p]]
<1>1. /\ Shape /\ input \in Inputs
      /\ \A q \in Procs : BaseRanks(q) = BaseRanks(p)
  BY DEF IInv, Shape, BaseRanks
<1>2. PICK K : K = keys[input.config[p]][k]
  OBVIOUS
<1>3. /\ \A r \in Procs : \E key \in Procs : K[r] = {key}
      /\ \A r, s \in Procs : K[r] = K[s] => r = s
  <2>1. OneKeyPerRank(p, k)
    BY FullGridKeys
  <2> QED
    BY <1>2, <2>1 DEF OneKeyPerRank
<1>4. PICK B : B = BaseRanks(p)
  OBVIOUS
<1>5. B \in [Procs -> Procs] /\ \A q, r \in Procs : B[q] = B[r] => q = r
  <2>1. B \in Bijection(Procs, 0 .. Cardinality(Procs)-1)
    BY <1>1, <1>4, BaseRanksBijective
  <2>2. Procs = 0 .. Cardinality(Procs)-1
    BY <1>1, InputFacts
  <2> QED
    BY <2>1, <2>2 DEF Bijection, Injection, IsInjective
<1>6. ASSUME NEW q \in Procs
      PROVE  KeyArg(q, call) \in K[B[q]]
  <2>1. KeyArg(q, call) \in KeyChoices(q)
    BY DEF IInv, Follows, KeysFollow
  <2>2. PICK l \in DOMAIN keys[input.config[q]] :
          KeyArg(q, call) \in keys[input.config[q]][l][BaseRanks(q)[q]]
    BY <2>1 DEF KeyChoices
  <2>3. alg(p) = "KD_TREE" \/ k = l
    BY DEF SamePpn
  <2>4. keys[input.config[q]][l] = keys[input.config[p]][k]
    <3>1. OneKeyPerRank(p, k)
      BY FullGridKeys
    <3> QED
      BY <2>3, <3>1 DEF OneKeyPerRank
  <2> QED
    BY <1>1, <1>2, <1>4, <2>2, <2>4
<1>7. ASSUME NEW q \in Procs
      PROVE  KeyArg(q, call) \in Procs /\ K[B[q]] = {KeyArg(q, call)}
  <2>1. PICK key \in Procs : K[B[q]] = {key}
    BY <1>3, <1>5
  <2> QED
    BY <1>6, <2>1
<1>8. \A q, r \in Procs : KeyArg(q, call) = KeyArg(r, call) => q = r
  <2> TAKE q, r \in Procs
  <2> HAVE KeyArg(q, call) = KeyArg(r, call)
  <2>1. K[B[q]] = K[B[r]] /\ B[q] \in Procs /\ B[r] \in Procs
    BY <1>5, <1>7
  <2> QED
    BY <1>3, <1>5, <2>1
<1> QED
  BY <1>2, <1>4, <1>6, <1>7, <1>8 DEF Injection, IsInjective

\* OnItsCell holds: whoever is given a Cartesian communicator has the rank in it that
\* its algorithm has computed, whatever calls of other rounds are under way.
THEOREM ReorderingPlaces == Spec => []OnItsCell
<1>1. GInv => OnItsCell
  <2> SUFFICES ASSUME GInv, NEW p \in Procs, Cells = Cardinality(Procs),
                      \A q \in Procs : /\ alg(q) = alg(p)
                                       /\ input.config[q].stencil = input.config[p].stencil,
                      SamePpn, NEW call \in DOMAIN carts[p]
               PROVE  carts[p][call][p] \in
                        keys[input.config[p]][CHOOSE k \in DOMAIN keys[input.config[p]] : TRUE]
                            [BaseRanks(p)[p]]
    BY DEF OnItsCell, BaseRanks, Strips, oldcomm
  <2>1. IInv /\ Placed(p) /\ input \in Inputs
    BY DEF GInv, IInv, Shape
  <2>2. call \in 1 .. Given(p) /\ \A q \in Procs : call \in 1 .. Split(q)
    <3>1. call \in 1 .. Given(p) /\ Given(p) \in Nat
      BY <2>1, Counters, Appended DEF IInv, Follows, CommsFollow, Given
    <3>2. \A q \in Procs : Carted(p) <= Split(q) /\ Split(q) \in Nat
      BY <2>1, Counters DEF GInv, Waits
    <3>3. Given(p) <= Carted(p)
      BY <2>1, <3>1 DEF Carted
    <3> QED
      BY <2>1, <3>1, <3>2, <3>3, Counters
  <2>3. PICK k \in DOMAIN keys[input.config[p]] : TRUE
    <3>1. KeyArg(p, call) \in KeyChoices(p)
      BY <2>1, <2>2 DEF IInv, Follows, KeysFollow
    <3> QED
      BY <3>1 DEF KeyChoices
  <2> DEFINE ppn == CHOOSE l \in DOMAIN keys[input.config[p]] : TRUE
             key == [q \in Procs |-> KeyArg(q, call)]
  <2>4. ppn \in DOMAIN keys[input.config[p]]
    BY <2>3
  <2> HIDE DEF ppn
  <2>5. /\ key \in Injection(Procs, Procs)
        /\ KeyArg(p, call) \in keys[input.config[p]][ppn][BaseRanks(p)[p]]
    BY <2>1, <2>2, <2>4, RightKeys
  <2>6. PICK o : o = Order(p, call)
    OBVIOUS
  <2>7. o[p] = KeyArg(p, call)
    <3>1. Procs = 0 .. Cardinality(Procs)-1 /\ Cardinality(Procs) \in Nat
      BY <2>1, InputFacts
    <3>2. BaseRanks(p) \in [Procs -> Int]
      <4>1. BaseRanks(p) \in Bijection(Procs, 0 .. Cardinality(Procs)-1)
        BY <2>1, BaseRanksBijective
      <4> QED
        BY <3>1, <4>1 DEF Bijection, Injection
    <3>3. RankBy(BaseRanks(p), key, Procs)[p] = key[p]
      <4> HIDE DEF key
      <4> QED
        BY <2>5, <3>1, <3>2, PermutationRanks
    <3> QED
      BY <2>6, <3>3 DEF Order
  <2>8. View(o, p)[p] = o[p]
    <3>1. o \in Bijection(Procs, 0 .. Cardinality(Procs)-1)
      BY <2>1, <2>2, <2>6, OrderBijective
    <3>2. o[p] \in 0 .. Cells-1
      BY <3>1 DEF Bijection, Injection
    <3>3. o[p] < Cells
      BY <2>1, <3>2, InputFacts
    <3> QED
      BY <2>1, <3>1, <3>3, ViewFacts
  <2>9. carts[p][call] = View(o, p)
    BY <2>1, <2>2, <2>6 DEF Placed
  <2> QED
    BY <2>5, <2>7, <2>8, <2>9 DEF ppn
<1> QED
  BY <1>1, GlobalInvariance, PTL

----------------------------------------------------------------------------
(***************************************************************************)
(* Deadlock.  Where all split the same communicator and nobody aborts, the *)
(* process that is least far can always go on.                             *)
(***************************************************************************)
\* The guards of the step that p takes next.
CanReturn(p) ==
  \/ pc[p] = "application" /\ Len(carts[p]) < input.calls
  \/ /\ pc[p] = "node_comm" /\ Complete(oldcomm, p)
     /\ \E ppn \in DOMAIN keys[input.config[p]] :
          keys[input.config[p]][ppn][BaseRanks(p)[p]] # {}
  \/ pc[p] = "split" /\ Complete(Base(p, node_world_comm[p]), p)
  \/ pc[p] = "cart_create" /\ Complete(tmp[p], p)
  \/ pc[p] = "second_cart_create" /\ Complete(node_world_comm[p], p)

SomebodyReturns == ~ Aborted /\ (Done \/ \E p \in Procs : CanReturn(p))

\* A communicator with processes that have no cell is what it takes for an abort.
LEMMA NoAbort ==
  ASSUME GInv, ~ StripsWithSpare
  PROVE  ~ Aborted
<1> SUFFICES ASSUME NEW p \in Procs, pc[p] = "aborted" PROVE FALSE
  BY DEF Aborted
<1>1. /\ IInv /\ Waits /\ input \in Inputs /\ Placed(p)
  BY DEF GInv, IInv, Shape
<1>2. PICK r, o : r = Round(p) /\ o = Order(p, r)
  OBVIOUS
<1>3. Strips(alg(p)) /\ node_world_comm[p].rank = COMM_NULL
  BY <1>1 DEF IInv, Follows, CommsFollow
<1>4. Given(p) \in Nat /\ r = Given(p) + 1 /\ Carted(p) = r
  BY <1>1, <1>2, Counters DEF Carted
<1>5. \A q \in Procs : r \in 1 .. Split(q)
  BY <1>1, <1>4, Counters DEF Waits
<1>6. o \in Bijection(Procs, 0 .. Cardinality(Procs)-1)
  BY <1>1, <1>2, <1>5, OrderBijective
<1>7. View(o, p) = COMM_NULL
  BY <1>1, <1>2, <1>3 DEF Placed
<1>8. ~ o[p] < Cells
  BY <1>1, <1>6, <1>7, ViewFacts
<1>9. o[p] \in 0 .. Cardinality(Procs)-1
  BY <1>6 DEF Bijection, Injection
<1>10. Cells < Cardinality(Procs)
  BY <1>1, <1>8, <1>9, InputFacts
<1> QED
  BY <1>3, <1>10 DEF StripsWithSpare, Strips

\* Every algorithm finds a ppn and computes a key.
LEMMA KeyComputed ==
  ASSUME IInv, NEW p \in Procs
  PROVE  \E ppn \in DOMAIN keys[input.config[p]] :
           keys[input.config[p]][ppn][BaseRanks(p)[p]] # {}
<1>1. PICK c : c = input.config[p]
  OBVIOUS
<1>2. /\ input \in Inputs /\ c \in ConfigsOf(input)
      /\ c.scheme \in node_approximation_schemes
  BY <1>1, InputFacts DEF IInv, Shape, ConfigsOf, Procs
<1>3. PpnUnder(c.scheme, input.nodeOf) # {}
  <2> DEFINE leaders == {LeaderOf(input.nodeOf, q) : q \in Procs}
             sizes == {NodeSizes(input.nodeOf)[i] : i \in DOMAIN NodeSizes(input.nodeOf)}
  <2>1. IsFiniteSet(leaders) /\ leaders # {}
    <3>1. leaders \subseteq Procs
      BY <1>2, LeaderFacts
    <3>2. LeaderOf(input.nodeOf, p) \in leaders
      OBVIOUS
    <3> HIDE DEF leaders
    <3> QED
      BY <1>2, <3>1, <3>2, InputFacts, FS_Subset
  <2>2. Leaders(input.nodeOf) = leaders
    BY DEF Leaders, Procs
  <2> HIDE DEF leaders
  <2>3. Cardinality(leaders) \in Nat /\ Cardinality(leaders) # 0
    BY <2>1, FS_CardinalityType, FS_EmptySet
  <2>4. 0 \in DOMAIN NodeSizes(input.nodeOf)
    BY <2>2, <2>3 DEF NodeSizes
  <2>5. sizes # {}
    BY <2>4
  <2> QED
    BY <1>2, <2>5 DEF PpnUnder, node_approximation_schemes
<1>4. PICK ppn \in PpnUnder(c.scheme, input.nodeOf) : TRUE
  BY <1>3
<1>5. /\ ppn \in DOMAIN keys[c] /\ keys[c][ppn] = KeysOf(input, c, ppn)
  BY <1>1, <1>4, KeySets DEF IInv
<1>6. BaseRanks(p)[p] \in Procs
  <2>1. BaseRanks(p)[p] \in 0 .. Cardinality(Procs)-1
    BY <1>2, BaseRanksBijective DEF Bijection, Injection
  <2> QED
    BY <1>2, <2>1, InputFacts
<1>7. KeysOf(input, c, ppn)[BaseRanks(p)[p]] # {}
  BY <1>2, <1>4, <1>6, KeysAssumption DEF Reliable, Procs
<1> QED
  BY <1>1, <1>5, <1>7

Position(p) ==
  CASE pc[p] = "application" -> 0
    [] pc[p] = "node_comm" -> 1
    [] pc[p] = "split" -> 2
    [] pc[p] = "cart_create" -> 3
    [] pc[p] \in {"second_cart_create", "aborted"} -> 4

Stage(p) == 5 * Given(p) + Position(p)

LEMMA LeastFar ==
  ASSUME IInv
  PROVE  \E p \in Procs : \A q \in Procs : Stage(p) <= Stage(q)
<1> DEFINE stages == {Stage(q) : q \in Procs}
<1>1. \A q \in Procs : Stage(q) \in Nat
  BY Counters DEF Stage, Position, PCs
<1>2. stages \subseteq Nat /\ stages # {}
  <2>1. 0 \in Procs
    BY InputFacts DEF IInv, Shape
  <2> QED
    BY <1>1, <2>1
<1>3. Min(stages) \in stages /\ \A s \in stages : Min(stages) <= s
  <2> HIDE DEF stages
  <2> QED
    BY <1>2, MinOfSet
<1> QED
  BY <1>3

\* Whoever is as far as p has come to the calls that p has come to.
LEMMA NotLessFar ==
  ASSUME IInv, ~ Aborted, NEW p \in Procs, NEW q \in Procs, Stage(p) <= Stage(q)
  PROVE  /\ Given(p) <= Given(q) /\ Asked(p) <= Asked(q) /\ Split(p) <= Split(q)
         /\ Carted(p) <= Carted(q) /\ CartedTwice(p) <= CartedTwice(q)
<1>1. ASSUME NEW r \in Procs
      PROVE  /\ Given(r) \in Nat /\ Position(r) \in 0 .. 4 /\ pc[r] # "aborted"
             /\ Asked(r) = Given(r) + (IF Position(r) >= 1 THEN 1 ELSE 0)
             /\ Split(r) = Given(r) + (IF Position(r) >= 2 THEN 1 ELSE 0)
             /\ Carted(r) = Given(r) + (IF Position(r) >= 3 THEN 1 ELSE 0)
             /\ CartedTwice(r) = Given(r) + (IF Position(r) >= 4 THEN 1 ELSE 0)
  <2>1. Given(r) \in Nat /\ pc[r] \in PCs /\ pc[r] # "aborted"
    BY Counters DEF Aborted
  <2> QED
    BY <2>1 DEF Asked, Split, Carted, CartedTwice, Position, PCs
<1>2. 5 * Given(p) + Position(p) <= 5 * Given(q) + Position(q)
  BY DEF Stage
<1> QED
  BY <1>1, <1>2

LEMMA LeastFarReturns ==
  ASSUME IInv, ~ MixesStrips, ~ Aborted, ~ Done,
         NEW p \in Procs, \A q \in Procs : Stage(p) <= Stage(q)
  PROVE  CanReturn(p)
<1>1. /\ Given(p) \in Nat /\ Round(p) = Given(p) + 1 /\ Round(p) \in Rounds /\ pc[p] \in PCs
      /\ input \in Inputs /\ Follows(p)
  BY Counters DEF IInv, Shape
<1>2. ASSUME NEW q \in Procs
      PROVE  /\ Given(q) \in Nat /\ Asked(q) \in Nat /\ Split(q) \in Nat
             /\ Given(p) <= Given(q) /\ Asked(p) <= Asked(q) /\ Split(p) <= Split(q)
             /\ Carted(p) <= Carted(q) /\ CartedTwice(p) <= CartedTwice(q)
             /\ (Strips(alg(p)) <=> Strips(alg(q))) /\ Follows(q)
  BY Counters, NotLessFar DEF MixesStrips, Strips, IInv
<1>3. CASE pc[p] = "application"
  <2>1. CASE Given(p) < input.calls
    BY <1>3, <2>1 DEF CanReturn, Given
  <2>2. CASE ~ Given(p) < input.calls
    <3>1. ASSUME NEW q \in Procs
          PROVE  pc[q] = "application" /\ Len(carts[q]) = input.calls
      <4>1. Asked(q) <= input.calls /\ input.calls \in Nat
        BY <1>1, <1>2, InputFacts DEF Follows, CommsFollow
      <4>2. Given(q) >= input.calls /\ Given(q) \in Nat
        BY <1>1, <1>2, <2>2, <4>1
      <4>3. pc[q] = "application" /\ Given(q) = input.calls
        BY <4>1, <4>2 DEF Asked
      <4> QED
        BY <4>3 DEF Given
    <3> QED
      BY <3>1 DEF Done
  <2> QED
    BY <2>1, <2>2
<1>4. CASE pc[p] = "node_comm"
  <2>1. ASSUME NEW q \in Procs PROVE Count(q, Old) >= Count(p, Old)
    BY <1>1, <1>2, Counters DEF Follows, CallsFollow
  <2>2. DOMAIN oldcomm.rank = Procs /\ oldcomm.id = Old
    BY <1>1, BaseDomains
  <2>3. Complete(oldcomm, p)
    BY <2>1, <2>2, CompleteCounts
  <2> QED
    BY <1>4, <2>3, KeyComputed DEF CanReturn
<1>5. CASE pc[p] = "split"
  <2>1. PICK base : base = Base(p, node_world_comm[p])
    OBVIOUS
  <2>2. /\ base.id = BaseId(alg(p), Round(p)) /\ DOMAIN base.rank = Procs
        /\ Count(p, base.id) = SplitIndex(alg(p), Round(p))
        /\ Asked(p) = Round(p) /\ Split(p) = Round(p)
    BY <1>5, <2>1, SplitBase
  <2>3. ASSUME NEW q \in Procs PROVE Count(q, base.id) >= Count(p, base.id)
    <3>1. base.id = BaseId(alg(q), Round(p)) /\ Count(p, base.id) = SplitIndex(alg(q), Round(p))
      BY <1>2, <2>2, SameIds
    <3>2. CASE Strips(alg(q))
      <4>1. Count(q, Old) = Asked(q) + Split(q)
        BY <1>2, <3>2 DEF Follows, CallsFollow
      <4> QED
        BY <1>1, <1>2, <2>2, <3>1, <3>2, <4>1 DEF BaseId, SplitIndex
    <3>3. CASE ~ Strips(alg(q))
      <4>1. Count(q, NodeId(alg(q), Round(p))) = 1
        BY <1>1, <1>2, <2>2, <3>3 DEF Follows, CallsFollow
      <4> QED
        BY <3>1, <3>3, <4>1 DEF BaseId, SplitIndex
    <3> QED
      BY <3>2, <3>3
  <2>4. Complete(base, p)
    BY <2>2, <2>3, CompleteCounts
  <2> QED
    BY <1>5, <2>1, <2>4 DEF CanReturn
<1>6. CASE pc[p] = "cart_create"
  <2>1. PICK id : id = TmpId(alg(p), Round(p))
    OBVIOUS
  <2>2. tmp[p].id = id /\ DOMAIN tmp[p].rank = Procs
    BY <1>1, <1>6, <2>1 DEF Follows, CommsFollow
  <2>3. Carted(p) = Round(p)
    BY <1>1, <1>6 DEF Carted
  <2>4. ASSUME NEW q \in Procs PROVE Count(q, id) = 1
    <3>1. id = TmpId(alg(q), Round(p))
      BY <1>2, <2>1, SameIds DEF TmpId
    <3>2. Round(p) <= Carted(q)
      BY <1>2, <2>3
    <3> QED
      BY <1>1, <1>2, <3>1, <3>2 DEF Follows, CallsFollow
  <2>5. Complete(tmp[p], p)
    BY <2>2, <2>4, CompleteCounts
  <2> QED
    BY <1>6, <2>5 DEF CanReturn
<1>7. CASE pc[p] = "second_cart_create"
  <2>1. PICK id : id = CartId(alg(p), Round(p))
    OBVIOUS
  <2>2. /\ node_world_comm[p].id = id /\ DOMAIN node_world_comm[p].rank \subseteq Procs
        /\ Strips(alg(p))
    BY <1>1, <1>7, <2>1 DEF Follows, CommsFollow
  <2>3. CartedTwice(p) = Round(p)
    BY <1>1, <1>7 DEF CartedTwice
  <2>4. ASSUME NEW q \in Procs PROVE Count(q, id) = 1
    <3>1. Strips(alg(q)) /\ id = CartId(alg(q), Round(p))
      BY <1>2, <2>1, <2>2, SameIds DEF CartId, TmpId
    <3>2. Round(p) <= CartedTwice(q)
      BY <1>2, <2>3
    <3> QED
      BY <1>1, <1>2, <3>1, <3>2 DEF Follows, CallsFollow
  <2>5. Complete(node_world_comm[p], p)
    BY <2>2, <2>4, CompleteCounts
  <2> QED
    BY <1>7, <2>5 DEF CanReturn
<1> QED
  BY <1>1, <1>3, <1>4, <1>5, <1>6, <1>7 DEF PCs, Aborted

\* Where STENCIL_STRIPS meets neither another algorithm nor more processes than there are
\* cells, nobody aborts and no state is a deadlock, however far some processes have run
\* ahead of others: until all have returned from all their calls, the call that some process
\* is blocked in has been made by all it needs (configuration.cpp:41-58, kd_tree.cpp:36-66,
\* hyperplane.cpp:231-302, stencil_strips.cpp:178-221).
THEOREM NeverDeadlocks ==
  Spec => [](~ MixesStrips /\ ~ StripsWithSpare => SomebodyReturns)
<1>1. GInv => (~ MixesStrips /\ ~ StripsWithSpare => SomebodyReturns)
  <2> SUFFICES ASSUME GInv, ~ MixesStrips, ~ StripsWithSpare PROVE SomebodyReturns
    OBVIOUS
  <2>1. IInv /\ ~ Aborted
    BY NoAbort DEF GInv
  <2>2. PICK p \in Procs : \A q \in Procs : Stage(p) <= Stage(q)
    BY <2>1, LeastFar
  <2> QED
    BY <2>1, <2>2, LeastFarReturns DEF SomebodyReturns
<1> QED
  BY <1>1, GlobalInvariance, PTL
=============================================================================
