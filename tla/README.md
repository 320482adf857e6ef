# A verification of the cartesian reordering library

The library replaces `MPI_Cart_create`: it renumbers the processes of a communicator so that
neighbours in a Cartesian grid, for a given stencil, tend to run on the same compute node.
This directory holds TLA+ modules that model it, TLC configurations that check them on small
instances, and proofs that TLAPS checks for instances of every size.

Paths below are relative to the repository's `src/` directory.

## 1. The system

| Component | State | Operations | Interaction |
|---|---|---|---|
| Configuration and entry points (`configuration/`, `definitions.cpp`) | two static `Configuration`s, one per entry point; the process-wide flag `logSet` | `MPI_Cart_create`, `MPIX_Cart_Comm_stencil`, the constructor, `perform_reordering` | read the environment, create the logger, make the stencil, dispatch to an algorithm |
| `Stencil_Creater` (`Stencils/`) | none | default nearest-neighbour stencil; reading `CART_REORDER_STENCIL` | called by `MPI_Cart_create` and `MPIX_Internode_cost` |
| Logger (`Log/`) | the shared pointer `m_Logger` and its level | `Init`, `set_log_level` | used by every component through macros |
| Node communicator (`reordering_algorithms/utils/node_comm.cpp`) | per process: three communicators, node count, node sizes, the aggregate `ppn` | `MPIX_Node_comm` | seven collective calls on three communicators, two of which it frees; called first by every algorithm |
| KD_TREE (`reordering_algorithms/kd_tree/`) | per process: the current subgrid, its size, the index looked for, the coordinate | the recursion `skewed_find_node_recursive` and its split key | no communication; `MPI_Comm_split` and `MPI_Cart_create` after it |
| HYPERPLANE (`reordering_algorithms/hyperplane/`) | per process: the subgrid twice (extents, end points), partitions counted off | the recursion `hyperplane_internal` and its split key | as KD_TREE |
| STENCIL_STRIPS (`reordering_algorithms/stencil_strips/`) | per process: strips entered so far, ranks left, direction of travel | `compute_stencil_strip`, `compute_coord` | as KD_TREE, but on the caller's communicator |
| Grid arithmetic (`reordering_algorithms/utils/utils.cpp`) | none | rank of a coordinate, the box around a stencil and its distortion factors | used by the algorithms |
| Cost evaluation (`Evaluation/`) | per process: graph edges, off-node counts | `MPIX_Internode_cost`, `MPIX_Internode_cost_stencil` | graph creation, node split and three reductions |
| `Reordering_Scheme` classes | none | forward their arguments | the targets of the dispatch |
| spdlog, test program | - | - | vendored; one reordering and one evaluation |

What makes this code hard:

* **Every process decides alone.**  An algorithm runs once per process without communication, and
  its result is right only together with the results of all the others: the split keys of all
  processes must be the ranks of the grid, each once.  A process cannot notice that another one
  has chosen the same cell, and a test sees only the few grids it was written for.
* **Collective calls on several communicators.**  `MPIX_Node_comm` and the cost evaluation mix
  calls on the whole communicator, on a node and (leaders only) between nodes.  MPI matches calls
  by their order, processes advance at their own pace, and a branch that differs between
  two processes deadlocks them or mixes up data.
* **Integer division everywhere.**  Sizes of subgrids, strips and partitions are carried along by
  quotients; what keeps them exact is implicit.
* **Calls that overlap.**  No barrier ends a reordering: a process may already be in its next
  `MPI_Cart_create` while others are still in this one, and each of them has read the environment for
  itself.
* **State that outlives a call.**  Static configurations, a logger that may be made once, and an
  environment that may change between calls.

There is no crash or message loss to consider: MPI aborts a job that loses a process.

### What is right, by component

* Node communicator: matched collectives; every process learns the same true sizes, gets the
  same usable `ppn` and the same node-by-node communicator; nobody waits forever.
* Algorithms: the bookkeeping (size of the subgrid, index in it) is exact at every level, every
  level makes the subgrid smaller, the keys are the ranks of the grid, and the processes of a
  node land close to one another (the reason for reordering at all).
* Cost evaluation: total and maximum are the numbers of stencil edges that cross nodes, in all and
  from the busiest node, for any placement; matched collectives; termination.
* The call as a whole: what `MPI_Cart_create` promises without reordering (everybody gets the same
  communicator, every cell one process, nobody returns before all have called), every process on the
  cell its algorithm has computed, no communicator left over, and everybody returns.
* Configuration: one logger however the entry points are mixed; the environment selects what the
  README says it selects; stencils consist of whole offsets; what is evaluated is what was reordered for.

## 2. The modules

| Module | Models | Its step |
|---|---|---|
| `Communicators` | communicators as functions from processes to ranks, `MPI_Comm_split`, `MPI_Comm_split_type`, and the matching of collective calls (external: MPI, as the code uses it) | - |
| `Placement` | what there is to find out about processes on nodes: leaders, sizes, the aggregate, the node-by-node order | - |
| `SortedComm` | abstract: what `MPIX_Node_comm` promises its callers | a process calls, or it returns when all have called |
| `NodeComm` | `MPIX_Node_comm` | a process returns from the MPI call it is blocked in, runs the code up to the next call, and makes it |
| `InternodeCost` | the cost evaluation | the same |
| `Grid` | volume, row-major rank, being inside a grid | - |
| `KdTree`, `Hyperplane` | the recursive algorithms | one level of the recursion in every process |
| `StencilStrips` | the strips algorithm | one iteration of the loop over the dimensions in every process |
| `Stencil` | `Stencil_Creater` | - |
| `SplitKeys` | an algorithm run to its end for one rank, with the dimension order or the strip heights that a stencil gives: instances of `Stencil`, `KdTree`, `Hyperplane` and `StencilStrips` | - |
| `CartCreate` | abstract: what `MPI_Cart_create` promises, called again and again | a process calls, or it returns with its part of one placement |
| `CartReorder` | `perform_reordering` and the entry functions of the three algorithms | a process returns from the collective call it is blocked in, goes on to the next, and makes it |
| `Configuration` | entry points, environment, logger | one call of an entry point, or a change of the environment |
| `MC...` | inputs for TLC | - |
| `GridTheorems` | lemmas about products, ranks, recursive functions and counting | - |
| `NodeCommTheorems`, `KdTreeTheorems`, `HyperplaneTheorems`, `StencilStripsTheorems`, `InternodeCostTheorems`, `ConfigurationTheorems`, `CartReorderTheorems` | theorems about the module each is named after | - |

Definitions have the names of the functions and variables they model where that is possible.

**Communication.**  A process is named by its rank in the communicator that was passed in.  The
variable `calls` records, for each process and each of its communicators, the calls it has made
in order.  A collective call of a process returns once every member has made its call with the same
index (for a broadcast, once the root has), and finds the arguments *in those calls, whichever
they are*.  A mismatch is therefore not excluded by construction; `CollectivesMatch` is what
excludes it.  `MPI_Comm_free` is collective too and is recorded, but lets the process continue.
There is no barrier anywhere that is not in the code.

**Algorithms.**  Between the node communicator and the final split the processes do not
communicate, and the code of one never reads the memory of another.  The interleaving of their
computations cannot be observed, so one step of the model advances all processes by a level.  The
properties relate the processes at that level.

**Composition.**  `NodeComm` implements `SortedComm` (`NodeComm!Implements`), so `CartReorder` takes the
whole of `MPIX_Node_comm` for one collective call that returns what `SortedComm` says: the order
`NodeMajor` and a `ppn` in `PpnUnder`.  The algorithms are functions of their arguments, so `CartReorder` takes the keys
for them from `SplitKeys`, where the steps of `KdTree`, `Hyperplane` and
`StencilStrips` are iterated.  The keys are put into the variable `keys` at the start, since nothing that
happens later has an influence on them; they are sets because of what may be in
unassigned coordinates.  What `CartReorder` relies on in the algorithms is stated there as
`KeysAssumption`: every rank gets a key, keys are integers, and in a full grid those of the ranks are the cells, each once.  TLC checks it
for `SplitKeys` in every run of `CartReorder`; the second half is what `KeysAreRanks` says of each
algorithm, a theorem of each.  On top of that, `CartReorder` implements `CartCreate` (`CartReorder!Implements`).
A communicator has an identity there: what the k-th call on a communicator creates.  Processes in
different rounds, or in different algorithms, can therefore meet on `oldcomm` and be matched wrongly, as in MPI.

**Data that is abstracted.**
* KD_TREE compares quotients of integers as doubles; the model compares them exactly, by
  cross multiplication, with the infinite quotient for a dimension no offset crosses.
* HYPERPLANE orders dimensions by sums of squared cosines.  They are used only to compare
  dimensions, and are an input of `Hyperplane` that ranges over the orderings; so is the order in which
  `std::sort` leaves equivalent dimensions.  `SplitKeys` computes them from the stencil, over a common
  denominator.
* STENCIL_STRIPS truncates a floating-point root to the height of a strip.  The height is an input
  of `StencilStrips` that takes any value: what is shown does not depend on how `pow` rounds.  `SplitKeys`
  computes it from the stencil, with exact roots.
* The characters of environment variables: a stencil is a sequence of numbers, a log level a number.
* `int` does not overflow: extents and communicators are far smaller than 2^31 in the runs, and
  the products that occur are at most the number of processes.

**An `int` that was never assigned** may hold anything: `Garbage` in `NodeComm` is what `*ppn`
holds before `MPIX_Node_comm` assigns it, `HeapWords` in `KdTree` the word in front of a heap block, and
`Unassigned` in `SplitKeys` the keys that come out of coordinates HYPERPLANE has not assigned.  `HeapWords` is
a word of at most 1 in the runs, where the recursion ends: 0 or 1 in `kd_tree`, 0 in `kd_tree_leaf`.

Definitions whose name ends in `_Suffix` and whose comment begins with "Mutant" are plausible wrong
versions of the definition that follows them.  No specification uses them; each property below
has one that violates it, to show that the property has something to say about the code.

## 3. The runs

| Run | Instance | Checks | Result |
|---|---|---|---|
| `node_comm` | 4 processes, every placement, three schemes and one process with another | `CollectivesMatch`, `SizesKnown`, `Implements`, `Terminates` | hold |
| `cart_reorder` | 4 processes on two placements, grids 2 x 2, 4 x 1 and (one to spare) 3 x 1, each algorithm, scheme and two stencils, environments that agree or differ, one call or two; 6 processes for 5 x 1 cells with HYPERPLANE | `OnItsCell`, `LeftOver`, `Implements`, `Completes` | hold |
| `kd_tree` | every grid of up to 3 dimensions, 12 cells, extent 5, with 0 to 2 offsets across each dimension; as many processes as cells, or 3 more | `SubgridExact`, `PlacedInGrid`, `SubgridsConsecutive`, `KeysAreRanks`, `BoxesShrink` | hold |
| `hyperplane` | every grid of up to 3 dimensions, 16 cells, extent 8, every `ppn`, orderings with ties in both directions; 0 or 3 spare processes | `CoordinatesAssigned`, `PartitionsWhole`, `GridPointsMatch`, `KeysAreRanks`, `PartitionsCompact`, `SubgridsShrink` | hold |
| `stencil_strips` | every grid of up to 3 dimensions, 8 cells, with roots 0 to 3, and four larger ones; 0 or 2 spare processes | `StripsTile`, `BundleExact`, `BundlesConsecutive`, `KeysAreRanks`, `SnakeContinuity` | hold |
| `internode_cost` | a 3 x 1 and a 2 x 2 grid, every periodicity, four stencils, every placement on up to 3 nodes | `CollectivesMatch`, `TotalExact`, `MaxExact`, `Terminates` | hold |
| `configuration` | two changes of the environment between any calls | `RegisteredOnce`, `StencilWhole`, `NearestNeighbors`, `EvaluatesReordered`, `LevelKept` | hold |
| `node_comm_max` | uneven nodes, `NODES_MAX` | `MaxIsMaximum` | violated |
| `kd_tree_leaf` | 2 x 2 cells | `LeafReadsAnExtent` | violated |
| `internode_cost_total` | a 3 x 1 grid on up to 2 nodes | `TotalHalved` | violated |
| `cart_reorder_spare` | STENCIL_STRIPS, 4 processes, 3 cells | `NeverAborts` | violated |
| `configuration_scheme` | each scheme name | `SchemeHonoured` | violated |

Every passing run has its module's type invariant `TypeOK` as well.  The properties are stated, with
the lines of code they are about, in the modules.  Those that need a process for every cell have
`GridIsFull` as their precondition; the others hold with spare processes as well.

What `cart_reorder` adds to the runs of the parts:
* `Implements`: equal keys, keys of different algorithms or of different `ppn`, and keys out of
  uninitialised memory cost the placement, but never the communicator: all processes get the same one, every cell is
  taken once, and nobody returns before all have called.  It holds in every input, also where calls
  do not return.
* `OnItsCell`: with one algorithm, one stencil and one `ppn` the keys of *all* runs of the
  algorithm decide the placement, and neither the splits nor the second Cartesian communicator nor
  processes in the next round change it.  KD_TREE and HYPERPLANE place the k-th process of the node order,
  STENCIL_STRIPS the k-th of the caller's.
* `LeftOver`: between calls, exactly the results are held, and for STENCIL_STRIPS one node communicator
  more per call, the leak at `stencil_strips.cpp:214-219`.
* `Completes`: everybody returns from every call, under two conditions, `~ MixesStrips` and
  `~ StripsWithSpare`.  Both are necessary: without the first, processes of different environments split
  `oldcomm` and the node communicator and wait for each other for ever; without the second the
  program ends in finding 3.

What `EvaluatesReordered` says: `MPI_Cart_create` keeps the environment of its first call in a static variable, and
`MPIX_Internode_cost` reads it in every call.  They agree whenever `CART_REORDER_STENCIL` reads as in that first call,
also if it was something else when the communicator in hand was made.  In any other environment the evaluation may be of
another stencil than was reordered for; the property says that this is the only way to get there.  The plausible repair that
is its mutant, to read the stencil alone anew in each reordering, breaks it in six steps.

**Why these bounds.**  In `NodeComm` four processes allow two nodes of different size, interleaved in
either order, a node with one process and four nodes; no more than three roles exist (first leader,
leader, other).  A grid algorithm treats dimensions alike, up to their order: three of them give a
longest one, a shortest one and one in between, and a grid with an extent of 1 is one of fewer
dimensions.  12 and 16 cells allow three and four levels of recursion, odd extents at several of
them, and node sizes that divide nothing.  Big and small strips occur together from extent 5 on, which
is why `MCStencilStrips` adds grids like 5 x 5 x 6 in which they do so in two dimensions at once.
Spare processes model a communicator larger than the grid, which `MPI_Cart_create` allows.  In
`InternodeCost` the 2 x 2 grid makes offsets wrap, meet themselves and leave the grid, and stencils
with repeated, one-sided and no offsets are among the four.  In `CartReorder` the two
placements are the ones in which the node order differs from the caller's, once with nodes of equal size and once not
(so that the schemes give different `ppn`, and `NODES_MAX` any); two calls make the rounds overlap, and no process can be
two rounds ahead of another, since the first thing in a round waits for all.  5 x 1 cells and `ppn` 2 are the
smallest case in which HYPERPLANE finds no aligned cut.  Angles in `hyperplane` are numbers up to
`ndims-1`, one assignment for each pattern of equal and different ones, since they are only compared.  In `Configuration`
`MaxChanges = 2` suffices to set a variable and to set it back.  `MaxExtent`, `MaxCells`, `Spare`,
`MaxRoot`, `Nodes`, `NumDims`, `MaxChanges` and `calls` (in the inputs of `CartReorder`) are the only bounds; none
occurs in a guard but the last two.

**Fairness.**  `NodeComm`, `InternodeCost` and `CartReorder` assume weak fairness of *some* process' step: as long as
a call has been made by all it needs, MPI lets one such call return.  MPI's progress rule promises
more than that.  In `CartReorder` the application's next call counts as a step, since a collective call is one that
all processes make.  Nothing is assumed of the algorithms: that their recursions end is
checked as action properties (`BoxesShrink`, `SubgridsShrink`), each of which bounds the number of
levels by the number of cells, and not as liveness.

**Deadlock.**  The runs of `Terminates` and `Completes` turn TLC's deadlock check off, since a deadlock is
what these are there to find (and in `cart_reorder` a real possibility of mixed environments); the others have it on, and finished processes stutter.

### Findings

1. `NODES_MAX` does not compute a maximum: `node_comm.cpp:59` compares each node's size with the
   caller's uninitialised `*ppn` and not with the running value.
2. `skewed_max_index` returns -1 for a single cell, so that `kd_tree.cpp:72` reads `dims[-1]`; the recursion
   ends because of the word that is there, not, as line 74 says, because the largest extent is 1.
3. STENCIL_STRIPS cannot be used with more processes than cells: those without a cell get
   `MPI_COMM_NULL` from the first `MPI_Cart_create` and pass it to the second (`stencil_strips.cpp:218`), an
   error that by default ends the program.  The other algorithms return `MPI_COMM_NULL`, as `MPI_Cart_create` does.
4. The conversion of the aggregation scheme's name uses `compare` as if it were a predicate
   (`definitions.cpp:8-14`): the default `NODES_MEAN` becomes `NODES_MIN`, and `NODES_MAX` is never chosen.
   (This hides finding 1 from users of the environment variable.)
5. The inter-node total is not what the comment at `evaluation_method.cpp:169-170` announces ("sum up and devide by two.
   Symmetry assumption"): every connection of a symmetric stencil is counted at both its ends, and nothing divides the sum.
   The public documentation does not decide it ("the total sum of inter-node communication", `README.md:81`), and for
   asymmetric stencils half the sum would mean nothing; `TotalExact` states what the code does, `TotalHalved` what the comment does.

Noticed without a run of their own:
* `hyperplane_internal` returns without a position if no cut is aligned (`hyperplane.cpp:136-217`).  That
  cannot happen with as many processes as cells (`CoordinatesAssigned`), and does with more; `cart_reorder` shows
  that the result is a valid communicator even then, if not a good one.
* `MPIX_Internode_cost_stencil` logs but makes no `Configuration`, hence no logger: if it is the first routine used
  but for creations with `reorder = 0`, in a library built with `-DLOGGING`, it dereferences a null pointer
  (`evaluation_method.cpp:69`).  The creation of the logger is modelled, its use is not.
* A change of `CART_REORDER_STENCIL` after the first reordering is without effect on `MPI_Cart_create`, which nothing
  documents, and takes effect in `MPIX_Internode_cost` (`EvaluatesReordered` says when the two agree).
* STENCIL_STRIPS loses a communicator per call (`LeftOver`), the cost evaluation one communicator and two groups.
* Processes with different environments may wait for each other for ever (the condition of `Completes`).
* With `-DLOGGING`, `configuration.cpp:47` adds a stencil's entry to the *address* of a string; what it logs is
  whatever lies there.
* `configuration.cpp` defines `MPIX_Cart_Comm_stencil` where the public header declares
`MPIX_Cart_comm_stencil`, and the function ignores its argument `reorder`.

## 4. The proofs

Every invariant and every action property that a passing run checks is a theorem, and so are both
refinements: what TLC shows of the instances of section 3 holds for every number of processes and
dimensions, every grid, stencil, placement and number of calls.  Of the three liveness properties the
half that is a safety property is proved: no state is a deadlock (`NeverDeadlocks`).

| Module | Theorems (the property) |
|---|---|
| `NodeCommTheorems` | `CollectivesAlwaysMatch` (`CollectivesMatch`), `SizesAreKnown` (`SizesKnown`), `TypesCorrect` (`TypeOK`), `NodeCommImplementsSortedComm` (`Implements`), `NeverDeadlocks` |
| `KdTreeTheorems` | `TypeCorrect` (`TypeOK`), `SubgridsAreExact` (`SubgridExact`), `StaysInGrid` (`PlacedInGrid`), `PlacesApart` (no two processes on one cell), `RanksConsecutive` (`SubgridsConsecutive`), `KeysAreExact` (`KeysAreRanks`), `LevelsShrink` (`BoxesShrink`) |
| `HyperplaneTheorems` | `TypesCorrect` (`TypeOK`), `PointsMatch` (`GridPointsMatch`), `AlwaysAssigned` (`CoordinatesAssigned`), `PartitionsStayWhole` (`PartitionsWhole`), `PartitionsAreCompact` (`PartitionsCompact`), `KeysAreExact` (`KeysAreRanks`), `CallsShrink` (`SubgridsShrink`) |
| `StencilStripsTheorems` | `StripsAlwaysTile` (`StripsTile`), `TypesCorrect` (`TypeOK`), `CountsAreExact` (`BundleExact`), `BundlesAreRuns` (`BundlesConsecutive`), `KeysAreExact` (`KeysAreRanks`), `NoJumps` (`SnakeContinuity`) |
| `InternodeCostTheorems` | `TypesCorrect` (`TypeOK`), `CollectivesAlwaysMatch` (`CollectivesMatch`), `TotalIsExact` (`TotalExact`), `MaxIsExact` (`MaxExact`), `NeverDeadlocks` |
| `ConfigurationTheorems` | `TypesCorrect` (`TypeOK`), `OneLogger` (`RegisteredOnce`), `StencilsAreWhole` (`StencilWhole`), `DefaultIsNearest` (`NearestNeighbors`), `EvaluationMatches` (`EvaluatesReordered`), `LevelStays` (`LevelKept`) |
| `CartReorderTheorems` | `TypesCorrect` (`TypeOK`), `NodeCommsLeftOver` (`LeftOver`), `ReorderingPlaces` (`OnItsCell`), `ReorderingImplementsCartCreate` (`Implements`), `NeverDeadlocks` |

**What is assumed.**  Only the named assumptions on the constants, in the modules that declare them: there is at
least one dimension and one process, extents are positive, offsets are integers, a stencil is finite, and a
placement is a function on the processes.  `Hyperplane` and `KdTree` allow any number of processes, as do the
theorems that do not have `GridIsFull` in their property; `StencilStrips` is given no grid with more cells than
processes, for which `MPI_Cart_create` is an error.  Words that were never assigned are any integers.
`CartReorder` has `KeysAssumption` besides (section 2, Composition); its theorems need that there are keys and that they
are integers, and `ReorderingPlaces` alone the rest.

### The arguments

**Protocols (`NodeComm`, `InternodeCost`).**  A mismatch is not excluded by construction, so the invariant has to say what
every process has called.  It says that on each communicator a process follows a *script*:

    CallsFollow(p) == calls[h][p] = Made(Script(h, p), number given by pc[p])      for each handle h

The scripts are functions of the placement alone (in `InternodeCost`, of placement, grid and stencil), arguments included,
so what another process passes is known before it has passed it; `CommsFollow` and the data part say the
same of the communicators and variables.  Two processes of one communicator have the same operations in their scripts
(`ScriptsAgree`, `CallsMade`), which is `CollectivesMatch`.  The data then is arithmetic on placements:

* In `NodeComm` a broadcast takes the root's count, and a non-leader's scripts hold `UNINIT` where its leader's hold the
  value.  The key a process computes, the sizes of the nodes before its own plus its rank on its node, is its rank in
  `NodeMajor` (`SizesAddUp`, `KeyCounts`), so the last split yields that order (`SortedByKeys`, `NewCommunicator`); the mean of
  the sizes is N divided by the number of nodes (`MeanOfSizes`).
* `NodeCommImplementsSortedComm`: the first call is the abstract call, the last return the abstract return, and everything
  between a stutter.  That nobody returns before all have called is a fact about three communicators: the last split
  is one of everybody, and whoever makes it has been called in (`EverybodyHasCalled`).
* In `InternodeCost`, `CoordsOfRank` and `RankOfCoords` show that `MPI_Cart_coords` and the row-major rank are inverse, so a
  neighbour has a rank exactly if it lies in the grid (`NeighborType`, `LeadsIff`).  Local counts are then cardinalities of sets of
  edges (`LeavingCounts`), and summing over processes, or over those of a node, partitions the set of all edges by their
  first end (`CountByFirst`, `SumsCount`).
* `NeverDeadlocks`: the process that is least far in the code (`Stage`, `LeastFar`) has made no more calls on any
  communicator than the others have, by the scripts; so the call it is blocked in has been made by all it needs, a broadcast's
  root included.  `CanReturn` is the guard of the step it takes next.

**Algorithms (`KdTree`, `Hyperplane`, `StencilStrips`).**  That processes compute apart but end on different cells is not
inductive.  Each invariant relates every two processes: as long as they have decided alike they agree on all
they have computed and differ in their ranks alone; from the level on where they part, their boxes share no cell.

* `KdTree`: `IInv == Typed /\ PlacedInGrid /\ LeavesAreCells /\ AllExact /\ AllPaired /\ AllConsecutive`.
  `AllPaired` says of two processes that they are in the same call, with target indices as far apart as
  their ranks, or in separate boxes.  A level keeps them together (`DescendTogether`: the split depends on what they share)
  or sends them to the two sides of a cut; boxes inside separate boxes are separate (`SeparateInside`).  `AllExact` rests on
  the divisibility of a size by its extents (`VolumeOfLayers` in `GridTheorems`).  `AllConsecutive` says that a call of
  `size` cells has the `size` processes whose ranks follow the one that looks for cell 0: the two halves of a
  cut get the lower and the upper ones (`DescendCounts`).
* `Hyperplane`: in each call end points and extents describe one box, its size is its volume, and in a full grid it consists
  of whole partitions, the process' own among them.  `SomeSplit` is the reason for `AlwaysAssigned`: as
  long as a box holds more than two whole partitions, their number has a factor in common with some extent, and
  at most half the layers along that dimension make an aligned side.  A box that is cut no more holds at most two partitions, and there a
  process takes the cell its rank numbers in mixed radix (`BaseCaseInBox`, `PlacesInBoxDiffer`).
* `StencilStrips`: `TypeInv` and `FullInv`.  Big and small strips stack up to the extent (`NumStrips`, `Tiles`, `Stacked`), so
  the count carried by division is that of the bundle (`ExtentCut`, `EnterExact`), and the strip a rank falls in is
  found by division (`NthStrip`, `StripFound`).  `Within` says that the bundle's ranks are a run, `Paired` that two
  processes are in one bundle or in separate ones, and `Adjacent` that the bundles of ranks p-1 and p are the same or
  neighbours in one dimension, where the direction of travel decides which end of the next strip comes first.
* `KeysAreRanks` follows in all three: the row-major rank is injective on the grid (`RankInjective`), and an injection of n
  processes into n ranks is onto (`RanksOnto`).  `BoxesShrink` and `SubgridsShrink` need the type part alone, hence
  hold with spare processes as well.

**`Configuration`.**  `IInv == TypeOK /\ LoggerInv /\ LastInv /\ CreatedInv`: `logSet`, `registered` and the logger's existence say
the same, so that a second `Configuration` registers nothing.  `CreatedInv` keeps, through later calls, that a communicator made by
`MPI_Cart_create` was reordered for the stencil of the static configuration; `EvaluatesReordered` follows from it.  `WholeStencil` covers every string in the environment, also
those cut short or padded; `NearestOffsets` counts the default stencil's offsets off against the directions of the grid.

**`CartReorder`.**  Calls may overlap, so the invariant cannot go by rounds of all processes.  `IInv` says, for each process by itself,
that the number of its results and its pc determine how many calls it has made on every communicator there is
(`CallsFollow`), which communicators it is blocked on and holds (`CommsFollow`, `HeldFollow`), and that the key it passed in
each round is one its algorithm may compute (`KeysFollow`).  Ids of different rounds differ (`IdsDiffer`), so `LeftOver` counts them.
`GInv` adds two facts that relate processes:

    Waits  == nobody has come to MPI_Cart_create in a round before all have passed their key in it, and
              nobody ever does so where STENCIL_STRIPS meets another algorithm
    Placed == each result of p, and what STENCIL_STRIPS takes its second Cartesian communicator from, is p's part
              of Order(p, round): the processes sorted by the keys of the round

Integer keys, ties broken by rank, sort the processes totally, so an order gives each process a rank
of its own (`OrderBijective`, by `OrderRanks`: ranks under a strict total order of a finite set are a bijection).  Who is
placed agrees with everybody else on the order (`OneOrder`), which makes the results one placement
(`ViewsAreOnePlacement`); a step that returns to the application is the abstract `Answer` (`ReturnIsAnswer`), and the
others stutter.  For `ReorderingPlaces`, the keys of a full grid are a permutation (`RightKeys`), and sorting by a permutation
gives every process the rank it asked for (`PermutationRanks`).  For `NeverDeadlocks`, a process that was given
`MPI_COMM_NULL` has a rank beyond the grid, so that without processes to spare nobody aborts (`NoAbort`); if all
processes split the same communicator, the one that is least far, counted in rounds and within them by pc, can go on as above.  The two
conditions are those of `Completes`, and section 3 says why they are needed.

**Recursion.**  Products, ranks and the choice of a dimension are recursive functions, and sums are folds.  That such a
function has the values its equation gives has to be shown first: `RecursionExists` and `FoldExists` in
`GridTheorems` construct it from finite approximations, once for all uses.  The library's induction rules take an operator as a
parameter, which the provers do not accept; induction is done on sets of numbers instead, since the least
number that is missing from a set would have a predecessor in it.

### What stays with TLC

* `Terminates` of `NodeComm` and `InternodeCost` and `Completes` of `CartReorder`: `NeverDeadlocks` says that somebody can go on
  and each process makes a fixed number of steps, but the prover has no rules for fairness and `ENABLED` that would
  conclude from this that everybody ends.
* The violated properties of the five runs of that kind.
* That `SplitKeys`, which iterates the algorithms' steps for one rank, has the keys the theorems speak of.  It takes these
  steps from instances of the three modules that have the input as a parameter, and the prover does not let theorems of
  such instances be cited.  `KeysAssumption` is evaluated for the inputs of the `CartReorder` runs; for others it rests on
  `SplitKeys` taking exactly the steps of the three modules.

## 5. Not modelled

* spdlog, which is vendored: its headers are more than nine tenths of the repository's lines.  The
  library's own code, about 1600 lines with its headers and test, is modelled but for what
  follows.  The text of log messages is left out.
* `update_dimension_order`, `get_coord_from_rank`: called by nobody.
* Threads: the library documents no support for them.
* The handles the cost evaluation does not free: a fact of the text that no order of steps changes.
* `MPIX_Internode_cost` on a communicator without Cartesian topology: the code does not handle it.
* Rounding of `pow` and `double` sums: the algorithms' own modules take every value instead, `SplitKeys` the exact one.
* The periods of a grid, which the reordering passes on and does not read.
* The test program, one behaviour of `CartReorder` and `InternodeCost`.

## 6. Plan

Done: the components, each by itself (`NodeComm`, `KdTree`, `Hyperplane`, `StencilStrips`, `InternodeCost`,
`Configuration`); their composition (`SplitKeys`, `CartReorder`); the abstract specifications `SortedComm` and
`CartCreate` with their implementations; theorems for all safety and action properties of the passing runs and
for freedom from deadlock.

What is left:

1. The link between `SplitKeys` and the algorithms' modules: that `After` reaches the state in which each algorithm's
   own behaviour ends, and with it, from `KeysAreExact` of each, the second half of `KeysAssumption` for every input.  The instances
   with a parameter would have to be replaced by some that have constants in its place, or the lemmas about one level
   (`DescendTogether`, `SomeSplit`, `EnterExact`, ...) be stated about records instead of variables.
