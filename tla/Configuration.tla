---------------------------- MODULE Configuration ----------------------------
(***************************************************************************)
(* Configuration and the library's entry points (configuration.cpp,        *)
(* definitions.cpp, Log/Logger.cpp, the head of MPIX_Internode_cost) in    *)
(* one process: which algorithm, node aggregation scheme and stencil a     *)
(* call works with, and the logger behind the CARTREORDER_* macros.        *)
(*                                                                         *)
(* Two entry points keep a Configuration in a static variable from their   *)
(* first call on, MPIX_Internode_cost makes a new one in every call, and   *)
(* MPIX_Internode_cost_stencil makes none.  The application may change the *)
(* environment between calls.                                              *)
(***************************************************************************)
EXTENDS Stencil, FiniteSets

CONSTANTS
  Algorithms,    \* values of CART_REORDER_ALGORITHM considered
  Stencils,      \* values of CART_REORDER_STENCIL: sequences of numbers
  NodeSchemes,   \* values of CART_REORDER_NODE_AGGREGATION
  LogLevels,     \* values of CART_REORDER_LOG_LEVEL, converted by atoi
  NumDims,       \* values of the argument ndims
  MaxChanges     \* how often the application changes the environment

ASSUME StencilAssumption == Stencils \subseteq Seq(Int)
ASSUME LevelAssumption == LogLevels \subseteq Int
ASSUME NumDimsAssumption == NumDims \subseteq Nat \ {0}
ASSUME BoundAssumption == MaxChanges \in Nat

VARIABLES
  env,             \* the environment variables
  changes,         \* how often env has been changed
  cart_config,     \* the static config of MPI_Cart_create
  stencil_config,  \* the static config of MPIX_Cart_Comm_stencil
  logSet,
  m_Logger,        \* the level of the logger, once there is one
  registered,      \* how many loggers named CARTREORDER have been registered
  last,            \* what the last call works with
  created          \* what the call that made the communicator in hand worked with

config_vars == <<cart_config, stencil_config, logSet, m_Logger, registered>>
vars == <<env, changes, config_vars, last, created>>

NoConfig == <<>>
NullLogger == "null"

\* The array reorder_schemes; back() is its last element.
reorder_schemes == <<"HYPERPLANE", "KD_TREE", "STENCIL_STRIPS">>

node_approximation_schemes == {"NODES_MIN", "NODES_MEAN", "NODES_MAX"}

\* compare returns 0, false, for equal strings.
string_to_node_approximation_schemes(str) ==
  IF str # "NODES_MIN" THEN "NODES_MIN"
  ELSE IF str # "NODES_MEAN" THEN "NODES_MEAN" ELSE "NODES_MAX"

set_log_level(lvl) ==
  IF lvl \in 0 .. 6
  THEN <<"trace", "debug", "info", "warn", "err", "critical", "off">>[lvl + 1]
  ELSE "off"

----------------------------------------------------------------------------
\* What getenv returns: no value, or one.
Variable(S) == {{}} \cup {{v} : v \in S}

Unset == {}

Value(variable) == CHOOSE v \in variable : TRUE

Read(variable, default) == IF variable = Unset THEN default ELSE Value(variable)

\* Mutant: the algorithm has no default.
Configured_NoDefault ==
  [str_alg |-> Read(env.alg, ""),
   str_node_scheme |-> Read(env.node_scheme, "NODES_MEAN"),
   str_stencil |-> env.stencil]

\* The members of a Configuration that is constructed now.
Configured ==
  [str_alg |-> Read(env.alg, "STENCIL_STRIPS"),
   str_node_scheme |-> Read(env.node_scheme, "NODES_MEAN"),
   str_stencil |-> env.stencil]

\* Logger::Init: a new logger, switched off.
LoggerInit ==
  /\ registered' = registered + 1
  /\ m_Logger' = IF env.log_level = Unset THEN "off" ELSE set_log_level(Value(env.log_level))

KeepLogger ==
  /\ registered' = registered
  /\ m_Logger' = IF env.log_level = Unset THEN m_Logger ELSE set_log_level(Value(env.log_level))

\* Mutants: logSet is not set; the logger is made anew each time.
Construct_NotSet == (IF logSet THEN KeepLogger ELSE LoggerInit) /\ logSet' = logSet

Construct_Anew ==
  /\ m_Logger' = IF env.log_level = Unset THEN "off" ELSE set_log_level(Value(env.log_level))
  /\ registered' = 1
  /\ logSet' = TRUE

\* What the constructor does to the logger.
Construct == (IF logSet THEN KeepLogger ELSE LoggerInit) /\ logSet' = TRUE

Logger == <<logSet, m_Logger, registered>>

\* The loop over reorder_schemes, and the fallback after it.
Dispatched(str_alg) ==
  IF Contains(reorder_schemes, str_alg) THEN str_alg ELSE Last(reorder_schemes)

perform_reordering(entry, config, ndims, stencil) ==
  last' = [op |-> entry, ndims |-> ndims, stencil |-> stencil, config |-> config,
           alg |-> Dispatched(config.str_alg),
           scheme |-> string_to_node_approximation_schemes(config.str_node_scheme)]

\* A call that does not reorder.
Used(op, ndims, stencil, config) ==
  last' = [op |-> op, ndims |-> ndims, stencil |-> stencil, config |-> config,
           alg |-> "none", scheme |-> "none"]

----------------------------------------------------------------------------
Environments ==
  [alg : Variable(Algorithms), stencil : Variable(Stencils),
   node_scheme : Variable(NodeSchemes), log_level : Variable(LogLevels)]

Init ==
  /\ env \in Environments
  /\ changes = 0
  /\ cart_config = NoConfig
  /\ stencil_config = NoConfig
  /\ logSet = FALSE
  /\ m_Logger = NullLogger
  /\ registered = 0
  /\ last = [op |-> "none", ndims |-> 0, stencil |-> <<>>, config |-> NoConfig,
             alg |-> "none", scheme |-> "none"]
  /\ created = last

\* setenv or unsetenv by the application.
ChangeEnvironment ==
  /\ changes < MaxChanges
  /\ \E v \in DOMAIN env : \E e \in Environments :
       /\ \A w \in DOMAIN env \ {v} : e[w] = env[w]
       /\ env' = e
  /\ changes' = changes + 1
  /\ UNCHANGED <<config_vars, last, created>>

\* Mutant: the configuration is kept, but its stencil is the one set now.
MPI_Cart_create_Refreshed(ndims) ==
  /\ IF cart_config = NoConfig
     THEN Construct /\ cart_config' = Configured
     ELSE UNCHANGED <<Logger, cart_config>>
  /\ perform_reordering("MPI_Cart_create", cart_config', ndims,
                        create_stencil(env.stencil, ndims))
  /\ created' = last'
  /\ UNCHANGED <<env, changes, stencil_config>>

\* MPI_Cart_create with reorder # 0.
MPI_Cart_create(ndims) ==
  /\ IF cart_config = NoConfig
     THEN Construct /\ cart_config' = Configured
     ELSE UNCHANGED <<Logger, cart_config>>
  /\ perform_reordering("MPI_Cart_create", cart_config', ndims,
                        create_stencil(cart_config'.str_stencil, ndims))
  /\ created' = last'
  /\ UNCHANGED <<env, changes, stencil_config>>

\* MPI_Cart_create with reorder = 0.
PMPI_Cart_create(ndims) ==
  /\ Used("pmpi", ndims, <<>>, NoConfig)
  /\ created' = last'
  /\ UNCHANGED <<env, changes, config_vars>>

\* Whatever its argument reorder.
MPIX_Cart_Comm_stencil(ndims, stencil) ==
  /\ IF stencil_config = NoConfig
     THEN Construct /\ stencil_config' = Configured
     ELSE UNCHANGED <<Logger, stencil_config>>
  /\ perform_reordering("MPIX_Cart_Comm_stencil", stencil_config', ndims, stencil)
  /\ created' = last'
  /\ UNCHANGED <<env, changes, cart_config>>

\* The Cartesian communicator that is evaluated has been made by one of the above.
HasCart == created.op # "none"

\* Its Configuration is new in every call.
MPIX_Internode_cost ==
  /\ HasCart
  /\ Construct
  /\ Used("MPIX_Internode_cost", created.ndims,
          create_stencil(Configured.str_stencil, created.ndims), Configured)
  /\ UNCHANGED <<env, changes, cart_config, stencil_config, created>>

MPIX_Internode_cost_stencil(stencil) ==
  /\ HasCart
  /\ Used("MPIX_Internode_cost_stencil", created.ndims, stencil, NoConfig)
  /\ UNCHANGED <<env, changes, config_vars, created>>

\* Arrays an application may pass: whole offsets.
WholeStencils(ndims) == {s \in Stencils : ndims # 0 => Len(s) % ndims = 0}

Next ==
  \/ ChangeEnvironment
  \/ \E ndims \in NumDims : MPI_Cart_create(ndims)
  \/ \E ndims \in NumDims : PMPI_Cart_create(ndims)
  \/ \E ndims \in NumDims : \E s \in WholeStencils(ndims) : MPIX_Cart_Comm_stencil(ndims, s)
  \/ MPIX_Internode_cost
  \/ \E s \in WholeStencils(created.ndims) : MPIX_Internode_cost_stencil(s)

Spec == Init /\ [][Next]_vars
----------------------------------------------------------------------------
Reordered == last.op \in {"MPI_Cart_create", "MPIX_Cart_Comm_stencil"}

Evaluated == last.op \in {"MPIX_Internode_cost", "MPIX_Internode_cost_stencil"}

Config ==
  [str_alg : Algorithms \cup {"STENCIL_STRIPS"},
   str_node_scheme : NodeSchemes \cup {"NODES_MEAN"},
   str_stencil : Variable(Stencils)]

\* Configurations hold what the environment may hold, or the defaults.
TypeOK ==
  /\ env \in Environments
  /\ changes \in 0 .. MaxChanges
  /\ cart_config \in Config \cup {NoConfig}
  /\ stencil_config \in Config \cup {NoConfig}
  /\ logSet \in BOOLEAN
  /\ m_Logger \in {NullLogger, "trace", "debug", "info", "warn", "err", "critical", "off"}
  /\ last.alg \in {"none", "HYPERPLANE", "KD_TREE", "STENCIL_STRIPS"}

\* However the entry points are mixed, the name CARTREORDER is registered once: a
\* second registration throws in spdlog (configuration.cpp:7-10, Logger.cpp:12).
RegisteredOnce == registered = (IF logSet THEN 1 ELSE 0)

\* An array handed to an algorithm consists of n_neighbors whole offsets, the last one
\* filled up with fewer zeros than it has components (Stencil_Creater.cpp:44-53).
StencilWhole ==
  Reordered \/ Evaluated =>
    /\ Len(last.stencil) = n_neighbors(last.stencil, last.ndims) * last.ndims
    /\ \E s \in Stencils \cup {five_point_stencil(last.ndims)} :
         /\ IsPrefix(s, last.stencil)
         /\ Len(last.stencil) < Len(s) + last.ndims

\* Without CART_REORDER_STENCIL the neighbours are the two closest processes in each
\* dimension, and the process itself, each of them once (README.md:37).
NearestNeighbors ==
  last.op = "MPI_Cart_create" /\ last.config.str_stencil = UNDEFINED_STENCIL =>
    LET n == n_neighbors(last.stencil, last.ndims)
        distance(o) == Cardinality({d \in DOMAIN o : o[d] # 0})
        offsets == {Offset(last.stencil, last.ndims, i) : i \in 1 .. n}
    IN /\ Cardinality(offsets) = n
       /\ offsets = {o \in [1 .. last.ndims -> {-1, 0, 1}] : distance(o) <= 1}

\* MPI_Cart_create works for ever with the environment of its first call, and
\* MPIX_Internode_cost with that of the moment (configuration.cpp:83,
\* evaluation_method.cpp:245).  The stencil that is evaluated is the one the communicator
\* has been reordered for whenever CART_REORDER_STENCIL reads as it did in that first
\* call, whatever it was set to when the communicator was made, and whatever has been
\* called and evaluated in between.
EvaluatesReordered ==
  /\ last.op = "MPIX_Internode_cost"
  /\ created.op = "MPI_Cart_create"
  /\ last.config.str_stencil = cart_config.str_stencil
  => last.stencil = created.stencil

\* The log level survives the making of further Configurations; it changes only
\* when the variable asks for another (configuration.cpp:11-14).
LevelKept ==
  [][m_Logger # NullLogger /\ env.log_level = Unset => m_Logger' = m_Logger]_vars

\* "the user can specifiy an aggregation scheme" (README.md:56-60): one of the three
\* names selects the scheme of that name.
SchemeHonoured ==
  Reordered /\ last.config.str_node_scheme \in node_approximation_schemes =>
    last.scheme = last.config.str_node_scheme
=============================================================================
