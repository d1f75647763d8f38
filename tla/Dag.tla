-------------------------------- MODULE Dag --------------------------------
(***************************************************************************)
(* The compiled graph (src/src/graph.rs) and the calls considered as       *)
(* constants, and the notions of src/src/exec/common.rs that the executors *)
(* are built from: the cone of a request, Kahn in-degrees and dependents.  *)
(*                                                                         *)
(* DagBuilder gives every key a dense NodeId and never reuses one, so a    *)
(* node stands for its key; UnknownKeys are keys dag.index does not hold.  *)
(***************************************************************************)
EXTENDS Integers, Sequences, FiniteSets, Functions

CONSTANTS
  NodeCount,      \* dag.nodes.len()
  Deps,           \* Deps[n]: the NodeIds node n names, in order, repeats kept
  Sources,        \* the nodes whose kind is NodeKind::Source
  UnknownKeys,    \* keys a caller may request that are not in dag.index
  Value,          \* the output type O
  ValueOf(_, _),  \* what node n yields when applied to the values of its deps
  Requests,       \* the output lists considered
  Behaviour       \* Behaviour[n]: how the closure of task n may end

NodeId == 0 .. NodeCount - 1

(***************************************************************************)
(* What DagBuilder::build returns: not empty, every dep resolved, sources  *)
(* without deps. Cycles are legal here and found only when executing.      *)
(***************************************************************************)
ASSUME DagAssumption ==
  /\ NodeCount \in Nat \ {0}
  /\ Deps \in [NodeId -> Seq(NodeId)]
  /\ Sources \subseteq NodeId
  /\ \A n \in Sources : Deps[n] = <<>>
  /\ UnknownKeys \cap NodeId = {}

\* The closures are total on argument lists of the length they are given.
ASSUME ValueAssumption ==
  \A n \in NodeId : \A args \in [1 .. Len(Deps[n]) -> Value] :
    ValueOf(n, args) \in Value

Key == NodeId \cup UnknownKeys

ASSUME CallAssumption ==
  /\ Requests \subseteq Seq(Key)
  /\ Behaviour \in [NodeId -> SUBSET {"ok", "err", "panic"}]
  /\ \A n \in NodeId : Behaviour[n] # {}

NobodyPanics == \A n \in NodeId : "panic" \notin Behaviour[n]

-----------------------------------------------------------------------------
(* Option<T>: a sequence of at most one element.                           *)
None == <<>>
Some(x) == <<x>>
Option(S) == {s \in Seq(S) : Len(s) <= 1}

(***************************************************************************)
(* The elements of a set of NodeIds in increasing order: what the loops    *)
(* "for i in 0..n" push. Rank makes it a definition the provers can use.   *)
(***************************************************************************)
Rank(S, n) == Cardinality({m \in S : m < n})
Ascending(S) == [k \in 1 .. Cardinality(S) |-> CHOOSE n \in S : Rank(S, n) = k - 1]

-----------------------------------------------------------------------------
DepSet(n) == Range(Deps[n])

\* How often node n names d: dependents[d] holds n once for each occurrence.
Multiplicity(n, d) == Cardinality({i \in DOMAIN Deps[n] : Deps[n][i] = d})

DepClosed(S) == \A n \in S : DepSet(n) \subseteq S

(***************************************************************************)
(* mark_needed: the least set of nodes that holds ids and the deps of all  *)
(* its members.                                                            *)
(***************************************************************************)
Cone(ids) ==
  {n \in NodeId : \A S \in SUBSET NodeId : ids \subseteq S /\ DepClosed(S) => n \in S}

(***************************************************************************)
(* Reference notion, not in the code: the nodes of a needed set that some  *)
(* order of evaluation reaches. The rest lies on a cycle or behind one.    *)
(***************************************************************************)
Evaluable(nodes) ==
  {n \in nodes : \A S \in SUBSET nodes :
      (\A m \in nodes : DepSet(m) \subseteq S => m \in S) => n \in S}

(***************************************************************************)
(* Reference notions, not in the code: the value of a node as a function   *)
(* of the graph alone, each closure applied to the values of its deps in   *)
(* their declared order, and the table of outputs a request asks for. They *)
(* know no queue, no count and no order of evaluation.                     *)
(***************************************************************************)
Meaning[n \in Evaluable(NodeId)] ==
  ValueOf(n, [i \in 1 .. Len(Deps[n]) |-> Meaning[Deps[n][i]]])

Answer(request) == [n \in NodeId |-> IF n \in Range(request) THEN Some(Meaning[n]) ELSE None]

=============================================================================
