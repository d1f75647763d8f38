----------------------------- MODULE DagBuilder -----------------------------
(***************************************************************************)
(* DagBuilder (src/src/builder.rs): nodes are staged in the order they are *)
(* added, under keys, and build resolves the keys of the deps to NodeIds.  *)
(* A dep may be added after the task that names it.                        *)
(***************************************************************************)
EXTENDS Integers, Sequences, FiniteSets, Functions

CONSTANTS
  Keys,       \* the key type K
  Values,     \* what sources hold
  Funs,       \* the closures of tasks
  MaxDeps     \* bound on the deps of a task

Source(v) == [tag |-> "Source", value |-> v]
Task(f) == [tag |-> "Task", f |-> f]
Kinds == {Source(v) : v \in Values} \cup {Task(f) : f \in Funs}

DepLists == UNION {[1 .. n -> Keys] : n \in 0 .. MaxDeps}

ASSUME BoundAssumption == MaxDeps \in Nat

VARIABLES
  index,      \* key -> staging idx
  staging,
  result      \* what the last call returned; build consumes the builder

vars == <<index, staging, result>>

Init ==
  /\ index = [k \in {} |-> 0]
  /\ staging = <<>>
  /\ result = [tag |-> "Ok"]

Open == result.tag \in {"Ok", "DuplicateKey"}

-----------------------------------------------------------------------------
KnownNever(key) == FALSE
Known(key) == key \in DOMAIN index

Insert(key, node) ==
  /\ index' = [k \in DOMAIN index \cup {key} |-> IF k = key THEN Len(staging) ELSE index[k]]
  /\ staging' = Append(staging, node)

insert_node(key, deps, kind) ==
  /\ Open
  /\ \/ /\ Known(key)
        /\ result' = [tag |-> "DuplicateKey", key |-> key]
        /\ UNCHANGED <<index, staging>>
     \/ /\ ~ Known(key)
        /\ result' = [tag |-> "Ok"]
        /\ Insert(key, [key |-> key, deps |-> deps, kind |-> kind])

add_source(key, value) == insert_node(key, <<>>, Source(value))
add_task(key, deps, f) == insert_node(key, deps, Task(f))

-----------------------------------------------------------------------------
(* build                                                                   *)

StagedKeys == {staging[i].key : i \in DOMAIN staging}

\* key_to_id: a later insert under the same key would replace an earlier one
key_to_id ==
  [k \in StagedKeys |->
     (CHOOSE i \in DOMAIN staging :
        staging[i].key = k /\ \A j \in DOMAIN staging : staging[j].key = k => j <= i) - 1]

\* the dep at j of the node at i has no node, or none yet
MissingBefore(i, j) == staging[i].deps[j] \notin {staging[k].key : k \in 1 .. i}
Missing(i, j) == staging[i].deps[j] \notin DOMAIN key_to_id

Complete == \A i \in DOMAIN staging : \A j \in DOMAIN staging[i].deps : ~ Missing(i, j)

ResolvedOneBased(i) == [j \in DOMAIN staging[i].deps |-> key_to_id[staging[i].deps[j]] + 1]
Resolved(i) == [j \in DOMAIN staging[i].deps |-> key_to_id[staging[i].deps[j]]]

Consumed(r) == Open /\ result' = r /\ UNCHANGED <<index, staging>>

BuildEmpty == staging = <<>> /\ Consumed([tag |-> "EmptyGraph"])

BuildMissing ==
  \E i \in DOMAIN staging : \E j \in DOMAIN staging[i].deps :
    /\ Missing(i, j)
    /\ \A k \in 1 .. i : \A l \in DOMAIN staging[k].deps : Missing(k, l) => k = i /\ l >= j
    /\ Consumed([tag |-> "MissingDependency", task |-> staging[i].key,
                 missing |-> staging[i].deps[j]])

BuildDag ==
  /\ staging # <<>>
  /\ Complete
  /\ Consumed([tag |-> "Dag", index |-> key_to_id,
               nodes |-> [i \in DOMAIN staging |->
                            [key |-> staging[i].key, deps |-> Resolved(i),
                             kind |-> staging[i].kind]]])

build == BuildEmpty \/ BuildMissing \/ BuildDag

-----------------------------------------------------------------------------
Built == ~ Open /\ UNCHANGED vars

Next ==
  \/ \E key \in Keys, v \in Values : add_source(key, v)
  \/ \E key \in Keys, deps \in DepLists, f \in Funs : add_task(key, deps, f)
  \/ build
  \/ Built

Spec == Init /\ [][Next]_vars

-----------------------------------------------------------------------------
(***************************************************************************)
(* The index and the staged nodes say the same: each key once, at its own  *)
(* place, whatever the order of calls and however many were refused. This  *)
(* is what makes NodeIds dense and a refused definition leave no trace.    *)
(***************************************************************************)
IndexInverse ==
  /\ DOMAIN index = StagedKeys
  /\ \A k \in DOMAIN index : index[k] + 1 \in DOMAIN staging
  /\ \A i \in DOMAIN staging : index[staging[i].key] = i - 1

(***************************************************************************)
(* What build returns is what src/src/graph.rs and the executors take for  *)
(* granted (DagAssumption in Dag): at least one node, every dep the id of  *)
(* a node, no deps of sources; and each id is the place of its key.        *)
(***************************************************************************)
BuiltGraph(nodes, ids) ==
  /\ Len(nodes) \in Nat \ {0}
  /\ \A i \in 1 .. Len(nodes) :
       /\ nodes[i].deps \in Seq(0 .. Len(nodes) - 1)
       /\ nodes[i].kind.tag = "Source" => nodes[i].deps = <<>>
       /\ nodes[i].key \in DOMAIN ids
       /\ ids[nodes[i].key] = i - 1
  /\ \A k \in DOMAIN ids : ids[k] + 1 \in 1 .. Len(nodes) /\ nodes[ids[k] + 1].key = k

BuildGivesDag == result.tag = "Dag" => BuiltGraph(result.nodes, result.index)

(***************************************************************************)
(* build decides by the set of keys, not by their order: it succeeds just  *)
(* when every named dep was added, before or after the task that names it, *)
(* and the deps then lead to the keys that were named, in their order and  *)
(* with their repeats. It fails as EmptyGraph just when nothing was added, *)
(* and names a dep that was really named and never added.                  *)
(***************************************************************************)
NamedKeys == UNION {Range(staging[i].deps) : i \in DOMAIN staging}

BuildIsJustified ==
  CASE result.tag = "EmptyGraph" -> index = [k \in {} |-> 0]
    [] result.tag = "MissingDependency" ->
         /\ result.task \in DOMAIN index
         /\ result.missing \in Range(staging[index[result.task] + 1].deps) \ DOMAIN index
         /\ \A i \in 1 .. index[result.task] : Range(staging[i].deps) \subseteq DOMAIN index
    [] result.tag = "Dag" ->
         /\ NamedKeys \subseteq DOMAIN index
         /\ \A i \in DOMAIN staging :
              [j \in DOMAIN result.nodes[i].deps |-> result.nodes[result.nodes[i].deps[j] + 1].key]
                = staging[i].deps
    [] OTHER -> TRUE
=============================================================================
