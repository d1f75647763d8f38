-------------------------- MODULE DagBuilderProofs --------------------------
(***************************************************************************)
(* What DagBuilder returns, for any keys, closures and number of calls.    *)
(***************************************************************************)
EXTENDS DagBuilder, TLAPS

StagedNode == [key : Keys, deps : Seq(Keys), kind : Kinds]

(***************************************************************************)
(* The inductive invariant: the index is the inverse of the staged list,   *)
(* staged sources have no deps, and the result speaks of the lists as they *)
(* are, since nothing changes after build.                                 *)
(***************************************************************************)
StagingOK ==
  /\ staging \in Seq(StagedNode)
  /\ \A i \in DOMAIN staging : staging[i].kind.tag = "Source" => staging[i].deps = <<>>

IndexIsFunction == index = [k \in DOMAIN index |-> index[k]]

IInv ==
  /\ StagingOK
  /\ IndexIsFunction
  /\ IndexInverse
  /\ BuildGivesDag
  /\ BuildIsJustified

-----------------------------------------------------------------------------
LEMMA DepListsAreSeqs == ASSUME NEW deps \in DepLists PROVE deps \in Seq(Keys)
<1>1. PICK n \in 0 .. MaxDeps : deps \in [1 .. n -> Keys]
  BY DEF DepLists
<1>2. n \in Nat
  BY <1>1, BoundAssumption
<1> QED BY <1>1, <1>2

\* Keys are staged once, so a key leads to one place.
LEMMA KeyToId ==
  ASSUME IndexInverse, staging \in Seq(StagedNode)
  PROVE  /\ DOMAIN key_to_id = DOMAIN index
         /\ \A i \in DOMAIN staging : key_to_id[staging[i].key] = i - 1
         /\ \A k \in DOMAIN index :
              key_to_id[k] + 1 \in DOMAIN staging /\ staging[key_to_id[k] + 1].key = k
<1>1. DOMAIN staging = 1 .. Len(staging) /\ Len(staging) \in Nat
  OBVIOUS
<1>2. \A i, j \in DOMAIN staging : staging[i].key = staging[j].key => i = j
  BY <1>1 DEF IndexInverse
<1>3. DOMAIN key_to_id = DOMAIN index
  BY DEF key_to_id, IndexInverse
<1>4. ASSUME NEW i \in DOMAIN staging PROVE key_to_id[staging[i].key] = i - 1
  <2> DEFINE k == staging[i].key
             P(n) == staging[n].key = k /\ \A j \in DOMAIN staging : staging[j].key = k => j <= n
  <2>1. k \in StagedKeys
    BY DEF StagedKeys
  <2>2. key_to_id[k] = (CHOOSE n \in DOMAIN staging : P(n)) - 1
    BY <2>1 DEF key_to_id
  <2>3. P(i)
    BY <1>1, <1>2
  <2>4. (CHOOSE n \in DOMAIN staging : P(n)) \in DOMAIN staging
        /\ P(CHOOSE n \in DOMAIN staging : P(n))
    <3> HIDE DEF P, k
    <3> QED BY <2>3
  <2>5. (CHOOSE n \in DOMAIN staging : P(n)) = i
    BY <2>4, <1>2
  <2> QED BY <2>2, <2>5
<1>5. ASSUME NEW k \in DOMAIN index
      PROVE key_to_id[k] + 1 \in DOMAIN staging /\ staging[key_to_id[k] + 1].key = k
  <2>1. PICK i \in DOMAIN staging : staging[i].key = k
    BY DEF IndexInverse, StagedKeys
  <2>2. key_to_id[k] = i - 1
    BY <2>1, <1>4
  <2> QED BY <2>1, <2>2, <1>1
<1> QED BY <1>3, <1>4, <1>5

-----------------------------------------------------------------------------
LEMMA InitIInv == ASSUME Init PROVE IInv
<1>1. staging = <<>> /\ DOMAIN staging = {} /\ DOMAIN index = {} /\ result.tag = "Ok"
  BY DEF Init
<1>2. StagingOK
  BY <1>1 DEF StagingOK
<1>3. IndexIsFunction
  BY DEF Init, IndexIsFunction
<1>4. IndexInverse
  BY <1>1 DEF IndexInverse, StagedKeys
<1>5. BuildGivesDag /\ BuildIsJustified
  BY <1>1 DEF BuildGivesDag, BuildIsJustified
<1> QED BY <1>2, <1>3, <1>4, <1>5 DEF IInv

\* A result of the open builder promises nothing.
LEMMA OpenResult ==
  ASSUME result.tag \in {"Ok", "DuplicateKey"} PROVE BuildGivesDag /\ BuildIsJustified
BY DEF BuildGivesDag, BuildIsJustified

-----------------------------------------------------------------------------
(* The calls that add nodes.                                               *)

LEMMA InsertKeepsIndex ==
  ASSUME StagingOK, IndexIsFunction, IndexInverse,
         NEW key \in Keys, NEW deps \in Seq(Keys), NEW kind \in Kinds,
         kind.tag = "Source" => deps = <<>>,
         ~ Known(key),
         Insert(key, [key |-> key, deps |-> deps, kind |-> kind])
  PROVE  StagingOK' /\ IndexIsFunction' /\ IndexInverse'
<1> DEFINE node == [key |-> key, deps |-> deps, kind |-> kind]
<1>1. node \in StagedNode
  BY DEF StagedNode
<1>2. staging' = Append(staging, node) /\ staging \in Seq(StagedNode)
  BY DEF Insert, StagingOK
<1> HIDE DEF node
<1>3. /\ DOMAIN staging = 1 .. Len(staging) /\ Len(staging) \in Nat
      /\ staging' \in Seq(StagedNode)
      /\ DOMAIN staging' = 1 .. Len(staging) + 1
      /\ staging'[Len(staging) + 1] = node
      /\ \A i \in DOMAIN staging : staging'[i] = staging[i]
  BY <1>1, <1>2
<1>4. node.key = key /\ node.deps = deps /\ node.kind = kind
  BY DEF node
<1>5. StagingOK'
  BY <1>3, <1>4 DEF StagingOK
<1>6. index' = [k \in DOMAIN index \cup {key} |-> IF k = key THEN Len(staging) ELSE index[k]]
  BY DEF Insert
<1>7. IndexIsFunction'
  BY <1>6 DEF IndexIsFunction
<1>8. key \notin DOMAIN index /\ DOMAIN index' = DOMAIN index \cup {key}
  BY <1>6 DEF Known
<1>9. StagedKeys' = StagedKeys \cup {key}
  <2>1. StagedKeys' = {staging'[i].key : i \in DOMAIN staging'}
    BY DEF StagedKeys
  <2>2. DOMAIN staging' = DOMAIN staging \cup {Len(staging) + 1}
    BY <1>3
  <2> QED BY <2>1, <2>2, <1>3, <1>4 DEF StagedKeys
<1>10. \A k \in DOMAIN index' : index'[k] + 1 \in DOMAIN staging'
  <2> SUFFICES ASSUME NEW k \in DOMAIN index' PROVE index'[k] + 1 \in DOMAIN staging'
    OBVIOUS
  <2>1. CASE k = key
    BY <2>1, <1>3, <1>6, <1>8
  <2>2. CASE k # key
    <3>1. k \in DOMAIN index /\ index'[k] = index[k]
      BY <2>2, <1>6, <1>8
    <3>2. index[k] + 1 \in DOMAIN staging
      BY <3>1 DEF IndexInverse
    <3> QED BY <3>1, <3>2, <1>3
  <2> QED BY <2>1, <2>2
<1>11. \A i \in DOMAIN staging' : index'[staging'[i].key] = i - 1
  <2> SUFFICES ASSUME NEW i \in DOMAIN staging' PROVE index'[staging'[i].key] = i - 1
    OBVIOUS
  <2>1. CASE i = Len(staging) + 1
    BY <2>1, <1>3, <1>4, <1>6, <1>8
  <2>2. CASE i # Len(staging) + 1
    <3>1. i \in DOMAIN staging /\ staging'[i] = staging[i]
      BY <2>2, <1>3
    <3>2. staging[i].key \in DOMAIN index /\ index[staging[i].key] = i - 1
      BY <3>1 DEF IndexInverse, StagedKeys
    <3> QED BY <3>1, <3>2, <1>6, <1>8
  <2> QED BY <2>1, <2>2
<1>12. IndexInverse'
  BY <1>8, <1>9, <1>10, <1>11 DEF IndexInverse
<1> QED BY <1>5, <1>7, <1>12

LEMMA InsertNodeIInv ==
  ASSUME IInv, NEW key \in Keys, NEW deps \in Seq(Keys), NEW kind \in Kinds,
         kind.tag = "Source" => deps = <<>>,
         insert_node(key, deps, kind)
  PROVE  IInv'
<1>1. result'.tag \in {"Ok", "DuplicateKey"}
  BY DEF insert_node
<1>2. BuildGivesDag' /\ BuildIsJustified'
  BY <1>1 DEF BuildGivesDag, BuildIsJustified
<1>3. CASE Known(key)
  <2>1. UNCHANGED <<index, staging>>
    BY <1>3 DEF insert_node
  <2>2. StagingOK' /\ IndexIsFunction' /\ IndexInverse'
    BY <2>1 DEF IInv, StagingOK, IndexIsFunction, IndexInverse, StagedKeys
  <2> QED BY <1>2, <2>2 DEF IInv
<1>4. CASE ~ Known(key)
  <2>1. Insert(key, [key |-> key, deps |-> deps, kind |-> kind])
    BY <1>4 DEF insert_node
  <2>2. StagingOK' /\ IndexIsFunction' /\ IndexInverse'
    BY <1>4, <2>1, InsertKeepsIndex DEF IInv
  <2> QED BY <1>2, <2>2 DEF IInv
<1> QED BY <1>3, <1>4

-----------------------------------------------------------------------------
(* build                                                                   *)

LEMMA ConsumedKeeps ==
  ASSUME IInv, NEW r, Consumed(r)
  PROVE  /\ result' = r /\ index' = index /\ staging' = staging
         /\ StagingOK' /\ IndexIsFunction' /\ IndexInverse'
<1>1. result' = r /\ index' = index /\ staging' = staging
  BY DEF Consumed
<1> QED BY <1>1 DEF IInv, StagingOK, IndexIsFunction, IndexInverse, StagedKeys

LEMMA BuildEmptyIInv == ASSUME IInv, BuildEmpty PROVE IInv'
<1>1. staging = <<>> /\ Consumed([tag |-> "EmptyGraph"])
  BY DEF BuildEmpty
<1>2. /\ result' = [tag |-> "EmptyGraph"] /\ index' = index
      /\ StagingOK' /\ IndexIsFunction' /\ IndexInverse'
  BY <1>1, ConsumedKeeps
<1>3. DOMAIN index = {}
  BY <1>1 DEF IInv, IndexInverse, StagedKeys
<1>4. index' = [k \in {} |-> 0]
  BY <1>2, <1>3 DEF IInv, IndexIsFunction
<1>5. BuildGivesDag' /\ BuildIsJustified'
  BY <1>2, <1>4 DEF BuildGivesDag, BuildIsJustified
<1> QED BY <1>2, <1>5 DEF IInv

LEMMA BuildMissingIInv == ASSUME IInv, BuildMissing PROVE IInv'
<1> USE DEF IInv
<1>0. staging \in Seq(StagedNode) /\ DOMAIN staging = 1 .. Len(staging) /\ Len(staging) \in Nat
  BY DEF StagingOK
<1>a. PICK i \in DOMAIN staging : \E j \in DOMAIN staging[i].deps :
        /\ Missing(i, j)
        /\ \A k \in 1 .. i : \A l \in DOMAIN staging[k].deps : Missing(k, l) => k = i /\ l >= j
        /\ Consumed([tag |-> "MissingDependency", task |-> staging[i].key,
                     missing |-> staging[i].deps[j]])
  BY DEF BuildMissing
<1>1. PICK j \in DOMAIN staging[i].deps :
        /\ Missing(i, j)
        /\ \A k \in 1 .. i : \A l \in DOMAIN staging[k].deps : Missing(k, l) => k = i /\ l >= j
        /\ Consumed([tag |-> "MissingDependency", task |-> staging[i].key,
                     missing |-> staging[i].deps[j]])
  BY <1>a
<1> DEFINE r == [tag |-> "MissingDependency", task |-> staging[i].key,
                 missing |-> staging[i].deps[j]]
<1>2. /\ result' = r /\ index' = index /\ staging' = staging
      /\ StagingOK' /\ IndexIsFunction' /\ IndexInverse'
  BY <1>1, ConsumedKeeps
<1>3. DOMAIN key_to_id = DOMAIN index
  BY <1>0, KeyToId
<1>4. staging[i].key \in DOMAIN index /\ index[staging[i].key] = i - 1
  BY DEF IndexInverse, StagedKeys
<1>5. staging[i].deps[j] \in Range(staging[i].deps) \ DOMAIN index
  BY <1>1, <1>3 DEF Missing, Range
<1>6. \A k \in 1 .. i - 1 : Range(staging[k].deps) \subseteq DOMAIN index
  <2> SUFFICES ASSUME NEW k \in 1 .. i - 1, NEW l \in DOMAIN staging[k].deps
               PROVE staging[k].deps[l] \in DOMAIN index
    BY DEF Range
  <2>1. k \in 1 .. i /\ k # i
    BY <1>0
  <2>2. ~ Missing(k, l)
    BY <1>1, <2>1
  <2> QED BY <2>2, <1>3 DEF Missing
<1>7. /\ r.tag = "MissingDependency" /\ r.task = staging[i].key
      /\ r.missing = staging[i].deps[j]
  OBVIOUS
<1>8. index[r.task] + 1 = i /\ 1 .. index[r.task] = 1 .. i - 1
  BY <1>0, <1>4, <1>7
<1> HIDE DEF r
<1>9. BuildIsJustified'
  BY <1>2, <1>4, <1>5, <1>6, <1>7, <1>8 DEF BuildIsJustified
<1>10. BuildGivesDag'
  BY <1>2, <1>7 DEF BuildGivesDag
<1> QED BY <1>2, <1>9, <1>10

LEMMA BuildDagIInv == ASSUME IInv, BuildDag PROVE IInv'
<1> USE DEF IInv
<1> DEFINE nodes == [i \in DOMAIN staging |->
                       [key |-> staging[i].key, deps |-> Resolved(i), kind |-> staging[i].kind]]
           r == [tag |-> "Dag", index |-> key_to_id, nodes |-> nodes]
<1>0. /\ staging \in Seq(StagedNode) /\ DOMAIN staging = 1 .. Len(staging)
      /\ Len(staging) \in Nat \ {0}
  BY DEF StagingOK, BuildDag
<1>1. /\ result' = r /\ index' = index /\ staging' = staging
      /\ StagingOK' /\ IndexIsFunction' /\ IndexInverse'
  BY ConsumedKeeps DEF BuildDag
<1>2. /\ DOMAIN key_to_id = DOMAIN index
      /\ \A i \in DOMAIN staging : key_to_id[staging[i].key] = i - 1
      /\ \A k \in DOMAIN index :
           key_to_id[k] + 1 \in DOMAIN staging /\ staging[key_to_id[k] + 1].key = k
  BY <1>0, KeyToId
<1>3. /\ DOMAIN nodes = 1 .. Len(staging)
      /\ \A i \in DOMAIN staging :
           /\ nodes[i].key = staging[i].key
           /\ nodes[i].deps = Resolved(i)
           /\ nodes[i].kind = staging[i].kind
  BY <1>0
<1>4. r.tag = "Dag" /\ r.index = key_to_id /\ r.nodes = nodes
  OBVIOUS
<1> HIDE DEF nodes, r
<1>5. ASSUME NEW i \in DOMAIN staging
      PROVE  /\ Len(staging[i].deps) \in Nat
             /\ DOMAIN staging[i].deps = 1 .. Len(staging[i].deps)
             /\ \A j \in DOMAIN staging[i].deps :
                  /\ staging[i].deps[j] \in DOMAIN index
                  /\ key_to_id[staging[i].deps[j]] \in 0 .. Len(staging) - 1
  <2>1. staging[i] \in StagedNode
    BY <1>0
  <2>2. staging[i].deps \in Seq(Keys)
    BY <2>1 DEF StagedNode
  <2>3. ASSUME NEW j \in DOMAIN staging[i].deps
        PROVE  /\ staging[i].deps[j] \in DOMAIN index
               /\ key_to_id[staging[i].deps[j]] \in 0 .. Len(staging) - 1
    <3>1. staging[i].deps[j] \in DOMAIN index
      BY <1>2 DEF BuildDag, Complete, Missing
    <3>2. PICK h \in DOMAIN staging : staging[h].key = staging[i].deps[j]
      BY <3>1 DEF IndexInverse, StagedKeys
    <3>3. key_to_id[staging[i].deps[j]] = h - 1
      BY <3>2, <1>2
    <3> QED BY <3>1, <3>3, <1>0
  <2> QED BY <2>2, <2>3
<1>6. ASSUME NEW i \in DOMAIN staging
      PROVE  /\ Resolved(i) \in Seq(0 .. Len(staging) - 1)
             /\ DOMAIN Resolved(i) = DOMAIN staging[i].deps
             /\ staging[i].deps = <<>> => Resolved(i) = <<>>
  BY <1>5 DEF Resolved
<1>7. Len(nodes) = Len(staging)
  BY <1>3, <1>0
<1>8. BuiltGraph(nodes, key_to_id)
  <2>1. ASSUME NEW i \in 1 .. Len(nodes)
        PROVE  /\ nodes[i].deps \in Seq(0 .. Len(nodes) - 1)
               /\ nodes[i].kind.tag = "Source" => nodes[i].deps = <<>>
               /\ nodes[i].key \in DOMAIN key_to_id
               /\ key_to_id[nodes[i].key] = i - 1
    <3>0. i \in DOMAIN staging
      BY <1>0, <1>7
    <3>1. nodes[i].deps \in Seq(0 .. Len(nodes) - 1)
      BY <3>0, <1>3, <1>6, <1>7
    <3>2. nodes[i].kind.tag = "Source" => nodes[i].deps = <<>>
      BY <3>0, <1>3, <1>6 DEF StagingOK
    <3>3. nodes[i].key \in DOMAIN key_to_id
      BY <3>0, <1>2, <1>3 DEF IndexInverse, StagedKeys
    <3>4. key_to_id[nodes[i].key] = i - 1
      BY <3>0, <1>2, <1>3
    <3> QED BY <3>1, <3>2, <3>3, <3>4
  <2>2. \A k \in DOMAIN key_to_id :
          key_to_id[k] + 1 \in 1 .. Len(nodes) /\ nodes[key_to_id[k] + 1].key = k
    BY <1>0, <1>2, <1>3, <1>7
  <2> QED BY <2>1, <2>2, <1>0, <1>7 DEF BuiltGraph
<1>9. BuildGivesDag'
  BY <1>1, <1>4, <1>8 DEF BuildGivesDag, BuiltGraph
<1>10. NamedKeys \subseteq DOMAIN index
  BY <1>5 DEF NamedKeys, Range
<1>11. ASSUME NEW i \in DOMAIN staging
       PROVE [j \in DOMAIN nodes[i].deps |-> nodes[nodes[i].deps[j] + 1].key] = staging[i].deps
  <2>1. nodes[i].deps = Resolved(i) /\ DOMAIN Resolved(i) = DOMAIN staging[i].deps
    BY <1>3, <1>6
  <2>2. ASSUME NEW j \in DOMAIN staging[i].deps
        PROVE  nodes[Resolved(i)[j] + 1].key = staging[i].deps[j]
    <3>1. Resolved(i)[j] = key_to_id[staging[i].deps[j]]
      BY DEF Resolved
    <3>2. /\ key_to_id[staging[i].deps[j]] + 1 \in DOMAIN staging
          /\ staging[key_to_id[staging[i].deps[j]] + 1].key = staging[i].deps[j]
      BY <1>2, <1>5
    <3> QED BY <3>1, <3>2, <1>3
  <2>3. staging[i].deps = [j \in DOMAIN staging[i].deps |-> staging[i].deps[j]]
    <3>1. staging[i] \in StagedNode
      BY <1>0
    <3> QED BY <3>1 DEF StagedNode
  <2> QED BY <2>1, <2>2, <2>3
<1>12. BuildIsJustified'
  <2>1. NamedKeys' = NamedKeys /\ result'.nodes = nodes /\ result'.tag = "Dag"
    BY <1>1, <1>4 DEF NamedKeys
  <2> QED BY <2>1, <1>1, <1>10, <1>11 DEF BuildIsJustified
<1> QED BY <1>1, <1>9, <1>12

-----------------------------------------------------------------------------
LEMMA NextIInv == ASSUME IInv, [Next]_vars PROVE IInv'
<1>1. CASE \E key \in Keys, v \in Values : add_source(key, v)
  <2>1. PICK key \in Keys, v \in Values : insert_node(key, <<>>, Source(v))
    BY <1>1 DEF add_source
  <2>2. Source(v) \in Kinds /\ <<>> \in Seq(Keys)
    BY DEF Kinds
  <2> QED BY <2>1, <2>2, InsertNodeIInv
<1>2. CASE \E key \in Keys, deps \in DepLists, f \in Funs : add_task(key, deps, f)
  <2>1. PICK key \in Keys, deps \in DepLists, f \in Funs : insert_node(key, deps, Task(f))
    BY <1>2 DEF add_task
  <2>2. Task(f) \in Kinds /\ Task(f).tag # "Source"
    BY DEF Kinds, Task
  <2>3. deps \in Seq(Keys)
    BY DepListsAreSeqs
  <2> QED BY <2>1, <2>2, <2>3, InsertNodeIInv
<1>3. CASE build
  BY <1>3, BuildEmptyIInv, BuildMissingIInv, BuildDagIInv DEF build
<1>4. CASE UNCHANGED vars
  <2>1. index' = index /\ staging' = staging /\ result' = result
    BY <1>4 DEF vars
  <2>2. StagingOK' /\ IndexIsFunction' /\ IndexInverse'
    BY <2>1 DEF IInv, StagingOK, IndexIsFunction, IndexInverse, StagedKeys
  <2>3. BuildGivesDag' = BuildGivesDag
    BY <2>1 DEF BuildGivesDag, BuiltGraph
  <2>4. BuildIsJustified' = BuildIsJustified
    BY <2>1, Zenon DEF BuildIsJustified, NamedKeys
  <2> QED BY <2>2, <2>3, <2>4 DEF IInv
<1> QED BY <1>1, <1>2, <1>3, <1>4 DEF Next, Built

LEMMA BuilderInvariant == Spec => []IInv
<1>1. Init => IInv
  BY InitIInv
<1>2. IInv /\ [Next]_vars => IInv'
  BY NextIInv
<1> QED BY <1>1, <1>2, PTL DEF Spec

(***************************************************************************)
(* Ids are dense and each key has one, after any calls in any order.       *)
(***************************************************************************)
THEOREM DenseIds == Spec => []IndexInverse
<1>1. IInv => IndexInverse
  BY DEF IInv
<1> QED BY <1>1, BuilderInvariant, PTL

(***************************************************************************)
(* What build returns meets the assumption the executors are modelled on.  *)
(***************************************************************************)
THEOREM BuildMeetsAssumption == Spec => []BuildGivesDag
<1>1. IInv => BuildGivesDag
  BY DEF IInv
<1> QED BY <1>1, BuilderInvariant, PTL

(***************************************************************************)
(* build fails only for the reason it names, and resolves every dep to the *)
(* node of its key.                                                        *)
(***************************************************************************)
THEOREM BuildFaithful == Spec => []BuildIsJustified
<1>1. IInv => BuildIsJustified
  BY DEF IInv
<1> QED BY <1>1, BuilderInvariant, PTL
=============================================================================
