----------------------- MODULE RequestAnalysisProofs -----------------------
(***************************************************************************)
(* Theorems about RequestAnalysis, for every graph and request.            *)
(***************************************************************************)
EXTENDS RequestAnalysis, DagProofs

(***************************************************************************)
(* The top of a stack and what is below it.                                *)
(***************************************************************************)
LEMMA StackFacts ==
  ASSUME NEW S, NEW s \in Seq(S), s # <<>>
  PROVE  /\ Front(s) \in Seq(S)
         /\ Last(s) \in S
         /\ Range(s) = Range(Front(s)) \cup {Last(s)}
<1>1. Len(s) \in Nat \ {0} /\ DOMAIN s = 1 .. Len(s)
  OBVIOUS
<1>2. Front(s) \in Seq(S) /\ DOMAIN Front(s) = 1 .. Len(s) - 1
  BY <1>1 DEF Front
<1>3. \A j \in 1 .. Len(s) - 1 : Front(s)[j] = s[j]
  BY <1>1 DEF Front
<1>4. Last(s) = s[Len(s)] /\ Last(s) \in S
  BY <1>1 DEF Last
<1>5. \A j \in 1 .. Len(s) : j \in 1 .. Len(s) - 1 \/ j = Len(s)
  <2>1. \A m \in Nat : \A j \in 1 .. m : j \in 1 .. m - 1 \/ j = m
    OBVIOUS
  <2> QED
    BY <1>1, <2>1
<1>6. 1 .. Len(s) - 1 \subseteq 1 .. Len(s) /\ Len(s) \in 1 .. Len(s)
  BY <1>1
<1> QED
  BY <1>1, <1>2, <1>3, <1>4, <1>5, <1>6 DEF Range

LEMMA RangeAppend ==
  ASSUME NEW S, NEW s \in Seq(S), NEW x \in S
  PROVE  Range(Append(s, x)) = Range(s) \cup {x}
<1>1. Len(s) \in Nat /\ DOMAIN s = 1 .. Len(s) /\ DOMAIN Append(s, x) = 1 .. Len(s) + 1
  OBVIOUS
<1>2. \A j \in 1 .. Len(s) : Append(s, x)[j] = s[j]
  OBVIOUS
<1>3. Append(s, x)[Len(s) + 1] = x
  OBVIOUS
<1>4. \A j \in 1 .. Len(s) + 1 : j \in 1 .. Len(s) \/ j = Len(s) + 1
  BY <1>1
<1>5. 1 .. Len(s) \subseteq 1 .. Len(s) + 1 /\ Len(s) + 1 \in 1 .. Len(s) + 1
  BY <1>1
<1> QED
  BY <1>1, <1>2, <1>3, <1>4, <1>5 DEF Range

LEMMA RangeConcat ==
  ASSUME NEW S, NEW s \in Seq(S), NEW t \in Seq(S)
  PROVE  Range(s \o t) = Range(s) \cup Range(t)
<1>1. /\ Len(s) \in Nat /\ DOMAIN s = 1 .. Len(s)
      /\ Len(t) \in Nat /\ DOMAIN t = 1 .. Len(t)
      /\ DOMAIN (s \o t) = 1 .. Len(s) + Len(t)
  OBVIOUS
<1>2. \A j \in 1 .. Len(s) : (s \o t)[j] = s[j]
  OBVIOUS
<1>3. \A j \in 1 .. Len(t) : (s \o t)[Len(s) + j] = t[j]
  OBVIOUS
<1>4. \A j \in 1 .. Len(s) + Len(t) :
        j \in 1 .. Len(s) \/ \E h \in 1 .. Len(t) : j = Len(s) + h
  <2> DEFINE a == Len(s)
             b == Len(t)
  <2>1. a \in Nat /\ b \in Nat
    BY <1>1
  <2> HIDE DEF a, b
  <2>2. ASSUME NEW j \in 1 .. a + b, j \notin 1 .. a
        PROVE  \E h \in 1 .. b : j = a + h
    <3>1. j - a \in 1 .. b /\ j = a + (j - a)
      BY <2>1, <2>2
    <3> QED BY <3>1
  <2> QED BY <2>2 DEF a, b
<1>5. /\ 1 .. Len(s) \subseteq 1 .. Len(s) + Len(t)
      /\ \A h \in 1 .. Len(t) : Len(s) + h \in 1 .. Len(s) + Len(t)
  BY <1>1
<1>6. Range(s \o t) \subseteq Range(s) \cup Range(t)
  <2> SUFFICES ASSUME NEW j \in 1 .. Len(s) + Len(t)
               PROVE  (s \o t)[j] \in Range(s) \cup Range(t)
    BY <1>1 DEF Range
  <2>1. CASE j \in 1 .. Len(s)
    BY <1>1, <1>2, <2>1 DEF Range
  <2>2. CASE \E h \in 1 .. Len(t) : j = Len(s) + h
    BY <1>1, <1>3, <2>2 DEF Range
  <2> QED
    BY <1>4, <2>1, <2>2
<1>7. Range(s) \subseteq Range(s \o t)
  BY <1>1, <1>2, <1>5 DEF Range
<1>8. Range(t) \subseteq Range(s \o t)
  BY <1>1, <1>3, <1>5 DEF Range
<1> QED
  BY <1>6, <1>7, <1>8

-----------------------------------------------------------------------------
(***************************************************************************)
(* Types. The strengthening: a search has only nodes to look for, and the  *)
(* count of nodes never runs ahead of the loop.                            *)
(***************************************************************************)
Control ==
  /\ needed_count <= i
  /\ pc = "missing" =>
       \E j \in DOMAIN outs :
         /\ missing = Some(outs[j])
         /\ outs[j] \notin NodeId
         /\ \A h \in 1 .. j - 1 : outs[h] \in NodeId
  /\ \A h \in 1 .. k - 1 : outs[h] \in NodeId
  /\ pc \in {"search", "count", "done"} => k = Len(outs) + 1

TypeInv == TypeOK /\ Control

LEMMA OutsFacts ==
  ASSUME outs \in Requests
  PROVE  outs \in Seq(Key) /\ Len(outs) \in Nat \ {0} /\ DOMAIN outs = 1 .. Len(outs)
<1>1. outs \in Seq(Key) /\ outs # <<>>
  BY RequestsAssumption, CallAssumption
<1> QED
  BY <1>1

LEMMA InitTypes == Init => TypeInv
<1> SUFFICES ASSUME Init PROVE TypeInv
  OBVIOUS
<1>1. outs \in Requests /\ Len(outs) \in Nat
  BY OutsFacts DEF Init
<1>2. None \in Option(UnknownKeys)
  BY OptionProperties
<1>3. NodeCount \in Nat
  BY DagAssumption
<1> QED
  BY <1>1, <1>2, <1>3 DEF Init, TypeInv, TypeOK, Control

LEMMA PushTypes == TypeInv /\ PushOutput => TypeInv'
<1> SUFFICES ASSUME TypeInv, PushOutput PROVE TypeInv'
  OBVIOUS
<1> USE DEF TypeInv, PushOutput, tables
<1>1. Len(outs) \in Nat
  BY OutsFacts DEF TypeOK
<1>2. TypeOK'
  BY <1>1 DEF TypeOK
<1>3. \A h \in 1 .. k' - 1 : h \in 1 .. k - 1 \/ h = k
  BY <1>1 DEF TypeOK
<1>4. Control'
  BY <1>1, <1>3 DEF Control
<1> QED
  BY <1>2, <1>4

LEMMA MissingTypes == TypeInv /\ OutputMissing => TypeInv'
<1> SUFFICES ASSUME TypeInv, OutputMissing PROVE TypeInv'
  OBVIOUS
<1> USE DEF TypeInv, OutputMissing, tables
<1>1. Len(outs) \in Nat /\ outs \in Seq(Key) /\ DOMAIN outs = 1 .. Len(outs)
  BY OutsFacts DEF TypeOK
<1>2. k \in DOMAIN outs
  BY <1>1 DEF TypeOK
<1>3. outs[k] \in UnknownKeys
  BY <1>1, <1>2 DEF Key
<1>4. TypeOK'
  BY <1>3, OptionProperties DEF TypeOK
<1>5. Control'
  BY <1>2 DEF Control
<1> QED
  BY <1>4, <1>5

LEMMA SearchTypes ==
  TypeInv /\ (AllPushed \/ SkipVisited \/ Visit \/ SearchDone) => TypeInv'
<1> USE DEF TypeInv, tables
<1>1. ASSUME TypeInv, AllPushed PROVE TypeInv'
  <2>1. Len(outs) \in Nat
    BY <1>1, OutsFacts DEF TypeOK
  <2>2. k = Len(outs) + 1
    <3>1. k \in 1 .. Len(outs) + 1 /\ k > Len(outs)
      BY <1>1 DEF TypeOK, AllPushed
    <3> QED
      BY <2>1, <3>1
  <2>3. TypeOK'
    BY <1>1 DEF TypeOK, AllPushed
  <2>4. Control'
    BY <1>1, <2>2 DEF Control, AllPushed
  <2> QED
    BY <2>3, <2>4
<1>2. ASSUME TypeInv, SkipVisited PROVE TypeInv'
  <2>1. stack' \in Seq(NodeId)
    BY <1>2, StackFacts DEF TypeOK, SkipVisited, Popped
  <2>2. TypeOK'
    BY <1>2, <2>1 DEF TypeOK, SkipVisited
  <2>3. Control'
    BY <1>2 DEF Control, SkipVisited
  <2> QED
    BY <2>2, <2>3
<1>3. ASSUME TypeInv, Visit PROVE TypeInv'
  <2>1. Last(stack) \in NodeId /\ Front(stack) \in Seq(NodeId)
    BY <1>3, StackFacts DEF TypeOK, Visit
  <2>2. Deps[Last(stack)] \in Seq(NodeId)
    BY <2>1, DagAssumption
  <2>3. stack' \in Seq(NodeId) /\ needed' \subseteq NodeId
    BY <1>3, <2>1, <2>2 DEF TypeOK, Visit
  <2>4. TypeOK'
    BY <1>3, <2>3 DEF TypeOK, Visit
  <2>5. Control'
    BY <1>3 DEF Control, Visit
  <2> QED
    BY <2>4, <2>5
<1>4. ASSUME TypeInv, SearchDone PROVE TypeInv'
  BY <1>4 DEF TypeOK, Control, SearchDone
<1> QED
  BY <1>1, <1>2, <1>3, <1>4

LEMMA CountTypes ==
  TypeInv /\ (CountNode \/ SkipNode \/ CountDone) => TypeInv'
<1> USE DEF TypeInv, tables
<1>1. ASSUME TypeInv, CountNode PROVE TypeInv'
  <2>1. i \in NodeId /\ i' \in 0 .. NodeCount /\ NodeCount \in Nat
    BY <1>1, DagAssumption DEF TypeOK, CountNode, NodeId
  <2>2. \A d \in NodeId : dependents'[d] \in Seq(NodeId)
    <3> TAKE d \in NodeId
    <3>1. Multiplicity(i, d) \in Nat
      BY <2>1, MultiplicityType
    <3>2. [j \in 1 .. Multiplicity(i, d) |-> i] \in Seq(NodeId)
      BY <2>1, <3>1
    <3> QED
      BY <1>1, <3>2 DEF TypeOK, CountNode
  <2>3. dependents' \in [NodeId -> Seq(NodeId)]
    BY <1>1, <2>2 DEF CountNode
  <2>4. DepOccurrences(i) \in Nat
    BY <2>1, DagAssumption DEF DepOccurrences
  <2>5. indeg' \in [NodeId -> Nat]
    BY <1>1, <2>4 DEF TypeOK, CountNode
  <2>6. needed_count' \in 0 .. NodeCount /\ needed_count' <= i'
    BY <1>1, <2>1 DEF TypeOK, Control, CountNode
  <2>7. TypeOK'
    BY <1>1, <2>1, <2>3, <2>5, <2>6 DEF TypeOK, CountNode
  <2>8. Control'
    BY <1>1, <2>6 DEF Control, CountNode
  <2> QED
    BY <2>7, <2>8
<1>2. ASSUME TypeInv, SkipNode PROVE TypeInv'
  <2>1. i' \in 0 .. NodeCount /\ needed_count <= i'
    BY <1>2, DagAssumption DEF TypeOK, Control, SkipNode
  <2>2. TypeOK'
    BY <1>2, <2>1 DEF TypeOK, SkipNode
  <2>3. Control'
    BY <1>2, <2>1 DEF Control, SkipNode
  <2> QED
    BY <2>2, <2>3
<1>3. ASSUME TypeInv, CountDone PROVE TypeInv'
  BY <1>3 DEF TypeOK, Control, CountDone
<1> QED
  BY <1>1, <1>2, <1>3

LEMMA TypeStep == TypeInv /\ [Next]_vars => TypeInv'
<1>1. TypeInv /\ UNCHANGED vars => TypeInv'
  BY DEF TypeInv, TypeOK, Control, vars, tables
<1> QED
  BY <1>1, PushTypes, MissingTypes, SearchTypes, CountTypes DEF Next, Finished

LEMMA TypeInvariant == Spec => []TypeInv
  BY InitTypes, TypeStep, PTL DEF Spec

(***************************************************************************)
(* Every reachable state is well typed: the stack and the dependents lists *)
(* hold valid NodeIds, so that needed[id.0] and dependents[dep.0] are in   *)
(* bounds, and the count never exceeds the graph.                          *)
(***************************************************************************)
THEOREM TypeCorrect == Spec => []TypeOK
  BY TypeInvariant, PTL DEF TypeInv

(***************************************************************************)
(* mark_needed returns OutputMissing only for the first key that           *)
(* dag.index does not hold, and searches only when there is none.          *)
(***************************************************************************)
THEOREM FirstMissing == Spec => []MissingIsFirst
<1>1. TypeInv => MissingIsFirst
  <2> SUFFICES ASSUME TypeInv PROVE MissingIsFirst
    OBVIOUS
  <2>1. Len(outs) \in Nat /\ DOMAIN outs = 1 .. Len(outs)
    BY OutsFacts DEF TypeInv, TypeOK
  <2>2. ASSUME pc \in {"search", "count", "done"} PROVE Range(outs) \subseteq NodeId
    BY <2>1, <2>2 DEF TypeInv, Control, Range
  <2> QED
    BY <2>2 DEF TypeInv, Control, MissingIsFirst
<1> QED
  BY <1>1, TypeInvariant, PTL

-----------------------------------------------------------------------------
(***************************************************************************)
(* The search. Nothing outside the cone is ever marked or stacked; what a  *)
(* marked node depends on, and once the stack is filled what was           *)
(* requested, is marked or still stacked. An empty stack leaves a          *)
(* dep-closed set of marked nodes that holds the request, and the cone is  *)
(* the least of these.                                                     *)
(***************************************************************************)
SearchInv ==
  /\ Range(outs) \subseteq NodeId => Range(stack) \cup needed \subseteq Cone(Range(outs))
  /\ \A n \in needed : DepSet(n) \subseteq needed \cup Range(stack)
  /\ \A j \in 1 .. k - 1 : outs[j] \in needed \cup Range(stack)
  /\ pc \in {"count", "done"} => stack = <<>>

LEMMA RangeEmpty == Range(<<>>) = {}
  BY DEF Range

LEMMA InitSearch == Init => SearchInv
  BY RangeEmpty DEF Init, SearchInv

LEMMA PushSearch == TypeInv /\ SearchInv /\ PushOutput => SearchInv'
<1> SUFFICES ASSUME TypeInv, SearchInv, PushOutput PROVE SearchInv'
  OBVIOUS
<1>1. Len(outs) \in Nat \ {0} /\ DOMAIN outs = 1 .. Len(outs) /\ k \in DOMAIN outs
  BY OutsFacts DEF TypeInv, TypeOK, PushOutput
<1>2. Range(stack') = Range(stack) \cup {outs[k]}
  BY RangeAppend DEF TypeInv, TypeOK, PushOutput
<1>3. ASSUME Range(outs) \subseteq NodeId PROVE outs[k] \in Cone(Range(outs))
  BY <1>1, <1>3, ConeProperties DEF Range
<1>4. \A j \in 1 .. k' - 1 : j \in 1 .. k - 1 \/ j = k
  BY <1>1 DEF PushOutput
<1> QED
  BY <1>2, <1>3, <1>4 DEF SearchInv, PushOutput

LEMMA SkipSearch == TypeInv /\ SearchInv /\ SkipVisited => SearchInv'
<1> SUFFICES ASSUME TypeInv, SearchInv, SkipVisited PROVE SearchInv'
  OBVIOUS
<1>1. Range(stack) = Range(stack') \cup {Last(stack)} /\ Last(stack) \in needed
  BY StackFacts DEF TypeInv, TypeOK, SkipVisited, Popped, Seen
<1> QED
  BY <1>1 DEF SearchInv, SkipVisited

LEMMA VisitSearch == TypeInv /\ SearchInv /\ Visit => SearchInv'
<1> SUFFICES ASSUME TypeInv, SearchInv, Visit PROVE SearchInv'
  OBVIOUS
<1> DEFINE id == Last(stack)
<1>1. id \in NodeId /\ Front(stack) \in Seq(NodeId) /\ Range(stack) = Range(Front(stack)) \cup {id}
  BY StackFacts DEF TypeInv, TypeOK, Visit
<1>2. Deps[id] \in Seq(NodeId)
  BY <1>1, DagAssumption
<1>3. Range(stack') = Range(Front(stack)) \cup DepSet(id)
  BY <1>1, <1>2, RangeConcat DEF Visit, DepSet
<1>4. needed' = needed \cup {id} /\ UNCHANGED <<outs, pc, k>>
  BY DEF Visit
<1>5. ASSUME Range(outs) \subseteq NodeId
      PROVE  Range(stack') \cup needed' \subseteq Cone(Range(outs))
  <2>1. id \in Cone(Range(outs))
    BY <1>1, <1>5 DEF SearchInv
  <2>2. DepSet(id) \subseteq Cone(Range(outs))
    BY <2>1, ConeProperties DEF DepClosed
  <2> QED
    BY <1>1, <1>3, <1>4, <1>5, <2>1, <2>2 DEF SearchInv
<1>6. \A n \in needed' : DepSet(n) \subseteq needed' \cup Range(stack')
  BY <1>1, <1>3, <1>4 DEF SearchInv
<1>7. \A j \in 1 .. k - 1 : outs[j] \in needed' \cup Range(stack')
  BY <1>1, <1>3, <1>4 DEF SearchInv
<1>8. pc = "search"
  BY DEF Visit
<1> QED
  BY <1>4, <1>5, <1>6, <1>7, <1>8 DEF SearchInv

LEMMA SearchStep == TypeInv /\ SearchInv /\ [Next]_vars => SearchInv'
<1>1. SearchInv /\ (OutputMissing \/ AllPushed) => SearchInv'
  BY DEF SearchInv, OutputMissing, AllPushed, tables
<1>2. SearchInv /\ SearchDone => SearchInv'
  BY DEF SearchInv, SearchDone, tables
<1>3. SearchInv /\ (CountNode \/ SkipNode \/ CountDone) => SearchInv'
  BY DEF SearchInv, CountNode, SkipNode, CountDone, tables
<1>4. SearchInv /\ UNCHANGED vars => SearchInv'
  BY DEF SearchInv, vars
<1> QED
  BY <1>1, <1>2, <1>3, <1>4, PushSearch, SkipSearch, VisitSearch DEF Next, Finished

(***************************************************************************)
(* mark_needed returns the cone of the request: the nodes the requested    *)
(* keys depend on, all of them and no other, in any graph. This is the     *)
(* set the executors' models start from.                                   *)
(***************************************************************************)
THEOREM NeededCorrect == Spec => []NeededIsCone
<1>1. TypeInv /\ SearchInv => NeededIsCone
  <2> SUFFICES ASSUME TypeInv, SearchInv, pc \in {"count", "done"}
               PROVE  needed = Cone(Range(outs))
    BY DEF NeededIsCone
  <2>1. Range(stack) = {}
    BY RangeEmpty DEF SearchInv
  <2>2. Len(outs) \in Nat /\ DOMAIN outs = 1 .. Len(outs) /\ k = Len(outs) + 1
    BY OutsFacts DEF TypeInv, TypeOK, Control
  <2>3. k - 1 = Len(outs)
    BY <2>2
  <2>4. Range(outs) \subseteq needed
    BY <2>1, <2>2, <2>3 DEF SearchInv, Range
  <2>5. needed \subseteq NodeId /\ DepClosed(needed)
    BY <2>1 DEF SearchInv, DepClosed, TypeInv, TypeOK
  <2>6. Cone(Range(outs)) \subseteq needed
    BY <2>4, <2>5, ConeProperties
  <2>7. needed \subseteq Cone(Range(outs))
    BY <2>4, <2>5 DEF SearchInv
  <2> QED
    BY <2>6, <2>7
<1>2. Spec => [](TypeInv /\ SearchInv)
  BY InitTypes, InitSearch, TypeStep, SearchStep, PTL DEF Spec
<1> QED
  BY <1>1, <1>2, PTL
-----------------------------------------------------------------------------
(***************************************************************************)
(* The work. DepSlots(S) are the places in the dep lists of the nodes in   *)
(* S; marking a node takes as many out of the set of unstacked ones as it  *)
(* puts onto the stack, in exchange for the node itself.                   *)
(***************************************************************************)
DepSlots(S) == UNION {{n} \X (1 .. Len(Deps[n])) : n \in S}

LEMMA DepSlotsFinite ==
  ASSUME NEW S \in SUBSET NodeId
  PROVE  IsFiniteSet(DepSlots(S)) /\ Cardinality(DepSlots(S)) \in Nat
<1> DEFINE f == [n \in S |-> {n} \X (1 .. Len(Deps[n]))]
           T == {f[n] : n \in S}
<1>1. IsFiniteSet(S)
  BY NodeSets, FS_Subset
<1>2. f \in Surjection(S, T)
  BY DEF Surjection
<1>3. IsFiniteSet(T)
  <2> HIDE DEF f, T
  <2> QED BY <1>1, <1>2, FS_Surjection
<1>4. \A U \in T : IsFiniteSet(U)
  <2> SUFFICES ASSUME NEW n \in S PROVE IsFiniteSet({n} \X (1 .. Len(Deps[n])))
    OBVIOUS
  <2>1. Len(Deps[n]) \in Nat
    BY DepLists
  <2>2. IsFiniteSet(1 .. Len(Deps[n]))
    BY <2>1, PlacesCount
  <2>3. IsFiniteSet({n})
    BY FS_Singleton
  <2> QED BY <2>2, <2>3, FS_Product
<1>5. IsFiniteSet(UNION T)
  <2> HIDE DEF T
  <2> QED BY <1>3, <1>4, FS_UNION
<1>6. UNION T = DepSlots(S)
  BY DEF DepSlots
<1> QED BY <1>5, <1>6, FS_CardinalityType

LEMMA DepSlotsWithout ==
  ASSUME NEW S \in SUBSET NodeId, NEW n \in S
  PROVE  Cardinality(DepSlots(S)) = Cardinality(DepSlots(S \ {n})) + Len(Deps[n])
<1> DEFINE D == DepSlots(S)
           E == DepSlots(S \ {n})
           N == {n} \X (1 .. Len(Deps[n]))
           m == Len(Deps[n])
<1>1. m \in Nat
  BY DepLists
<1>2. IsFiniteSet(N) /\ Cardinality(N) = m
  <2>1. IsFiniteSet({n}) /\ Cardinality({n}) = 1
    BY FS_Singleton
  <2>2. IsFiniteSet(1 .. m) /\ Cardinality(1 .. m) = m
    <3> HIDE DEF m
    <3> QED BY <1>1, PlacesCount
  <2>3. IsFiniteSet(N) /\ Cardinality(N) = 1 * m
    BY <2>1, <2>2, FS_Product
  <2>4. 1 * m = m
    <3> HIDE DEF m
    <3> QED BY <1>1
  <2> HIDE DEF N, m
  <2> QED BY <2>3, <2>4
<1>3. E = D \ N /\ D \cap N = N
  BY DEF DepSlots
<1>4. IsFiniteSet(D) /\ Cardinality(D) \in Nat
  BY DepSlotsFinite
<1>5. Cardinality(E) = Cardinality(D) - Cardinality(N)
  <2> HIDE DEF D, E, N
  <2>1. Cardinality(D \ N) = Cardinality(D) - Cardinality(D \cap N)
    BY <1>4, FS_Difference
  <2> QED BY <1>3, <2>1
<1> DEFINE d == Cardinality(D)
           e == Cardinality(E)
<1>6. d = e + m
  <2>1. e = d - m
    BY <1>2, <1>5
  <2> HIDE DEF d, e, m
  <2> QED BY <1>1, <1>4, <2>1 DEF d
<1> QED BY <1>6

LEMMA ToPopFacts ==
  ASSUME TypeInv
  PROVE  /\ Len(stack) \in Nat /\ Cardinality(UnstackedDeps) \in Nat /\ ToPop \in Nat
         /\ Len(outs) \in Nat /\ NodeCount \in Nat /\ i \in 0 .. NodeCount /\ k \in 1 .. Len(outs) + 1
<1>1. Cardinality(UnstackedDeps) \in Nat
  <2>1. UnstackedDeps = DepSlots(NodeId \ needed)
    BY DEF UnstackedDeps, DepSlots
  <2> QED BY <2>1, DepSlotsFinite
<1>2. Len(stack) \in Nat /\ Len(outs) \in Nat /\ NodeCount \in Nat
  BY OutsFacts, DagAssumption DEF TypeInv, TypeOK
<1> QED BY <1>1, <1>2 DEF ToPop, TypeInv, TypeOK

LEMMA FrontLength ==
  ASSUME NEW S, NEW s \in Seq(S), s # <<>>
  PROVE  Len(Front(s)) = Len(s) - 1 /\ Len(s) \in Nat \ {0}
<1>1. Len(s) \in Nat \ {0} /\ DOMAIN s = 1 .. Len(s)
  OBVIOUS
<1>2. Front(s) = [j \in 1 .. Len(s) - 1 |-> s[j]]
  BY <1>1 DEF Front
<1> QED BY <1>1, <1>2

\* Every step of the search takes one from what is still to be popped.
LEMMA PopFalls == ASSUME TypeInv, SkipVisited \/ Visit PROVE ToPop' = ToPop - 1
<1> DEFINE a == Len(stack)
           a1 == Len(stack')
           b == Cardinality(UnstackedDeps)
           b1 == Cardinality(UnstackedDeps')
<1>1. a \in Nat /\ b \in Nat /\ stack \in Seq(NodeId)
  BY ToPopFacts DEF TypeInv, TypeOK
<1>2. ToPop = a + b /\ ToPop' = a1 + b1
  BY DEF ToPop
<1>3. CASE SkipVisited
  <2>1. b1 = b
    BY <1>3 DEF SkipVisited, UnstackedDeps
  <2>2. a1 = a - 1
    BY <1>1, <1>3, FrontLength DEF SkipVisited, Popped
  <2> HIDE DEF a, b, a1, b1
  <2> QED BY <1>1, <1>2, <2>1, <2>2
<1>4. CASE Visit
  <2> DEFINE id == Last(stack)
             m == Len(Deps[id])
  <2>1. id \in NodeId \ needed /\ Front(stack) \in Seq(NodeId)
    BY <1>1, <1>4, StackFacts DEF Visit, Seen
  <2>2. Deps[id] \in Seq(NodeId) /\ m \in Nat
    BY <2>1, DagAssumption
  <2>3. a1 = a - 1 + m
    <3>1. Len(Front(stack)) = a - 1
      BY <1>1, <1>4, FrontLength DEF Visit
    <3>2. stack' = Front(stack) \o Deps[id]
      BY <1>4 DEF Visit
    <3>3. Len(stack') = Len(Front(stack)) + Len(Deps[id])
      BY <2>1, <2>2, <3>2
    <3> QED BY <3>1, <3>3
  <2>4. b = b1 + m
    <3>1. UnstackedDeps = DepSlots(NodeId \ needed)
      BY DEF UnstackedDeps, DepSlots
    <3>2. UnstackedDeps' = DepSlots((NodeId \ needed) \ {id})
      <4>1. needed' = needed \cup {id}
        BY <1>4 DEF Visit
      <4>2. NodeId \ needed' = (NodeId \ needed) \ {id}
        BY <4>1
      <4> QED BY <4>2 DEF UnstackedDeps, DepSlots
    <3> HIDE DEF id
    <3> QED BY <2>1, <3>1, <3>2, DepSlotsWithout
  <2>5. b1 \in Nat
    <3>1. UnstackedDeps' = DepSlots(NodeId \ needed')
      BY DEF UnstackedDeps, DepSlots
    <3> QED BY <3>1, DepSlotsFinite
  <2> HIDE DEF a, b, a1, b1, m
  <2> QED BY <1>1, <1>2, <2>2, <2>3, <2>4, <2>5
<1> QED BY <1>3, <1>4

(***************************************************************************)
(* mark_needed and build_kahn_metadata take at most twice as many steps as *)
(* keys were requested, one for each place in a dep list, one for each     *)
(* node and three more: the search cannot run round a cycle, nor expand a  *)
(* shared node again for each of its users.                                *)
(***************************************************************************)
THEOREM LinearAnalysis ==
  /\ Init => StepsLeft = 2 * Len(outs) + Cardinality(DepSlots(NodeId)) + NodeCount + 3
  /\ Spec => LinearWork
<1>1. Init => StepsLeft = 2 * Len(outs) + Cardinality(DepSlots(NodeId)) + NodeCount + 3
  <2> SUFFICES ASSUME Init
               PROVE  StepsLeft = 2 * Len(outs) + Cardinality(DepSlots(NodeId)) + NodeCount + 3
    OBVIOUS
  <2>1. Len(outs) \in Nat /\ NodeCount \in Nat
    BY OutsFacts, DagAssumption DEF Init
  <2>2. ToPop = 0 + Cardinality(DepSlots(NodeId))
    <3>1. UnstackedDeps = DepSlots(NodeId) /\ Len(stack) = 0
      BY DEF Init, UnstackedDeps, DepSlots
    <3> QED BY <3>1 DEF ToPop
  <2>3. Cardinality(DepSlots(NodeId)) \in Nat
    BY DepSlotsFinite
  <2>4. StepsLeft = 2 * (Len(outs) + 1 - 1) + ToPop + NodeCount + 3
    BY DEF Init, StepsLeft
  <2> QED BY <2>1, <2>2, <2>3, <2>4
<1>2. TypeInv /\ TypeInv' /\ Next /\ vars' # vars => StepsLeft' \in Nat /\ StepsLeft' < StepsLeft
  <2> SUFFICES ASSUME TypeInv, TypeInv', Next, vars' # vars
               PROVE  StepsLeft' \in Nat /\ StepsLeft' < StepsLeft
    OBVIOUS
  <2> DEFINE t == ToPop
             t1 == ToPop'
             l == Len(outs)
  <2>1. t \in Nat /\ l \in Nat /\ NodeCount \in Nat /\ i \in 0 .. NodeCount /\ k \in 1 .. l + 1
    BY ToPopFacts
  <2>2. CASE PushOutput
    <3>1. t1 = t + 1
      <4>1. stack' = Append(stack, outs[k]) /\ UnstackedDeps' = UnstackedDeps
        BY <2>2 DEF PushOutput, UnstackedDeps
      <4>2. Len(stack') = Len(stack) + 1
        BY <4>1 DEF TypeInv, TypeOK
      <4>3. Len(stack) \in Nat /\ Cardinality(UnstackedDeps) \in Nat
        BY ToPopFacts
      <4> QED BY <4>1, <4>2, <4>3 DEF ToPop
    <3>2. StepsLeft = 2 * (l + 1 - k) + t + NodeCount + 3
      BY <2>2 DEF PushOutput, StepsLeft
    <3>3. StepsLeft' = 2 * (l + 1 - (k + 1)) + t1 + NodeCount + 3
      BY <2>2 DEF PushOutput, StepsLeft
    <3>4. k <= l
      BY <2>2 DEF PushOutput
    <3> HIDE DEF t, t1, l
    <3> QED BY <2>1, <3>1, <3>2, <3>3, <3>4
  <2>3. CASE OutputMissing
    <3>1. StepsLeft = 2 * (l + 1 - k) + t + NodeCount + 3 /\ StepsLeft' = 0
      BY <2>3 DEF OutputMissing, StepsLeft
    <3> HIDE DEF t, l
    <3> QED BY <2>1, <3>1
  <2>4. CASE AllPushed
    <3>1. t1 = t
      BY <2>4 DEF AllPushed, ToPop, UnstackedDeps
    <3>2. /\ StepsLeft = 2 * (l + 1 - k) + t + NodeCount + 3
          /\ StepsLeft' = t1 + NodeCount + 2
      BY <2>4 DEF AllPushed, StepsLeft
    <3> HIDE DEF t, t1, l
    <3> QED BY <2>1, <3>1, <3>2
  <2>5. CASE SkipVisited \/ Visit
    <3>1. t1 = t - 1
      BY <2>5, PopFalls
    <3>2. StepsLeft = t + NodeCount + 2 /\ StepsLeft' = t1 + NodeCount + 2
      BY <2>5 DEF SkipVisited, Visit, StepsLeft
    <3> HIDE DEF t, t1
    <3> QED BY <2>1, <3>1, <3>2
  <2>6. CASE SearchDone
    <3>1. StepsLeft = t + NodeCount + 2 /\ StepsLeft' = NodeCount + 1 - i
      BY <2>6 DEF SearchDone, StepsLeft, tables
    <3> HIDE DEF t
    <3> QED BY <2>1, <3>1
  <2>7. CASE CountNode \/ SkipNode
    <3>1. /\ StepsLeft = NodeCount + 1 - i /\ StepsLeft' = NodeCount + 1 - (i + 1)
          /\ i < NodeCount
      BY <2>7 DEF CountNode, SkipNode, StepsLeft
    <3> QED BY <2>1, <3>1
  <2>8. CASE CountDone
    <3>1. StepsLeft = NodeCount + 1 - i /\ StepsLeft' = 0 /\ i = NodeCount
      BY <2>8 DEF CountDone, StepsLeft
    <3> QED BY <2>1, <3>1
  <2> QED BY <2>2, <2>3, <2>4, <2>5, <2>6, <2>7, <2>8 DEF Next, Finished
<1>3. TypeInv /\ TypeInv' /\ [Next]_vars => [StepsLeft' \in Nat /\ StepsLeft' < StepsLeft]_vars
  BY <1>2
<1>4. Spec => LinearWork
  BY <1>3, TypeInvariant, PTL DEF Spec, LinearWork
<1> QED BY <1>1, <1>4

-----------------------------------------------------------------------------
(***************************************************************************)
(* The tables. The sets of positions P[d], one for each element of D and   *)
(* of the size of its fibre under f, hold together as much as f's domain.  *)
(***************************************************************************)
Fibre(f, d) == {a \in DOMAIN f : f[a] = d}
Tagged(P) == UNION {{d} \X P[d] : d \in DOMAIN P}

LEMMA SumOfFibres ==
  ASSUME NEW A, IsFiniteSet(A), NEW D, NEW f \in [A -> D], NEW P, DOMAIN P = D,
         \A d \in D : IsFiniteSet(P[d]) /\ Cardinality(P[d]) = Cardinality(Fibre(f, d))
  PROVE  Cardinality(Tagged(P)) = Cardinality(A)
<1> DEFINE U == Tagged(P)
           h == [d \in D |-> CHOOSE b : b \in Bijection(Fibre(f, d), P[d])]
           F == [a \in A |-> <<f[a], h[f[a]][a]>>]
<1>1. \A d \in D : h[d] \in Bijection(Fibre(f, d), P[d])
  <2> TAKE d \in D
  <2>1. IsFiniteSet(Fibre(f, d))
    BY FS_Subset DEF Fibre
  <2>2. Cardinality(Fibre(f, d)) = Cardinality(P[d]) /\ IsFiniteSet(P[d])
    OBVIOUS
  <2>3. ExistsBijection(Fibre(f, d), P[d])
    BY <2>1, <2>2, FS_SameCardinalityBij
  <2>4. \E b : b \in Bijection(Fibre(f, d), P[d])
    BY <2>3 DEF ExistsBijection
  <2> QED
    BY <2>4
<1> HIDE DEF h
<1>2. \A d \in D :
        /\ \A a \in Fibre(f, d) : h[d][a] \in P[d]
        /\ \A a, b \in Fibre(f, d) : h[d][a] = h[d][b] => a = b
        /\ \A p \in P[d] : \E a \in Fibre(f, d) : h[d][a] = p
  BY <1>1 DEF Bijection, Injection, Surjection, IsInjective
<1>3. \A a \in A : f[a] \in D /\ a \in Fibre(f, f[a])
  BY DEF Fibre
<1>4. F \in [A -> U]
  <2>1. \A a \in A : F[a] \in {f[a]} \X P[f[a]]
    BY <1>2, <1>3
  <2> QED
    BY <1>3, <2>1 DEF Tagged
<1>5. \A a, b \in A : F[a] = F[b] => a = b
  <2>1. \A a \in A : F[a][1] = f[a] /\ F[a][2] = h[f[a]][a]
    OBVIOUS
  <2> HIDE DEF F
  <2> QED
    BY <1>2, <1>3, <2>1
<1>6. \A u \in U : \E a \in A : F[a] = u
  <2> TAKE u \in U
  <2>1. PICK d \in D : u \in {d} \X P[d]
    BY DEF Tagged
  <2>2. PICK p \in P[d] : u = <<d, p>>
    BY <2>1
  <2>3. PICK a \in Fibre(f, d) : h[d][a] = p
    BY <1>2
  <2>4. a \in A /\ f[a] = d
    BY DEF Fibre
  <2> QED
    BY <2>2, <2>3, <2>4
<1> HIDE DEF F, U
<1>7. F \in Bijection(A, U)
  BY <1>4, <1>5, <1>6 DEF Bijection, Injection, Surjection, IsInjective
<1>8. ExistsBijection(A, U)
  BY <1>7 DEF ExistsBijection
<1>9. Cardinality(U) = Cardinality(A)
  BY <1>8, FS_Bijection
<1> QED
  BY <1>9 DEF U

(***************************************************************************)
(* Counting so far: what the loop of build_kahn_metadata has done for the  *)
(* nodes below i, and for no other. It reads needed, which is settled, and *)
(* until it starts i is zero.                                              *)
(***************************************************************************)
Counted(n) == n \in needed /\ n < i

CountInv ==
  /\ pc \notin {"count", "done"} => i = 0
  /\ pc = "done" => i = NodeCount
  /\ needed_count = Cardinality({n \in needed : n < i})
  /\ \A n \in NodeId : indeg[n] = IF Counted(n) THEN Len(Deps[n]) ELSE 0
  /\ \A d, n \in NodeId :
       Cardinality(Entries(d, n)) = IF Counted(n) THEN Multiplicity(n, d) ELSE 0
  /\ \A d \in NodeId : \A j \in DOMAIN dependents[d] :
       /\ Counted(dependents[d][j])
       /\ j > 1 => dependents[d][j - 1] <= dependents[d][j]

LEMMA IdsAreInts == ASSUME NEW s \in Seq(NodeId) PROVE s \in Seq(Int)
<1>1. Len(s) \in Nat /\ s \in [1 .. Len(s) -> NodeId]
  BY LenProperties
<1>2. NodeId \subseteq Int
  BY DagAssumption DEF NodeId
<1>3. s \in [1 .. Len(s) -> Int]
  BY <1>1, <1>2
<1> QED BY <1>1, <1>3, SeqDef

LEMMA EntriesType ==
  ASSUME dependents \in [NodeId -> Seq(NodeId)], NEW d \in NodeId, NEW n
  PROVE  IsFiniteSet(Entries(d, n)) /\ Cardinality(Entries(d, n)) \in Nat
<1>1. IsFiniteSet(DOMAIN dependents[d])
  BY LenProperties, FS_Interval
<1>2. IsFiniteSet(Entries(d, n))
  BY <1>1, FS_Subset DEF Entries
<1> QED
  BY <1>2, FS_CardinalityType

LEMMA InitCount == Init => CountInv
<1> SUFFICES ASSUME Init PROVE CountInv
  OBVIOUS
<1>1. \A n \in NodeId : ~ Counted(n)
  BY DEF Init, Counted
<1>2. {n \in needed : n < i} = {}
  BY DEF Init
<1>3. Cardinality({n \in needed : n < i}) = 0
  BY <1>2, FS_EmptySet
<1>4. \A d, n \in NodeId : Entries(d, n) = {}
  BY DEF Init, Entries
<1>5. \A d, n \in NodeId : Cardinality(Entries(d, n)) = 0
  BY <1>4, FS_EmptySet
<1> QED
  BY <1>1, <1>3, <1>5 DEF Init, CountInv

\* As long as i is zero nothing is counted, whatever is marked.
LEMMA IdleCount ==
  ASSUME TypeInv, CountInv, i = 0, UNCHANGED tables, needed' \subseteq NodeId,
         pc' \in {"push", "search", "count", "missing"}
  PROVE  CountInv'
<1>0. \A n \in NodeId : ~ (n < 0)
  BY DagAssumption DEF NodeId
<1>1. \A n \in NodeId : ~ Counted(n) /\ ~ Counted(n)'
  BY <1>0 DEF Counted, tables
<1>2. {n \in needed : n < i} = {} /\ {n \in needed' : n < i'} = {}
  BY <1>0 DEF TypeInv, TypeOK, tables
<1>3. \A d, n \in NodeId : Entries(d, n)' = Entries(d, n)
  BY DEF Entries, tables
<1>4. ASSUME NEW d \in NodeId, NEW j \in DOMAIN dependents[d] PROVE FALSE
  <2>1. dependents[d] \in Seq(NodeId)
    BY DEF TypeInv, TypeOK
  <2>2. dependents[d][j] \in NodeId
    BY <1>4, <2>1
  <2>3. Counted(dependents[d][j])
    BY <1>4 DEF CountInv
  <2> QED
    BY <1>1, <2>2, <2>3
<1>5. dependents' = dependents /\ i' = i /\ indeg' = indeg /\ needed_count' = needed_count
  BY DEF tables
<1>6. needed_count' = Cardinality({n \in needed' : n < i'})
  BY <1>2, <1>5 DEF CountInv
<1>7. \A n \in NodeId : indeg'[n] = IF Counted(n)' THEN Len(Deps[n]) ELSE 0
  BY <1>1, <1>5 DEF CountInv
<1>8. \A d, n \in NodeId :
        Cardinality(Entries(d, n)') = IF Counted(n)' THEN Multiplicity(n, d) ELSE 0
  BY <1>1, <1>3 DEF CountInv
<1> QED
  BY <1>4, <1>5, <1>6, <1>7, <1>8 DEF CountInv

Copies(m, x) == [j \in 1 .. m |-> x]

\* Appending m copies of x to a list of smaller numbers.
LEMMA AppendedRun ==
  ASSUME NEW s \in Seq(Int), NEW x \in Int, NEW m \in Nat,
         \A j \in DOMAIN s : s[j] < x,
         \A j \in DOMAIN s : j > 1 => s[j - 1] <= s[j],
         NEW t, t = s \o Copies(m, x)
  PROVE  /\ \A n : n # x => Fibre(t, n) = Fibre(s, n)
         /\ Cardinality(Fibre(t, x)) = m
         /\ \A j \in DOMAIN t : t[j] = x \/ \E h \in DOMAIN s : t[j] = s[h]
         /\ \A j \in DOMAIN t : j > 1 => t[j - 1] <= t[j]
<1> DEFINE L == Len(s)
<1>1. L \in Nat /\ DOMAIN s = 1 .. L
  OBVIOUS
<1>2. /\ Copies(m, x) \in Seq(Int) /\ Len(Copies(m, x)) = m
      /\ \A j \in 1 .. m : Copies(m, x)[j] = x
  BY DEF Copies
<1>3. t \in Seq(Int) /\ Len(t) = L + m /\ DOMAIN t = 1 .. L + m
  <2>1. s \in Seq(Int) /\ t = s \o Copies(m, x)
    OBVIOUS
  <2>2. t \in Seq(Int) /\ Len(t) = L + m
    <3> DEFINE c == Copies(m, x)
    <3>1. c \in Seq(Int) /\ Len(c) = m
      BY <1>2
    <3> HIDE DEF c
    <3>2. s \o c \in Seq(Int) /\ Len(s \o c) = Len(s) + Len(c)
      BY <3>1, ConcatProperties, Zenon
    <3> QED BY <2>1, <3>1, <3>2 DEF c
  <2> QED
    BY <2>2
<1>4. \A j \in 1 .. L : t[j] = s[j]
  BY <1>1, <1>2
<1>5. \A j \in L + 1 .. L + m : t[j] = x
  BY <1>1, <1>2
<1>6. \A j \in 1 .. L + m : j \in 1 .. L \/ j \in L + 1 .. L + m
  BY <1>1
<1>7. 1 .. L \subseteq 1 .. L + m /\ L + 1 .. L + m \subseteq 1 .. L + m
  BY <1>1
<1>8. \A j \in 1 .. L : s[j] \in Int
  BY <1>1
<1>9. \A j \in 1 .. L : s[j] < x
  BY <1>1
<1> HIDE DEF L
<1>10. ASSUME NEW n, n # x PROVE Fibre(t, n) = Fibre(s, n)
  BY <1>1, <1>3, <1>4, <1>5, <1>6, <1>7, <1>10 DEF Fibre
<1>11. Cardinality(Fibre(t, x)) = m
  <2>1. ASSUME NEW j \in 1 .. L PROVE t[j] # x
    <3>1. s[j] \in Int /\ s[j] < x /\ t[j] = s[j]
      BY <1>4, <1>8, <1>9
    <3>2. \A a \in Int : a < x => a # x
      OBVIOUS
    <3> QED
      BY <3>1, <3>2
  <2>2. Fibre(t, x) = L + 1 .. L + m
    BY <1>3, <1>5, <1>6, <1>7, <2>1 DEF Fibre
  <2>3. Cardinality(L + 1 .. L + m) = m
    BY <1>1, FS_Interval
  <2> QED
    BY <2>2, <2>3
<1>12. \A j \in DOMAIN t : t[j] = x \/ \E h \in DOMAIN s : t[j] = s[h]
  BY <1>1, <1>3, <1>4, <1>5, <1>6
<1>13. ASSUME NEW j \in DOMAIN t, j > 1 PROVE t[j - 1] <= t[j]
  <2>1. CASE j \in 1 .. L
    <3>1. j - 1 \in 1 .. L
      BY <1>1, <1>13, <2>1
    <3> QED
      BY <1>1, <1>4, <1>13, <2>1, <3>1
  <2>2. CASE j \in L + 1 .. L + m
    <3>1. j - 1 \in 1 .. L \/ j - 1 \in L + 1 .. L + m
      BY <1>1, <1>13, <2>2
    <3>2. t[j] = x
      BY <1>5, <2>2
    <3>3. ASSUME j - 1 \in 1 .. L PROVE t[j - 1] < x
      BY <1>4, <1>9, <3>3
    <3>4. ASSUME j - 1 \in 1 .. L PROVE t[j - 1] \in Int
      BY <1>4, <1>8, <3>4
    <3>5. ASSUME j - 1 \in L + 1 .. L + m PROVE t[j - 1] = x
      BY <1>5, <3>5
    <3>6. \A a \in Int : a < x => a <= x
      OBVIOUS
    <3>7. x <= x
      OBVIOUS
    <3> QED
      BY <3>1, <3>2, <3>3, <3>4, <3>5, <3>6, <3>7
  <2> QED
    BY <1>3, <1>6, <2>1, <2>2
<1> QED
  BY <1>10, <1>11, <1>12, <1>13

LEMMA NeededFinite ==
  ASSUME needed \subseteq NodeId
  PROVE  IsFiniteSet(needed)
<1>1. IsFiniteSet(NodeId)
  BY NodeSets
<1> QED
  BY <1>1, FS_Subset

LEMMA CountNodeCount == TypeInv /\ CountInv /\ CountNode => CountInv'
<1> SUFFICES ASSUME TypeInv, CountInv, CountNode PROVE CountInv'
  OBVIOUS
<1>1. i \in NodeId /\ i \in needed /\ i' = i + 1 /\ needed' = needed /\ i \in Nat
  BY DEF TypeInv, TypeOK, CountNode, NodeId
<1>2. pc = "count" /\ pc' = "count"
  BY DEF CountNode
<1>3. \A n \in NodeId : Counted(n)' <=> Counted(n) \/ n = i
  BY <1>1 DEF Counted, NodeId
<1>4. ~ Counted(i)
  BY <1>1 DEF Counted
<1>5. needed_count' = Cardinality({n \in needed' : n < i'})
  <2>1. needed \subseteq NodeId /\ IsFiniteSet(needed)
    BY NeededFinite DEF TypeInv, TypeOK
  <2>2. \A n \in needed : n < i + 1 <=> n < i \/ n = i
    BY <1>1, <2>1, DagAssumption DEF NodeId
  <2>3. {n \in needed' : n < i'} = {n \in needed : n < i} \cup {i}
    BY <1>1, <2>2
  <2>4. IsFiniteSet({n \in needed : n < i})
    BY <2>1, FS_Subset
  <2>5. i \notin {n \in needed : n < i}
    BY <1>1
  <2>6. Cardinality({n \in needed : n < i} \cup {i}) = Cardinality({n \in needed : n < i}) + 1
    BY <2>4, <2>5, FS_AddElement
  <2> QED
    BY <2>3, <2>6 DEF CountInv, CountNode
<1>6. \A n \in NodeId : indeg'[n] = IF Counted(n)' THEN Len(Deps[n]) ELSE 0
  BY <1>1, <1>3 DEF CountInv, CountNode, DepOccurrences, TypeInv, TypeOK
<1>7. ASSUME NEW d \in NodeId
      PROVE  /\ \A n \in NodeId :
                  Cardinality(Entries(d, n)') = IF Counted(n)' THEN Multiplicity(n, d) ELSE 0
             /\ \A j \in DOMAIN dependents'[d] :
                  /\ Counted(dependents[d][j])'
                  /\ j > 1 => dependents'[d][j - 1] <= dependents'[d][j]
  <2> DEFINE m == Multiplicity(i, d)
             s == dependents[d]
             t == dependents'[d]
  <2>1. s \in Seq(NodeId) /\ s \in Seq(Int) /\ m \in Nat
    <3>1. s \in Seq(NodeId)
      BY DEF TypeInv, TypeOK
    <3>2. m \in Nat
      BY <1>1, MultiplicityType
    <3> HIDE DEF m, s
    <3>3. s \in Seq(Int)
      BY <3>1, IdsAreInts
    <3> QED BY <3>1, <3>2, <3>3
  <2>2. t = s \o Copies(m, i)
    BY DEF CountNode, Copies
  <2>3. \A j \in DOMAIN s : s[j] \in NodeId /\ s[j] < i /\ Counted(s[j])
    BY <2>1 DEF CountInv, Counted
  <2>4. \A j \in DOMAIN s : j > 1 => s[j - 1] <= s[j]
    BY DEF CountInv
  <2>5. \A n \in NodeId : Entries(d, n) = Fibre(s, n) /\ Entries(d, n)' = Fibre(t, n)
    BY DEF Entries, Fibre
  <2>6. \A n \in NodeId : Cardinality(Entries(d, n)) = IF Counted(n) THEN Multiplicity(n, d) ELSE 0
    BY DEF CountInv
  <2> HIDE DEF m, s, t
  <2>7. /\ \A n : n # i => Fibre(t, n) = Fibre(s, n)
        /\ Cardinality(Fibre(t, i)) = m
        /\ \A j \in DOMAIN t : t[j] = i \/ \E h \in DOMAIN s : t[j] = s[h]
        /\ \A j \in DOMAIN t : j > 1 => t[j - 1] <= t[j]
    <3>1. i \in Int /\ s \in Seq(Int) /\ m \in Nat
      BY <1>1, <2>1
    <3>2. \A j \in DOMAIN s : s[j] < i
      BY <2>3
    <3> QED
      <4>1. \A r : r = s \o Copies(m, i) =>
              /\ \A n : n # i => Fibre(r, n) = Fibre(s, n)
              /\ Cardinality(Fibre(r, i)) = m
              /\ \A j \in DOMAIN r : r[j] = i \/ \E h \in DOMAIN s : r[j] = s[h]
              /\ \A j \in DOMAIN r : j > 1 => r[j - 1] <= r[j]
        BY <2>4, <3>1, <3>2, AppendedRun
      <4> QED
        BY <2>2, <4>1
  <2>8. \A n \in NodeId :
          Cardinality(Entries(d, n)') = IF Counted(n)' THEN Multiplicity(n, d) ELSE 0
    BY <1>1, <1>3, <2>5, <2>6, <2>7 DEF m
  <2>9. ASSUME NEW j \in DOMAIN t PROVE t[j] \in needed' /\ t[j] < i'
    <3>1. CASE t[j] = i
      BY <1>1, <3>1
    <3>2. ASSUME NEW h \in DOMAIN s, t[j] = s[h] PROVE t[j] \in needed' /\ t[j] < i'
      <4>1. s[h] \in needed /\ s[h] < i /\ s[h] \in Int
        BY <2>1, <2>3 DEF Counted
      <4>2. \A a \in Int : a < i => a < i + 1
        BY <1>1
      <4> QED
        BY <1>1, <3>2, <4>1, <4>2
    <3> QED
      BY <2>7, <3>1, <3>2
  <2>10. \A j \in DOMAIN dependents'[d] : Counted(dependents[d][j])'
    BY <2>9 DEF t, Counted
  <2> QED
    BY <2>7, <2>8, <2>10 DEF t
<1> QED
  BY <1>2, <1>5, <1>6, <1>7 DEF CountInv

LEMMA SkipNodeCount == TypeInv /\ CountInv /\ SkipNode => CountInv'
<1> SUFFICES ASSUME TypeInv, CountInv, SkipNode PROVE CountInv'
  OBVIOUS
<1>1. i \in Nat /\ i \notin needed /\ i' = i + 1 /\ needed \subseteq NodeId
  BY DEF TypeInv, TypeOK, SkipNode
<1>2. UNCHANGED <<needed, dependents, indeg, needed_count>> /\ pc = "count" /\ pc' = "count"
  BY DEF SkipNode
<1>3. \A n : n \in needed => (n < i' <=> n < i)
  BY <1>1 DEF NodeId
<1>4. \A n : Counted(n)' <=> Counted(n)
  BY <1>2, <1>3 DEF Counted
<1>5. {n \in needed' : n < i'} = {n \in needed : n < i}
  BY <1>2, <1>3
<1>6. \A d, n : Entries(d, n)' = Entries(d, n)
  BY <1>2 DEF Entries
<1> QED
  BY <1>2, <1>4, <1>5, <1>6 DEF CountInv

LEMMA CountStep == TypeInv /\ CountInv /\ [Next]_vars => CountInv'
<1>1. ASSUME TypeInv, CountInv, PushOutput \/ OutputMissing \/ AllPushed \/ SkipVisited
      PROVE  CountInv'
  <2>1. /\ pc \notin {"count", "done"} /\ pc' \in {"push", "search", "count", "missing"}
        /\ UNCHANGED tables /\ needed' = needed
    BY <1>1 DEF PushOutput, OutputMissing, AllPushed, SkipVisited
  <2> QED
    BY <1>1, <2>1, IdleCount DEF CountInv, TypeInv, TypeOK
<1>2. ASSUME TypeInv, CountInv, Visit PROVE CountInv'
  <2>1. Last(stack) \in NodeId
    BY <1>2, StackFacts DEF TypeInv, TypeOK, Visit
  <2> QED
    BY <1>2, <2>1, IdleCount DEF Visit, CountInv, TypeInv, TypeOK
<1>3. ASSUME TypeInv, CountInv, SearchDone PROVE CountInv'
  BY <1>3, IdleCount DEF SearchDone, CountInv, TypeInv, TypeOK
<1>4. ASSUME CountInv, CountDone PROVE CountInv'
  BY <1>4 DEF CountDone, CountInv, Counted, Entries, tables
<1>5. ASSUME CountInv, UNCHANGED vars PROVE CountInv'
  BY <1>5 DEF vars, tables, CountInv, Counted, Entries
<1> QED
  BY <1>1, <1>2, <1>3, <1>4, <1>5, CountNodeCount, SkipNodeCount DEF Next, Finished

(***************************************************************************)
(* build_kahn_metadata pairs its tables for every graph, repeated deps and *)
(* cycles included: a node's in-degree is the number of times the          *)
(* dependents lists name it, lists hold needed nodes in the order of their *)
(* ids, nodes outside the cone get no entry, and needed_count is its size. *)
(***************************************************************************)
THEOREM TablesPaired == Spec => []TablesBalance
<1>1. TypeInv /\ SearchInv /\ CountInv => TablesBalance
  <2> SUFFICES ASSUME TypeInv, SearchInv, CountInv, pc = "done" PROVE TablesBalance
    BY DEF TablesBalance
  <2>1. i = NodeCount /\ needed \subseteq NodeId /\ dependents \in [NodeId -> Seq(NodeId)]
    BY DEF CountInv, TypeInv, TypeOK
  <2>2. \A n \in NodeId : n < i
    BY <2>1, DagAssumption DEF NodeId
  <2>3. \A n \in NodeId : Counted(n) <=> n \in needed
    BY <2>2 DEF Counted
  <2>4. needed_count = Cardinality(needed)
    <3>1. {n \in needed : n < i} = needed
      BY <2>1, <2>2
    <3> QED
      BY <3>1 DEF CountInv
  <2>5. ASSUME NEW n \in needed
        PROVE  indeg[n] = Cardinality(UNION {{d} \X Entries(d, n) : d \in NodeId})
    <3> DEFINE P == [d \in NodeId |-> Entries(d, n)]
               A == 1 .. Len(Deps[n])
    <3>1. n \in NodeId /\ indeg[n] = Len(Deps[n])
      BY <2>1, <2>3 DEF CountInv
    <3>2. Deps[n] \in Seq(NodeId) /\ Len(Deps[n]) \in Nat
      BY <3>1, DagAssumption
    <3>3. Deps[n] \in [A -> NodeId] /\ DOMAIN Deps[n] = A
      BY <3>2
    <3>4. IsFiniteSet(A) /\ Cardinality(A) = Len(Deps[n])
      BY <3>2, PlacesCount DEF A
    <3>5. \A d \in NodeId : /\ IsFiniteSet(P[d])
                            /\ Cardinality(P[d]) = Cardinality(Fibre(Deps[n], d))
      <4> TAKE d \in NodeId
      <4>1. P[d] = Entries(d, n) /\ IsFiniteSet(Entries(d, n))
        BY <2>1, EntriesType
      <4>2. Cardinality(Entries(d, n)) = Multiplicity(n, d)
        BY <2>3, <3>1 DEF CountInv
      <4> QED
        BY <4>1, <4>2 DEF Multiplicity, Fibre
    <3> DEFINE f == Deps[n]
    <3> HIDE DEF P, A, f
    <3>6. Cardinality(Tagged(P)) = Cardinality(A)
      <4>1. f \in [A -> NodeId] /\ DOMAIN P = NodeId /\ IsFiniteSet(A)
        BY <3>3, <3>4 DEF f, P
      <4>2. \A d \in NodeId : IsFiniteSet(P[d]) /\ Cardinality(P[d]) = Cardinality(Fibre(f, d))
        BY <3>5 DEF f
      <4> QED
        BY <4>1, <4>2, SumOfFibres
    <3>7. Tagged(P) = UNION {{d} \X Entries(d, n) : d \in NodeId}
      BY DEF P, Tagged
    <3> QED
      BY <3>1, <3>4, <3>6, <3>7
  <2>6. \A d \in NodeId : \A j \in DOMAIN dependents[d] :
          /\ dependents[d][j] \in needed
          /\ j > 1 => dependents[d][j - 1] <= dependents[d][j]
    BY DEF CountInv, Counted
  <2>7. ASSUME NEW d \in NodeId \ needed PROVE dependents[d] = <<>>
    <3>1. ASSUME NEW j \in DOMAIN dependents[d] PROVE FALSE
      <4> DEFINE n == dependents[d][j]
      <4>1. n \in needed /\ n \in NodeId
        BY <2>1, <2>6, <3>1
      <4>2. j \in Entries(d, n) /\ IsFiniteSet(Entries(d, n))
        BY <2>1, <3>1, EntriesType DEF Entries
      <4>3. Cardinality(Entries(d, n)) # 0
        BY <4>2, FS_EmptySet
      <4>4. Multiplicity(n, d) # 0
        BY <2>3, <4>1, <4>3 DEF CountInv
      <4>5. {p \in DOMAIN Deps[n] : Deps[n][p] = d} # {}
        BY <4>4, FS_EmptySet DEF Multiplicity
      <4>6. d \in DepSet(n)
        BY <4>5 DEF DepSet, Range
      <4>7. DepSet(n) \subseteq needed
        BY <4>1, RangeEmpty DEF SearchInv
      <4> QED
        BY <4>6, <4>7, <2>7
    <3>2. dependents[d] \in Seq(NodeId)
      BY <2>1
    <3>3. Len(dependents[d]) = 0
      <4>1. Len(dependents[d]) \in Nat /\ DOMAIN dependents[d] = 1 .. Len(dependents[d])
        BY <3>2
      <4>2. 1 \notin 1 .. Len(dependents[d])
        BY <3>1, <4>1
      <4> QED
        BY <4>1, <4>2
    <3> QED
      BY <3>2, <3>3
  <2>8. \A n \in NodeId \ needed : indeg[n] = 0
    BY <2>3 DEF CountInv
  <2> QED
    BY <2>4, <2>5, <2>6, <2>7, <2>8 DEF TablesBalance
<1>2. Spec => [](TypeInv /\ SearchInv /\ CountInv)
  BY InitTypes, InitSearch, InitCount, TypeStep, SearchStep, CountStep, PTL DEF Spec
<1> QED
  BY <1>1, <1>2, PTL
-----------------------------------------------------------------------------
(***************************************************************************)
(* The loops as one step. Until they return, the tables an executor reads  *)
(* are still the initial ones; the step that returns writes those of Seed. *)
(***************************************************************************)
Shown == <<outs, Verdict, Seeding!tables>>

\* An instance of Kahn speaks of the same graph.
LEMMA SameGraph ==
  /\ Seeding!NodeId = NodeId
  /\ Seeding!None = None
  /\ \A f : Seeding!Range(f) = Range(f)
  /\ \A ids : Seeding!Cone(ids) = Cone(ids)
  /\ \A S : Seeding!Ascending(S) = Ascending(S)
<1>1. Seeding!NodeId = NodeId
  BY DEF Seeding!NodeId, NodeId
<1>2. \A f : Seeding!Range(f) = Range(f)
  BY DEF Seeding!Range, Range
<1>3. \A n : Seeding!DepSet(n) = DepSet(n)
  BY <1>2 DEF Seeding!DepSet, DepSet
<1>4. \A S : Seeding!DepClosed(S) <=> DepClosed(S)
  BY <1>3 DEF Seeding!DepClosed, DepClosed
<1>5. \A ids : Seeding!Cone(ids) = Cone(ids)
  BY <1>1, <1>4 DEF Seeding!Cone, Cone
<1>6. \A S : Seeding!Cardinality(S) = Cardinality(S)
  BY DEF Seeding!Cardinality, Cardinality
<1>7. \A S, n : Seeding!Rank(S, n) = Rank(S, n)
  BY <1>6 DEF Seeding!Rank, Rank
<1>8. \A S : Seeding!Ascending(S) = Ascending(S)
  BY <1>6, <1>7 DEF Seeding!Ascending, Ascending
<1> QED
  BY <1>1, <1>2, <1>5, <1>8 DEF Seeding!None, None

\* No step but the two that return shows anything.
LEMMA HiddenSteps ==
  ASSUME pc \notin {"missing", "done"}, pc' \notin {"missing", "done"}, outs' = outs
  PROVE  UNCHANGED Shown
<1>1. Verdict' = Verdict
  BY DEF Verdict
<1>2. UNCHANGED Seeding!tables
  BY DEF Seeding!tables
<1> QED
  BY <1>1, <1>2 DEF Shown

LEMMA RefusalStep == TypeInv /\ OutputMissing => Refused
<1> SUFFICES ASSUME TypeInv, OutputMissing PROVE Refused
  OBVIOUS
<1>1. Len(outs) \in Nat /\ outs \in Seq(Key) /\ DOMAIN outs = 1 .. Len(outs)
  BY OutsFacts DEF TypeInv, TypeOK
<1>2. k \in DOMAIN outs /\ outs[k] \notin NodeId
  BY <1>1 DEF TypeInv, TypeOK, OutputMissing
<1>3. outs[k] \in UnknownKeys
  BY <1>1, <1>2 DEF Key
<1>4. \A h \in 1 .. k - 1 : outs[h] \in NodeId
  BY DEF TypeInv, Control
<1>5. Seeding!MissingOutput(outs[k])
  BY <1>2, <1>4, SameGraph DEF Seeding!MissingOutput
<1>6. pc = "push" /\ pc' = "missing" /\ missing' = <<outs[k]>> /\ outs' = outs
  BY DEF OutputMissing, Some
<1>7. Verdict' = [tag |-> "OutputMissing", key |-> outs[k]]
  BY <1>6 DEF Verdict
<1>8. UNCHANGED Seeding!tables
  BY <1>6 DEF Seeding!tables
<1> QED
  BY <1>3, <1>5, <1>6, <1>7, <1>8 DEF Refused

LEMMA AcceptedStep ==
  ASSUME TypeInv, SearchInv, CountInv, CountDone,
         NeededIsCone, MissingIsFirst
  PROVE  Accepted
<1>1. /\ pc = "count" /\ pc' = "done" /\ i = NodeCount /\ outs' = outs
      /\ needed' = needed /\ indeg' = indeg
  BY DEF CountDone, tables
<1>2. Range(outs) \subseteq NodeId
  BY <1>1 DEF MissingIsFirst
<1>3. needed = Cone(Range(outs))
  BY <1>1 DEF NeededIsCone
<1>4. indeg = [n \in NodeId |-> IF n \in needed THEN Len(Deps[n]) ELSE 0]
  <2>1. \A n \in NodeId : n < NodeCount
    BY DagAssumption DEF NodeId
  <2>2. \A n \in NodeId : indeg[n] = IF n \in needed THEN Len(Deps[n]) ELSE 0
    BY <1>1, <2>1 DEF CountInv, Counted
  <2>3. indeg \in [NodeId -> Nat]
    BY DEF TypeInv, TypeOK
  <2> QED
    BY <2>2, <2>3
<1>5. Verdict' = Verdict
  BY <1>1 DEF Verdict
<1>6. Seeding!Seed
  BY <1>1, <1>2, <1>3, <1>4, SameGraph DEF Seeding!Seed, Seeding!InitialIndegree
<1> QED
  BY <1>5, <1>6 DEF Accepted

(***************************************************************************)
(* mark_needed and build_kahn_metadata implement the single step by which  *)
(* the executors' models start: whatever the graph and the request, they   *)
(* show nothing before they return, and then exactly the tables of Seed or *)
(* the refusal of the first unknown key.                                   *)
(***************************************************************************)
THEOREM AnalysisRefines == Spec => AnalysedAtOnce
<1> DEFINE AnalysisInv == TypeInv /\ SearchInv /\ CountInv /\ NeededIsCone /\ MissingIsFirst
<1>1. Init => Seeding!TablesInit
  BY SameGraph DEF Init, Seeding!TablesInit, Verdict
<1>2. AnalysisInv /\ [Next]_vars => [Accepted \/ Refused]_Shown
  <2> SUFFICES ASSUME AnalysisInv, [Next]_vars PROVE Accepted \/ Refused \/ UNCHANGED Shown
    OBVIOUS
  <2>1. CASE PushOutput \/ AllPushed \/ SkipVisited \/ Visit \/ SearchDone \/ CountNode \/ SkipNode
    <3>1. pc \notin {"missing", "done"} /\ pc' \notin {"missing", "done"} /\ outs' = outs
      BY <2>1 DEF PushOutput, AllPushed, SkipVisited, Visit, SearchDone, CountNode, SkipNode
    <3> QED
      BY <3>1, HiddenSteps
  <2>2. CASE OutputMissing
    BY <2>2, RefusalStep
  <2>3. CASE CountDone
    BY <2>3, AcceptedStep
  <2>4. CASE UNCHANGED vars
    BY <2>4 DEF vars, tables, Shown, Verdict, Seeding!tables
  <2> QED
    BY <2>1, <2>2, <2>3, <2>4 DEF Next, Finished
<1>3. Spec => [](TypeInv /\ SearchInv /\ CountInv)
  BY InitTypes, InitSearch, InitCount, TypeStep, SearchStep, CountStep, PTL DEF Spec
<1>4. Spec => []AnalysisInv
  BY <1>3, NeededCorrect, FirstMissing, PTL
<1> QED
  BY <1>1, <1>2, <1>4, PTL DEF Spec, AnalysedAtOnce, Shown

(***************************************************************************)
(* What release_dependents decrements: when the analysis has returned, a   *)
(* needed node stands in the list of each dep once per occurrence among    *)
(* its deps, and no other node stands in any list.                         *)
(***************************************************************************)
THEOREM ListsMatchDeps ==
  Spec => [](pc = "done" =>
               \A d, n \in NodeId :
                 Cardinality(Entries(d, n)) = IF n \in needed THEN Multiplicity(n, d) ELSE 0)
<1>1. CountInv /\ pc = "done" =>
        \A d, n \in NodeId :
          Cardinality(Entries(d, n)) = IF n \in needed THEN Multiplicity(n, d) ELSE 0
  <2>1. \A n \in NodeId : n < NodeCount
    BY DagAssumption DEF NodeId
  <2> QED
    BY <2>1 DEF CountInv, Counted
<1>2. Spec => [](TypeInv /\ SearchInv /\ CountInv)
  BY InitTypes, InitSearch, InitCount, TypeStep, SearchStep, CountStep, PTL DEF Spec
<1> QED
  BY <1>1, <1>2, PTL
=============================================================================
