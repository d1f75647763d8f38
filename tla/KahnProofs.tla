----------------------------- MODULE KahnProofs -----------------------------
(***************************************************************************)
(* Kahn's bookkeeping, for every graph and request: what Seed and Record   *)
(* keep true of the tables, whichever executor runs them.                  *)
(***************************************************************************)
EXTENDS TraceObserver, DagProofs

Unresolved(n) == {i \in 1 .. Len(Deps[n]) : vals[Deps[n][i]] = None}

ValuedNodes == {n \in NodeId : vals[n] # None}

\* The nodes that can be evaluated now. An executor has each of them in hand once.
StartableNodes == {n \in needed : vals[n] = None /\ DepsDone(n)}

KahnTypes ==
  /\ outs \in Requests
  /\ needed \in SUBSET NodeId
  /\ indeg \in [NodeId -> Int]
  /\ vals \in [NodeId -> Option(Value)]

\* Values are where some order of evaluation reaches, and are what they should be.
MeaningOK ==
  \A n \in NodeId : vals[n] # None => n \in Evaluable(needed) /\ vals[n] = Some(Meaning[n])

(***************************************************************************)
(* A needed node's in-degree is the number of its dep occurrences that     *)
(* have no value yet, and values are only where they may be.               *)
(***************************************************************************)
KahnOK ==
  /\ KahnTypes
  /\ DepClosed(needed)
  /\ needed # {} => Range(outs) \subseteq needed
  /\ \A n \in needed : indeg[n] = Cardinality(Unresolved(n))
  /\ \A n \in NodeId : vals[n] # None => n \in needed /\ DepsDone(n)
  /\ MeaningOK

-----------------------------------------------------------------------------
(* Sequences without repetition.                                           *)

LEMMA AscendingOnce ==
  ASSUME NEW S \in SUBSET NodeId
  PROVE  /\ Ascending(S) \in Seq(NodeId)
         /\ IsInjective(Ascending(S))
         /\ Range(Ascending(S)) = S
<1>1. IsFiniteSet(S) /\ S \in SUBSET Nat
  BY NodeSets
<1>2. /\ Cardinality(S) \in Nat
      /\ Ascending(S) \in [1 .. Cardinality(S) -> S]
      /\ \A k \in 1 .. Cardinality(S) : Rank(S, Ascending(S)[k]) = k - 1
      /\ \A n \in S : \E k \in 1 .. Cardinality(S) : Ascending(S)[k] = n
  BY <1>1, AscendingProperties
<1>3. ASSUME NEW i \in 1 .. Cardinality(S), NEW j \in 1 .. Cardinality(S),
             Ascending(S)[i] = Ascending(S)[j]
      PROVE  i = j
  <2>1. i - 1 = j - 1
    BY <1>2, <1>3
  <2> QED BY <2>1, <1>2
<1>4. IsInjective(Ascending(S))
  BY <1>2, <1>3 DEF IsInjective
<1>5. Range(Ascending(S)) = S
  BY <1>2 DEF Range
<1> QED BY <1>4, <1>5, AscendingIsSeq

LEMMA TailOnce ==
  ASSUME NEW S, NEW s \in Seq(S), s # <<>>, IsInjective(s)
  PROVE  /\ Head(s) \in Range(s)
         /\ Tail(s) \in Seq(S)
         /\ IsInjective(Tail(s))
         /\ Range(Tail(s)) = Range(s) \ {Head(s)}
<1>1. /\ Len(s) \in Nat \ {0} /\ DOMAIN s = 1 .. Len(s)
      /\ Head(s) = s[1]
      /\ Tail(s) \in Seq(S) /\ Len(Tail(s)) = Len(s) - 1
      /\ DOMAIN Tail(s) = 1 .. Len(s) - 1
      /\ \A i \in 1 .. Len(s) - 1 : Tail(s)[i] = s[i + 1]
  BY HeadTailProperties, EmptySeq, LenProperties
<1>2. Head(s) \in Range(s)
  BY <1>1 DEF Range
<1>3. IsInjective(Tail(s))
  <2> SUFFICES ASSUME NEW i \in 1 .. Len(s) - 1, NEW j \in 1 .. Len(s) - 1,
                      Tail(s)[i] = Tail(s)[j]
               PROVE  i = j
    BY <1>1 DEF IsInjective
  <2>1. s[i + 1] = s[j + 1] /\ i + 1 \in DOMAIN s /\ j + 1 \in DOMAIN s
    BY <1>1
  <2>2. i + 1 = j + 1
    BY <2>1 DEF IsInjective
  <2> QED BY <2>2
<1>4. ASSUME NEW x \in Range(Tail(s)) PROVE x \in Range(s) \ {Head(s)}
  <2>1. PICK i \in 1 .. Len(s) - 1 : Tail(s)[i] = x
    BY <1>1, <1>4 DEF Range
  <2>2. s[i + 1] = x /\ i + 1 \in DOMAIN s /\ 1 \in DOMAIN s /\ i + 1 # 1
    BY <1>1, <2>1
  <2>3. s[i + 1] # s[1]
    BY <2>2 DEF IsInjective
  <2> QED BY <1>1, <2>2, <2>3 DEF Range
<1>5. ASSUME NEW x \in Range(s) \ {Head(s)} PROVE x \in Range(Tail(s))
  <2>1. PICK i \in 1 .. Len(s) : s[i] = x
    BY <1>1 DEF Range
  <2>2. i # 1 /\ i - 1 \in 1 .. Len(s) - 1
    BY <1>1, <2>1
  <2>3. Tail(s)[i - 1] = s[i - 1 + 1] /\ i - 1 + 1 = i
    BY <1>1, <2>2
  <2> QED BY <1>1, <2>1, <2>2, <2>3 DEF Range
<1> QED BY <1>1, <1>2, <1>3, <1>4, <1>5

LEMMA ConcatOnce ==
  ASSUME NEW S, NEW s \in Seq(S), NEW t \in Seq(S),
         IsInjective(s), IsInjective(t), Range(s) \cap Range(t) = {}
  PROVE  /\ s \o t \in Seq(S)
         /\ IsInjective(s \o t)
         /\ Range(s \o t) = Range(s) \cup Range(t)
<1> DEFINE u == s \o t
<1>1. /\ Len(s) \in Nat /\ DOMAIN s = 1 .. Len(s)
      /\ Len(t) \in Nat /\ DOMAIN t = 1 .. Len(t)
      /\ u \in Seq(S) /\ Len(u) = Len(s) + Len(t) /\ DOMAIN u = 1 .. Len(s) + Len(t)
      /\ \A i \in 1 .. Len(s) + Len(t) : u[i] = IF i <= Len(s) THEN s[i] ELSE t[i - Len(s)]
  BY ConcatProperties, LenProperties
<1> HIDE DEF u
<1>2. \A i \in DOMAIN u : \/ i \in DOMAIN s /\ u[i] = s[i] /\ u[i] \in Range(s)
                          \/ i - Len(s) \in DOMAIN t /\ u[i] = t[i - Len(s)] /\ u[i] \in Range(t)
  BY <1>1 DEF Range
<1>3. IsInjective(u)
  <2> SUFFICES ASSUME NEW i \in DOMAIN u, NEW j \in DOMAIN u, u[i] = u[j]
               PROVE  i = j
    BY DEF IsInjective
  <2>1. CASE i \in DOMAIN s /\ u[i] = s[i] /\ u[i] \in Range(s)
    <3>1. j \in DOMAIN s /\ u[j] = s[j]
      BY <2>1, <1>2
    <3> QED BY <2>1, <3>1 DEF IsInjective
  <2>2. CASE i - Len(s) \in DOMAIN t /\ u[i] = t[i - Len(s)] /\ u[i] \in Range(t)
    <3>1. j - Len(s) \in DOMAIN t /\ u[j] = t[j - Len(s)]
      BY <2>2, <1>2
    <3>2. i - Len(s) = j - Len(s)
      BY <2>2, <3>1 DEF IsInjective
    <3> QED BY <3>2, <1>1
  <2> QED BY <1>2, <2>1, <2>2
<1>4. Range(u) \subseteq Range(s) \cup Range(t)
  <2> SUFFICES ASSUME NEW i \in DOMAIN u PROVE u[i] \in Range(s) \cup Range(t)
    BY DEF Range
  <2> QED BY <1>2
<1>5. Range(s) \cup Range(t) \subseteq Range(u)
  <2>1. \A i \in DOMAIN s : i \in DOMAIN u /\ u[i] = s[i]
    BY <1>1
  <2>2. \A i \in DOMAIN t : i + Len(s) \in DOMAIN u /\ u[i + Len(s)] = t[i]
    BY <1>1
  <2> QED BY <2>1, <2>2 DEF Range
<1> QED BY <1>1, <1>3, <1>4, <1>5 DEF u

-----------------------------------------------------------------------------
(* Arguments and values.                                                   *)

\* A closure applied to values yields a value.
LEMMA TaskYields ==
  ASSUME KahnTypes, NEW n \in NodeId, DepsDone(n)
  PROVE  ValueOf(n, Args(n)) \in Value
<1>1. ASSUME NEW i \in 1 .. Len(Deps[n]) PROVE vals[Deps[n][i]][1] \in Value
  <2>1. Deps[n][i] \in NodeId /\ vals[Deps[n][i]] # None
    BY DepLists DEF DepsDone
  <2>2. vals[Deps[n][i]] \in Option(Value)
    BY <2>1 DEF KahnTypes
  <2> QED BY <2>1, <2>2, OptionProperties
<1>2. Args(n) \in [1 .. Len(Deps[n]) -> Value]
  BY <1>1 DEF Args
<1> QED BY <1>2, ValueAssumption

LEMMA SourceYields ==
  ASSUME KahnTypes, NEW n \in Sources
  PROVE  n \in NodeId /\ Args(n) = <<>> /\ DepsDone(n) /\ ValueOf(n, <<>>) \in Value
<1>1. n \in NodeId /\ Deps[n] = <<>> /\ Len(Deps[n]) = 0
  BY DagAssumption
<1>2. Args(n) = <<>>
  BY <1>1 DEF Args
<1>3. DepsDone(n)
  BY <1>1 DEF DepsDone, DepSet, Range
<1> QED BY <1>1, <1>2, <1>3, TaskYields

(***************************************************************************)
(* A needed node whose deps have values is reached by an order of          *)
(* evaluation, and its closure, applied to those values, gives its meaning.*)
(***************************************************************************)
LEMMA ArgsMean ==
  ASSUME KahnOK, NEW n \in needed, DepsDone(n)
  PROVE  n \in Evaluable(needed) /\ ValueOf(n, Args(n)) = Meaning[n]
<1>1. n \in NodeId /\ needed \in SUBSET NodeId
  BY DEF KahnOK, KahnTypes
<1>2. ASSUME NEW d \in DepSet(n)
      PROVE  d \in Evaluable(needed) /\ vals[d] = Some(Meaning[d])
  <2>1. d \in NodeId /\ vals[d] # None
    BY <1>1, DepLists DEF DepsDone
  <2> QED BY <2>1 DEF KahnOK, MeaningOK
<1>3. n \in Evaluable(needed)
  BY <1>1, <1>2, EvaluableStep
<1>4. n \in Evaluable(NodeId)
  BY <1>1, <1>3, EvaluableGrows
<1>5. \A i \in 1 .. Len(Deps[n]) : vals[Deps[n][i]][1] = Meaning[Deps[n][i]]
  BY <1>1, <1>2, DepLists DEF Some
<1>6. Args(n) = [i \in 1 .. Len(Deps[n]) |-> Meaning[Deps[n][i]]]
  BY <1>5 DEF Args
<1> QED BY <1>3, <1>4, <1>6, MeaningSolves

LEMMA SubsetDifference ==
  ASSUME NEW S, IsFiniteSet(S), NEW T, T \subseteq S
  PROVE  Cardinality(S \ T) = Cardinality(S) - Cardinality(T)
<1>1. S \cap T = T
  OBVIOUS
<1> QED BY <1>1, FS_Difference

LEMMA UnresolvedFacts ==
  ASSUME NEW n \in NodeId
  PROVE  /\ IsFiniteSet(Unresolved(n))
         /\ Cardinality(Unresolved(n)) \in Nat
         /\ Cardinality(Unresolved(n)) = 0 <=> DepsDone(n)
<1>1. IsFiniteSet(1 .. Len(Deps[n]))
  BY DepLists, FS_Interval
<1>2. IsFiniteSet(Unresolved(n))
  BY <1>1, FS_Subset DEF Unresolved
<1>3. Unresolved(n) = {} <=> DepsDone(n)
  BY DepLists DEF Unresolved, DepsDone
<1> QED BY <1>2, <1>3, FS_CardinalityType, FS_EmptySet

-----------------------------------------------------------------------------
(***************************************************************************)
(* Before Seed nothing is needed, and the tables are as they should be.    *)
(***************************************************************************)
LEMMA TablesInitOK == ASSUME TablesInit PROVE KahnOK /\ StartableNodes = {}
<1>1. KahnTypes
  BY OptionProperties DEF TablesInit, KahnTypes
<1>2. StartableNodes = {} /\ DepClosed(needed) /\ MeaningOK
  BY DEF TablesInit, StartableNodes, DepClosed, MeaningOK
<1> QED BY <1>1, <1>2 DEF KahnOK, TablesInit

(***************************************************************************)
(* Seed queues the startable nodes, each once.                             *)
(***************************************************************************)
LEMMA SeedOK ==
  ASSUME KahnOK, needed = {}, Seed
  PROVE  /\ KahnOK'
         /\ ready' \in Seq(NodeId)
         /\ IsInjective(ready')
         /\ Range(ready') = StartableNodes'
         /\ Range(outs') \subseteq needed'
<1>1. /\ outs' = outs /\ vals' = vals /\ needed' = Cone(Range(outs))
      /\ indeg' = [n \in NodeId |-> IF n \in needed' THEN InitialIndegree(n) ELSE 0]
      /\ ready' = Ascending({n \in needed' : indeg'[n] = 0})
      /\ Range(outs) \subseteq NodeId
  BY DEF Seed
<1>2. \A n \in NodeId : vals[n] = None
  BY DEF KahnOK
<1>3. needed' \subseteq NodeId /\ Range(outs) \subseteq needed' /\ DepClosed(needed')
  BY <1>1, ConeProperties
<1>4. indeg' \in [NodeId -> Int]
  BY <1>1, DepLists DEF InitialIndegree
<1>5. KahnTypes'
  BY <1>1, <1>3, <1>4 DEF KahnOK, KahnTypes
<1>6. ASSUME NEW n \in NodeId
      PROVE  Unresolved(n)' = 1 .. Len(Deps[n]) /\ Cardinality(Unresolved(n)') = Len(Deps[n])
  <2>1. Unresolved(n)' = 1 .. Len(Deps[n])
    BY <1>1, <1>2, DepLists DEF Unresolved
  <2>2. Len(Deps[n]) \in Nat
    BY DepLists
  <2>3. Cardinality(1 .. Len(Deps[n])) = Len(Deps[n])
    BY <2>2, FS_Interval
  <2> QED BY <2>1, <2>3
<1>7. \A n \in needed' : indeg'[n] = Cardinality(Unresolved(n)')
  BY <1>1, <1>3, <1>6 DEF InitialIndegree
<1>8. \A n \in NodeId : DepsDone(n)' <=> Len(Deps[n]) = 0
  <2> TAKE n \in NodeId
  <2>1. DepsDone(n)' <=> DepSet(n) = {}
    BY <1>1, <1>2, DepLists DEF DepsDone
  <2> QED BY <2>1, DepLists
<1>9. StartableNodes' = {n \in needed' : indeg'[n] = 0}
  BY <1>1, <1>2, <1>3, <1>8 DEF StartableNodes, InitialIndegree
<1>10. KahnOK'
  BY <1>1, <1>2, <1>3, <1>5, <1>7 DEF KahnOK, DepClosed, MeaningOK
<1> QED BY <1>1, <1>3, <1>9, <1>10, AscendingOnce

(***************************************************************************)
(* Record, for a startable node d: the in-degrees stay true, so that the   *)
(* released nodes are exactly those that become startable.                 *)
(***************************************************************************)
LEMMA RecordOK ==
  ASSUME KahnOK, NEW d \in StartableNodes, NEW v \in Value, v = ValueOf(d, Args(d)), NEW q,
         Record(d, v, q), UNCHANGED <<outs, needed>>
  PROVE  /\ KahnOK'
         /\ Released(d) \subseteq needed
         /\ Released(d) \cap StartableNodes = {}
         /\ StartableNodes' = (StartableNodes \ {d}) \cup Released(d)
         /\ ValuedNodes' = ValuedNodes \cup {d}
         /\ d \notin ValuedNodes
<1>1. /\ KahnTypes /\ d \in NodeId /\ d \in needed /\ vals[d] = None /\ DepsDone(d)
      /\ needed \subseteq NodeId
  BY DEF KahnOK, KahnTypes, StartableNodes
<1>2. vals' = [vals EXCEPT ![d] = Some(v)] /\ indeg' = IndegreeAfter(d)
      /\ outs' = outs /\ needed' = needed
  BY DEF Record
<1>3. /\ vals'[d] = Some(v) /\ Some(v) # None
      /\ \A n \in NodeId : n # d => vals'[n] = vals[n]
      /\ vals' \in [NodeId -> Option(Value)]
  BY <1>1, <1>2, OptionProperties DEF KahnTypes
<1>4. indeg' \in [NodeId -> Int]
  BY <1>1, <1>2, MultiplicityType DEF KahnTypes, IndegreeAfter, Dependents
<1>5. ASSUME NEW n \in needed
      PROVE  indeg'[n] = Cardinality(Unresolved(n)')
  <2> DEFINE at == {i \in DOMAIN Deps[n] : Deps[n][i] = d}
  <2>1. n \in NodeId /\ indeg[n] = Cardinality(Unresolved(n)) /\ IsFiniteSet(Unresolved(n))
        /\ Cardinality(Unresolved(n)) \in Nat
    BY <1>1, UnresolvedFacts DEF KahnOK
  <2>2. at \subseteq Unresolved(n) /\ Unresolved(n)' = Unresolved(n) \ at
    BY <1>1, <1>3, <2>1, DepLists DEF Unresolved
  <2>3. Cardinality(Unresolved(n)') = Cardinality(Unresolved(n)) - Cardinality(at)
    <3>1. Cardinality(Unresolved(n) \ at) = Cardinality(Unresolved(n)) - Cardinality(at)
      BY <2>1, <2>2, SubsetDifference
    <3> QED BY <2>2, <3>1
  <2>4. Cardinality(at) = Multiplicity(n, d)
    BY DEF Multiplicity
  <2>5. CASE n \in Dependents(d)
    BY <1>2, <2>1, <2>3, <2>4, <2>5 DEF IndegreeAfter
  <2>6. CASE n \notin Dependents(d)
    <3>1. at = {}
      BY <2>1, <2>6, DepLists DEF Dependents
    <3>2. Unresolved(n)' = Unresolved(n)
      BY <2>2, <3>1
    <3> QED BY <1>2, <2>1, <2>6, <3>2 DEF IndegreeAfter
  <2> QED BY <2>5, <2>6
<1>6. \A n \in NodeId : DepsDone(n)' <=> \A e \in DepSet(n) : e = d \/ vals[e] # None
  BY <1>3, DepLists DEF DepsDone
<1>7. ASSUME NEW n \in NodeId, vals'[n] # None
      PROVE  n \in needed /\ DepsDone(n)'
  <2>1. CASE n = d
    BY <1>1, <1>6, <2>1 DEF DepsDone
  <2>2. CASE n # d
    BY <1>3, <1>6, <1>7, <2>2 DEF KahnOK, DepsDone
  <2> QED BY <2>1, <2>2
<1>8. KahnOK'
  <2>1. KahnTypes'
    BY <1>1, <1>2, <1>3, <1>4 DEF KahnTypes
  <2>2. DepClosed(needed)' /\ (needed # {} => Range(outs) \subseteq needed)'
    BY <1>2 DEF KahnOK, DepClosed
  <2>3. MeaningOK'
    <3>1. d \in Evaluable(needed) /\ vals'[d] = Some(Meaning[d])
      BY <1>1, <1>3, ArgsMean
    <3>2. Evaluable(needed)' = Evaluable(needed)
      BY <1>2 DEF Evaluable
    <3> QED BY <1>3, <3>1, <3>2 DEF KahnOK, MeaningOK
  <2> QED BY <1>2, <1>5, <1>7, <2>1, <2>2, <2>3 DEF KahnOK
<1>9. \A n \in NodeId : n \in Released(d) <=> n \in needed /\ d \in DepSet(n) /\ DepsDone(n)'
  <2> TAKE n \in NodeId
  <2>1. n \in Released(d) <=> n \in Dependents(d) /\ indeg'[n] = 0
    BY <1>2 DEF Released
  <2>2. n \in needed => (indeg'[n] = 0 <=> DepsDone(n)')
    <3>1. n \in needed => (Cardinality(Unresolved(n)') = 0 <=> Unresolved(n)' = {})
      <4>1. IsFiniteSet(1 .. Len(Deps[n])) /\ Unresolved(n)' \subseteq 1 .. Len(Deps[n])
        BY DepLists, FS_Interval DEF Unresolved
      <4>2. IsFiniteSet(Unresolved(n)')
        BY <4>1, FS_Subset
      <4> QED BY <4>2, FS_EmptySet
    <3>2. Unresolved(n)' = {} <=> DepsDone(n)'
      BY DepLists DEF Unresolved, DepsDone
    <3> QED BY <1>5, <3>1, <3>2
  <2> QED BY <2>1, <2>2 DEF Dependents
<1>10. ASSUME NEW n \in Released(d)
       PROVE  n \in needed /\ n # d /\ ~ DepsDone(n) /\ vals[n] = None /\ DepsDone(n)'
  <2>1. n \in needed /\ n \in NodeId /\ d \in DepSet(n) /\ DepsDone(n)'
    BY <1>1, <1>9 DEF Released, Dependents
  <2>2. ~ DepsDone(n)
    BY <1>1, <2>1 DEF DepsDone
  <2> QED BY <1>1, <2>1, <2>2 DEF KahnOK
<1>11. ASSUME NEW n \in needed, n # d, vals[n] = None, DepsDone(n)', ~ DepsDone(n)
       PROVE  n \in Released(d)
  BY <1>1, <1>6, <1>9, <1>11 DEF DepsDone
<1>12. StartableNodes' = (StartableNodes \ {d}) \cup Released(d)
  <2>1. ASSUME NEW n \in StartableNodes' PROVE n \in (StartableNodes \ {d}) \cup Released(d)
    BY <1>1, <1>2, <1>3, <1>11, <2>1 DEF StartableNodes
  <2>2. ASSUME NEW n \in StartableNodes, n # d PROVE n \in StartableNodes'
    BY <1>1, <1>2, <1>3, <1>6, <2>2 DEF StartableNodes, DepsDone
  <2>3. ASSUME NEW n \in Released(d) PROVE n \in StartableNodes'
    BY <1>1, <1>2, <1>3, <1>10, <2>3 DEF StartableNodes
  <2> QED BY <2>1, <2>2, <2>3
<1>13. ValuedNodes' = ValuedNodes \cup {d} /\ d \notin ValuedNodes
  BY <1>1, <1>3 DEF ValuedNodes
<1> QED BY <1>8, <1>10, <1>12, <1>13 DEF StartableNodes

-----------------------------------------------------------------------------
(***************************************************************************)
(* With nothing startable, the nodes the executor calls remaining are the  *)
(* needed ones without a value; and if all have one, all outputs are there.*)
(***************************************************************************)
LEMMA RemainingIsUnvalued ==
  ASSUME KahnOK, StartableNodes = {}
  PROVE  Remaining = {n \in needed : vals[n] = None}
<1> SUFFICES ASSUME NEW n \in needed
             PROVE  indeg[n] > 0 <=> vals[n] = None
  BY DEF Remaining
<1>1. n \in NodeId /\ indeg[n] = Cardinality(Unresolved(n))
  BY DEF KahnOK, KahnTypes
<1>2. indeg[n] > 0 <=> ~ DepsDone(n)
  BY <1>1, UnresolvedFacts
<1> QED BY <1>1, <1>2 DEF KahnOK, StartableNodes

(***************************************************************************)
(* What a completion takes from the nodes with an in-degree it adds to the *)
(* ready queue, so a needed node is always in one of the two or past both. *)
(***************************************************************************)
LEMMA RemainingFacts ==
  ASSUME KahnOK
  PROVE  /\ Remaining \in SUBSET NodeId /\ IsFiniteSet(Remaining) /\ Cardinality(Remaining) \in Nat
         /\ \A n \in needed : indeg[n] \in Nat
<1>1. needed \subseteq NodeId
  BY DEF KahnOK, KahnTypes
<1>2. Remaining \in SUBSET NodeId
  BY <1>1 DEF Remaining
<1>3. \A n \in needed : indeg[n] \in Nat
  BY <1>1, UnresolvedFacts DEF KahnOK
<1> QED BY <1>2, <1>3, NodeSets, FS_CardinalityType

LEMMA IndegreesAfter == ASSUME KahnOK' PROVE \A n \in needed' : indeg'[n] \in Nat
<1> TAKE n \in needed'
<1>1. n \in NodeId /\ indeg'[n] = Cardinality(Unresolved(n)')
  BY DEF KahnOK, KahnTypes
<1>2. Unresolved(n)' \subseteq 1 .. Len(Deps[n]) /\ IsFiniteSet(1 .. Len(Deps[n]))
  BY <1>1, DepLists, FS_Interval DEF Unresolved
<1> QED BY <1>1, <1>2, FS_Subset, FS_CardinalityType

LEMMA AscendingLength ==
  ASSUME NEW S \in SUBSET NodeId
  PROVE  Ascending(S) \in Seq(NodeId) /\ Len(Ascending(S)) = Cardinality(S)
<1>1. Cardinality(S) \in Nat /\ Ascending(S) \in [1 .. Cardinality(S) -> S]
  BY NodeSets, AscendingProperties
<1> QED BY <1>1, AscendingOnce, LenProperties

LEMMA SeedCount ==
  ASSUME KahnOK, needed = {}, Seed
  PROVE  /\ Len(ready') + Cardinality(Remaining') = Cardinality(needed')
         /\ Cardinality(needed') \in Nat /\ Cardinality(needed') <= NodeCount
         /\ Len(ready') \in Nat /\ Cardinality(Remaining') \in Nat
<1> DEFINE S == {n \in needed' : indeg'[n] = 0}
<1>1. KahnOK' /\ needed' \subseteq NodeId
  BY SeedOK DEF KahnOK, KahnTypes
<1>2. IsFiniteSet(needed') /\ Cardinality(needed') \in Nat /\ Cardinality(needed') <= NodeCount
  <2>1. NodeCount \in Nat
    BY DagAssumption
  <2>2. IsFiniteSet(NodeId) /\ Cardinality(NodeId) = NodeCount
    <3>1. /\ IsFiniteSet(0 .. NodeCount - 1)
          /\ 0 <= NodeCount - 1 => Cardinality(0 .. NodeCount - 1) = NodeCount - 1 - 0 + 1
          /\ 0 > NodeCount - 1 => Cardinality(0 .. NodeCount - 1) = 0
      BY <2>1, FS_Interval
    <3> QED BY <2>1, <3>1 DEF NodeId
  <2> QED BY <1>1, <2>2, FS_Subset, FS_CardinalityType
<1>3. \A n \in needed' : indeg'[n] \in Nat
  BY <1>1, IndegreesAfter
<1>4. Remaining' = needed' \ S /\ S \subseteq needed'
  BY <1>3 DEF Remaining
<1>5. Len(ready') = Cardinality(S)
  BY <1>1, AscendingLength DEF Seed
<1>6. Cardinality(Remaining') = Cardinality(needed') - Cardinality(S)
  BY <1>2, <1>4, SubsetDifference
<1>7. Cardinality(S) \in Nat /\ Cardinality(Remaining') \in Nat
  BY <1>2, <1>4, FS_Subset, FS_CardinalityType
<1> QED BY <1>2, <1>5, <1>6, <1>7

LEMMA RecordCount ==
  ASSUME KahnOK, NEW d \in StartableNodes, NEW v \in Value, v = ValueOf(d, Args(d)),
         NEW q \in Seq(NodeId), Record(d, v, q), UNCHANGED <<outs, needed>>
  PROVE  /\ \E k \in Nat : /\ Len(ready') = Len(q) + k
                           /\ Cardinality(Remaining') = Cardinality(Remaining) - k
         /\ Len(q) \in Nat /\ Len(ready') \in Nat /\ Cardinality(Remaining') \in Nat
<1> DEFINE R == Released(d)
<1>1. KahnOK' /\ R \subseteq needed /\ needed \subseteq NodeId
  BY RecordOK DEF KahnOK, KahnTypes
<1>2. indeg' = IndegreeAfter(d) /\ needed' = needed /\ ready' = q \o Ascending(R)
  BY DEF Record
<1>3. \A n \in needed : indeg[n] \in Nat /\ indeg'[n] \in Nat
  BY <1>1, <1>2, RemainingFacts, IndegreesAfter
<1>4. R \subseteq Remaining
  <2> SUFFICES ASSUME NEW n \in R PROVE indeg[n] # 0
    BY <1>1, <1>3 DEF Remaining
  <2>1. n \in needed /\ n \in NodeId /\ d \in DepSet(n) /\ vals[d] = None
    BY <1>1 DEF Released, Dependents, StartableNodes
  <2>2. ~ DepsDone(n)
    BY <2>1 DEF DepsDone
  <2> QED BY <2>1, <2>2, UnresolvedFacts DEF KahnOK
<1>5. Remaining' = Remaining \ R
  <2> SUFFICES ASSUME NEW n \in needed PROVE indeg'[n] = 0 <=> indeg[n] = 0 \/ n \in R
    BY <1>2, <1>3 DEF Remaining
  <2>1. CASE n \in Dependents(d)
    <3>1. n \in NodeId /\ d \in DepSet(n) /\ vals[d] = None
      BY <1>1, <2>1 DEF Dependents, StartableNodes
    <3>2. indeg[n] # 0
      BY <3>1, UnresolvedFacts DEF KahnOK, DepsDone
    <3> QED BY <1>2, <2>1, <3>2 DEF Released
  <2>2. CASE n \notin Dependents(d)
    BY <1>1, <1>2, <2>2 DEF Released, IndegreeAfter
  <2> QED BY <2>1, <2>2
<1>6. Cardinality(Remaining') = Cardinality(Remaining) - Cardinality(R)
      /\ Cardinality(Remaining') \in Nat
  BY <1>4, <1>5, RemainingFacts, SubsetDifference, FS_Subset, FS_CardinalityType
<1>7. Ascending(R) \in Seq(NodeId) /\ Len(Ascending(R)) = Cardinality(R) /\ Cardinality(R) \in Nat
  BY <1>1, AscendingLength, LenProperties
<1>8. Len(ready') = Len(q) + Cardinality(R) /\ Len(q) \in Nat
  BY <1>2, <1>7, ConcatProperties, LenProperties
<1> QED BY <1>6, <1>7, <1>8, RemainingFacts

LEMMA ValuedCount == ASSUME KahnOK, NEW d, d \notin ValuedNodes
                     PROVE  /\ Cardinality(ValuedNodes) \in Nat
                            /\ Cardinality(ValuedNodes \cup {d}) = Cardinality(ValuedNodes) + 1
<1>1. ValuedNodes \in SUBSET NodeId
  BY DEF ValuedNodes
<1>2. IsFiniteSet(ValuedNodes)
  BY <1>1, NodeSets
<1> QED BY <1>2, FS_AddElement, FS_CardinalityType

LEMMA CountSaysAll ==
  ASSUME KahnOK
  PROVE  /\ Cardinality(ValuedNodes) \in Nat
         /\ Cardinality(ValuedNodes) <= Cardinality(needed)
         /\ Cardinality(ValuedNodes) = Cardinality(needed) <=> \A n \in needed : vals[n] # None
<1>1. ValuedNodes \subseteq needed /\ IsFiniteSet(needed) /\ needed \subseteq NodeId
  BY NodeSets DEF KahnOK, KahnTypes, ValuedNodes
<1>2. /\ Cardinality(ValuedNodes) <= Cardinality(needed)
      /\ Cardinality(needed) = Cardinality(ValuedNodes) => needed = ValuedNodes
      /\ IsFiniteSet(ValuedNodes)
  BY <1>1, FS_Subset
<1>3. needed = ValuedNodes <=> \A n \in needed : vals[n] # None
  BY <1>1 DEF ValuedNodes
<1> QED BY <1>2, <1>3, FS_CardinalityType

LEMMA CollectedOk ==
  ASSUME KahnOK, needed # {}, \A n \in needed : vals[n] # None
  PROVE  /\ Collected = [tag |-> "Ok",
                         outputs |-> [n \in NodeId |-> IF n \in Range(outs) THEN vals[n] ELSE None]]
         /\ Collected.outputs = Answer(outs)
<1>1. \A i \in DOMAIN outs : vals[outs[i]] # None
  BY DEF KahnOK, Range
<1>2. Collected = [tag |-> "Ok",
                   outputs |-> [n \in NodeId |-> IF n \in Range(outs) THEN vals[n] ELSE None]]
  BY <1>1 DEF Collected
<1>3. \A n \in Range(outs) : vals[n] = Some(Meaning[n])
  BY DEF KahnOK, KahnTypes, MeaningOK
<1>4. [n \in NodeId |-> IF n \in Range(outs) THEN vals[n] ELSE None] = Answer(outs)
  BY <1>3 DEF Answer
<1> QED BY <1>2, <1>4

-----------------------------------------------------------------------------
(***************************************************************************)
(* What the observer knows, whichever executor tells it. Its marks are     *)
(* times up to now, each node is marked as started once and after its      *)
(* deps, and the marks follow the evaluation: a node is marked ready once  *)
(* its deps have values and are marked finished, it has a value only after *)
(* it is marked finished.                                                  *)
(***************************************************************************)
StartedNodes(o) == {n \in NodeId : o.started_at[n] # None}

ObsTypes(o) ==
  /\ clock \in Nat
  /\ o \in [ready_at : [NodeId -> Option(0 .. clock)],
            started_at : [NodeId -> Option(0 .. clock)],
            finished_at : [NodeId -> Option(0 .. clock)],
            worker_id : [NodeId -> Option(Nat)],
            execution_order : Seq(NodeId),
            max_frontier_width : Nat]

ObsOrder(o) ==
  /\ IsInjective(o.execution_order)
  /\ Range(o.execution_order) = StartedNodes(o)
  /\ Topological(o.execution_order)

ReadyMarks(o) ==
  \A n \in NodeId : o.ready_at[n] # None =>
    /\ n \in needed /\ DepsDone(n)
    /\ \A d \in DepSet(n) : o.finished_at[d] # None /\ o.finished_at[d][1] <= o.ready_at[n][1]

StartMarks(o) ==
  \A n \in NodeId : o.started_at[n] # None =>
    o.ready_at[n] # None /\ o.ready_at[n][1] <= o.started_at[n][1]

FinishMarks(o) ==
  \A n \in NodeId : o.finished_at[n] # None =>
    o.started_at[n] # None /\ o.started_at[n][1] <= o.finished_at[n][1]

EvaluationMarked(o) ==
  /\ \A n \in ValuedNodes : o.finished_at[n] # None
  /\ \A n \in StartableNodes : o.ready_at[n] # None

ObsOK(o) ==
  ObsTypes(o) /\ ObsOrder(o) /\ ReadyMarks(o) /\ StartMarks(o) /\ FinishMarks(o)
    /\ EvaluationMarked(o)

-----------------------------------------------------------------------------
LEMMA MaxOf ==
  ASSUME NEW b \in Nat, NEW S \in SUBSET (0 .. b), S # {}
  PROVE  Max(S) \in S /\ Max(S) \in 0 .. b /\ \A x \in S : x <= Max(S)
<1>1. PICK m \in S : \A x \in S : x <= m
  BY GreatestElement
<1>2. m \in Nat /\ \A x \in S : m >= x
  BY <1>1
<1>3. Max(S) \in S /\ \A x \in S : Max(S) >= x
  BY <1>2 DEF Max
<1>4. Max(S) \in 0 .. b
  BY <1>3
<1> QED BY <1>3, <1>4

\* What a first mark is, now.
LEMMA FirstMark ==
  ASSUME clock \in Nat, NEW mark \in Option(0 .. clock)
  PROVE  /\ FirstOf(mark, Some(clock)) \in Option(0 .. clock)
         /\ FirstOf(mark, Some(clock)) # None
         /\ mark = None => FirstOf(mark, Some(clock))[1] = clock
         /\ mark # None => FirstOf(mark, Some(clock)) = mark
         /\ mark # None => mark[1] \in 0 .. clock
BY OptionProperties DEF FirstOf

LEMMA ObserverInitOK == ASSUME TablesInit, ObserverInit PROVE ObsOK(obs) /\ StartedNodes(obs) = {}
<1>1. clock = 0
      /\ obs = [ready_at |-> Unset, started_at |-> Unset, finished_at |-> Unset,
                worker_id |-> Unset, execution_order |-> <<>>, max_frontier_width |-> 0]
  BY DEF ObserverInit
<1>2. /\ Unset \in [NodeId -> Option(0 .. 0)] /\ Unset \in [NodeId -> Option(Nat)]
      /\ \A n \in NodeId : Unset[n] = None
  BY OptionProperties DEF Unset
<1>3. ObsTypes(obs)
  BY <1>1, <1>2 DEF ObsTypes
<1>4. StartedNodes(obs) = {} /\ ObsOrder(obs)
  BY <1>1, <1>2 DEF ObsOrder, StartedNodes, IsInjective, Range, Topological
<1>5. ReadyMarks(obs) /\ StartMarks(obs) /\ FinishMarks(obs)
  BY <1>1, <1>2 DEF ReadyMarks, StartMarks, FinishMarks
<1>6. EvaluationMarked(obs)
  BY TablesInitOK DEF EvaluationMarked, ValuedNodes, TablesInit
<1> QED BY <1>3, <1>4, <1>5, <1>6 DEF ObsOK

\* Time passes, and nothing else happens.
LEMMA TickOK ==
  ASSUME ObsOK(obs), Tick, UNCHANGED <<needed, vals>>
  PROVE  ObsOK(obs)'
<1>1. clock \in Nat /\ clock' = clock + 1 /\ obs' = obs /\ needed' = needed /\ vals' = vals
  BY DEF Tick, ObsOK, ObsTypes
<1>2. 0 .. clock \subseteq 0 .. clock'
  BY <1>1
<1>3. Option(0 .. clock) \subseteq Option(0 .. clock')
  <2>1. Seq(0 .. clock) \subseteq Seq(0 .. clock')
    BY <1>2, SeqMonotonic
  <2> QED BY <2>1 DEF Option
<1>4. ObsTypes(obs)'
  <2>1. obs' \in [ready_at : [NodeId -> Option(0 .. clock')],
            started_at : [NodeId -> Option(0 .. clock')],
            finished_at : [NodeId -> Option(0 .. clock')],
            worker_id : [NodeId -> Option(Nat)],
            execution_order : Seq(NodeId),
            max_frontier_width : Nat]
    BY <1>1, <1>3 DEF ObsOK, ObsTypes
  <2> QED BY <1>1, <2>1 DEF ObsTypes
<1>5. ObsOrder(obs)' /\ StartMarks(obs)' /\ FinishMarks(obs)'
  BY <1>1 DEF ObsOK, ObsOrder, StartedNodes, StartMarks, FinishMarks
<1>6. ReadyMarks(obs)' /\ EvaluationMarked(obs)'
  BY <1>1 DEF ObsOK, ReadyMarks, EvaluationMarked, DepsDone, ValuedNodes, StartableNodes
<1> QED BY <1>4, <1>5, <1>6 DEF ObsOK

\* Steps that change nothing the marks are about.
LEMMA ObserveOK ==
  ASSUME NEW o, ObsOK(o), obs' = o, UNCHANGED <<needed, vals, clock>>
  PROVE  ObsOK(obs)'
<1>1. clock' = clock /\ obs' = o /\ needed' = needed /\ vals' = vals
  OBVIOUS
<1>2. ObsTypes(obs)' /\ ObsOrder(obs)' /\ StartMarks(obs)' /\ FinishMarks(obs)'
  BY <1>1 DEF ObsOK, ObsTypes, ObsOrder, StartedNodes, StartMarks, FinishMarks
<1>3. ReadyMarks(obs)' /\ EvaluationMarked(obs)'
  BY <1>1 DEF ObsOK, ReadyMarks, EvaluationMarked, DepsDone, ValuedNodes, StartableNodes
<1> QED BY <1>2, <1>3 DEF ObsOK

-----------------------------------------------------------------------------
(* mark_start of a node in hand.                                           *)

LEMMA AppendOnce ==
  ASSUME NEW S, NEW s \in Seq(S), NEW x \in S, IsInjective(s), x \notin Range(s)
  PROVE  /\ Append(s, x) \in Seq(S) /\ IsInjective(Append(s, x))
         /\ Range(Append(s, x)) = Range(s) \cup {x}
         /\ Len(Append(s, x)) = Len(s) + 1
         /\ Append(s, x)[Len(s) + 1] = x
         /\ \A i \in 1 .. Len(s) : Append(s, x)[i] = s[i]
<1> DEFINE t == Append(s, x)
<1>1. /\ Len(s) \in Nat /\ DOMAIN s = 1 .. Len(s)
      /\ t \in Seq(S) /\ Len(t) = Len(s) + 1 /\ DOMAIN t = 1 .. Len(s) + 1
      /\ t[Len(s) + 1] = x
      /\ \A i \in 1 .. Len(s) : t[i] = s[i]
  BY AppendProperties, LenProperties
<1> HIDE DEF t
<1>2. \A i \in DOMAIN t : i = Len(s) + 1 \/ (i \in DOMAIN s /\ t[i] = s[i] /\ t[i] # x)
  <2> TAKE i \in DOMAIN t
  <2>1. i = Len(s) + 1 \/ i \in 1 .. Len(s)
    BY <1>1
  <2>2. ASSUME i \in 1 .. Len(s) PROVE i \in DOMAIN s /\ t[i] = s[i] /\ s[i] # x
    BY <1>1, <2>2 DEF Range
  <2> QED BY <2>1, <2>2
<1>3. IsInjective(t)
  BY <1>1, <1>2 DEF IsInjective
<1>4. Range(t) = Range(s) \cup {x}
  <2>1. ASSUME NEW y \in Range(t) PROVE y \in Range(s) \cup {x}
    BY <1>1, <1>2, <2>1 DEF Range
  <2>2. ASSUME NEW y \in Range(s) \cup {x} PROVE y \in Range(t)
    <3>1. Len(s) + 1 \in DOMAIN t /\ \A i \in DOMAIN s : i \in DOMAIN t /\ t[i] = s[i]
      BY <1>1
    <3> QED BY <1>1, <2>2, <3>1 DEF Range
  <2> QED BY <2>1, <2>2
<1> QED BY <1>1, <1>3, <1>4 DEF t

LEMMA ObserverFields ==
  ASSUME NEW A, NEW B, NEW C, NEW D, NEW E, NEW F,
         NEW o \in [ready_at : A, started_at : B, finished_at : C, worker_id : D,
                    execution_order : E, max_frontier_width : F]
  PROVE  o = [ready_at |-> o.ready_at, started_at |-> o.started_at,
              finished_at |-> o.finished_at, worker_id |-> o.worker_id,
              execution_order |-> o.execution_order, max_frontier_width |-> o.max_frontier_width]
OBVIOUS

LEMMA MarkStartFields ==
  ASSUME ObsOK(obs), NEW n \in NodeId, NEW worker \in Option(Nat)
  PROVE  LET o == MarkStart(obs, n, worker) IN
         /\ o.started_at = [obs.started_at EXCEPT ![n] = FirstOf(@, Some(clock))]
         /\ o.execution_order = IF obs.started_at[n] = None THEN Append(obs.execution_order, n)
                                                           ELSE obs.execution_order
         /\ o.worker_id = [obs.worker_id EXCEPT ![n] = FirstOf(@, worker)]
         /\ o.ready_at = obs.ready_at /\ o.finished_at = obs.finished_at
         /\ o.max_frontier_width = obs.max_frontier_width
         /\ StartedNodes(o) = StartedNodes(obs) \cup {n}
         /\ ObsTypes(o)
<1> DEFINE o == MarkStart(obs, n, worker)
<1>1. /\ clock \in Nat
      /\ obs.ready_at \in [NodeId -> Option(0 .. clock)]
      /\ obs.started_at \in [NodeId -> Option(0 .. clock)]
      /\ obs.finished_at \in [NodeId -> Option(0 .. clock)]
      /\ obs.worker_id \in [NodeId -> Option(Nat)]
      /\ obs.execution_order \in Seq(NodeId)
      /\ obs.max_frontier_width \in Nat
  BY DEF ObsOK, ObsTypes
<1>2. /\ o.started_at = [obs.started_at EXCEPT ![n] = FirstOf(@, Some(clock))]
      /\ o.execution_order = IF obs.started_at[n] = None THEN Append(obs.execution_order, n)
                                                        ELSE obs.execution_order
      /\ o.worker_id = [obs.worker_id EXCEPT ![n] = FirstOf(@, worker)]
      /\ o.ready_at = obs.ready_at /\ o.finished_at = obs.finished_at
      /\ o.max_frontier_width = obs.max_frontier_width
  BY DEF MarkStart, ObsOK, ObsTypes
<1>3. /\ o.started_at[n] = FirstOf(obs.started_at[n], Some(clock))
      /\ \A m \in NodeId : m # n => o.started_at[m] = obs.started_at[m]
  BY <1>1, <1>2
<1>4. FirstOf(obs.started_at[n], Some(clock)) \in Option(0 .. clock)
      /\ FirstOf(obs.started_at[n], Some(clock)) # None
  BY <1>1, FirstMark
<1>5. StartedNodes(o) = StartedNodes(obs) \cup {n}
  BY <1>3, <1>4 DEF StartedNodes
<1>6. o.started_at \in [NodeId -> Option(0 .. clock)]
  BY <1>1, <1>2, <1>4
<1>7. o.worker_id \in [NodeId -> Option(Nat)]
  BY <1>1, <1>2 DEF FirstOf
<1>8. o.execution_order \in Seq(NodeId)
  BY <1>1, <1>2, AppendProperties
<1>9. o = [ready_at |-> o.ready_at, started_at |-> o.started_at, finished_at |-> o.finished_at,
           worker_id |-> o.worker_id, execution_order |-> o.execution_order,
           max_frontier_width |-> o.max_frontier_width]
  <2>1. obs = [ready_at |-> obs.ready_at, started_at |-> obs.started_at,
               finished_at |-> obs.finished_at, worker_id |-> obs.worker_id,
               execution_order |-> obs.execution_order,
               max_frontier_width |-> obs.max_frontier_width]
    BY ObserverFields DEF ObsOK, ObsTypes
  <2>2. o = [obs EXCEPT !.started_at = o.started_at, !.execution_order = o.execution_order,
                        !.worker_id = o.worker_id]
    BY <1>2 DEF MarkStart
  <2> HIDE DEF o
  <2> QED BY <1>2, <2>1, <2>2
<1>10. ObsTypes(o)
  <2> HIDE DEF o
  <2> QED BY <1>1, <1>2, <1>6, <1>7, <1>8, <1>9 DEF ObsTypes
<1> QED BY <1>2, <1>5, <1>10

LEMMA MarkStartOK ==
  ASSUME ObsOK(obs), KahnOK, NEW n \in StartableNodes, NEW worker \in Option(Nat)
  PROVE  ObsOK(MarkStart(obs, n, worker)) /\ n \in StartedNodes(MarkStart(obs, n, worker))
<1> DEFINE o == MarkStart(obs, n, worker)
<1>1. n \in NodeId /\ n \in needed /\ DepsDone(n) /\ obs.ready_at[n] # None
      /\ DepSet(n) \subseteq NodeId
  BY DepLists DEF StartableNodes, KahnOK, KahnTypes, ObsOK, EvaluationMarked
<1>2. /\ o.started_at = [obs.started_at EXCEPT ![n] = FirstOf(@, Some(clock))]
      /\ o.execution_order = IF obs.started_at[n] = None THEN Append(obs.execution_order, n)
                                                        ELSE obs.execution_order
      /\ o.ready_at = obs.ready_at /\ o.finished_at = obs.finished_at
      /\ StartedNodes(o) = StartedNodes(obs) \cup {n}
      /\ ObsTypes(o)
  BY <1>1, MarkStartFields
<1> HIDE DEF o
<1>3. /\ clock \in Nat
      /\ obs.started_at \in [NodeId -> Option(0 .. clock)]
      /\ obs.ready_at \in [NodeId -> Option(0 .. clock)]
      /\ obs.finished_at \in [NodeId -> Option(0 .. clock)]
      /\ obs.execution_order \in Seq(NodeId)
  BY DEF ObsOK, ObsTypes
<1>4. CASE obs.started_at[n] # None
  <2>1. o.started_at = obs.started_at
    <3>1. FirstOf(obs.started_at[n], Some(clock)) = obs.started_at[n]
      BY <1>4 DEF FirstOf
    <3> QED BY <1>2, <1>3, <3>1
  <2>2. o.execution_order = obs.execution_order /\ StartedNodes(o) = StartedNodes(obs)
    BY <1>1, <1>2, <1>4, <2>1 DEF StartedNodes
  <2>3. ObsOrder(o) /\ ReadyMarks(o) /\ StartMarks(o) /\ FinishMarks(o) /\ EvaluationMarked(o)
    BY <1>2, <2>1, <2>2
    DEF ObsOK, ObsOrder, ReadyMarks, StartMarks, FinishMarks, EvaluationMarked
  <2> QED BY <1>2, <2>3 DEF ObsOK, o
<1>5. CASE obs.started_at[n] = None
  <2> DEFINE order == obs.execution_order
  <2>1. n \notin Range(order) /\ IsInjective(order) /\ Range(order) = StartedNodes(obs)
        /\ Topological(order)
    BY <1>5 DEF ObsOK, ObsOrder, StartedNodes
  <2>2. /\ IsInjective(o.execution_order) /\ Range(o.execution_order) = StartedNodes(o)
        /\ o.execution_order = Append(order, n)
        /\ Len(o.execution_order) = Len(order) + 1
        /\ o.execution_order[Len(order) + 1] = n
        /\ \A i \in 1 .. Len(order) : o.execution_order[i] = order[i]
        /\ DOMAIN order = 1 .. Len(order) /\ Len(order) \in Nat
    BY <1>1, <1>2, <1>3, <1>5, <2>1, AppendOnce, LenProperties
  <2>3. ASSUME NEW d \in DepSet(n) PROVE \E j \in 1 .. Len(order) : order[j] = d
    <3>1. d \in NodeId /\ vals[d] # None
      BY <1>1 DEF DepsDone
    <3>2. d \in StartedNodes(obs)
      BY <3>1 DEF ObsOK, EvaluationMarked, FinishMarks, ValuedNodes, StartedNodes
    <3> QED BY <2>1, <2>2, <3>2 DEF Range
  <2>4. Topological(o.execution_order)
    <3> SUFFICES ASSUME NEW i \in 1 .. Len(order) + 1, NEW d \in DepSet(o.execution_order[i])
                 PROVE  \E j \in 1 .. i - 1 : o.execution_order[j] = d
      <4>1. DOMAIN o.execution_order = 1 .. Len(order) + 1
        BY <2>2, <1>2, LenProperties DEF ObsTypes
      <4> QED BY <4>1 DEF Topological
    <3>1. CASE i = Len(order) + 1
      <4>1. PICK j \in 1 .. Len(order) : order[j] = d
        BY <2>2, <2>3, <3>1
      <4> QED BY <2>2, <3>1, <4>1
    <3>2. CASE i # Len(order) + 1
      <4>1. i \in 1 .. Len(order) /\ o.execution_order[i] = order[i]
        BY <2>2, <3>2
      <4>2. PICK j \in 1 .. i - 1 : order[j] = d
        BY <2>1, <2>2, <4>1 DEF Topological
      <4>3. j \in 1 .. Len(order)
        BY <4>1, <4>2, <2>2
      <4> QED BY <2>2, <4>2, <4>3
    <3> QED BY <3>1, <3>2
  <2>5. ObsOrder(o)
    BY <2>2, <2>4 DEF ObsOrder
  <2>6. /\ o.started_at[n][1] = clock /\ obs.ready_at[n][1] \in 0 .. clock
        /\ o.started_at[n] # None
        /\ \A m \in NodeId : m # n => o.started_at[m] = obs.started_at[m]
        /\ obs.finished_at[n] = None
    BY <1>1, <1>2, <1>3, <1>5, FirstMark DEF ObsOK, FinishMarks
  <2>7. StartMarks(o)
    BY <1>1, <1>2, <2>6 DEF ObsOK, StartMarks
  <2>8. FinishMarks(o)
    BY <1>1, <1>2, <2>6 DEF ObsOK, FinishMarks
  <2>9. ReadyMarks(o) /\ EvaluationMarked(o)
    BY <1>2 DEF ObsOK, ReadyMarks, EvaluationMarked
  <2> QED BY <1>2, <2>5, <2>7, <2>8, <2>9 DEF ObsOK, o
<1> QED BY <1>1, <1>2, <1>4, <1>5 DEF o

-----------------------------------------------------------------------------
(* mark_finish, and mark_ready of the nodes that are pushed.               *)

LEMMA MarkFinishFields ==
  ASSUME NEW o, ObsTypes(o), NEW n \in NodeId
  PROVE  LET p == MarkFinish(o, n) IN
         /\ p.finished_at = [o.finished_at EXCEPT ![n] = FirstOf(@, Some(clock))]
         /\ p.ready_at = o.ready_at /\ p.started_at = o.started_at
         /\ p.worker_id = o.worker_id /\ p.execution_order = o.execution_order
         /\ p.max_frontier_width = o.max_frontier_width
         /\ ObsTypes(p)
<1> DEFINE p == MarkFinish(o, n)
           t == [o.finished_at EXCEPT ![n] = FirstOf(@, Some(clock))]
<1>1. /\ clock \in Nat
      /\ o.finished_at \in [NodeId -> Option(0 .. clock)]
      /\ o.ready_at \in [NodeId -> Option(0 .. clock)]
      /\ o.started_at \in [NodeId -> Option(0 .. clock)]
      /\ o.worker_id \in [NodeId -> Option(Nat)]
      /\ o.execution_order \in Seq(NodeId)
      /\ o.max_frontier_width \in Nat
  BY DEF ObsTypes
<1>2. o = [ready_at |-> o.ready_at, started_at |-> o.started_at,
           finished_at |-> o.finished_at, worker_id |-> o.worker_id,
           execution_order |-> o.execution_order, max_frontier_width |-> o.max_frontier_width]
  BY ObserverFields DEF ObsTypes
<1>3. p = [o EXCEPT !.finished_at = t]
  BY <1>2 DEF MarkFinish
<1>4. t \in [NodeId -> Option(0 .. clock)]
  <2>1. FirstOf(o.finished_at[n], Some(clock)) \in Option(0 .. clock)
    BY <1>1, FirstMark
  <2> QED BY <1>1, <2>1
<1>5. p = [ready_at |-> o.ready_at, started_at |-> o.started_at,
           finished_at |-> t, worker_id |-> o.worker_id,
           execution_order |-> o.execution_order, max_frontier_width |-> o.max_frontier_width]
  <2> HIDE DEF p, t
  <2> QED BY <1>2, <1>3
<1>6. ObsTypes(p)
  <2> HIDE DEF p, t
  <2> QED BY <1>1, <1>4, <1>5 DEF ObsTypes
<1> HIDE DEF p
<1>7. /\ p.finished_at = t /\ p.ready_at = o.ready_at /\ p.started_at = o.started_at
      /\ p.worker_id = o.worker_id /\ p.execution_order = o.execution_order
      /\ p.max_frontier_width = o.max_frontier_width
  BY <1>5
<1> QED BY <1>6, <1>7 DEF p

\* The widest of the frontiers met while ids are pushed is the last.
LEMMA WidestIsLast ==
  ASSUME NEW m \in Nat, NEW width \in Nat, NEW ids \in Seq(NodeId)
  PROVE  /\ Max({m} \cup Widths(ids, width)) \in Nat
         /\ width <= m =>
              /\ Max({m} \cup Widths(ids, width)) = Max({m, width + Len(ids)})
              /\ width + Len(ids) <= Max({m} \cup Widths(ids, width))
<1> DEFINE S == {m} \cup Widths(ids, width)
           T == {m, width + Len(ids)}
<1>1. Len(ids) \in Nat /\ DOMAIN ids = 1 .. Len(ids)
  BY LenProperties
<1>2. S \in SUBSET (0 .. m + width + Len(ids)) /\ T \in SUBSET (0 .. m + width + Len(ids))
      /\ S # {} /\ T # {} /\ m + width + Len(ids) \in Nat
  BY <1>1 DEF Widths
<1>3. /\ Max(S) \in S /\ Max(S) \in Nat /\ \A x \in S : x <= Max(S)
      /\ Max(T) \in T /\ Max(T) \in Nat /\ \A x \in T : x <= Max(T)
  <2> HIDE DEF S, T
  <2> QED BY <1>2, MaxOf
<1>4. ASSUME width <= m PROVE Max(S) = Max(T) /\ width + Len(ids) <= Max(S)
  <2>1. width + Len(ids) <= Max(S)
    <3>1. CASE Len(ids) = 0
      <4>1. m <= Max(S)
        BY <1>3
      <4>2. width + Len(ids) = width
        BY <3>1
      <4> HIDE DEF S
      <4> QED BY <1>3, <1>4, <4>1, <4>2
    <3>2. CASE Len(ids) # 0
      <4>1. width + Len(ids) \in Widths(ids, width)
        <5>1. Len(ids) \in DOMAIN ids
          BY <1>1, <3>2
        <5> QED BY <5>1 DEF Widths
      <4> QED BY <1>3, <4>1
    <3> QED BY <3>1, <3>2
  <2>2. Max(T) <= Max(S)
    BY <1>3, <2>1
  <2>3. \A x \in S : x <= Max(T)
    BY <1>1, <1>3 DEF Widths
  <2>4. Max(S) <= Max(T)
    BY <1>3, <2>3
  <2> QED BY <1>3, <2>1, <2>2, <2>4
<1> QED BY <1>3, <1>4

LEMMA MarkReadyFields ==
  ASSUME NEW o, ObsTypes(o), NEW ids \in Seq(NodeId), NEW width \in Nat
  PROVE  LET p == MarkReadyAll(o, ids, width) IN
         /\ \A n \in NodeId : p.ready_at[n] = IF n \in Range(ids) THEN FirstOf(o.ready_at[n], Some(clock))
                                                                   ELSE o.ready_at[n]
         /\ p.max_frontier_width = Max({o.max_frontier_width} \cup Widths(ids, width))
         /\ p.started_at = o.started_at /\ p.finished_at = o.finished_at
         /\ p.worker_id = o.worker_id /\ p.execution_order = o.execution_order
         /\ ObsTypes(p)
<1> DEFINE p == MarkReadyAll(o, ids, width)
           t == [n \in NodeId |-> IF n \in Range(ids) THEN FirstOf(o.ready_at[n], Some(clock))
                                                      ELSE o.ready_at[n]]
           w == Max({o.max_frontier_width} \cup Widths(ids, width))
<1>1. /\ clock \in Nat
      /\ o.finished_at \in [NodeId -> Option(0 .. clock)]
      /\ o.ready_at \in [NodeId -> Option(0 .. clock)]
      /\ o.started_at \in [NodeId -> Option(0 .. clock)]
      /\ o.worker_id \in [NodeId -> Option(Nat)]
      /\ o.execution_order \in Seq(NodeId)
      /\ o.max_frontier_width \in Nat
  BY DEF ObsTypes
<1>2. o = [ready_at |-> o.ready_at, started_at |-> o.started_at,
           finished_at |-> o.finished_at, worker_id |-> o.worker_id,
           execution_order |-> o.execution_order, max_frontier_width |-> o.max_frontier_width]
  BY ObserverFields DEF ObsTypes
<1>3. p = [o EXCEPT !.ready_at = t, !.max_frontier_width = w]
  BY <1>2 DEF MarkReadyAll
<1>4. t \in [NodeId -> Option(0 .. clock)]
  <2>1. \A n \in NodeId : FirstOf(o.ready_at[n], Some(clock)) \in Option(0 .. clock)
    BY <1>1, FirstMark
  <2> QED BY <1>1, <2>1
<1>5. w \in Nat
  BY <1>1, WidestIsLast
<1>6. p = [ready_at |-> t, started_at |-> o.started_at,
           finished_at |-> o.finished_at, worker_id |-> o.worker_id,
           execution_order |-> o.execution_order, max_frontier_width |-> w]
  <2> HIDE DEF p, t, w
  <2> QED BY <1>2, <1>3
<1>7. ObsTypes(p)
  <2> HIDE DEF p, t, w
  <2> QED BY <1>1, <1>4, <1>5, <1>6 DEF ObsTypes
<1>8. /\ p.ready_at = t /\ p.max_frontier_width = w
      /\ p.started_at = o.started_at /\ p.finished_at = o.finished_at
      /\ p.worker_id = o.worker_id /\ p.execution_order = o.execution_order
  <2> HIDE DEF p, t, w
  <2> QED BY <1>6
<1> QED BY <1>7, <1>8

-----------------------------------------------------------------------------
(***************************************************************************)
(* The marks stay in order when the executor seeds its queue, and when a   *)
(* started node finishes, with a value (its dependents are released and    *)
(* pushed on the queue) or without.                                        *)
(***************************************************************************)
LEMMA SeedObserved ==
  ASSUME ObsOK(obs), KahnOK, needed = {}, Seed, obs' = MarkReadyAll(obs, ready', 0),
         clock' = clock
  PROVE  ObsOK(obs)' /\ StartedNodes(obs)' = {}
<1>1. /\ KahnOK' /\ ready' \in Seq(NodeId) /\ Range(ready') = StartableNodes' /\ vals' = vals
      /\ StartableNodes' \subseteq needed'
  BY SeedOK DEF Seed, StartableNodes
<1>2. /\ \A n \in NodeId :
           obs'.ready_at[n] = IF n \in Range(ready') THEN FirstOf(obs.ready_at[n], Some(clock))
                                                     ELSE obs.ready_at[n]
      /\ obs'.started_at = obs.started_at /\ obs'.finished_at = obs.finished_at
      /\ obs'.execution_order = obs.execution_order
      /\ ObsTypes(obs')
  <2>1. ObsTypes(obs) /\ 0 \in Nat
    BY DEF ObsOK
  <2> QED BY <1>1, <2>1, MarkReadyFields, ZenonT(40)
<1>3. \A n \in NodeId : /\ obs.ready_at[n] = None /\ obs.started_at[n] = None
                        /\ obs.finished_at[n] = None /\ vals[n] = None
  BY DEF ObsOK, ReadyMarks, StartMarks, FinishMarks, KahnOK
<1>4. StartedNodes(obs') = {} /\ StartedNodes(obs) = {}
  BY <1>2, <1>3 DEF StartedNodes
<1>5. ObsTypes(obs)'
  BY <1>2 DEF ObsTypes
<1>6. ObsOrder(obs)' /\ StartMarks(obs)' /\ FinishMarks(obs)'
  BY <1>2, <1>3, <1>4 DEF ObsOK, ObsOrder, StartedNodes, StartMarks, FinishMarks
<1>7. clock \in Nat
  BY DEF ObsOK, ObsTypes
<1>8. \A n \in NodeId : obs'.ready_at[n] # None <=> n \in StartableNodes'
  BY <1>1, <1>2, <1>3, <1>7, FirstMark, OptionProperties
<1>9. ReadyMarks(obs)'
  <2> SUFFICES ASSUME NEW n \in NodeId, obs'.ready_at[n] # None
               PROVE  /\ n \in needed' /\ DepsDone(n)'
                      /\ \A d \in DepSet(n) : obs'.finished_at[d] # None
                                              /\ obs'.finished_at[d][1] <= obs'.ready_at[n][1]
    BY DEF ReadyMarks
  <2>1. n \in needed' /\ DepsDone(n)'
    BY <1>8 DEF StartableNodes
  <2>2. DepSet(n) = {}
    BY <1>1, <1>3, <2>1, DepLists DEF DepsDone
  <2> QED BY <2>1, <2>2
<1>10. EvaluationMarked(obs)'
  BY <1>1, <1>3, <1>8 DEF EvaluationMarked, ValuedNodes, StartableNodes, KahnOK, KahnTypes
<1> QED BY <1>4, <1>5, <1>6, <1>9, <1>10 DEF ObsOK

LEMMA MarkFinishMarks ==
  ASSUME NEW o, ObsOK(o), KahnOK, NEW d \in StartedNodes(o)
  PROVE  ObsOK(MarkFinish(o, d)) /\ StartedNodes(MarkFinish(o, d)) = StartedNodes(o)
         /\ MarkFinish(o, d).finished_at[d] # None
<1> DEFINE p == MarkFinish(o, d)
<1>1. /\ d \in NodeId
      /\ p.finished_at = [o.finished_at EXCEPT ![d] = FirstOf(@, Some(clock))]
      /\ p.ready_at = o.ready_at /\ p.started_at = o.started_at
      /\ p.execution_order = o.execution_order
      /\ ObsTypes(p)
  BY MarkFinishFields DEF ObsOK, StartedNodes
<1> HIDE DEF p
<1>2. /\ clock \in Nat
      /\ o.finished_at \in [NodeId -> Option(0 .. clock)]
      /\ o.started_at \in [NodeId -> Option(0 .. clock)]
  BY DEF ObsOK, ObsTypes
<1>3. /\ p.finished_at[d] # None
      /\ o.finished_at[d] # None => p.finished_at[d] = o.finished_at[d]
      /\ o.finished_at[d] = None => p.finished_at[d][1] = clock
      /\ \A n \in NodeId : n # d => p.finished_at[n] = o.finished_at[n]
      /\ o.started_at[d] # None /\ o.started_at[d][1] \in 0 .. clock
  BY <1>1, <1>2, FirstMark DEF StartedNodes
<1>4. StartedNodes(p) = StartedNodes(o) /\ ObsOrder(p) /\ StartMarks(p)
  BY <1>1 DEF ObsOK, ObsOrder, StartedNodes, StartMarks
<1>5. FinishMarks(p)
  BY <1>1, <1>3 DEF ObsOK, FinishMarks
<1>6. ReadyMarks(p)
  BY <1>1, <1>3, DepLists DEF ObsOK, ReadyMarks
<1>7. EvaluationMarked(p)
  BY <1>1, <1>3 DEF ObsOK, EvaluationMarked, ValuedNodes
<1> QED BY <1>1, <1>3, <1>4, <1>5, <1>6, <1>7 DEF ObsOK, p

LEMMA PushedIsReleased ==
  ASSUME KahnOK, NEW d, NEW v, NEW q \in Seq(NodeId), Record(d, v, q)
  PROVE  /\ SubSeq(ready', Len(q) + 1, Len(ready')) = Ascending(Released(d))
         /\ Ascending(Released(d)) \in Seq(NodeId)
         /\ Range(Ascending(Released(d))) = Released(d)
         /\ Len(ready') = Len(q) + Len(Ascending(Released(d)))
<1> DEFINE r == Ascending(Released(d))
<1>1. Released(d) \subseteq NodeId
  BY DEF Released, Dependents, KahnOK, KahnTypes
<1>2. r \in Seq(NodeId) /\ Range(r) = Released(d)
  BY <1>1, AscendingOnce
<1> HIDE DEF r
<1>3. ready' = q \o r
  BY DEF Record, r
<1>4. /\ Len(q) \in Nat /\ Len(r) \in Nat
      /\ q \o r \in Seq(NodeId) /\ Len(q \o r) = Len(q) + Len(r)
      /\ \A i \in 1 .. Len(q) + Len(r) : (q \o r)[i] = IF i <= Len(q) THEN q[i] ELSE r[i - Len(q)]
  BY <1>2, ConcatProperties, LenProperties
<1> DEFINE s == q \o r
           t == SubSeq(s, Len(q) + 1, Len(q) + Len(r))
<1>5. /\ t \in Seq(NodeId)
      /\ Len(t) = IF Len(q) + 1 <= Len(q) + Len(r) THEN Len(q) + Len(r) - (Len(q) + 1) + 1 ELSE 0
      /\ \A i \in 1 .. Len(q) + Len(r) - (Len(q) + 1) + 1 : t[i] = s[Len(q) + 1 + i - 1]
  <2>1. \A i \in Len(q) + 1 .. Len(q) + Len(r) : s[i] \in NodeId
    BY <1>4, ElementOfSeq
  <2>2. Len(q) + 1 \in Int /\ Len(q) + Len(r) \in Int
    BY <1>4
  <2> HIDE DEF s
  <2> QED BY <2>1, <2>2, SubSeqProperties
<1>6. Len(t) = Len(r)
  BY <1>4, <1>5
<1>7. ASSUME NEW i \in 1 .. Len(r) PROVE t[i] = r[i]
  <2>1. i \in 1 .. Len(q) + Len(r) - (Len(q) + 1) + 1 /\ Len(q) + 1 + i - 1 = Len(q) + i
    BY <1>4
  <2>2. t[i] = s[Len(q) + i]
    BY <1>5, <2>1
  <2>3. Len(q) + i \in 1 .. Len(q) + Len(r) /\ ~ (Len(q) + i <= Len(q)) /\ Len(q) + i - Len(q) = i
    BY <1>4
  <2> QED BY <1>4, <2>2, <2>3
<1>8. t = r
  <2> HIDE DEF t
  <2> QED BY <1>2, <1>5, <1>6, <1>7, SeqEqual
<1> QED BY <1>2, <1>3, <1>4, <1>8 DEF r

LEMMA FinishObserved ==
  ASSUME NEW o, ObsOK(o), KahnOK, NEW d \in StartableNodes \cap StartedNodes(o), NEW v \in Value,
         v = ValueOf(d, Args(d)),
         NEW q \in Seq(NodeId), Record(d, v, q), UNCHANGED <<outs, needed>>,
         obs' = FinishAndRelease(o, d, q), clock' = clock
  PROVE  ObsOK(obs)' /\ StartedNodes(obs)' = StartedNodes(o)
         /\ obs'.worker_id = o.worker_id
         /\ obs'.execution_order = o.execution_order
<1> DEFINE p == MarkFinish(o, d)
           r == Ascending(Released(d))
<1>1. /\ KahnOK' /\ Released(d) \subseteq needed /\ needed' = needed
      /\ StartableNodes' = (StartableNodes \ {d}) \cup Released(d)
      /\ ValuedNodes' = ValuedNodes \cup {d}
  BY RecordOK
<1>2. ObsOK(p) /\ StartedNodes(p) = StartedNodes(o) /\ p.finished_at[d] # None
  BY MarkFinishMarks
<1>3. /\ r \in Seq(NodeId) /\ Range(r) = Released(d)
      /\ obs' = MarkReadyAll(p, r, Len(q)) /\ Len(q) \in Nat
  BY PushedIsReleased, LenProperties DEF FinishAndRelease
<1>4. p.worker_id = o.worker_id /\ p.execution_order = o.execution_order /\ d \in NodeId
  BY MarkFinishFields DEF ObsOK, StartedNodes
<1> HIDE DEF p, r
<1>5. /\ \A n \in NodeId :
           obs'.ready_at[n] = IF n \in Released(d) THEN FirstOf(p.ready_at[n], Some(clock))
                                                   ELSE p.ready_at[n]
      /\ obs'.started_at = p.started_at /\ obs'.finished_at = p.finished_at
      /\ obs'.worker_id = p.worker_id /\ obs'.execution_order = p.execution_order
      /\ ObsTypes(obs')
  <2>1. ObsTypes(p)
    BY <1>2 DEF ObsOK
  <2>2. /\ \A n \in NodeId :
             obs'.ready_at[n] = IF n \in Range(r) THEN FirstOf(p.ready_at[n], Some(clock))
                                                  ELSE p.ready_at[n]
        /\ obs'.started_at = p.started_at /\ obs'.finished_at = p.finished_at
        /\ obs'.worker_id = p.worker_id /\ obs'.execution_order = p.execution_order
        /\ ObsTypes(obs')
    <3> DEFINE w == Len(q)
    <3>1. w \in Nat /\ r \in Seq(NodeId) /\ obs' = MarkReadyAll(p, r, w)
      BY <1>3
    <3> HIDE DEF w
    <3> DEFINE m == MarkReadyAll(p, r, w)
    <3>2. /\ \A n \in NodeId :
               m.ready_at[n] = IF n \in Range(r) THEN FirstOf(p.ready_at[n], Some(clock))
                                                 ELSE p.ready_at[n]
          /\ m.started_at = p.started_at /\ m.finished_at = p.finished_at
          /\ m.worker_id = p.worker_id /\ m.execution_order = p.execution_order
          /\ ObsTypes(m)
      <4>1. w \in Nat /\ r \in Seq(NodeId)
        BY <3>1
      <4> QED BY <2>1, <4>1, MarkReadyFields, ZenonT(40)
    <3> HIDE DEF m
    <3>3. obs' = m
      BY <3>1 DEF m
    <3> QED BY <3>2, <3>3
  <2> QED BY <1>3, <2>2
<1>6. /\ clock \in Nat
      /\ p.finished_at \in [NodeId -> Option(0 .. clock)]
      /\ p.ready_at \in [NodeId -> Option(0 .. clock)]
  BY <1>2 DEF ObsOK, ObsTypes
<1>7. ASSUME NEW n \in NodeId
      PROVE  /\ p.ready_at[n] # None => obs'.ready_at[n] = p.ready_at[n]
             /\ n \in Released(d) => obs'.ready_at[n] # None
             /\ (p.ready_at[n] = None /\ obs'.ready_at[n] # None) =>
                  n \in Released(d) /\ obs'.ready_at[n][1] = clock
  BY <1>5, <1>6, FirstMark
<1>8. ObsTypes(obs)'
  BY <1>5 DEF ObsTypes
<1>9. ObsOrder(obs)' /\ FinishMarks(obs)'
  BY <1>2, <1>5 DEF ObsOK, ObsOrder, StartedNodes, FinishMarks
<1>10. StartMarks(obs)'
  BY <1>2, <1>5, <1>7 DEF ObsOK, StartMarks
<1>11. EvaluationMarked(obs)'
  BY <1>1, <1>2, <1>5, <1>7 DEF ObsOK, EvaluationMarked, StartableNodes, KahnOK, KahnTypes
<1>12. \A n \in NodeId : DepsDone(n) => DepsDone(n)'
  BY <1>1, DepLists DEF DepsDone, ValuedNodes
<1>13. \A n \in Released(d) : n \in NodeId /\ n \in needed' /\ DepsDone(n)'
  BY <1>1 DEF StartableNodes, KahnOK, KahnTypes
<1>14. ReadyMarks(obs)'
  <2> SUFFICES ASSUME NEW n \in NodeId, obs'.ready_at[n] # None
               PROVE  /\ n \in needed' /\ DepsDone(n)'
                      /\ \A e \in DepSet(n) : obs'.finished_at[e] # None
                                              /\ obs'.finished_at[e][1] <= obs'.ready_at[n][1]
    BY DEF ReadyMarks
  <2>1. CASE p.ready_at[n] # None
    BY <1>1, <1>2, <1>5, <1>7, <1>12, <2>1 DEF ObsOK, ReadyMarks
  <2>2. CASE p.ready_at[n] = None
    <3>1. n \in needed' /\ DepsDone(n)' /\ obs'.ready_at[n][1] = clock
      BY <1>7, <1>13, <2>2
    <3>2. ASSUME NEW e \in DepSet(n)
          PROVE  obs'.finished_at[e] # None /\ obs'.finished_at[e][1] <= clock
      <4>1. e \in NodeId /\ e \in ValuedNodes'
        BY <3>1, DepLists DEF DepsDone, ValuedNodes
      <4>2. obs'.finished_at[e] # None
        BY <4>1, <1>11 DEF EvaluationMarked
      <4>3. obs'.finished_at[e][1] \in 0 .. clock
        BY <1>5, <1>6, <4>1, <4>2, FirstMark
      <4> QED BY <1>6, <4>2, <4>3
    <3> QED BY <3>1, <3>2
  <2> QED BY <2>1, <2>2
<1>15. StartedNodes(obs)' = StartedNodes(o)
  BY <1>2, <1>5 DEF StartedNodes
<1> QED BY <1>4, <1>5, <1>8, <1>9, <1>10, <1>11, <1>14, <1>15 DEF ObsOK

-----------------------------------------------------------------------------
(***************************************************************************)
(* finalize. Once all needed nodes have values the order of execution      *)
(* holds each of them once, deps first, and no node was started before its *)
(* deps had finished: the longest paths fit in the time of the call.       *)
(***************************************************************************)
AllValued == needed # {} /\ \A n \in needed : vals[n] # None

\* f gives each needed node the weight of the heaviest chain that ends with it
PathTimes(f) ==
  \A n \in needed : f[n] = RunDuration(n) + Max({0} \cup {f[d] : d \in DepSet(n)})

TraceOK ==
  trace # None =>
    /\ AllValued
    /\ trace[1].wall_time = clock
    /\ trace[1].nodes = [i \in DOMAIN obs.execution_order |-> NodeTrace(obs.execution_order[i])]
    /\ \E f \in [needed -> 0 .. clock] :
         PathTimes(f) /\ trace[1].critical_path_time = Max({f[n] : n \in needed})

LEMMA OrderFacts ==
  ASSUME KahnOK, ObsOK(obs), AllValued
  PROVE  LET order == obs.execution_order IN
         /\ order \in Seq(NodeId) /\ Len(order) \in Nat /\ DOMAIN order = 1 .. Len(order)
         /\ IsInjective(order)
         /\ \A i \in 1 .. Len(order) : order[i] \in needed
         /\ \A n \in needed : \E i \in 1 .. Len(order) : order[i] = n
         /\ \A i \in 1 .. Len(order) : \A d \in DepSet(order[i]) : \E j \in 1 .. i - 1 : order[j] = d
         /\ Range(order) = needed
<1> DEFINE order == obs.execution_order
<1>1. order \in Seq(NodeId) /\ Len(order) \in Nat /\ DOMAIN order = 1 .. Len(order)
  BY LenProperties DEF ObsOK, ObsTypes
<1>2. IsInjective(order) /\ Range(order) = StartedNodes(obs) /\ Topological(order)
  BY DEF ObsOK, ObsOrder
<1>3. StartedNodes(obs) = needed
  BY DEF ObsOK, StartedNodes, StartMarks, ReadyMarks, FinishMarks, EvaluationMarked, ValuedNodes,
         AllValued, KahnOK, KahnTypes
<1> HIDE DEF order
<1>4. /\ \A i \in 1 .. Len(order) : order[i] \in needed
      /\ \A n \in needed : \E i \in 1 .. Len(order) : order[i] = n
  BY <1>1, <1>2, <1>3 DEF Range
<1>5. \A i \in 1 .. Len(order) : \A d \in DepSet(order[i]) : \E j \in 1 .. i - 1 : order[j] = d
  BY <1>1, <1>2 DEF Topological
<1> QED BY <1>1, <1>2, <1>3, <1>4, <1>5 DEF order

LEMMA DurationFacts ==
  ASSUME KahnOK, ObsOK(obs), AllValued, NEW n \in needed
  PROVE  /\ n \in NodeId /\ DepSet(n) \subseteq needed /\ clock \in Nat
         /\ obs.ready_at[n] # None /\ obs.started_at[n] # None /\ obs.finished_at[n] # None
         /\ obs.ready_at[n][1] \in 0 .. clock
         /\ StartedAt(n) = obs.started_at[n][1] /\ StartedAt(n) \in 0 .. clock
         /\ FinishedAt(n) = obs.finished_at[n][1] /\ FinishedAt(n) \in 0 .. clock
         /\ obs.ready_at[n][1] <= StartedAt(n)
         /\ StartedAt(n) <= FinishedAt(n)
         /\ RunDuration(n) = FinishedAt(n) - StartedAt(n) /\ RunDuration(n) \in 0 .. clock
         /\ \A d \in DepSet(n) : FinishedAt(d) <= obs.ready_at[n][1]
<1>1. n \in NodeId /\ DepSet(n) \subseteq needed /\ clock \in Nat
  BY DEF KahnOK, KahnTypes, DepClosed, ObsOK, ObsTypes
<1>2. /\ obs.finished_at[n] # None /\ obs.started_at[n] # None /\ obs.ready_at[n] # None
      /\ obs.started_at[n][1] <= obs.finished_at[n][1]
      /\ obs.ready_at[n][1] <= obs.started_at[n][1]
  BY <1>1 DEF ObsOK, StartMarks, FinishMarks, EvaluationMarked, ValuedNodes, AllValued
<1>3. /\ obs.finished_at[n][1] \in 0 .. clock /\ obs.started_at[n][1] \in 0 .. clock
      /\ obs.ready_at[n][1] \in 0 .. clock
  BY <1>1, <1>2, FirstMark DEF ObsOK, ObsTypes
<1>4. StartedAt(n) = obs.started_at[n][1] /\ FinishedAt(n) = obs.finished_at[n][1]
  BY <1>2 DEF StartedAt, FinishedAt, UnwrapOr
<1>5. RunDuration(n) = FinishedAt(n) - StartedAt(n) /\ RunDuration(n) \in 0 .. clock
  BY <1>1, <1>2, <1>3, <1>4 DEF RunDuration
<1>6. \A d \in DepSet(n) : FinishedAt(d) <= obs.ready_at[n][1]
  <2> TAKE d \in DepSet(n)
  <2>1. obs.finished_at[d] # None /\ obs.finished_at[d][1] <= obs.ready_at[n][1]
    BY <1>1, <1>2 DEF ObsOK, ReadyMarks
  <2> QED BY <2>1 DEF FinishedAt, UnwrapOr
<1> QED BY <1>1, <1>2, <1>3, <1>4, <1>5, <1>6

(***************************************************************************)
(* Along the order of execution the weights are determined: there is one   *)
(* solution of their equation. It is built node by node.                   *)
(***************************************************************************)
PathTimesUpTo(f, k) ==
  LET order == obs.execution_order IN
  \A i \in 1 .. k :
    /\ f[order[i]] = RunDuration(order[i]) + Max({0} \cup {f[d] : d \in DepSet(order[i])})
    /\ f[order[i]] <= FinishedAt(order[i])

\* The longest wait for a dep ends by the time the node is started.
LEMMA WaitsFit ==
  ASSUME KahnOK, ObsOK(obs), AllValued, NEW n \in needed, NEW f \in [needed -> 0 .. clock],
         \A d \in DepSet(n) : f[d] <= FinishedAt(d)
  PROVE  LET m == Max({0} \cup {f[d] : d \in DepSet(n)}) IN
         m \in 0 .. StartedAt(n) /\ RunDuration(n) + m <= FinishedAt(n)
           /\ RunDuration(n) + m \in 0 .. clock
<1> DEFINE S == {0} \cup {f[d] : d \in DepSet(n)}
<1>1. /\ DepSet(n) \subseteq needed /\ clock \in Nat /\ StartedAt(n) \in 0 .. clock
      /\ FinishedAt(n) \in 0 .. clock
      /\ RunDuration(n) = FinishedAt(n) - StartedAt(n) /\ StartedAt(n) <= FinishedAt(n)
  BY DurationFacts
<1>2. \A d \in DepSet(n) : f[d] \in 0 .. StartedAt(n)
  <2> TAKE d \in DepSet(n)
  <2>1. f[d] \in 0 .. clock /\ f[d] <= FinishedAt(d)
    BY <1>1
  <2>2. FinishedAt(d) <= obs.ready_at[n][1] /\ obs.ready_at[n][1] <= StartedAt(n)
        /\ FinishedAt(d) \in 0 .. clock /\ obs.ready_at[n][1] \in 0 .. clock
    BY <1>1, DurationFacts
  <2> QED BY <1>1, <2>1, <2>2
<1>3. S \in SUBSET (0 .. StartedAt(n)) /\ S # {}
  BY <1>1, <1>2
<1> HIDE DEF S
<1>4. Max(S) \in 0 .. StartedAt(n)
  BY <1>1, <1>3, MaxOf
<1>5. RunDuration(n) + Max(S) <= FinishedAt(n) /\ RunDuration(n) + Max(S) \in 0 .. clock
  BY <1>1, <1>4
<1> QED BY <1>4, <1>5 DEF S

LEMMA PathTimesGrow ==
  ASSUME KahnOK, ObsOK(obs), AllValued, NEW k \in Nat, k + 1 <= Len(obs.execution_order),
         NEW f \in [needed -> 0 .. clock], PathTimesUpTo(f, k)
  PROVE  \E g \in [needed -> 0 .. clock] : PathTimesUpTo(g, k + 1)
<1> DEFINE order == obs.execution_order
           n == order[k + 1]
           m == Max({0} \cup {f[d] : d \in DepSet(n)})
           g == [f EXCEPT ![n] = RunDuration(n) + m]
<1>1. /\ Len(order) \in Nat /\ DOMAIN order = 1 .. Len(order)
      /\ IsInjective(order)
      /\ \A i \in 1 .. Len(order) : order[i] \in needed
      /\ \A i \in 1 .. Len(order) : \A d \in DepSet(order[i]) : \E j \in 1 .. i - 1 : order[j] = d
  BY OrderFacts
<1>2. /\ \A i \in 1 .. k : f[order[i]] = RunDuration(order[i])
                                         + Max({0} \cup {f[d] : d \in DepSet(order[i])})
      /\ \A i \in 1 .. k : f[order[i]] <= FinishedAt(order[i])
  BY DEF PathTimesUpTo
<1> HIDE DEF order
<1>3. k + 1 \in 1 .. Len(order) /\ n \in needed /\ \A i \in 1 .. k : i \in 1 .. Len(order)
  BY <1>1 DEF order
<1>4. \A i \in 1 .. k + 1 : \A d \in DepSet(order[i]) : \E j \in 1 .. k : j < i /\ order[j] = d
  <2> TAKE i \in 1 .. k + 1
  <2> TAKE d \in DepSet(order[i])
  <2>1. PICK j \in 1 .. i - 1 : order[j] = d
    BY <1>1, <1>3
  <2> QED BY <2>1
<1>5. \A d \in DepSet(n) : f[d] <= FinishedAt(d)
  <2> TAKE d \in DepSet(n)
  <2>1. k + 1 \in 1 .. k + 1
    OBVIOUS
  <2>2. PICK j \in 1 .. k : order[j] = d
    BY <1>4, <2>1
  <2> QED BY <1>2, <2>2
<1>6. RunDuration(n) + m \in 0 .. clock /\ RunDuration(n) + m <= FinishedAt(n)
  <2> HIDE DEF n
  <2> QED BY <1>3, <1>5, WaitsFit
<1> HIDE DEF m
<1>7. g \in [needed -> 0 .. clock] /\ g[n] = RunDuration(n) + m
      /\ \A x \in needed : x # n => g[x] = f[x]
  BY <1>3, <1>6
<1> HIDE DEF g
<1>8. \A i \in 1 .. k : order[i] # n /\ order[i] \in needed /\ g[order[i]] = f[order[i]]
  <2> TAKE i \in 1 .. k
  <2>1. order[i] # order[k + 1]
    BY <1>1, <1>3 DEF IsInjective
  <2> QED BY <1>1, <1>3, <1>7, <2>1
<1>9. \A i \in 1 .. k + 1 : \A d \in DepSet(order[i]) : g[d] = f[d]
  BY <1>4, <1>8
<1>10. ASSUME NEW i \in 1 .. k + 1
       PROVE  /\ g[order[i]] = RunDuration(order[i]) + Max({0} \cup {g[d] : d \in DepSet(order[i])})
              /\ g[order[i]] <= FinishedAt(order[i])
  <2>1. {g[d] : d \in DepSet(order[i])} = {f[d] : d \in DepSet(order[i])}
    BY <1>9
  <2>2. CASE i = k + 1
    BY <1>6, <1>7, <2>1, <2>2 DEF m
  <2>3. CASE i # k + 1
    <3>1. i \in 1 .. k
      BY <2>3
    <3> QED BY <1>2, <1>8, <2>1, <3>1
  <2> QED BY <2>2, <2>3
<1>11. PathTimesUpTo(g, k + 1)
  BY <1>10 DEF PathTimesUpTo, order
<1> QED BY <1>7, <1>11

LEMMA PathTimesExist ==
  ASSUME KahnOK, ObsOK(obs), AllValued
  PROVE  \E f \in [needed -> 0 .. clock] : PathTimes(f) /\ \A n \in needed : f[n] <= FinishedAt(n)
<1> DEFINE len == Len(obs.execution_order)
           Built(k) == \E f \in [needed -> 0 .. clock] : PathTimesUpTo(f, k)
           missing == {k \in 0 .. len : ~ Built(k)}
<1>1. len \in Nat
  BY OrderFacts
<1>2. Built(0)
  <2>1. clock \in Nat
    BY DEF ObsOK, ObsTypes
  <2>2. [n \in needed |-> 0] \in [needed -> 0 .. clock]
    BY <2>1
  <2>3. PathTimesUpTo([n \in needed |-> 0], 0)
    BY DEF PathTimesUpTo
  <2> QED BY <2>2, <2>3
<1>3. \A k \in Nat : k + 1 <= len /\ Built(k) => Built(k + 1)
  BY PathTimesGrow
<1> HIDE DEF Built
<1>4. missing = {}
  <2> SUFFICES ASSUME missing # {} PROVE FALSE
    OBVIOUS
  <2>1. missing \in SUBSET Nat /\ IsFiniteSet(missing)
    <3>1. IsFiniteSet(0 .. len)
      BY <1>1, FS_Interval
    <3> QED BY <1>1, <3>1, FS_Subset
  <2>2. PICK k \in missing : \A j \in missing : k <= j
    <3> HIDE DEF missing
    <3> QED BY <2>1, LeastElement
  <2>3. k # 0 /\ k \in 1 .. len
    BY <1>1, <1>2, <2>2
  <2>4. k - 1 \in Nat /\ k - 1 \in 0 .. len /\ k - 1 + 1 = k /\ ~ k <= k - 1
    BY <1>1, <2>3
  <2>5. Built(k - 1)
    BY <2>2, <2>4
  <2>6. Built(k)
    BY <1>3, <2>3, <2>4, <2>5
  <2> QED BY <2>2, <2>6
<1>5. Built(len)
  BY <1>1, <1>4
<1>6. PICK f \in [needed -> 0 .. clock] : PathTimesUpTo(f, len)
  BY <1>5 DEF Built
<1>7. PathTimes(f) /\ \A n \in needed : f[n] <= FinishedAt(n)
  <2> SUFFICES ASSUME NEW n \in needed
               PROVE  f[n] = RunDuration(n) + Max({0} \cup {f[d] : d \in DepSet(n)})
                      /\ f[n] <= FinishedAt(n)
    BY DEF PathTimes
  <2>1. PICK i \in 1 .. len : obs.execution_order[i] = n
    BY OrderFacts
  <2> QED BY <1>6, <2>1 DEF PathTimesUpTo
<1> QED BY <1>7

-----------------------------------------------------------------------------
(***************************************************************************)
(* Both ways to the weights, the pass of finalize along the order of       *)
(* execution and the recursion over deps of the reference, give the one    *)
(* solution.                                                               *)
(***************************************************************************)
LEMMA HeaviestSolves ==
  ASSUME KahnOK, ObsOK(obs), AllValued, NEW f \in [needed -> 0 .. clock], PathTimes(f)
  PROVE  Heaviest = [n \in needed |-> RunDuration(n) + Max({0} \cup {Heaviest[d] : d \in DepSet(n)})]
<1>1. f = [n \in needed |-> RunDuration(n) + Max({0} \cup {f[d] : d \in DepSet(n)})]
  BY DEF PathTimes
<1> QED BY <1>1 DEF Heaviest

LEMMA HeaviestIsWeight ==
  ASSUME KahnOK, ObsOK(obs), AllValued, NEW f \in [needed -> 0 .. clock], PathTimes(f),
         NEW n \in needed
  PROVE  Heaviest[n] = f[n]
<1> DEFINE order == obs.execution_order
           wrong == {i \in 1 .. Len(order) : Heaviest[order[i]] # f[order[i]]}
<1>1. /\ Len(order) \in Nat
      /\ \A i \in 1 .. Len(order) : order[i] \in needed
      /\ \A m \in needed : \E i \in 1 .. Len(order) : order[i] = m
      /\ \A i \in 1 .. Len(order) : \A d \in DepSet(order[i]) : \E j \in 1 .. i - 1 : order[j] = d
  BY OrderFacts
<1>2. \A m \in needed : Heaviest[m] = RunDuration(m) + Max({0} \cup {Heaviest[d] : d \in DepSet(m)})
  BY HeaviestSolves
<1> HIDE DEF order
<1>3. wrong = {}
  <2> SUFFICES ASSUME wrong # {} PROVE FALSE
    OBVIOUS
  <2>1. wrong \in SUBSET Nat /\ IsFiniteSet(wrong)
    <3>1. IsFiniteSet(1 .. Len(order))
      BY <1>1, FS_Interval
    <3> QED BY <1>1, <3>1, FS_Subset
  <2>2. PICK i \in wrong : \A j \in wrong : i <= j
    <3> HIDE DEF wrong
    <3> QED BY <2>1, LeastElement
  <2>3. \A d \in DepSet(order[i]) : Heaviest[d] = f[d]
    <3> TAKE d \in DepSet(order[i])
    <3>1. PICK j \in 1 .. i - 1 : order[j] = d
      BY <1>1, <2>2
    <3>2. j \in 1 .. Len(order) /\ ~ i <= j
      BY <1>1, <2>2, <3>1
    <3> QED BY <2>2, <3>1, <3>2
  <2>4. {Heaviest[d] : d \in DepSet(order[i])} = {f[d] : d \in DepSet(order[i])}
    BY <2>3
  <2>5. order[i] \in needed
    BY <1>1, <2>2
  <2>6. Heaviest[order[i]] = f[order[i]]
    <3>1. Heaviest[order[i]] = RunDuration(order[i])
                               + Max({0} \cup {Heaviest[d] : d \in DepSet(order[i])})
      BY <1>2, <2>5
    <3>2. f[order[i]] = RunDuration(order[i]) + Max({0} \cup {f[d] : d \in DepSet(order[i])})
      BY <2>5 DEF PathTimes
    <3> QED BY <2>4, <3>1, <3>2, Zenon
  <2> QED BY <2>2, <2>6
<1> QED BY <1>1, <1>3

\* longest_path at position i, from its earlier values
PathAt(p, i) ==
  LET n == obs.execution_order[i]
      deps == {j \in 1 .. i - 1 : obs.execution_order[j] \in DepSet(n)}
  IN IF n \in needed THEN Max({0} \cup {p[j] : j \in deps}) + RunDuration(n) ELSE 0

LEMMA WeightsSolvePass ==
  ASSUME KahnOK, ObsOK(obs), AllValued, NEW f \in [needed -> 0 .. clock], PathTimes(f),
         NEW i \in 1 .. Len(obs.execution_order), NEW p,
         \A j \in 1 .. i - 1 : p[j] = f[obs.execution_order[j]]
  PROVE  PathAt(p, i) = f[obs.execution_order[i]]
<1> DEFINE order == obs.execution_order
           n == order[i]
           deps == {j \in 1 .. i - 1 : order[j] \in DepSet(n)}
<1>1. n \in needed /\ \A d \in DepSet(n) : \E j \in 1 .. i - 1 : order[j] = d
  BY OrderFacts
<1>2. f[n] = RunDuration(n) + Max({0} \cup {f[d] : d \in DepSet(n)})
  BY <1>1 DEF PathTimes
<1>3. {p[j] : j \in deps} = {f[d] : d \in DepSet(n)}
  <2>1. \A j \in deps : order[j] \in DepSet(n) /\ p[j] = f[order[j]]
    OBVIOUS
  <2>2. \A d \in DepSet(n) : \E j \in deps : order[j] = d
    BY <1>1
  <2> HIDE DEF deps, n, order
  <2> QED BY <2>1, <2>2
<1>4. RunDuration(n) \in 0 .. clock /\ clock \in Nat /\ Max({0} \cup {f[d] : d \in DepSet(n)}) \in Nat
  <2>1. DepSet(n) \subseteq needed /\ RunDuration(n) \in 0 .. clock /\ clock \in Nat
    <3> HIDE DEF n
    <3> QED BY <1>1, DurationFacts
  <2> DEFINE S == {0} \cup {f[d] : d \in DepSet(n)}
  <2>2. S \in SUBSET (0 .. clock) /\ S # {}
    BY <2>1
  <2> HIDE DEF S
  <2>3. Max(S) \in 0 .. clock
    BY <2>1, <2>2, MaxOf
  <2> QED BY <2>1, <2>3 DEF S
<1>5. PathAt(p, i) = Max({0} \cup {f[d] : d \in DepSet(n)}) + RunDuration(n)
  BY <1>1, <1>3 DEF PathAt
<1> HIDE DEF n
<1>6. PathAt(p, i) = f[n]
  BY <1>2, <1>4, <1>5
<1> QED BY <1>6 DEF n

LEMMA PassIsWeight ==
  ASSUME KahnOK, ObsOK(obs), AllValued, NEW f \in [needed -> 0 .. clock], PathTimes(f)
  PROVE  longest_path = [i \in 1 .. Len(obs.execution_order) |-> f[obs.execution_order[i]]]
<1> DEFINE order == obs.execution_order
           p == [i \in 1 .. Len(order) |-> f[order[i]]]
<1>1. Len(order) \in Nat /\ DOMAIN order = 1 .. Len(order)
  BY OrderFacts
<1>2. p = [i \in DOMAIN order |-> PathAt(p, i)]
  <2>1. \A i \in 1 .. Len(order) : PathAt(p, i) = f[order[i]]
    <3> TAKE i \in 1 .. Len(order)
    <3>1. \A j \in 1 .. i - 1 : p[j] = f[order[j]]
      BY <1>1
    <3> HIDE DEF p
    <3> QED BY <3>1, WeightsSolvePass
  <2> QED BY <1>1, <2>1
<1>3. longest_path = [i \in DOMAIN order |-> PathAt(longest_path, i)]
  <2>1. p = [i \in DOMAIN obs.execution_order |->
               LET n == obs.execution_order[i]
                   deps == {j \in 1 .. i - 1 : obs.execution_order[j] \in DepSet(n)}
               IN IF n \in needed THEN Max({0} \cup {p[j] : j \in deps}) + RunDuration(n) ELSE 0]
    <3> HIDE DEF p
    <3> QED BY <1>2 DEF PathAt
  <2> HIDE DEF p
  <2> QED BY <2>1 DEF longest_path, PathAt
<1>4. \A i \in 1 .. Len(order) : longest_path[i] = PathAt(longest_path, i)
  BY <1>1, <1>3
<1>5. DOMAIN longest_path = 1 .. Len(order)
  BY <1>1, <1>3
<1> DEFINE wrong == {i \in 1 .. Len(order) : longest_path[i] # f[order[i]]}
<1>6. wrong = {}
  <2> SUFFICES ASSUME wrong # {} PROVE FALSE
    OBVIOUS
  <2>1. wrong \in SUBSET Nat /\ IsFiniteSet(wrong)
    <3>1. IsFiniteSet(1 .. Len(order))
      BY <1>1, FS_Interval
    <3> QED BY <1>1, <3>1, FS_Subset
  <2>2. PICK i \in wrong : \A j \in wrong : i <= j
    <3> HIDE DEF wrong
    <3> QED BY <2>1, LeastElement
  <2>3. \A j \in 1 .. i - 1 : longest_path[j] = f[order[j]]
    <3> TAKE j \in 1 .. i - 1
    <3>1. j \in 1 .. Len(order) /\ ~ i <= j
      BY <1>1, <2>2
    <3> QED BY <2>2, <3>1
  <2>4. PathAt(longest_path, i) = f[order[i]]
    BY <2>2, <2>3, WeightsSolvePass
  <2> QED BY <1>4, <2>2, <2>4
<1> QED BY <1>3, <1>5, <1>6

-----------------------------------------------------------------------------
(* The trace.                                                              *)

LEMMA AscendingInterval ==
  ASSUME NEW k \in Nat
  PROVE  Ascending(1 .. k) = [j \in 1 .. k |-> j]
<1>1. Cardinality(1 .. k) = k
  BY FS_Interval
<1>2. \A n \in 1 .. k : Rank(1 .. k, n) = n - 1
  <2> TAKE n \in 1 .. k
  <2>1. {m \in 1 .. k : m < n} = 1 .. n - 1
    OBVIOUS
  <2>2. Cardinality(1 .. n - 1) = n - 1
    <3>1. n - 1 \in Nat
      OBVIOUS
    <3>2. \A c \in Nat : Cardinality(1 .. c) = c
      <4> TAKE c \in Nat
      <4> QED BY FS_Interval
    <3> QED BY <3>1, <3>2
  <2> QED BY <2>1, <2>2 DEF Rank
<1>3. \A j \in 1 .. k : (CHOOSE n \in 1 .. k : Rank(1 .. k, n) = j - 1) = j
  <2> TAKE j \in 1 .. k
  <2>1. \A n \in 1 .. k : Rank(1 .. k, n) = j - 1 <=> n = j
    BY <1>2
  <2> QED BY <2>1
<1> QED BY <1>1, <1>3 DEF Ascending

\* No node is started but the needed ones, and finalize has none to skip.
LEMMA NoneSkipped ==
  ASSUME KahnOK, ObsOK(obs), AllValued
  PROVE  NeededInOrder = obs.execution_order
<1> DEFINE order == obs.execution_order
           at == {i \in DOMAIN order : order[i] \in needed}
<1>1. /\ order \in Seq(NodeId) /\ Len(order) \in Nat /\ DOMAIN order = 1 .. Len(order)
      /\ \A i \in 1 .. Len(order) : order[i] \in needed
  BY OrderFacts
<1>2. at = 1 .. Len(order)
  BY <1>1
<1>3. Ascending(at) = [j \in 1 .. Len(order) |-> j]
  BY <1>1, <1>2, AscendingInterval
<1>4. NeededInOrder = [j \in DOMAIN Ascending(at) |-> order[Ascending(at)[j]]]
  BY DEF NeededInOrder
<1>5. NeededInOrder = [j \in 1 .. Len(order) |-> order[j]]
  <2> HIDE DEF at
  <2> QED BY <1>3, <1>4
<1> QED BY <1>1, <1>5

LEMMA FinalizeObserved ==
  ASSUME KahnOK, ObsOK(obs), AllValued, trace' = Some(Finalize),
         UNCHANGED <<needed, vals, clock, obs>>
  PROVE  TraceOK'
<1> DEFINE order == obs.execution_order
<1>1. PICK f \in [needed -> 0 .. clock] : PathTimes(f)
  BY PathTimesExist
<1>2. longest_path = [i \in 1 .. Len(order) |-> f[order[i]]]
  BY <1>1, PassIsWeight
<1>3. /\ Len(order) \in Nat
      /\ \A i \in 1 .. Len(order) : order[i] \in needed
      /\ \A n \in needed : \E i \in 1 .. Len(order) : order[i] = n
      /\ clock \in Nat /\ needed # {}
  BY OrderFacts DEF ObsOK, ObsTypes, AllValued
<1>4. CriticalPathTime = Max({f[n] : n \in needed})
  <2> DEFINE S == {0} \cup Range(longest_path)
             T == {f[n] : n \in needed}
  <2>1. Range(longest_path) = T
    BY <1>2, <1>3 DEF Range
  <2>2. S \in SUBSET (0 .. clock) /\ T \in SUBSET (0 .. clock) /\ S # {} /\ T # {}
    BY <1>3, <2>1
  <2>3. S = {0} \cup T
    BY <2>1
  <2> HIDE DEF S, T
  <2>4. /\ Max(S) \in S /\ Max(S) \in 0 .. clock /\ \A x \in S : x <= Max(S)
        /\ Max(T) \in T /\ Max(T) \in 0 .. clock /\ \A x \in T : x <= Max(T)
    BY <1>3, <2>2, MaxOf
  <2>5. Max(T) <= Max(S)
    BY <2>3, <2>4
  <2>6. Max(S) <= Max(T)
    <3>1. Max(S) = 0 \/ Max(S) \in T
      BY <2>3, <2>4
    <3>2. 0 <= Max(T)
      BY <1>3, <2>4
    <3> QED BY <2>4, <3>1, <3>2
  <2>7. Max(S) = Max(T)
    BY <1>3, <2>4, <2>5, <2>6
  <2> QED BY <2>7 DEF CriticalPathTime, S, T
<1>5. /\ trace'[1].wall_time = clock
      /\ trace'[1].nodes = [i \in DOMAIN order |-> NodeTrace(order[i])]
      /\ trace'[1].critical_path_time = Max({f[n] : n \in needed})
  BY <1>4, NoneSkipped DEF Finalize, Some
<1>6. \A n : NodeTrace(n)' = NodeTrace(n) /\ RunDuration(n)' = RunDuration(n)
  BY DEF NodeTrace, RunDuration, StartedAt, FinishedAt
<1>7. PathTimes(f)'
  BY <1>1, <1>6 DEF PathTimes
<1>8. AllValued'
  BY DEF AllValued
<1> QED BY <1>1, <1>5, <1>6, <1>7, <1>8 DEF TraceOK

\* A trace is not touched, nor what it was made of.
LEMMA TraceKept ==
  ASSUME TraceOK, UNCHANGED trace, trace # None => UNCHANGED <<needed, vals, clock, obs>>
  PROVE  TraceOK'
<1>1. SUFFICES ASSUME trace # None PROVE TraceOK'
  BY DEF TraceOK
<1>2. /\ \A n : NodeTrace(n)' = NodeTrace(n) /\ RunDuration(n)' = RunDuration(n)
      /\ AllValued' <=> AllValued
  BY <1>1 DEF NodeTrace, RunDuration, StartedAt, FinishedAt, AllValued
<1>3. \A f : PathTimes(f)' <=> PathTimes(f)
  BY <1>1, <1>2 DEF PathTimes
<1>4. PICK f \in [needed -> 0 .. clock] :
        PathTimes(f) /\ trace[1].critical_path_time = Max({f[n] : n \in needed})
  BY <1>1 DEF TraceOK
<1>5. /\ trace' = trace /\ clock' = clock /\ obs' = obs /\ needed' = needed
      /\ AllValued /\ trace[1].wall_time = clock
      /\ trace[1].nodes = [i \in DOMAIN obs.execution_order |-> NodeTrace(obs.execution_order[i])]
  BY <1>1 DEF TraceOK
<1>6. f \in [needed' -> 0 .. clock'] /\ PathTimes(f)'
      /\ trace'[1].critical_path_time = Max({f[n] : n \in needed'})
  BY <1>3, <1>4, <1>5
<1>7. (trace[1].nodes = [i \in DOMAIN obs.execution_order |-> NodeTrace(obs.execution_order[i])])'
  BY <1>5 DEF NodeTrace, RunDuration, StartedAt, FinishedAt
<1> QED BY <1>2, <1>5, <1>6, <1>7 DEF TraceOK

-----------------------------------------------------------------------------
(* What follows for the trace properties.                                  *)

TraceFacts == KahnOK /\ ObsOK(obs) /\ TraceOK

LEMMA TopologicalFollows == ASSUME TraceFacts PROVE TraceTopological
<1>1. Topological(obs.execution_order)
  BY DEF TraceFacts, ObsOK, ObsOrder
<1>2. ASSUME trace # None
      PROVE  [i \in DOMAIN trace[1].nodes |-> trace[1].nodes[i].node_id] = obs.execution_order
  <2>1. trace[1].nodes = [i \in DOMAIN obs.execution_order |-> NodeTrace(obs.execution_order[i])]
    BY <1>2 DEF TraceFacts, TraceOK
  <2>2. \A n : NodeTrace(n).node_id = n
    BY DEF NodeTrace
  <2> DEFINE order == obs.execution_order
  <2>3. order = [i \in DOMAIN order |-> order[i]]
    BY LenProperties DEF TraceFacts, ObsOK, ObsTypes
  <2> HIDE DEF order
  <2>4. DOMAIN trace[1].nodes = DOMAIN order
        /\ \A i \in DOMAIN order : trace[1].nodes[i].node_id = order[i]
    BY <2>1, <2>2 DEF order
  <2>5. [i \in DOMAIN trace[1].nodes |-> trace[1].nodes[i].node_id] = order
    BY <2>3, <2>4
  <2> QED BY <2>5 DEF order
<1> QED BY <1>1, <1>2 DEF TraceTopological

LEMMA OrderCounts ==
  ASSUME KahnOK, ObsOK(obs), AllValued
  PROVE  Len(obs.execution_order) = Cardinality(needed)
<1> DEFINE order == obs.execution_order
<1>1. /\ Len(order) \in Nat /\ DOMAIN order = 1 .. Len(order) /\ order \in Seq(NodeId)
      /\ IsInjective(order) /\ Range(order) = needed
      /\ \A i \in 1 .. Len(order) : order[i] \in needed
      /\ \A n \in needed : \E i \in 1 .. Len(order) : order[i] = n
  BY OrderFacts
<1> HIDE DEF order
<1>2. order \in Bijection(1 .. Len(order), needed)
  <2>1. order \in [1 .. Len(order) -> needed]
    BY <1>1
  <2> QED BY <1>1, <2>1 DEF Bijection, Injection, Surjection, IsInjective
<1>3. IsFiniteSet(1 .. Len(order)) /\ Cardinality(1 .. Len(order)) = Len(order)
  BY <1>1, FS_Interval
<1>4. Cardinality(needed) = Cardinality(1 .. Len(order))
  BY <1>2, <1>3, FS_Bijection DEF ExistsBijection
<1> QED BY <1>3, <1>4 DEF order

LEMMA TimesFollow == ASSUME TraceFacts PROVE TimesOrdered
<1> SUFFICES ASSUME trace # None PROVE TimesOrdered
  BY DEF TimesOrdered
<1> DEFINE order == obs.execution_order
           nodes == trace[1].nodes
<1>1. KahnOK /\ ObsOK(obs) /\ AllValued /\ trace[1].wall_time = clock
      /\ nodes = [i \in DOMAIN order |-> NodeTrace(order[i])]
  BY DEF TraceFacts, TraceOK
<1>2. /\ order \in Seq(NodeId) /\ Len(order) \in Nat /\ DOMAIN order = 1 .. Len(order)
      /\ \A i \in 1 .. Len(order) : order[i] \in needed
      /\ \A n \in needed : \E i \in 1 .. Len(order) : order[i] = n
  BY <1>1, OrderFacts
<1> HIDE DEF order, nodes
<1>3. DOMAIN nodes = 1 .. Len(order) /\ \A i \in 1 .. Len(order) : nodes[i] = NodeTrace(order[i])
  BY <1>1, <1>2
<1>4. \A n : /\ NodeTrace(n).node_id = n /\ NodeTrace(n).started_at = StartedAt(n)
             /\ NodeTrace(n).finished_at = FinishedAt(n)
             /\ NodeTrace(n).ready_at = UnwrapOr(obs.ready_at[n], 0)
  BY DEF NodeTrace
<1>5. {nodes[i].node_id : i \in DOMAIN nodes} = needed
  BY <1>2, <1>3, <1>4
<1>6. Len(nodes) = Cardinality(needed)
  <2>1. nodes \in Seq({NodeTrace(n) : n \in NodeId}) /\ Len(nodes) = Len(order)
    <3>1. \A i \in 1 .. Len(order) : NodeTrace(order[i]) \in {NodeTrace(n) : n \in NodeId}
      <4>1. \A i \in 1 .. Len(order) : order[i] \in NodeId
        BY <1>1, <1>2 DEF KahnOK, KahnTypes
      <4> QED BY <4>1
    <3>2. nodes = [i \in 1 .. Len(order) |-> NodeTrace(order[i])]
      BY <1>1, <1>2
    <3> QED BY <1>2, <3>1, <3>2
  <2> QED BY <1>1, <2>1, OrderCounts DEF order
<1>7. \A n \in needed : obs.ready_at[n] # None /\ obs.finished_at[n] # None
  BY <1>1, DurationFacts
<1>8. \A n \in needed :
        /\ UnwrapOr(obs.ready_at[n], 0) <= StartedAt(n)
        /\ StartedAt(n) <= FinishedAt(n) /\ FinishedAt(n) <= clock
        /\ \A d \in DepSet(n) : FinishedAt(d) <= UnwrapOr(obs.ready_at[n], 0)
  <2> TAKE n \in needed
  <2>1. obs.ready_at[n] # None /\ obs.ready_at[n][1] <= StartedAt(n) /\ StartedAt(n) <= FinishedAt(n)
        /\ FinishedAt(n) \in 0 .. clock /\ \A d \in DepSet(n) : FinishedAt(d) <= obs.ready_at[n][1]
    BY <1>1, DurationFacts
  <2>2. UnwrapOr(obs.ready_at[n], 0) = obs.ready_at[n][1]
    BY <2>1 DEF UnwrapOr
  <2> QED BY <2>1, <2>2
<1>9. \A i \in DOMAIN nodes :
        /\ nodes[i].ready_at <= nodes[i].started_at
        /\ nodes[i].started_at <= nodes[i].finished_at
        /\ nodes[i].finished_at <= clock
        /\ \A j \in DOMAIN nodes : nodes[j].node_id \in DepSet(nodes[i].node_id) =>
                                     nodes[j].finished_at <= nodes[i].ready_at
  BY <1>2, <1>3, <1>4, <1>8
<1> QED BY <1>1, <1>5, <1>6, <1>7, <1>9 DEF TimesOrdered, nodes

LEMMA CriticalFollows == ASSUME TraceFacts PROVE CriticalPathIsLongest
<1> SUFFICES ASSUME trace # None
             PROVE  trace[1].critical_path_time = Max({Heaviest[n] : n \in needed})
                    /\ trace[1].critical_path_time <= trace[1].wall_time
  BY DEF CriticalPathIsLongest
<1>1. KahnOK /\ ObsOK(obs) /\ AllValued /\ trace[1].wall_time = clock
  BY DEF TraceFacts, TraceOK
<1>2. PICK f \in [needed -> 0 .. clock] :
        PathTimes(f) /\ trace[1].critical_path_time = Max({f[n] : n \in needed})
  BY DEF TraceFacts, TraceOK
<1>3. \A n \in needed : Heaviest[n] = f[n]
  BY <1>1, <1>2, HeaviestIsWeight
<1>4. {Heaviest[n] : n \in needed} = {f[n] : n \in needed}
  BY <1>3
<1>5. Max({f[n] : n \in needed}) \in 0 .. clock
  <2> DEFINE S == {f[n] : n \in needed}
  <2>1. S \in SUBSET (0 .. clock) /\ S # {} /\ clock \in Nat
    BY <1>1 DEF AllValued, ObsOK, ObsTypes
  <2> HIDE DEF S
  <2>2. Max(S) \in 0 .. clock
    BY <2>1, MaxOf
  <2> QED BY <2>2 DEF S
<1>6. Max({f[n] : n \in needed}) <= clock
  BY <1>1, <1>5 DEF ObsOK, ObsTypes
<1> QED BY <1>1, <1>2, <1>4, <1>6
=============================================================================
