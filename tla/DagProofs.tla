----------------------------- MODULE DagProofs -----------------------------
(***************************************************************************)
(* Facts about the operators of Dag, for every graph.                      *)
(***************************************************************************)
EXTENDS Dag, FiniteSetTheorems, SequenceTheorems, TLAPS

(***************************************************************************)
(* NodeId is a finite set of naturals, and so is every set of nodes.       *)
(***************************************************************************)
LEMMA NodeSets ==
  ASSUME NEW S \in SUBSET NodeId
  PROVE  S \subseteq Nat /\ IsFiniteSet(S)
<1>1. IsFiniteSet(NodeId) /\ NodeId \subseteq Nat
  BY FS_Interval, DagAssumption DEF NodeId
<1> QED
  BY <1>1, FS_Subset

(***************************************************************************)
(* The ranks of a finite set of naturals are 0 .. |S|-1, one each.         *)
(***************************************************************************)
\* The places of a sequence.
LEMMA PlacesCount ==
  ASSUME NEW m \in Nat
  PROVE  IsFiniteSet(1 .. m) /\ Cardinality(1 .. m) = m
<1>1. 1 \in Int /\ m \in Int
  OBVIOUS
<1>2. IsFiniteSet(1 .. m) /\ Cardinality(1 .. m) = IF 1 > m THEN 0 ELSE m - 1 + 1
  BY <1>1, FS_Interval
<1> QED BY <1>2

LEMMA RankRange ==
  ASSUME NEW S \in SUBSET Nat, IsFiniteSet(S), NEW n \in S
  PROVE  Rank(S, n) \in 0 .. Cardinality(S) - 1
<1> DEFINE below == {m \in S : m < n}
<1>1. IsFiniteSet(S \ {n}) /\ Cardinality(S \ {n}) = Cardinality(S) - 1
  BY FS_RemoveElement
<1>2. below \in SUBSET (S \ {n})
  OBVIOUS
<1>3. IsFiniteSet(below) /\ Cardinality(below) <= Cardinality(S) - 1
  BY <1>1, <1>2, FS_Subset
<1>4. Cardinality(below) \in Nat /\ Cardinality(S) \in Nat
  BY <1>3, FS_CardinalityType
<1> QED
  BY <1>3, <1>4 DEF Rank

LEMMA RankStrict ==
  ASSUME NEW S \in SUBSET Nat, IsFiniteSet(S), NEW m \in S, NEW n \in S, m < n
  PROVE  Rank(S, m) < Rank(S, n)
<1> DEFINE below(x) == {y \in S : y < x}
<1>1. IsFiniteSet(below(m)) /\ IsFiniteSet(below(n))
  BY FS_Subset
<1>2. below(m) \cup {m} \in SUBSET below(n) /\ m \notin below(m)
  <2>1. \A y \in S : y < m => y < n
    OBVIOUS
  <2>2. m \in Nat /\ ~ m < m
    OBVIOUS
  <2> QED
    BY <2>1, <2>2
<1>3. Cardinality(below(m) \cup {m}) = Cardinality(below(m)) + 1
  BY <1>1, <1>2, FS_AddElement
<1>4. Cardinality(below(m) \cup {m}) <= Cardinality(below(n))
  BY <1>1, <1>2, FS_Subset
<1>5. Cardinality(below(m)) \in Nat /\ Cardinality(below(n)) \in Nat
  BY <1>1, FS_CardinalityType
<1> QED
  BY <1>3, <1>4, <1>5 DEF Rank

(***************************************************************************)
(* Ascending(S) is a sequence of elements of S, increasing, in which each  *)
(* element stands at its rank: the order in which "for i in 0..n" visits.  *)
(***************************************************************************)
LEMMA AscendingProperties ==
  ASSUME NEW S \in SUBSET Nat, IsFiniteSet(S)
  PROVE  /\ Cardinality(S) \in Nat
         /\ Ascending(S) \in [1 .. Cardinality(S) -> S]
         /\ \A k \in 1 .. Cardinality(S) : Rank(S, Ascending(S)[k]) = k - 1
         /\ \A n \in S : \E k \in 1 .. Cardinality(S) : Ascending(S)[k] = n
<1> DEFINE ranks == 0 .. Cardinality(S) - 1
           rank == [n \in S |-> Rank(S, n)]
<1>1. Cardinality(S) \in Nat
  BY FS_CardinalityType
<1>2. IsFiniteSet(ranks) /\ Cardinality(ranks) = Cardinality(S)
  <2>1. \A c \in Nat : IsFiniteSet(0 .. c - 1) /\ Cardinality(0 .. c - 1) = c
    <3> TAKE c \in Nat
    <3>1. IsFiniteSet(0 .. c - 1) /\ Cardinality(0 .. c - 1) = IF 0 > c - 1 THEN 0 ELSE c - 1 - 0 + 1
      BY FS_Interval, 0 \in Int, c - 1 \in Int
    <3> QED
      BY <3>1
  <2> QED
    BY <1>1, <2>1
<1>3. \A m, n \in S : Rank(S, m) = Rank(S, n) => m = n
  <2> SUFFICES ASSUME NEW m \in S, NEW n \in S, m # n
               PROVE  Rank(S, m) # Rank(S, n)
    OBVIOUS
  <2>1. Rank(S, m) \in Nat /\ Rank(S, n) \in Nat
    BY <1>1, RankRange
  <2>2. CASE m < n
    BY <2>1, <2>2, RankStrict
  <2>3. CASE n < m
    BY <2>1, <2>3, RankStrict
  <2> QED
    BY <2>2, <2>3
<1>4. rank \in Injection(S, ranks)
  <2>1. rank \in [S -> ranks]
    BY RankRange
  <2> QED
    BY <2>1, <1>3 DEF Injection, IsInjective
<1>5. rank \in Surjection(S, ranks)
  BY <1>2, <1>4, FS_Injection
<1>6. \A k \in 1 .. Cardinality(S) : \E n \in S : Rank(S, n) = k - 1
  <2> TAKE k \in 1 .. Cardinality(S)
  <2>1. k - 1 \in ranks
    BY <1>1
  <2>2. \A r \in ranks : \E n \in S : rank[n] = r
    BY <1>5 DEF Surjection
  <2> QED
    BY <2>1, <2>2
<1>7. \A k \in 1 .. Cardinality(S) : Ascending(S)[k] \in S /\ Rank(S, Ascending(S)[k]) = k - 1
  BY <1>6 DEF Ascending
<1>8. \A n \in S : \E k \in 1 .. Cardinality(S) : Ascending(S)[k] = n
  <2> SUFFICES ASSUME NEW n \in S
               PROVE  \E k \in 1 .. Cardinality(S) : Ascending(S)[k] = n
    OBVIOUS
  <2>1. Rank(S, n) \in ranks
    BY RankRange
  <2>2. Rank(S, n) + 1 \in 1 .. Cardinality(S)
    BY <1>1, <2>1
  <2>3. Rank(S, Ascending(S)[Rank(S, n) + 1]) = Rank(S, n)
    BY <1>7, <2>1, <2>2
  <2> QED
    BY <1>3, <1>7, <2>2, <2>3
<1> QED
  BY <1>1, <1>7, <1>8 DEF Ascending

LEMMA AscendingIsSeq ==
  ASSUME NEW S \in SUBSET NodeId
  PROVE  Ascending(S) \in Seq(NodeId)
<1>1. Cardinality(S) \in Nat /\ Ascending(S) \in [1 .. Cardinality(S) -> S]
  BY NodeSets, AscendingProperties
<1> QED
  BY <1>1

(***************************************************************************)
(* Dep lists, and the set of nodes each holds.                             *)
(***************************************************************************)
LEMMA DepLists ==
  ASSUME NEW n \in NodeId
  PROVE  /\ Deps[n] \in Seq(NodeId) /\ Len(Deps[n]) \in Nat
         /\ DOMAIN Deps[n] = 1 .. Len(Deps[n])
         /\ DepSet(n) \subseteq NodeId
         /\ \A i \in 1 .. Len(Deps[n]) : Deps[n][i] \in DepSet(n)
         /\ \A d \in DepSet(n) : \E i \in 1 .. Len(Deps[n]) : Deps[n][i] = d
<1>1. Deps[n] \in Seq(NodeId)
  BY DagAssumption
<1>2. Len(Deps[n]) \in Nat /\ DOMAIN Deps[n] = 1 .. Len(Deps[n])
  BY <1>1
<1> QED BY <1>1, <1>2 DEF DepSet, Range

(***************************************************************************)
(* How often a node names a dep is a number.                               *)
(***************************************************************************)
LEMMA MultiplicityType ==
  ASSUME NEW n \in NodeId, NEW d
  PROVE  Multiplicity(n, d) \in Nat
<1>1. IsFiniteSet(DOMAIN Deps[n])
  <2>1. Deps[n] \in Seq(NodeId)
    BY DagAssumption
  <2> QED
    BY <2>1, LenProperties, FS_Interval
<1>2. IsFiniteSet({j \in DOMAIN Deps[n] : Deps[n][j] = d})
  BY <1>1, FS_Subset
<1> QED
  BY <1>2, FS_CardinalityType DEF Multiplicity

(***************************************************************************)
(* Cone(ids) is the least dep-closed set of nodes that holds ids.          *)
(***************************************************************************)
LEMMA ConeProperties ==
  ASSUME NEW ids
  PROVE  /\ Cone(ids) \subseteq NodeId
         /\ ids \subseteq NodeId => ids \subseteq Cone(ids)
         /\ DepClosed(Cone(ids))
         /\ \A S \in SUBSET NodeId : ids \subseteq S /\ DepClosed(S) => Cone(ids) \subseteq S
<1>1. \A n \in NodeId : DepSet(n) \subseteq NodeId
  <2> TAKE n \in NodeId
  <2>1. Deps[n] \in Seq(NodeId)
    BY DagAssumption
  <2>2. \A j \in DOMAIN Deps[n] : Deps[n][j] \in NodeId
    BY <2>1
  <2> QED
    BY <2>2 DEF DepSet, Range
<1>2. ASSUME NEW n \in Cone(ids), NEW m \in DepSet(n)
      PROVE  m \in Cone(ids)
  <2>1. n \in NodeId /\ m \in NodeId
    BY <1>1, <1>2 DEF Cone
  <2>2. ASSUME NEW S \in SUBSET NodeId, ids \subseteq S, DepClosed(S)
        PROVE  m \in S
    <3>1. n \in S
      BY <2>2 DEF Cone
    <3> QED
      BY <1>2, <2>2, <3>1 DEF DepClosed
  <2> QED
    BY <2>1, <2>2 DEF Cone
<1>3. DepClosed(Cone(ids))
  BY <1>2 DEF DepClosed
<1> QED
  BY <1>3 DEF Cone

(***************************************************************************)
(* Evaluable(S) is the least subset of S that holds each node of S whose   *)
(* deps it holds.                                                          *)
(***************************************************************************)
LEMMA EvaluableStep ==
  ASSUME NEW S \in SUBSET NodeId, NEW n \in S, DepSet(n) \subseteq Evaluable(S)
  PROVE  n \in Evaluable(S)
<1> SUFFICES ASSUME NEW T \in SUBSET S, \A m \in S : DepSet(m) \subseteq T => m \in T
             PROVE  n \in T
  BY DEF Evaluable
<1>1. DepSet(n) \subseteq T
  BY DEF Evaluable
<1> QED BY <1>1

LEMMA EvaluableLeast ==
  ASSUME NEW S \in SUBSET NodeId, NEW T \in SUBSET NodeId,
         \A m \in S : DepSet(m) \subseteq T => m \in T
  PROVE  Evaluable(S) \subseteq T
<1> DEFINE U == S \cap T
<1>1. \A m \in S : DepSet(m) \subseteq U => m \in U
  OBVIOUS
<1>2. U \in SUBSET S
  OBVIOUS
<1> QED BY <1>1, <1>2 DEF Evaluable

LEMMA EvaluableGrows ==
  ASSUME NEW S \in SUBSET NodeId
  PROVE  Evaluable(S) \subseteq Evaluable(NodeId)
<1>1. \A m \in S : DepSet(m) \subseteq Evaluable(NodeId) => m \in Evaluable(NodeId)
  BY EvaluableStep
<1>2. Evaluable(NodeId) \in SUBSET NodeId
  BY DEF Evaluable
<1> QED BY <1>1, <1>2, EvaluableLeast

LEMMA EvaluableDeps ==
  ASSUME NEW n \in Evaluable(NodeId)
  PROVE  DepSet(n) \subseteq Evaluable(NodeId)
<1> DEFINE T == {m \in Evaluable(NodeId) : DepSet(m) \subseteq Evaluable(NodeId)}
<1>1. \A m \in NodeId : DepSet(m) \subseteq T => m \in T
  BY EvaluableStep
<1>2. T \in SUBSET NodeId
  BY DEF Evaluable
<1>3. Evaluable(NodeId) \subseteq T
  <2> HIDE DEF T
  <2> QED BY <1>1, <1>2, EvaluableLeast
<1> QED BY <1>3

-----------------------------------------------------------------------------
(***************************************************************************)
(* Meaning is defined by recursion over the deps. That its equation has a  *)
(* solution is shown with the least set of pairs <<node, value>> that is   *)
(* closed under applying a closure: on the evaluable nodes it is a         *)
(* function, and the function solves the equation.                         *)
(***************************************************************************)
Pairs == Evaluable(NodeId) \X Value

Argument(n) == [1 .. Len(Deps[n]) -> Value]

Matches(R, n, args) == \A i \in 1 .. Len(Deps[n]) : <<Deps[n][i], args[i]>> \in R

Applies(R) ==
  \A n \in Evaluable(NodeId) : \A args \in Argument(n) :
    Matches(R, n, args) => <<n, ValueOf(n, args)>> \in R

Derived == {p \in Pairs : \A R \in SUBSET Pairs : Applies(R) => p \in R}

LEMMA DerivedApplies == Applies(Derived)
<1> SUFFICES ASSUME NEW n \in Evaluable(NodeId), NEW args \in Argument(n), Matches(Derived, n, args)
             PROVE  <<n, ValueOf(n, args)>> \in Derived
  BY DEF Applies
<1>1. <<n, ValueOf(n, args)>> \in Pairs
  BY ValueAssumption DEF Pairs, Argument, Evaluable
<1>2. ASSUME NEW R \in SUBSET Pairs, Applies(R) PROVE <<n, ValueOf(n, args)>> \in R
  <2>1. Matches(R, n, args)
    BY <1>2 DEF Matches, Derived
  <2> QED BY <1>2, <2>1 DEF Applies
<1> QED BY <1>1, <1>2 DEF Derived

\* A node whose deps have one value each has one value itself.
LEMMA OneDerivedValue ==
  ASSUME NEW n \in Evaluable(NodeId), NEW args \in Argument(n), Matches(Derived, n, args),
         \A i \in 1 .. Len(Deps[n]) : \A v \in Value : <<Deps[n][i], v>> \in Derived => v = args[i],
         NEW w, <<n, w>> \in Derived
  PROVE  w = ValueOf(n, args)
<1> DEFINE R == Derived \ {<<n, w>>}
<1> SUFFICES ASSUME w # ValueOf(n, args) PROVE FALSE
  OBVIOUS
<1>1. R \in SUBSET Pairs
  BY DEF Derived
<1>2. ASSUME NEW m \in Evaluable(NodeId), NEW b \in Argument(m), Matches(R, m, b)
      PROVE  <<m, ValueOf(m, b)>> \in R
  <2>1. Matches(Derived, m, b)
    BY <1>2 DEF Matches
  <2>2. <<m, ValueOf(m, b)>> \in Derived
    BY <2>1, DerivedApplies DEF Applies
  <2>3. CASE m = n
    <3>1. \A i \in 1 .. Len(Deps[n]) : b[i] = args[i]
      BY <2>1, <2>3 DEF Matches, Argument
    <3>2. b = args
      BY <2>3, <3>1 DEF Argument
    <3> QED BY <2>2, <2>3, <3>2
  <2> QED BY <2>2, <2>3
<1>3. Applies(R)
  <2> HIDE DEF R
  <2> QED BY <1>2 DEF Applies
<1>4. <<n, w>> \in R
  BY <1>1, <1>3 DEF Derived
<1> QED BY <1>4

LEMMA DerivedIsFunction ==
  ASSUME NEW n \in Evaluable(NodeId)
  PROVE  \E v \in Value : \A w : <<n, w>> \in Derived <=> w = v
<1> DEFINE Unique(m) == \E v \in Value : \A w : <<m, w>> \in Derived <=> w = v
           T == {m \in Evaluable(NodeId) : Unique(m)}
<1>1. ASSUME NEW m \in NodeId, DepSet(m) \subseteq T PROVE m \in T
  <2> DEFINE args == [i \in 1 .. Len(Deps[m]) |-> CHOOSE v \in Value : <<Deps[m][i], v>> \in Derived]
  <2>1. m \in Evaluable(NodeId)
    BY <1>1, EvaluableStep
  <2>2. ASSUME NEW i \in 1 .. Len(Deps[m])
        PROVE  /\ args[i] \in Value /\ <<Deps[m][i], args[i]>> \in Derived
               /\ \A v \in Value : <<Deps[m][i], v>> \in Derived => v = args[i]
    <3>1. Deps[m][i] \in T
      BY <1>1, DepLists
    <3>2. PICK u \in Value : \A w : <<Deps[m][i], w>> \in Derived <=> w = u
      BY <3>1
    <3> QED BY <3>2
  <2>3. args \in Argument(m) /\ Matches(Derived, m, args)
    BY <2>2 DEF Argument, Matches
  <2> HIDE DEF args
  <2>4. <<m, ValueOf(m, args)>> \in Derived /\ ValueOf(m, args) \in Value
    BY <2>1, <2>3, DerivedApplies, ValueAssumption DEF Applies, Argument
  <2>5. \A w : <<m, w>> \in Derived => w = ValueOf(m, args)
    BY <2>1, <2>2, <2>3, OneDerivedValue
  <2> QED BY <2>1, <2>4, <2>5
<1>2. T \in SUBSET NodeId
  BY DEF Evaluable
<1>3. Evaluable(NodeId) \subseteq T
  <2> HIDE DEF T
  <2> QED BY <1>1, <1>2, EvaluableLeast
<1> QED BY <1>3

LEMMA MeaningExists ==
  \E g : g = [n \in Evaluable(NodeId) |-> ValueOf(n, [i \in 1 .. Len(Deps[n]) |-> g[Deps[n][i]]])]
<1> DEFINE g == [n \in Evaluable(NodeId) |-> CHOOSE v \in Value : <<n, v>> \in Derived]
           args(n) == [i \in 1 .. Len(Deps[n]) |-> g[Deps[n][i]]]
<1>1. ASSUME NEW n \in Evaluable(NodeId)
      PROVE  g[n] \in Value /\ <<n, g[n]>> \in Derived /\ \A w : <<n, w>> \in Derived => w = g[n]
  <2>1. PICK v \in Value : \A w : <<n, w>> \in Derived <=> w = v
    BY DerivedIsFunction
  <2> QED BY <2>1
<1>2. ASSUME NEW n \in Evaluable(NodeId) PROVE g[n] = ValueOf(n, args(n))
  <2>1. \A i \in 1 .. Len(Deps[n]) : Deps[n][i] \in Evaluable(NodeId)
    BY EvaluableDeps, DepLists DEF Evaluable
  <2>2. args(n) \in Argument(n) /\ Matches(Derived, n, args(n))
    <3> HIDE DEF g
    <3> QED BY <1>1, <2>1 DEF Argument, Matches
  <2>3. <<n, ValueOf(n, args(n))>> \in Derived
    <3> HIDE DEF args
    <3> QED BY <2>2, DerivedApplies DEF Applies
  <2> QED BY <1>1, <2>3
<1>3. g = [n \in Evaluable(NodeId) |-> ValueOf(n, args(n))]
  BY <1>2
<1> QED BY <1>3

(***************************************************************************)
(* Meaning is what it is meant to be: the value of an evaluable node is    *)
(* its closure applied to the values of its deps.                          *)
(***************************************************************************)
LEMMA MeaningSolves ==
  ASSUME NEW n \in Evaluable(NodeId)
  PROVE  Meaning[n] = ValueOf(n, [i \in 1 .. Len(Deps[n]) |-> Meaning[Deps[n][i]]])
<1>1. Meaning = [m \in Evaluable(NodeId) |->
                   ValueOf(m, [i \in 1 .. Len(Deps[m]) |-> Meaning[Deps[m][i]]])]
  BY MeaningExists DEF Meaning
<1> QED BY <1>1

(***************************************************************************)
(* A non-empty set of naturals that is finite has a least element: the     *)
(* first of its ascending sequence.                                        *)
(***************************************************************************)
LEMMA LeastElement ==
  ASSUME NEW S \in SUBSET Nat, IsFiniteSet(S), S # {}
  PROVE  \E n \in S : \A m \in S : n <= m
<1>1. Cardinality(S) \in Nat /\ Cardinality(S) # 0
  BY FS_CardinalityType, FS_EmptySet
<1>2. PICK n \in S : Rank(S, n) = 0
  <2>1. 1 \in 1 .. Cardinality(S)
    BY <1>1
  <2>2. Ascending(S)[1] \in S /\ Rank(S, Ascending(S)[1]) = 1 - 1
    BY <2>1, AscendingProperties
  <2>3. 1 - 1 = 0
    OBVIOUS
  <2> QED
    BY <2>2, <2>3, Zenon
<1> DEFINE below == {m \in S : m < n}
<1>3. IsFiniteSet(below)
  BY FS_Subset
<1>4. below = {}
  BY <1>2, <1>3, FS_EmptySet DEF Rank
<1> QED
  BY <1>4

(***************************************************************************)
(* A set of naturals with an upper bound has a greatest element.           *)
(***************************************************************************)
LEMMA GreatestElement ==
  ASSUME NEW b \in Nat, NEW S \in SUBSET (0 .. b), S # {}
  PROVE  \E n \in S : \A m \in S : m <= n
<1> DEFINE below == {k \in 0 .. b : b - k \in S}
<1>1. below \in SUBSET Nat /\ IsFiniteSet(below)
  <2>1. IsFiniteSet(0 .. b)
    BY FS_Interval
  <2> QED BY <2>1, FS_Subset
<1>2. \A m \in S : b - m \in below
  OBVIOUS
<1>3. below # {}
  BY <1>2
<1> HIDE DEF below
<1>4. PICK k \in below : \A j \in below : k <= j
  BY <1>1, <1>3, LeastElement
<1>5. k \in 0 .. b /\ b - k \in S
  BY <1>4 DEF below
<1>6. \A m \in S : m <= b - k
  BY <1>2, <1>4, <1>5
<1> QED
  BY <1>5, <1>6

-----------------------------------------------------------------------------
(***************************************************************************)
(* Options are the empty sequence and the sequences of one element.        *)
(***************************************************************************)
LEMMA OptionProperties ==
  ASSUME NEW S
  PROVE  /\ None \in Option(S)
         /\ \A x \in S : Some(x) \in Option(S) /\ Some(x)[1] = x /\ Some(x) # None
         /\ \A s \in Option(S) : s # None => s[1] \in S /\ s = Some(s[1]) /\ Len(s) = 1
<1>1. ASSUME NEW s \in Option(S), s # None
      PROVE  s[1] \in S /\ s = Some(s[1]) /\ Len(s) = 1
  <2>1. s \in Seq(S) /\ Len(s) <= 1 /\ s # <<>>
    BY <1>1 DEF Option, None
  <2>2. Len(s) \in Nat \ {0}
    BY <2>1, EmptySeq
  <2>3. Len(s) = 1
    <3>1. \A k \in Nat \ {0} : k <= 1 => k = 1
      OBVIOUS
    <3> QED
      BY <2>1, <2>2, <3>1
  <2>4. s[1] \in S
    BY <2>1, <2>3, ElementOfSeq
  <2>5. <<s[1]>> \in Seq(S) /\ Len(<<s[1]>>) = 1 /\ <<s[1]>>[1] = s[1]
    BY <2>4
  <2>6. s = <<s[1]>>
    BY <2>1, <2>3, <2>5, SeqEqual
  <2> QED
    BY <2>3, <2>4, <2>6 DEF Some
<1> QED
  BY <1>1 DEF Option, None, Some
=============================================================================
