--------------------------- MODULE DagEvalProofs ---------------------------
(***************************************************************************)
(* What DagEval promises, for every graph, request and choice of order.    *)
(***************************************************************************)
EXTENDS DagEval, DagProofs

TypeOK ==
  /\ outs \in Requests
  /\ usable \in BOOLEAN
  /\ needed \in SUBSET NodeId
  /\ vals \in [NodeId -> Option(Value)]

Valued == {n \in NodeId : vals[n] # None}

(***************************************************************************)
(* The inductive invariant. A value is there only where some order of      *)
(* evaluation reaches; the converse, that all such nodes have values, is   *)
(* true only at Stop, where it follows from nothing being startable.       *)
(***************************************************************************)
TablesOK ==
  /\ TypeOK
  /\ DepClosed(needed)
  /\ needed # {} => Range(outs) \subseteq needed
  /\ Valued \subseteq Evaluable(needed)
  /\ \A n \in NodeId :
       vals[n] # None => n \in needed /\ DepsDone(n) /\ vals[n] = Some(Meaning[n])

IInv == TablesOK /\ ValuesDetermined /\ CycleExact

-----------------------------------------------------------------------------
\* A closure applied to values yields a value.
LEMMA AppliedType == ASSUME TypeOK, NEW n \in NodeId, DepsDone(n)
                     PROVE  Applied(n) \in Value
<1> DEFINE args == [i \in 1 .. Len(Deps[n]) |-> vals[Deps[n][i]][1]]
<1>1. ASSUME NEW i \in 1 .. Len(Deps[n]) PROVE vals[Deps[n][i]][1] \in Value
  <2>1. Deps[n][i] \in NodeId /\ vals[Deps[n][i]] # None
    BY DepLists DEF DepsDone
  <2>2. vals[Deps[n][i]] \in Option(Value)
    BY <2>1 DEF TypeOK
  <2> QED BY <2>1, <2>2, OptionProperties
<1>2. args \in [1 .. Len(Deps[n]) -> Value]
  BY <1>1
<1>3. ValueOf(n, args) \in Value
  BY <1>2, ValueAssumption
<1> QED BY <1>3 DEF Applied

(***************************************************************************)
(* A node whose deps have values is reached by an order of evaluation, and *)
(* its closure, applied to the values its deps have now, gives its meaning.*)
(***************************************************************************)
LEMMA AppliedMeans ==
  ASSUME IInv, NEW n \in needed, DepsDone(n)
  PROVE  n \in Evaluable(needed) /\ Applied(n) = Meaning[n]
<1>1. n \in NodeId /\ needed \in SUBSET NodeId
  BY DEF IInv, TablesOK, TypeOK
<1>2. DepSet(n) \subseteq Valued
  BY <1>1, DepLists DEF DepsDone, Valued
<1>3. n \in Evaluable(needed)
  BY <1>1, <1>2, EvaluableStep DEF IInv, TablesOK
<1>4. n \in Evaluable(NodeId)
  BY <1>1, <1>3, EvaluableGrows
<1>5. ASSUME NEW i \in 1 .. Len(Deps[n]) PROVE vals[Deps[n][i]][1] = Meaning[Deps[n][i]]
  <2>1. Deps[n][i] \in Valued
    BY <1>1, <1>2, DepLists
  <2> QED BY <2>1 DEF IInv, TablesOK, Valued, Some
<1>6. [i \in 1 .. Len(Deps[n]) |-> vals[Deps[n][i]][1]]
        = [i \in 1 .. Len(Deps[n]) |-> Meaning[Deps[n][i]]]
  BY <1>5
<1>7. Applied(n) = Meaning[n]
  BY <1>4, <1>6, MeaningSolves DEF Applied
<1> QED BY <1>3, <1>7

-----------------------------------------------------------------------------
LEMMA TablesKept ==
  ASSUME TablesOK, UNCHANGED <<outs, usable, needed, vals>>
  PROVE  TablesOK'
BY DEF TablesOK, TypeOK, Valued, Evaluable, DepClosed, DepsDone

LEMMA InitIInv == ASSUME Init PROVE IInv
<1>1. TypeOK
  BY OptionProperties DEF Init, TypeOK
<1>2. Valued = {} /\ DepClosed(needed) /\ needed = {} /\ \A n \in NodeId : vals[n] = None
  BY DEF Init, Valued, DepClosed
<1>3. ValuesDetermined /\ CycleExact
  BY DEF Init, ValuesDetermined, CycleExact
<1> QED BY <1>1, <1>2, <1>3 DEF IInv, TablesOK

\* Only the outcome changes, and it is neither a Cycle nor an answer.
LEMMA EndIInv ==
  ASSUME IInv, NEW o, o.tag \notin {"Cycle", "Ok"}, End(o)
  PROVE  IInv'
<1>1. UNCHANGED <<outs, usable, needed, vals>> /\ outcome' = o
  BY DEF End
<1>2. TablesOK'
  BY <1>1, TablesKept DEF IInv
<1>3. ValuesDetermined'
  BY <1>1, <1>2 DEF TablesOK, ValuesDetermined
<1>4. CycleExact'
  BY <1>1 DEF CycleExact
<1> QED BY <1>2, <1>3, <1>4 DEF IInv

LEMMA BeginIInv == ASSUME IInv, Begin PROVE IInv'
<1>1. needed = {} /\ needed' = Cone(Range(outs)) /\ outcome' = [tag |-> "Running"]
      /\ Range(outs) \subseteq NodeId /\ UNCHANGED <<outs, usable, vals>>
  BY DEF Begin, Fresh, Running
<1>2. Valued = {} /\ \A n \in NodeId : vals[n] = None
  BY <1>1 DEF IInv, TablesOK, Valued
<1>3. TypeOK' /\ DepClosed(needed)' /\ Range(outs)' \subseteq needed'
  BY <1>1, ConeProperties DEF IInv, TablesOK, TypeOK, DepClosed
<1>4. TablesOK'
  BY <1>1, <1>2, <1>3 DEF TablesOK, Valued
<1>5. ValuesDetermined' /\ CycleExact'
  BY <1>1, <1>4 DEF ValuesDetermined, CycleExact, TablesOK
<1> QED BY <1>4, <1>5 DEF IInv

LEMMA EvaluateIInv == ASSUME IInv, Evaluate PROVE IInv'
<1>1. PICK n \in NodeId :
        /\ Running
        /\ Startable(n)
        /\ vals' = [vals EXCEPT ![n] = Some(Applied(n))]
        /\ UNCHANGED <<outs, usable, needed, outcome>>
  BY DEF Evaluate
<1>2. TypeOK /\ n \in needed /\ vals[n] = None /\ DepsDone(n)
  BY <1>1 DEF IInv, TablesOK, Startable
<1>3. Applied(n) \in Value /\ Some(Applied(n)) \in Option(Value) /\ Some(Applied(n)) # None
  BY <1>2, AppliedType, OptionProperties
<1>4. TypeOK'
  BY <1>1, <1>2, <1>3 DEF TypeOK
<1>5. vals'[n] = Some(Meaning[n]) /\ \A m \in NodeId : m # n => vals'[m] = vals[m]
  BY <1>1, <1>2, AppliedMeans DEF TypeOK
<1>6. \A m \in NodeId : DepsDone(m) => DepsDone(m)'
  <2> SUFFICES ASSUME NEW m \in NodeId, DepsDone(m), NEW d \in DepSet(m) PROVE vals'[d] # None
    BY DEF DepsDone
  <2>1. d \in NodeId /\ vals[d] # None
    BY DepLists DEF DepsDone
  <2> QED BY <2>1, <1>2, <1>5
<1>7. ASSUME NEW m \in NodeId, vals'[m] # None
      PROVE  m \in needed' /\ DepsDone(m)' /\ vals'[m] = Some(Meaning[m])
  <2>1. CASE m = n
    BY <2>1, <1>1, <1>2, <1>5, <1>6
  <2>2. CASE m # n
    <3>1. m \in needed /\ DepsDone(m) /\ vals[m] = Some(Meaning[m])
      BY <2>2, <1>5, <1>7 DEF IInv, TablesOK
    <3> QED BY <2>2, <3>1, <1>1, <1>5, <1>6
  <2> QED BY <2>1, <2>2
<1>8. Valued' \subseteq Evaluable(needed)'
  <2>1. n \in Evaluable(needed)
    BY <1>2, AppliedMeans
  <2>2. Valued' \subseteq Valued \cup {n}
    BY <1>5 DEF Valued
  <2>3. Evaluable(needed)' = Evaluable(needed)
    BY <1>1 DEF Evaluable
  <2> QED BY <2>1, <2>2, <2>3 DEF IInv, TablesOK
<1>9. TablesOK'
  BY <1>1, <1>4, <1>7, <1>8 DEF IInv, TablesOK, DepClosed
<1>10. ValuesDetermined' /\ CycleExact'
  BY <1>1, <1>7 DEF ValuesDetermined, CycleExact, Running
<1> QED BY <1>9, <1>10 DEF IInv

\* All of the cone has values: those asked for are the answer.
LEMMA FinishIInv == ASSUME IInv, Finish PROVE IInv'
<1>1. /\ needed # {} /\ \A n \in needed : vals[n] # None
      /\ UNCHANGED <<outs, usable, needed, vals>>
      /\ outcome' = [tag |-> "Ok",
                     outputs |-> [n \in NodeId |-> IF n \in Range(outs) THEN vals[n] ELSE None]]
  BY DEF Finish, End
<1>2. \A n \in Range(outs) : n \in NodeId /\ vals[n] = Some(Meaning[n])
  BY <1>1 DEF IInv, TablesOK, TypeOK
<1>3. [n \in NodeId |-> IF n \in Range(outs) THEN vals[n] ELSE None] = Answer(outs)
  BY <1>2 DEF Answer
<1>4. TablesOK'
  BY <1>1, TablesKept DEF IInv
<1>5. ValuesDetermined'
  BY <1>1, <1>3, <1>4 DEF TablesOK, ValuesDetermined, Answer
<1>6. CycleExact'
  BY <1>1 DEF CycleExact
<1> QED BY <1>4, <1>5, <1>6 DEF IInv

\* Where nothing is startable, all that is reachable has been reached.
LEMMA StopIInv == ASSUME IInv, Stop PROVE IInv'
<1>1. UNCHANGED <<outs, usable, needed, vals>> /\ Unreached # {}
      /\ outcome' = [tag |-> "Cycle", remaining |-> Ascending(Unreached)]
  BY DEF Stop, End
<1>2. TypeOK /\ Valued \subseteq Evaluable(needed) /\ Valued \subseteq needed
  BY DEF IInv, TablesOK, Evaluable
<1>3. Evaluable(needed) \subseteq Valued
  <2>1. ASSUME NEW m \in needed, DepSet(m) \subseteq Valued PROVE m \in Valued
    <3>1. ~ Startable(m) /\ m \in NodeId
      BY <1>2 DEF Stop, TypeOK
    <3>2. DepsDone(m)
      BY <2>1 DEF DepsDone, Valued
    <3> QED BY <3>1, <3>2 DEF Startable, Valued
  <2>2. needed \in SUBSET NodeId /\ Valued \in SUBSET NodeId
    BY <1>2 DEF TypeOK, Valued
  <2> QED BY <2>1, <2>2, EvaluableLeast
<1>4. Unreached = needed \ Evaluable(needed)
  BY <1>2, <1>3 DEF Unreached, Valued, TypeOK
<1>5. CycleExact'
  BY <1>1, <1>4 DEF CycleExact, Evaluable
<1>6. TablesOK'
  BY <1>1, TablesKept DEF IInv
<1>7. ValuesDetermined'
  BY <1>1, <1>6 DEF TablesOK, ValuesDetermined
<1> QED BY <1>5, <1>6, <1>7 DEF IInv

LEMMA NextIInv == ASSUME IInv, [Next]_vars PROVE IInv'
<1>1. CASE RefuseCall
  BY <1>1, EndIInv DEF RefuseCall
<1>2. CASE RefuseOutput
  <2>1. PICK i \in DOMAIN outs : End([tag |-> "OutputMissing", key |-> outs[i]])
    BY <1>2 DEF RefuseOutput
  <2> QED BY <2>1, EndIInv
<1>3. CASE Begin
  BY <1>3, BeginIInv
<1>4. CASE Evaluate
  BY <1>4, EvaluateIInv
<1>5. CASE Fail
  <2>1. PICK n \in NodeId \ Sources : End([tag |-> "TaskFailed", task |-> n])
    BY <1>5 DEF Fail
  <2> QED BY <2>1, EndIInv
<1>6. CASE Finish
  BY <1>6, FinishIInv
<1>7. CASE Stop
  BY <1>7, StopIInv
<1>8. CASE UNCHANGED vars
  <2>1. TablesOK'
    BY <1>8, TablesKept DEF vars, IInv
  <2>2. ValuesDetermined' /\ CycleExact'
    BY <1>8 DEF vars, IInv, ValuesDetermined, DepsDone, CycleExact, Evaluable
  <2> QED BY <2>1, <2>2 DEF IInv
<1> QED BY <1>1, <1>2, <1>3, <1>4, <1>5, <1>6, <1>7, <1>8 DEF Next, Done

LEMMA Invariance == Spec => []IInv
<1>1. Init => IInv
  BY InitIInv
<1>2. IInv /\ [Next]_vars => IInv'
  BY NextIInv
<1> QED BY <1>1, <1>2, PTL DEF Spec

-----------------------------------------------------------------------------
(***************************************************************************)
(* Whatever order the executor chooses, every value is the node's meaning  *)
(* and an Ok outcome the answer the graph and the request determine.       *)
(***************************************************************************)
THEOREM Determinate == Spec => []ValuesDetermined
<1>1. IInv => ValuesDetermined
  BY DEF IInv
<1> QED BY <1>1, Invariance, PTL

(***************************************************************************)
(* On every graph, a Cycle error names exactly the needed nodes that no    *)
(* order of evaluation reaches, in NodeId order, and there is one.         *)
(***************************************************************************)
THEOREM CycleNamesUnreachable == Spec => []CycleExact
<1>1. IInv => CycleExact
  BY DEF IInv
<1> QED BY <1>1, Invariance, PTL
=============================================================================
