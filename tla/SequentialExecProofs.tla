------------------------ MODULE SequentialExecProofs ------------------------
(***************************************************************************)
(* SequentialExec implements DagEval, for every graph, request and         *)
(* behaviour of the closures, and the trace of TracedSequential is true.   *)
(***************************************************************************)
EXTENDS TracedSequential, KahnProofs

Working == pc \in {"loop", "running"}

(***************************************************************************)
(* The inductive invariant: the startable nodes are those in the queue and *)
(* the one whose closure runs, each once, and processed counts the pops.   *)
(***************************************************************************)
QueueOK ==
  /\ ready \in Seq(NodeId)
  /\ IsInjective(ready)
  /\ processed \in Nat
  /\ pc \in {"start", "loop", "running", "returned", "unwound"}
  /\ pc = "start" => needed = {} /\ processed = 0
  /\ pc = "start" \/ Working => result = [tag |-> "Running"]
  /\ Working => needed # {}

LoopOK ==
  pc = "loop" =>
    /\ Range(ready) = StartableNodes
    /\ processed = Cardinality(ValuedNodes)

RunOK ==
  pc = "running" =>
    /\ current[1] \in StartableNodes \ Sources
    /\ Range(ready) = StartableNodes \ {current[1]}
    /\ processed = Cardinality(ValuedNodes) + 1

IInv == KahnOK /\ QueueOK /\ LoopOK /\ RunOK

-----------------------------------------------------------------------------
\* What leaves the tables and the queue alone keeps what is said of them.
LEMMA TablesKept ==
  ASSUME KahnOK, UNCHANGED <<outs, tables>>
  PROVE  KahnOK' /\ StartableNodes' = StartableNodes /\ ValuedNodes' = ValuedNodes
<1>1. \A n \in NodeId : /\ DepsDone(n)' = DepsDone(n) /\ Unresolved(n)' = Unresolved(n)
  BY DEF tables, DepsDone, Unresolved
<1>2. KahnOK'
  BY <1>1 DEF tables, KahnOK, KahnTypes, DepClosed, MeaningOK, Evaluable
<1>3. StartableNodes' = StartableNodes /\ ValuedNodes' = ValuedNodes
  BY DEF tables, StartableNodes, ValuedNodes, DepsDone
<1> QED BY <1>2, <1>3

LEMMA InitIInv == ASSUME Init PROVE IInv
<1>1. KahnOK
  BY TablesInitOK DEF Init
<1>2. QueueOK /\ LoopOK /\ RunOK
  BY DEF Init, TablesInit, QueueOK, LoopOK, RunOK, Working, IsInjective
<1> QED BY <1>1, <1>2 DEF IInv

\* A step that ends the call and leaves the tables alone.
LEMMA EndIInv ==
  ASSUME IInv, UNCHANGED <<outs, tables>>, pc' \in {"returned", "unwound"}
  PROVE  IInv'
<1>1. KahnOK'
  BY TablesKept DEF IInv
<1>2. QueueOK' /\ LoopOK' /\ RunOK'
  BY DEF IInv, QueueOK, LoopOK, RunOK, Working, tables
<1> QED BY <1>1, <1>2 DEF IInv

\* outs # <<>> makes the cone non-empty.
LEMMA StartIInv == ASSUME IInv, Start PROVE IInv' /\ needed = {} /\ needed' = Cone(Range(outs))
<1>1. /\ pc = "start" /\ outs # <<>> /\ Seed /\ pc' = "loop" /\ result' = result
      /\ needed = {} /\ processed = 0 /\ outs' = outs
  BY DEF Start, IInv, QueueOK, Seed
<1>2. /\ KahnOK' /\ ready' \in Seq(NodeId) /\ IsInjective(ready')
      /\ Range(ready') = StartableNodes' /\ Range(outs') \subseteq needed'
  BY <1>1, SeedOK DEF IInv
<1>3. needed' # {}
  <2>1. outs \in Seq(Key)
    BY CallAssumption DEF IInv, KahnOK, KahnTypes
  <2>2. 1 \in DOMAIN outs
    BY <1>1, <2>1, EmptySeq, LenProperties
  <2> QED BY <1>1, <1>2, <2>2 DEF Range
<1>4. vals' = vals /\ processed' = processed
  BY <1>1 DEF Seed
<1>5. ValuedNodes' = {} /\ Cardinality(ValuedNodes') = 0
  <2>1. ValuedNodes' = {}
    BY <1>1, <1>4 DEF ValuedNodes, IInv, KahnOK
  <2> QED BY <2>1, FS_EmptySet
<1>6. QueueOK' /\ LoopOK' /\ RunOK'
  BY <1>1, <1>2, <1>3, <1>4, <1>5 DEF IInv, QueueOK, LoopOK, RunOK, Working
<1> QED BY <1>1, <1>2, <1>6 DEF IInv, Seed

\* Popping takes a startable node out of the queue, for good.
LEMMA PopFacts ==
  ASSUME IInv, NEW n, Pop(n)
  PROVE  /\ n \in StartableNodes /\ n \in NodeId /\ DepsDone(n)
         /\ Tail(ready) \in Seq(NodeId) /\ IsInjective(Tail(ready))
         /\ Range(Tail(ready)) = StartableNodes \ {n}
         /\ processed = Cardinality(ValuedNodes) /\ processed + 1 \in Nat
<1>1. ready \in Seq(NodeId) /\ ready # <<>> /\ IsInjective(ready) /\ n = Head(ready)
      /\ Range(ready) = StartableNodes /\ processed = Cardinality(ValuedNodes)
      /\ processed \in Nat
  BY DEF Pop, IInv, QueueOK, LoopOK
<1>2. n \in StartableNodes /\ Tail(ready) \in Seq(NodeId) /\ IsInjective(Tail(ready))
      /\ Range(Tail(ready)) = StartableNodes \ {n}
  BY <1>1, TailOnce
<1> QED BY <1>1, <1>2 DEF StartableNodes, IInv, KahnOK, KahnTypes

\* Recording a value puts the queue right again.
LEMMA RecordQueue ==
  ASSUME IInv, NEW d \in StartableNodes, NEW v \in Value, v = ValueOf(d, Args(d)),
         NEW q \in Seq(NodeId), IsInjective(q), Range(q) = StartableNodes \ {d},
         Record(d, v, q), UNCHANGED <<outs, needed>>
  PROVE  /\ KahnOK'
         /\ ready' \in Seq(NodeId) /\ IsInjective(ready') /\ Range(ready') = StartableNodes'
         /\ Cardinality(ValuedNodes') = Cardinality(ValuedNodes) + 1
<1>1. /\ KahnOK' /\ Released(d) \subseteq needed /\ Released(d) \cap StartableNodes = {}
      /\ StartableNodes' = (StartableNodes \ {d}) \cup Released(d)
      /\ ValuedNodes' = ValuedNodes \cup {d} /\ d \notin ValuedNodes
  BY RecordOK DEF IInv
<1>2. Released(d) \subseteq NodeId
  BY <1>1 DEF IInv, KahnOK, KahnTypes
<1>3. /\ Ascending(Released(d)) \in Seq(NodeId) /\ IsInjective(Ascending(Released(d)))
      /\ Range(Ascending(Released(d))) = Released(d)
  BY <1>2, AscendingOnce
<1>4. ready' = q \o Ascending(Released(d))
  BY DEF Record
<1>5. ready' \in Seq(NodeId) /\ IsInjective(ready') /\ Range(ready') = StartableNodes'
  BY <1>1, <1>3, <1>4, ConcatOnce
<1> QED BY <1>1, <1>5, ValuedCount DEF IInv

LEMMA RunSourceIInv ==
  ASSUME IInv, NEW n \in Sources, Pop(n), Complete(n, ValueOf(n, <<>>), Tail(ready)),
         UNCHANGED <<outs, result, needed, pc, current>>
  PROVE  IInv'
<1>1. ValueOf(n, <<>>) \in Value /\ Args(n) = <<>>
  BY SourceYields DEF IInv, KahnOK
<1>2. /\ KahnOK'
      /\ ready' \in Seq(NodeId) /\ IsInjective(ready') /\ Range(ready') = StartableNodes'
      /\ Cardinality(ValuedNodes') = Cardinality(ValuedNodes) + 1
  BY <1>1, PopFacts, RecordQueue DEF Complete
<1>3. processed' = processed + 1 /\ processed = Cardinality(ValuedNodes) /\ processed' \in Nat
  BY PopFacts DEF Complete
<1>4. pc = "loop"
  BY DEF Pop
<1>5. QueueOK' /\ LoopOK' /\ RunOK'
  BY <1>2, <1>3, <1>4 DEF IInv, QueueOK, LoopOK, RunOK, Working
<1> QED BY <1>2, <1>5 DEF IInv

\* A popped task has its deps: "dep missing during exec" is never returned.
LEMMA StartTaskIInv ==
  ASSUME IInv, StartTask
  PROVE  IInv' /\ UNCHANGED <<outs, needed, vals, result>>
<1>1. PICK n \in NodeId \ Sources :
        /\ Pop(n)
        /\ processed' = processed + 1
        /\ ready' = Tail(ready)
        /\ IF DepsDone(n)
             THEN pc' = "running" /\ current' = Some(n) /\ UNCHANGED result
             ELSE Return([tag |-> "InternalInvariant", what |-> "dep missing"])
                    /\ UNCHANGED current
        /\ UNCHANGED <<outs, needed, indeg, vals>>
  BY DEF StartTask
<1>2. /\ n \in StartableNodes /\ DepsDone(n)
      /\ Tail(ready) \in Seq(NodeId) /\ IsInjective(Tail(ready))
      /\ Range(Tail(ready)) = StartableNodes \ {n}
      /\ processed = Cardinality(ValuedNodes) /\ processed + 1 \in Nat
  BY <1>1, PopFacts
<1>3. pc' = "running" /\ current' = Some(n) /\ result' = result /\ current'[1] = n
  BY <1>1, <1>2 DEF Some
<1>4. KahnOK' /\ StartableNodes' = StartableNodes /\ ValuedNodes' = ValuedNodes
  <2>1. \A m \in NodeId : /\ DepsDone(m)' = DepsDone(m) /\ Unresolved(m)' = Unresolved(m)
    BY <1>1 DEF DepsDone, Unresolved
  <2>2. KahnOK'
    BY <1>1, <2>1 DEF IInv, KahnOK, KahnTypes, DepClosed, MeaningOK, Evaluable
  <2> QED BY <1>1, <2>2 DEF StartableNodes, ValuedNodes, DepsDone
<1>5. QueueOK'
  BY <1>1, <1>2, <1>3 DEF IInv, QueueOK, Working, Pop
<1>6. LoopOK' /\ RunOK'
  BY <1>1, <1>2, <1>3, <1>4 DEF LoopOK, RunOK
<1> QED BY <1>1, <1>3, <1>4, <1>5, <1>6 DEF IInv

\* The task whose closure runs.
LEMMA RunningTask ==
  ASSUME IInv, NEW n, NEW how, ClosureEnds(n, how)
  PROVE  /\ n \in StartableNodes /\ n \in NodeId \ Sources /\ DepsDone(n)
         /\ how \in Behaviour[n]
         /\ Range(ready) = StartableNodes \ {n}
         /\ processed = Cardinality(ValuedNodes) + 1
         /\ result = [tag |-> "Running"]
         /\ ValueOf(n, Args(n)) \in Value
<1>1. pc = "running" /\ n = current[1] /\ how \in Behaviour[n]
  BY DEF ClosureEnds
<1>2. n \in StartableNodes \ Sources /\ Range(ready) = StartableNodes \ {n}
      /\ processed = Cardinality(ValuedNodes) + 1
  BY <1>1 DEF IInv, RunOK
<1>3. n \in NodeId /\ DepsDone(n)
  BY <1>2 DEF IInv, KahnOK, KahnTypes, StartableNodes
<1>4. ValueOf(n, Args(n)) \in Value
  BY <1>3, TaskYields DEF IInv, KahnOK
<1> QED BY <1>1, <1>2, <1>3, <1>4 DEF IInv, QueueOK, Working

LEMMA TaskOkIInv ==
  ASSUME IInv, NEW n \in NodeId, ClosureEnds(n, "ok"), Record(n, ValueOf(n, Args(n)), ready),
         pc' = "loop", UNCHANGED <<outs, result, needed, processed>>
  PROVE  IInv'
<1>1. /\ KahnOK'
      /\ ready' \in Seq(NodeId) /\ IsInjective(ready') /\ Range(ready') = StartableNodes'
      /\ Cardinality(ValuedNodes') = Cardinality(ValuedNodes) + 1
  BY RunningTask, RecordQueue DEF IInv, QueueOK
<1>2. processed = Cardinality(ValuedNodes) + 1 /\ pc = "running"
  BY RunningTask DEF ClosureEnds
<1>3. QueueOK' /\ LoopOK' /\ RunOK'
  BY <1>1, <1>2 DEF IInv, QueueOK, LoopOK, RunOK, Working
<1> QED BY <1>1, <1>3 DEF IInv

LEMMA NextIInv == ASSUME IInv, [Next]_vars PROVE IInv'
<1>1. CASE RejectCall \/ RejectOutput
  BY <1>1, EndIInv DEF RejectCall, RejectOutput, Return
<1>2. CASE Start
  BY <1>2, StartIInv
<1>3. CASE RunSource
  BY <1>3, RunSourceIInv DEF RunSource
<1>4. CASE StartTask
  BY <1>4, StartTaskIInv
<1>5. CASE TaskOk
  BY <1>5, TaskOkIInv DEF TaskOk
<1>6. CASE TaskErr \/ TaskPanics
  BY <1>6, EndIInv DEF TaskErr, TaskPanics, Return, tables
<1>7. CASE Finish
  BY <1>7, EndIInv DEF Finish, Return
<1>8. CASE UNCHANGED vars
  <2>1. KahnOK' /\ StartableNodes' = StartableNodes /\ ValuedNodes' = ValuedNodes
    BY <1>8, TablesKept DEF vars, IInv
  <2>2. QueueOK' /\ LoopOK' /\ RunOK'
    BY <1>8, <2>1 DEF vars, tables, IInv, QueueOK, LoopOK, RunOK, Working
  <2> QED BY <2>1, <2>2 DEF IInv
<1> QED BY <1>1, <1>2, <1>3, <1>4, <1>5, <1>6, <1>7, <1>8 DEF Next, Finished

LEMMA Invariance == Spec => []IInv
<1>1. Init => IInv
  BY InitIInv
<1>2. IInv /\ [Next]_vars => IInv'
  BY NextIInv
<1> QED BY <1>1, <1>2, PTL DEF Spec

\* The queue is dry and all of the cone has been processed: Finish collects the answer.
LEMMA FinishAnswers ==
  ASSUME IInv, Finish, AllProcessed
  PROVE  result' = Collected /\ Collected.outputs = Answer(outs)
<1>1. /\ pc = "loop" /\ ready = <<>> /\ needed # {} /\ result' = Collected
  BY DEF Finish, Return, IInv, QueueOK, Working
<1>2. processed = Cardinality(ValuedNodes)
  BY <1>1 DEF IInv, LoopOK
<1>3. \A n \in needed : vals[n] # None
  BY <1>2, CountSaysAll DEF AllProcessed, IInv
<1> QED BY <1>1, <1>3, CollectedOk DEF IInv

(***************************************************************************)
(* run_sequential gives the answer the graph and the request determine.    *)
(***************************************************************************)
THEOREM SequentialAgrees == Spec => []SameAnswer
<1>1. Init => SameAnswer
  BY DEF Init, TablesInit, SameAnswer
<1>2. ASSUME IInv, SameAnswer, [Next]_vars PROVE SameAnswer'
  <2>1. CASE Finish
    <3>1. outs' = outs
      BY <2>1 DEF Finish
    <3>2. CASE AllProcessed
      BY <1>2, <2>1, <3>1, <3>2, FinishAnswers DEF SameAnswer, Answer
    <3>3. CASE ~ AllProcessed
      BY <2>1, <3>3 DEF Finish, Return, SameAnswer
    <3> QED BY <3>2, <3>3
  <2>2. CASE ~ Finish
    <3>1. CASE RejectCall \/ RejectOutput
      BY <3>1 DEF RejectCall, RejectOutput, Return, SameAnswer
    <3>2. CASE Start \/ RunSource \/ TaskOk \/ UNCHANGED vars
      BY <1>2, <3>2 DEF Start, Seed, RunSource, TaskOk, vars, SameAnswer, Answer
    <3>3. CASE StartTask
      BY <1>2, <3>3, StartTaskIInv DEF SameAnswer, Answer
    <3>4. CASE TaskErr \/ TaskPanics
      BY <1>2, <3>4 DEF TaskErr, TaskPanics, Return, SameAnswer, Answer
    <3> QED BY <1>2, <2>2, <3>1, <3>2, <3>3, <3>4 DEF Next, Finished
  <2> QED BY <2>1, <2>2
<1> QED BY <1>1, <1>2, Invariance, PTL DEF Spec

-----------------------------------------------------------------------------
(***************************************************************************)
(* The work: a source takes one step, a task two, finding the queue dry    *)
(* one. A node is popped once, so processed never passes the cone.         *)
(***************************************************************************)
Unpopped == Cardinality(needed) - processed

StepsLeft ==
  CASE pc = "start"   -> 2 * NodeCount + 2
    [] pc = "loop"    -> 2 * Unpopped + 1
    [] pc = "running" -> 2 * Unpopped + 2
    [] OTHER          -> 0

EveryStepCounts == [][StepsLeft' \in Nat /\ StepsLeft' < StepsLeft]_vars

LEMMA UnpoppedFacts ==
  ASSUME IInv, Working
  PROVE  /\ Unpopped \in Nat /\ Cardinality(needed) \in Nat /\ processed \in Nat
         /\ Unpopped = Cardinality(needed) - processed
         /\ pc = "loop" /\ ready # <<>> => Unpopped - 1 \in Nat
<1> DEFINE t == Cardinality(needed)
           v == Cardinality(ValuedNodes)
<1>1. IsFiniteSet(needed) /\ t \in Nat /\ ValuedNodes \subseteq needed
  BY NodeSets, FS_CardinalityType DEF IInv, KahnOK, KahnTypes, ValuedNodes
<1>2. v \in Nat /\ v <= t
  BY <1>1, FS_Subset, FS_CardinalityType
<1>3. ASSUME NEW n \in StartableNodes PROVE v + 1 <= t
  <2>1. n \in needed /\ n \notin ValuedNodes
    BY DEF StartableNodes, ValuedNodes
  <2>2. Cardinality(ValuedNodes \cup {n}) = v + 1
    BY <2>1, ValuedCount DEF IInv
  <2>3. Cardinality(ValuedNodes \cup {n}) <= t
    <3> HIDE DEF t
    <3> QED BY <1>1, <2>1, FS_Subset DEF t
  <2> QED BY <2>2, <2>3
<1>4. CASE pc = "loop"
  <2>1. processed = v
    BY <1>4 DEF IInv, LoopOK
  <2>2. ASSUME ready # <<>> PROVE v + 1 <= t
    <3>1. Head(ready) \in StartableNodes
      BY <1>4, <2>2, PopFacts DEF Pop
    <3> QED BY <1>3, <3>1
  <2> HIDE DEF t, v
  <2> QED BY <1>1, <1>2, <1>4, <2>1, <2>2 DEF Unpopped, t
<1>5. CASE pc = "running"
  <2>1. processed = v + 1 /\ v + 1 <= t
    BY <1>3, <1>5 DEF IInv, RunOK
  <2> HIDE DEF t, v
  <2> QED BY <1>1, <1>2, <1>5, <2>1 DEF Unpopped, t
<1> QED BY <1>4, <1>5 DEF Working

(***************************************************************************)
(* A call of run_sequential takes at most two steps per node and two more, *)
(* on every graph and however its closures end (sequential.rs:52).         *)
(***************************************************************************)
THEOREM SequentialBounded ==
  /\ Init => StepsLeft = 2 * NodeCount + 2
  /\ Spec => EveryStepCounts
<1>1. Init => StepsLeft = 2 * NodeCount + 2
  BY DEF Init, StepsLeft
<1>2. ASSUME IInv, IInv', Next, vars' # vars PROVE StepsLeft' \in Nat /\ StepsLeft' < StepsLeft
  <2> DEFINE u == Unpopped
             u1 == Unpopped'
  <2>1. NodeCount \in Nat
    BY DagAssumption
  <2>2. CASE RejectCall \/ RejectOutput
    <3>1. StepsLeft = 2 * NodeCount + 2 /\ StepsLeft' = 0
      BY <2>2 DEF RejectCall, RejectOutput, Return, StepsLeft
    <3> QED BY <2>1, <3>1
  <2>3. CASE Start
    <3>1. needed = {} /\ processed' = 0
      BY <1>2, <2>3, StartIInv DEF Start, Seed, IInv, QueueOK
    <3>2. Cardinality(needed') \in Nat /\ Cardinality(needed') <= NodeCount
      BY <1>2, <2>3, <3>1, SeedCount DEF IInv, Start
    <3>3. StepsLeft = 2 * NodeCount + 2 /\ StepsLeft' = 2 * u1 + 1 /\ u1 = Cardinality(needed') - processed'
      BY <2>3 DEF Start, StepsLeft, Unpopped
    <3> HIDE DEF u1
    <3> QED BY <2>1, <3>1, <3>2, <3>3
  <2>4. CASE RunSource \/ StartTask
    <3>1. u - 1 \in Nat /\ u \in Nat
      BY <1>2, <2>4, UnpoppedFacts DEF RunSource, StartTask, Pop, Working
    <3>2. needed' = needed /\ processed' = processed + 1
      BY <2>4 DEF RunSource, StartTask, Complete
    <3>3. u1 = u - 1
      <4>1. pc = "loop"
        BY <2>4 DEF RunSource, StartTask, Pop
      <4>2. Cardinality(needed) \in Nat /\ processed \in Nat
        BY <1>2, <4>1, UnpoppedFacts DEF Working
      <4>3. u = Cardinality(needed) - processed /\ u1 = Cardinality(needed) - (processed + 1)
        BY <3>2 DEF Unpopped
      <4> HIDE DEF u, u1
      <4> QED BY <4>2, <4>3
    <3>4. StepsLeft = 2 * u + 1
      BY <2>4 DEF RunSource, StartTask, Pop, StepsLeft
    <3>5. StepsLeft' \in {2 * u1 + 1, 2 * u1 + 2, 0}
      BY <2>4 DEF RunSource, StartTask, Return, Pop, StepsLeft
    <3> HIDE DEF u, u1
    <3>6. CASE StepsLeft' = 2 * u1 + 1
      BY <3>1, <3>3, <3>4, <3>6
    <3>7. CASE StepsLeft' = 2 * u1 + 2
      BY <3>1, <3>3, <3>4, <3>7
    <3>8. CASE StepsLeft' = 0
      BY <3>1, <3>4, <3>8
    <3> QED BY <3>5, <3>6, <3>7, <3>8
  <2>5. CASE TaskOk
    <3>1. u \in Nat
      BY <1>2, <2>5, UnpoppedFacts DEF TaskOk, ClosureEnds, Working
    <3>2. u1 = u
      BY <2>5 DEF TaskOk, Unpopped
    <3>3. StepsLeft = 2 * u + 2 /\ StepsLeft' = 2 * u1 + 1
      BY <2>5 DEF TaskOk, ClosureEnds, StepsLeft
    <3> HIDE DEF u, u1
    <3> QED BY <3>1, <3>2, <3>3
  <2>6. CASE TaskErr \/ TaskPanics \/ Finish
    <3>1. u \in Nat
      BY <1>2, <2>6, UnpoppedFacts DEF TaskErr, TaskPanics, Finish, ClosureEnds, Working
    <3>2. StepsLeft \in {2 * u + 1, 2 * u + 2} /\ StepsLeft' = 0
      BY <2>6 DEF TaskErr, TaskPanics, Finish, ClosureEnds, Return, StepsLeft
    <3> HIDE DEF u
    <3> QED BY <3>1, <3>2
  <2> QED BY <1>2, <2>2, <2>3, <2>4, <2>5, <2>6 DEF Next, Finished
<1>3. IInv /\ IInv' /\ [Next]_vars => [StepsLeft' \in Nat /\ StepsLeft' < StepsLeft]_vars
  BY <1>2
<1>4. Spec => EveryStepCounts
  BY <1>3, Invariance, PTL DEF Spec, EveryStepCounts
<1> QED BY <1>1, <1>4

-----------------------------------------------------------------------------
(* The refinement.                                                         *)

\* DagEval's notions, seen through the instance, are those of Dag.
LEMMA EvalNotions ==
  /\ Eval!NodeId = NodeId
  /\ Eval!None = None
  /\ \A x : Eval!Some(x) = Some(x)
  /\ \A S : Eval!Cone(S) = Cone(S)
  /\ \A S : Eval!Ascending(S) = Ascending(S)
  /\ \A n : Eval!DepSet(n) = DepSet(n)
  /\ Eval!Range(outs) = Range(outs)
<1>1. Eval!NodeId = NodeId /\ Eval!None = None /\ \A x : Eval!Some(x) = Some(x)
  BY DEF Eval!NodeId, NodeId, Eval!None, None, Eval!Some, Some
<1>2. \A n : Eval!DepSet(n) = DepSet(n)
  BY DEF Eval!DepSet, DepSet, Eval!Range, Range
<1>3. Eval!Range(outs) = Range(outs)
  BY DEF Eval!Range, Range
<1>4. \A S : Eval!Cone(S) = Cone(S)
  BY <1>1, <1>2 DEF Eval!Cone, Cone, Eval!DepClosed, DepClosed
<1>5. \A S : Eval!Ascending(S) = Ascending(S)
  <2>1. \A S : Eval!Cardinality(S) = Cardinality(S)
    BY DEF Eval!Cardinality, Cardinality
  <2>2. \A S, n : Eval!Rank(S, n) = Rank(S, n)
    BY <2>1 DEF Eval!Rank, Rank
  <2> QED BY <2>1, <2>2 DEF Eval!Ascending, Ascending
<1> QED BY <1>1, <1>2, <1>3, <1>4, <1>5

\* A node in hand is one that DagEval may evaluate, to the same value.
LEMMA EvalStartable ==
  ASSUME IInv, NEW n \in StartableNodes
  PROVE  n \in Eval!NodeId /\ Eval!Startable(n) /\ Eval!Applied(n) = ValueOf(n, Args(n))
<1>1. n \in needed /\ n \in NodeId /\ vals[n] = None /\ DepsDone(n)
  BY DEF StartableNodes, IInv, KahnOK, KahnTypes
<1>2. Eval!Startable(n)
  BY <1>1, EvalNotions DEF Eval!Startable, Eval!DepsDone, DepsDone
<1>3. Eval!Applied(n) = ValueOf(n, Args(n))
  BY DEF Eval!Applied, Args
<1> QED BY <1>1, <1>2, <1>3, EvalNotions

LEMMA InitRefines == ASSUME Init PROVE Eval!Init
<1>1. outs \in Requests /\ result = [tag |-> "Running"] /\ needed = {}
      /\ vals = [n \in NodeId |-> None]
  BY DEF Init, TablesInit
<1> QED BY <1>1, EvalNotions DEF Eval!Init

LEMMA EvaluateRefines ==
  ASSUME IInv, NEW n \in StartableNodes, n \in Sources \/ "ok" \in Behaviour[n],
         result = [tag |-> "Running"],
         vals' = [vals EXCEPT ![n] = Some(ValueOf(n, Args(n)))],
         UNCHANGED <<outs, needed, result>>
  PROVE  Eval!Evaluate
BY EvalStartable, EvalNotions DEF Eval!Evaluate, Eval!Running

LEMMA FinishRefines == ASSUME IInv, Finish PROVE Eval!Finish \/ Eval!Stop
<1>1. /\ pc = "loop" /\ ready = <<>> /\ result = [tag |-> "Running"] /\ needed # {}
      /\ result' = IF AllProcessed THEN Collected
                                   ELSE [tag |-> "Cycle", remaining |-> Ascending(Remaining)]
      /\ outs' = outs /\ needed' = needed /\ vals' = vals
  BY DEF Finish, Return, IInv, QueueOK, Working, tables
<1>2. StartableNodes = {} /\ processed = Cardinality(ValuedNodes)
  BY <1>1 DEF IInv, LoopOK, Range
<1>3. AllProcessed <=> \A n \in needed : vals[n] # None
  BY <1>2, CountSaysAll DEF AllProcessed, IInv
<1>4. CASE AllProcessed
  <2>1. result' = [tag |-> "Ok",
                   outputs |-> [n \in NodeId |-> IF n \in Range(outs) THEN vals[n] ELSE None]]
    BY <1>1, <1>3, <1>4, CollectedOk DEF IInv
  <2> QED BY <1>1, <1>3, <1>4, <2>1, EvalNotions DEF Eval!Finish, Eval!End, Eval!Running
<1>5. CASE ~ AllProcessed
  <2>1. Eval!Unreached = {n \in needed : vals[n] = None}
    BY EvalNotions DEF Eval!Unreached
  <2>2. Eval!Unreached # {}
    BY <1>3, <1>5, <2>1
  <2>3. Remaining = Eval!Unreached
    BY <1>2, <2>1, RemainingIsUnvalued DEF IInv
  <2>4. \A n \in needed : ~ Eval!Startable(n)
    BY <1>2, EvalNotions DEF StartableNodes, Eval!Startable, Eval!DepsDone, DepsDone
  <2> QED BY <1>1, <1>5, <2>2, <2>3, <2>4, EvalNotions DEF Eval!Stop, Eval!End, Eval!Running
<1> QED BY <1>4, <1>5

LEMMA NextRefines == ASSUME IInv, [Next]_vars PROVE [Eval!Next]_(Eval!vars)
<1>1. CASE RejectCall
  <2>1. Eval!RefuseCall
    BY <1>1 DEF RejectCall, Return, tables, IInv, QueueOK, Eval!RefuseCall, Eval!Fresh,
                Eval!Running, Eval!End
  <2> QED BY <2>1 DEF Eval!Next
<1>2. CASE RejectOutput
  <2>1. PICK key \in UnknownKeys : MissingOutput(key) /\ Return([tag |-> "OutputMissing", key |-> key])
    BY <1>2 DEF RejectOutput
  <2>2. PICK i \in DOMAIN outs :
          /\ outs[i] = key /\ key \notin NodeId /\ \A j \in 1 .. i - 1 : outs[j] \in NodeId
    BY <2>1 DEF MissingOutput
  <2>3. outs # <<>>
    BY <2>2
  <2>4. pc = "start" /\ needed = {} /\ result = [tag |-> "Running"]
        /\ outs' = outs /\ needed' = needed /\ vals' = vals
        /\ result' = [tag |-> "OutputMissing", key |-> outs[i]]
    BY <1>2, <2>1, <2>2 DEF RejectOutput, Return, tables, IInv, QueueOK
  <2>5. Eval!RefuseOutput
    BY <2>2, <2>3, <2>4, EvalNotions DEF Eval!RefuseOutput, Eval!Fresh, Eval!Running, Eval!End
  <2> QED BY <2>5 DEF Eval!Next
<1>3. CASE Start
  <2>1. /\ pc = "start" /\ outs # <<>> /\ needed = {} /\ needed' = Cone(Range(outs))
        /\ result = [tag |-> "Running"] /\ result' = result /\ outs' = outs /\ vals' = vals
        /\ Range(outs) \subseteq NodeId
    BY <1>3, StartIInv DEF Start, Seed, IInv, QueueOK
  <2>2. Eval!Begin
    BY <2>1, EvalNotions DEF Eval!Begin, Eval!Fresh, Eval!Running
  <2> QED BY <2>2 DEF Eval!Next
<1>4. CASE RunSource
  <2>1. PICK n \in Sources : /\ Pop(n) /\ Complete(n, ValueOf(n, <<>>), Tail(ready))
                             /\ UNCHANGED <<outs, result, needed, pc, current>>
    BY <1>4 DEF RunSource
  <2>2. n \in StartableNodes /\ Args(n) = <<>> /\ result = [tag |-> "Running"]
    BY <2>1, PopFacts, SourceYields DEF IInv, KahnOK, QueueOK, Working, Pop
  <2>3. vals' = [vals EXCEPT ![n] = Some(ValueOf(n, Args(n)))]
    BY <2>1, <2>2 DEF Complete, Record
  <2>4. Eval!Evaluate
    BY <2>1, <2>2, <2>3, EvaluateRefines
  <2> QED BY <2>4 DEF Eval!Next
<1>5. CASE StartTask
  BY <1>5, StartTaskIInv DEF Eval!vars
<1>6. CASE TaskOk
  <2>1. PICK n \in NodeId : /\ ClosureEnds(n, "ok") /\ Record(n, ValueOf(n, Args(n)), ready)
                            /\ UNCHANGED <<outs, result, needed, processed>>
    BY <1>6 DEF TaskOk
  <2>2. n \in StartableNodes /\ "ok" \in Behaviour[n] /\ result = [tag |-> "Running"]
    BY <2>1, RunningTask
  <2>3. Eval!Evaluate
    BY <2>1, <2>2, EvaluateRefines DEF Record
  <2> QED BY <2>3 DEF Eval!Next
<1>7. CASE TaskErr
  <2>1. PICK n \in NodeId : /\ ClosureEnds(n, "err") /\ Return([tag |-> "TaskFailed", task |-> n])
                            /\ UNCHANGED <<outs, tables>>
    BY <1>7 DEF TaskErr
  <2>2. n \in StartableNodes /\ n \in NodeId \ Sources /\ "err" \in Behaviour[n]
        /\ result = [tag |-> "Running"]
    BY <2>1, RunningTask
  <2>3. Eval!Fail
    BY <2>1, <2>2, EvalStartable, EvalNotions
    DEF Eval!Fail, Eval!Running, Eval!End, Return, tables
  <2> QED BY <2>3 DEF Eval!Next
<1>8. CASE TaskPanics
  BY <1>8 DEF TaskPanics, Eval!vars, tables
<1>9. CASE Finish
  BY <1>9, FinishRefines DEF Eval!Next
<1>10. CASE UNCHANGED vars
  BY <1>10 DEF vars, tables, Eval!vars
<1> QED
  BY <1>1, <1>2, <1>3, <1>4, <1>5, <1>6, <1>7, <1>8, <1>9, <1>10 DEF Next, Finished

(***************************************************************************)
(* run_sequential is an evaluation in the sense of DagEval: each needed    *)
(* node is evaluated once, after its deps and on their values, no dep is   *)
(* ever missing, and the call ends only as DagEval allows.                 *)
(***************************************************************************)
THEOREM SequentialRefines == Spec => Implements
<1>1. Init => Eval!Init
  BY InitRefines
<1>2. IInv /\ [Next]_vars => [Eval!Next]_(Eval!vars)
  BY NextRefines
<1> QED BY <1>1, <1>2, Invariance, PTL DEF Spec, Implements, Eval!Spec

-----------------------------------------------------------------------------
(* The traced call.                                                        *)

\* The observer only watches.
LEMMA TracedStep == ASSUME [TracedNext]_tracedVars PROVE [Next]_vars
BY DEF TracedNext, Thread, TracedStart, TracedSource, TracedStartTask, TracedTaskOk,
       TracedFinish, Unobserved, TimePasses, tracedVars, Next

LEMMA TracedIsSequential == TracedSpec => Spec
<1>1. TracedInit => Init
  BY DEF TracedInit
<1>2. [TracedNext]_tracedVars => [Next]_vars
  BY TracedStep
<1> QED BY <1>1, <1>2, PTL DEF TracedSpec, Spec

(***************************************************************************)
(* The traced call is an evaluation as well.                               *)
(***************************************************************************)
THEOREM TracedSequentialRefines == TracedSpec => Implements
BY TracedIsSequential, SequentialRefines, PTL

(***************************************************************************)
(* The marks agree with the evaluation, the task whose closure runs is     *)
(* marked as started, and a trace is only there after the end.             *)
(***************************************************************************)
TracedInv ==
  /\ IInv /\ ObsOK(obs) /\ TraceOK
  /\ trace # None => pc = "returned"
  /\ pc = "running" => current[1] \in StartedNodes(obs)

LEMMA TracedInitInv == ASSUME TracedInit PROVE TracedInv
BY InitIInv, ObserverInitOK DEF TracedInit, Init, TracedInv, TraceOK, ObserverInit

\* Steps before the end, the trace still to come.
LEMMA TracedBefore ==
  ASSUME TracedInv, pc # "returned", IInv', ObsOK(obs)', trace' = trace,
         pc' = "running" => current'[1] \in StartedNodes(obs)'
  PROVE  TracedInv'
<1>1. trace = None
  BY DEF TracedInv
<1> QED BY <1>1 DEF TracedInv, TraceOK

LEMMA TracedSourceInv == ASSUME TracedInv, IInv', TracedSource PROVE TracedInv'
<1>1. PICK n \in Sources : /\ Pop(n) /\ Complete(n, ValueOf(n, <<>>), Tail(ready))
                           /\ UNCHANGED <<outs, result, needed, pc, current>>
  BY DEF TracedSource, RunSource
<1> DEFINE o == MarkStart(obs, n, None)
<1>2. /\ obs' = FinishAndRelease(o, n, Tail(ready)) /\ clock' = clock /\ trace' = trace
      /\ pc = "loop" /\ pc' = pc
  BY <1>1 DEF TracedSource, Observe, Pop
<1>3. /\ n \in StartableNodes /\ Tail(ready) \in Seq(NodeId) /\ KahnOK /\ ObsOK(obs)
      /\ ValueOf(n, <<>>) \in Value /\ Args(n) = <<>>
  BY <1>1, PopFacts, SourceYields DEF TracedInv, IInv, KahnOK
<1>4. ObsOK(o) /\ n \in StartedNodes(o)
  BY <1>3, MarkStartOK, OptionProperties
<1> HIDE DEF o
<1>5. Record(n, ValueOf(n, <<>>), Tail(ready)) /\ UNCHANGED <<outs, needed>>
  BY <1>1 DEF Complete
<1>6. ObsOK(obs)'
  BY <1>2, <1>3, <1>4, <1>5, FinishObserved
<1> QED BY <1>2, <1>6, TracedBefore

LEMMA TracedStartTaskInv == ASSUME TracedInv, IInv', TracedStartTask PROVE TracedInv'
<1>1. PICK n \in NodeId \ Sources :
        /\ Pop(n)
        /\ IF DepsDone(n)
             THEN pc' = "running" /\ current' = Some(n) /\ UNCHANGED result
             ELSE Return([tag |-> "InternalInvariant", what |-> "dep missing"])
                    /\ UNCHANGED current
        /\ UNCHANGED <<outs, needed, indeg, vals>>
  BY DEF TracedStartTask, StartTask
<1> DEFINE o == MarkStart(obs, n, None)
<1>2. obs' = o /\ clock' = clock /\ trace' = trace /\ pc = "loop"
  BY <1>1 DEF TracedStartTask, Observe, Pop
<1>3. n \in StartableNodes /\ DepsDone(n) /\ KahnOK /\ ObsOK(obs)
  BY <1>1, PopFacts DEF TracedInv, IInv
<1>4. ObsOK(o) /\ n \in StartedNodes(o)
  BY <1>3, MarkStartOK, OptionProperties
<1> HIDE DEF o
<1>5. ObsOK(obs)'
  BY <1>1, <1>2, <1>4, ObserveOK
<1>6. current' = Some(n) /\ current'[1] = n
  BY <1>1, <1>3 DEF Some
<1>7. StartedNodes(obs)' = StartedNodes(o)
  BY <1>2 DEF StartedNodes
<1> QED BY <1>2, <1>4, <1>5, <1>6, <1>7, TracedBefore

LEMMA TracedTaskOkInv == ASSUME TracedInv, IInv', TracedTaskOk PROVE TracedInv'
<1>1. PICK n \in NodeId : /\ ClosureEnds(n, "ok") /\ Record(n, ValueOf(n, Args(n)), ready)
                          /\ pc' = "loop" /\ UNCHANGED <<outs, result, needed, processed>>
  BY DEF TracedTaskOk, TaskOk
<1>2. /\ obs' = FinishAndRelease(obs, n, ready) /\ clock' = clock /\ trace' = trace
      /\ pc = "running" /\ n = current[1]
  BY <1>1 DEF TracedTaskOk, Observe, ClosureEnds
<1>3. /\ n \in StartableNodes /\ n \in StartedNodes(obs) /\ ready \in Seq(NodeId)
      /\ ValueOf(n, Args(n)) \in Value /\ KahnOK /\ ObsOK(obs)
  BY <1>1, <1>2, RunningTask DEF TracedInv, IInv, QueueOK
<1>4. ObsOK(obs)'
  BY <1>1, <1>2, <1>3, FinishObserved
<1> QED BY <1>1, <1>2, <1>4, TracedBefore

\* The outputs are there: all needed nodes have been evaluated.
LEMMA TracedFinishInv == ASSUME TracedInv, IInv', TracedFinish PROVE TracedInv'
<1>1. /\ pc = "loop" /\ ready = <<>> /\ pc' = "returned"
      /\ result' = IF AllProcessed THEN Collected
                                   ELSE [tag |-> "Cycle", remaining |-> Ascending(Remaining)]
      /\ needed' = needed /\ vals' = vals /\ clock' = clock /\ obs' = obs
      /\ trace' = IF result'.tag = "Ok" THEN Some(Finalize) ELSE trace
  BY DEF TracedFinish, FinalizeIfOk, Finish, Return, tables
<1>2. KahnOK /\ ObsOK(obs) /\ TraceOK /\ trace = None /\ needed # {} /\ ObsOK(obs)'
  BY <1>1, ObserveOK DEF TracedInv, IInv, QueueOK, Working
<1>3. TraceOK'
  <2>1. CASE result'.tag = "Ok"
    <3>1. AllProcessed
      BY <1>1, <2>1
    <3>2. AllValued
      BY <1>1, <1>2, <3>1, CountSaysAll DEF AllProcessed, AllValued, TracedInv, IInv, LoopOK
    <3> QED BY <1>1, <1>2, <2>1, <3>2, FinalizeObserved
  <2>2. CASE result'.tag # "Ok"
    BY <1>1, <1>2, <2>2 DEF TraceOK
  <2> QED BY <2>1, <2>2
<1> QED BY <1>1, <1>2, <1>3 DEF TracedInv

LEMMA TracedNextInv == ASSUME TracedInv, [TracedNext]_tracedVars PROVE TracedInv'
<1>1. IInv'
  BY TracedStep, NextIInv DEF TracedInv
<1>2. CASE TracedStart
  <2>1. /\ Seed /\ needed = {} /\ obs' = MarkReadyAll(obs, ready', 0) /\ clock' = clock
        /\ trace' = trace /\ pc = "start" /\ pc' = "loop"
    BY <1>2, StartIInv DEF TracedStart, Start, Observe, TracedInv
  <2>2. ObsOK(obs)'
    BY <2>1, SeedObserved DEF TracedInv, IInv
  <2> QED BY <1>1, <2>1, <2>2, TracedBefore
<1>3. CASE TracedSource
  BY <1>1, <1>3, TracedSourceInv
<1>4. CASE TracedStartTask
  BY <1>1, <1>4, TracedStartTaskInv
<1>5. CASE TracedTaskOk
  BY <1>1, <1>5, TracedTaskOkInv
<1>6. CASE TracedFinish
  BY <1>1, <1>6, TracedFinishInv
<1>7. CASE (RejectCall \/ RejectOutput \/ TaskErr \/ TaskPanics) /\ UNCHANGED observer
  <2>1. /\ pc # "returned" /\ pc' \in {"returned", "unwound"}
        /\ UNCHANGED <<needed, vals, clock, obs, trace>>
    BY <1>7 DEF RejectCall, RejectOutput, TaskErr, TaskPanics, Return, ClosureEnds, tables, observer
  <2>2. ObsOK(obs)'
    BY <2>1, ObserveOK DEF TracedInv
  <2> QED BY <1>1, <2>1, <2>2, TracedBefore
<1>8. CASE TimePasses
  <2>1. pc # "returned" /\ Tick /\ UNCHANGED <<needed, vals, obs, trace, pc, current>>
    BY <1>8 DEF TimePasses, vars, tables, Tick
  <2>2. ObsOK(obs)' /\ StartedNodes(obs)' = StartedNodes(obs)
    BY <2>1, TickOK DEF TracedInv, StartedNodes
  <2> QED BY <1>1, <2>1, <2>2, TracedBefore DEF TracedInv
<1>9. CASE UNCHANGED vars /\ UNCHANGED observer
  <2>1. UNCHANGED <<needed, vals, clock, obs, trace, pc, current>>
    BY <1>9 DEF vars, tables, observer
  <2>2. ObsOK(obs)' /\ TraceOK' /\ StartedNodes(obs)' = StartedNodes(obs)
    BY <2>1, ObserveOK, TraceKept DEF TracedInv, StartedNodes
  <2> QED BY <1>1, <2>1, <2>2 DEF TracedInv
<1> QED
  BY <1>2, <1>3, <1>4, <1>5, <1>6, <1>7, <1>8, <1>9
  DEF TracedNext, Thread, Unobserved, Finished, tracedVars

LEMMA TracedInvariance == TracedSpec => []TracedInv
<1>1. TracedInit => TracedInv
  BY TracedInitInv
<1>2. TracedInv /\ [TracedNext]_tracedVars => TracedInv'
  BY TracedNextInv
<1> QED BY <1>1, <1>2, PTL DEF TracedSpec

LEMMA TracedInvFacts == TracedInv => TraceFacts
BY DEF TracedInv, IInv, TraceFacts

(***************************************************************************)
(* Nodes are started, and reported, after all their deps, for every graph  *)
(* whatever the order of its ids.                                          *)
(***************************************************************************)
THEOREM SequentialTopological == TracedSpec => []TraceTopological
<1>1. TracedInv => TraceTopological
  BY TracedInvFacts, TopologicalFollows
<1> QED BY <1>1, TracedInvariance, PTL

(***************************************************************************)
(* A trace reports each needed node once, with times that are in order.    *)
(***************************************************************************)
THEOREM SequentialTimes == TracedSpec => []TimesOrdered
<1>1. TracedInv => TimesOrdered
  BY TracedInvFacts, TimesFollow
<1> QED BY <1>1, TracedInvariance, PTL

(***************************************************************************)
(* The pass of finalize finds the heaviest chain of dependent nodes, which *)
(* fits in the time of the call.                                           *)
(***************************************************************************)
THEOREM SequentialCriticalPath == TracedSpec => []CriticalPathIsLongest
<1>1. TracedInv => CriticalPathIsLongest
  BY TracedInvFacts, CriticalFollows
<1> QED BY <1>1, TracedInvariance, PTL
=============================================================================
