------------------------- MODULE ParallelExecProofs -------------------------
(***************************************************************************)
(* Theorems about ParallelExec, for every graph, configuration, request    *)
(* and behaviour of the closures.                                          *)
(***************************************************************************)
EXTENDS ParallelExecProps, DagProofs

-----------------------------------------------------------------------------
(* Arithmetic.                                                             *)

LEMMA ModRange ==
  ASSUME NEW a \in Nat, NEW b \in Nat \ {0}
  PROVE  a % b \in 0 .. b - 1
  OBVIOUS

LEMMA MulMonotone ==
  ASSUME NEW a \in Nat, NEW b \in Nat, NEW c \in Nat, b <= c
  PROVE  a * b <= a * c
  OBVIOUS

LEMMA MulPositive ==
  ASSUME NEW a \in Nat \ {0}, NEW b \in Nat \ {0}
  PROVE  a * b \in Nat \ {0}
  OBVIOUS

-----------------------------------------------------------------------------
(***************************************************************************)
(* What the control points mean to the types: past the argument checks the *)
(* configuration is usable and every output is a node; the scheduler holds *)
(* a task exactly when it sends, with workers left to try; a running       *)
(* worker holds a task.                                                    *)
(***************************************************************************)
Started == pc \in {"dispatch", "send", "wait", "close", "join"}

Control ==
  /\ Started => ~ BadCall /\ Range(outs) \subseteq NodeId
  /\ pc = "send" => sending # None /\ tries # 0
  /\ \A w \in WorkerIds : wstate[w] = "running" => wtask[w] # None

TypeInv == TypeOK /\ Control

LEMMA ConfigFacts ==
  ASSUME TypeOK
  PROVE  /\ cfg.max_workers \in Nat /\ cfg.max_in_flight \in Nat /\ cfg.worker_queue_cap \in Nat
         /\ 0 .. cfg.max_workers - 1 \subseteq WorkerIds
<1>1. cfg \in Configs /\ cfg \in Config
  BY ConfigAssumption DEF TypeOK
<1> QED
  BY <1>1 DEF Config, WorkerIds

\* The round robin picks a worker of the pool and leaves the cursor in range.
LEMMA TryWorkerFacts ==
  ASSUME TypeOK, ~ BadCall
  PROVE  /\ TryWorker \in 0 .. cfg.max_workers - 1
         /\ TryWorker \in WorkerIds
         /\ TryWorker + 1 \in 0 .. cfg.max_workers
<1>1. cfg.max_workers \in Nat \ {0}
  BY ConfigFacts DEF BadCall
<1>2. next_worker \in Nat
  BY ConfigFacts DEF TypeOK
<1>3. TryWorker \in 0 .. cfg.max_workers - 1
  BY <1>1, <1>2, ModRange DEF TryWorker
<1> QED
  BY <1>1, <1>3, ConfigFacts

LEMMA DepsType ==
  ASSUME NEW n \in NodeId
  PROVE  /\ Deps[n] \in Seq(NodeId) /\ Len(Deps[n]) \in Nat
         /\ \A i \in 1 .. Len(Deps[n]) : Deps[n][i] \in NodeId
  BY DagAssumption

LEMMA TaskFacts ==
  ASSUME NEW t \in Task
  PROVE  t.id \in NodeId /\ t.args \in [1 .. Len(Deps[t.id]) -> Value] /\ ValueOf(t.id, t.args) \in Value
<1>1. t.id \in NodeId /\ t.args \in Seq(Value) /\ Len(t.args) = Len(Deps[t.id])
  BY DEF Task
<1>2. t.args \in [1 .. Len(Deps[t.id]) -> Value]
  BY <1>1, LenProperties
<1> QED
  BY <1>1, <1>2, ValueAssumption

\* The value of a node, once its deps are done, is what its arguments give.
LEMMA ArgsType ==
  ASSUME TypeOK, NEW n \in NodeId, DepsDone(n)
  PROVE  [id |-> n, args |-> Args(n)] \in Task
<1>1. Deps[n] \in Seq(NodeId) /\ Len(Deps[n]) \in Nat /\ DOMAIN Deps[n] = 1 .. Len(Deps[n])
  BY DepsType, LenProperties
<1>2. \A i \in 1 .. Len(Deps[n]) : vals[Deps[n][i]] \in Option(Value) /\ vals[Deps[n][i]] # None
  BY <1>1, DepsType DEF DepsDone, DepSet, Range, TypeOK
<1>3. \A i \in 1 .. Len(Deps[n]) : vals[Deps[n][i]][1] \in Value
  BY <1>2, OptionProperties
<1>4. Args(n) \in Seq(Value) /\ Len(Args(n)) = Len(Deps[n])
  BY <1>1, <1>3 DEF Args
<1> QED
  BY <1>4 DEF Task

LEMMA SourceValue ==
  ASSUME NEW n \in Sources
  PROVE  ValueOf(n, <<>>) \in Value
<1>1. n \in NodeId /\ Deps[n] = <<>>
  BY DagAssumption
<1>2. <<>> \in [1 .. Len(Deps[n]) -> Value]
  BY <1>1
<1> QED
  BY <1>1, <1>2, ValueAssumption

\* complete: a value recorded, a count, the in-degrees and the queue keep their types
LEMMA CompleteType ==
  ASSUME TypeOK, NEW d \in NodeId, NEW v \in Value, NEW q \in Seq(NodeId), Complete(d, v, q)
  PROVE  /\ vals' \in [NodeId -> Option(Value)]
         /\ processed' \in Nat
         /\ indeg' \in [NodeId -> Int]
         /\ ready' \in Seq(NodeId)
<1>1. vals' \in [NodeId -> Option(Value)]
  BY OptionProperties DEF Complete, Record, TypeOK
<1>2. processed' \in Nat
  BY DEF Complete, Record, TypeOK
<1>3. indeg' \in [NodeId -> Int]
  <2>1. \A n \in NodeId : Multiplicity(n, d) \in Nat
    BY MultiplicityType
  <2> QED
    BY <2>1 DEF Complete, Record, IndegreeAfter, TypeOK
<1>4. ready' \in Seq(NodeId)
  <2>1. Released(d) \in SUBSET NodeId
    BY DEF Released, Dependents, TypeOK
  <2>2. Ascending(Released(d)) \in Seq(NodeId)
    BY <2>1, AscendingIsSeq
  <2> QED
    BY <2>2, ConcatProperties DEF Complete, Record
<1> QED
  BY <1>1, <1>2, <1>3, <1>4

-----------------------------------------------------------------------------
(* Type correctness.                                                       *)

LEMMA OutcomeTypes ==
  /\ [tag |-> "Running"] \in Outcome /\ [tag |-> "Evaluated"] \in Outcome
  /\ \A w \in {"call", "dep missing", "task channel", "result channel"} :
       [tag |-> "InternalInvariant", what |-> w] \in Outcome
  /\ \A k \in Key : [tag |-> "OutputMissing", key |-> k] \in Outcome
  /\ \A n \in NodeId : [tag |-> "TaskFailed", task |-> n] \in Outcome
  /\ \A s \in Seq(NodeId) : [tag |-> "Cycle", remaining |-> s] \in Outcome
  /\ \A o \in [NodeId -> Option(Value)] : [tag |-> "Ok", outputs |-> o] \in Outcome
  BY DEF Outcome, ChannelErrors

LEMMA InitTypes == Init => TypeInv
<1> SUFFICES ASSUME Init PROVE TypeInv
  OBVIOUS
<1>1. cfg.max_workers \in Nat /\ cfg.worker_queue_cap \in Nat
  BY CallAssumption, ConfigAssumption DEF Init, TablesInit, Config
<1>2. None \in Option(Value) /\ None \in Option(Task)
  BY OptionProperties
<1>3. <<>> \in Seq(NodeId) /\ <<>> \in Seq(Task) /\ <<>> \in Seq(TaskResult) /\ Len(<<>>) = 0
  BY EmptySeq
<1>4. result \in Outcome
  BY OutcomeTypes DEF Init, TablesInit
<1>5. TypeOK
  BY <1>1, <1>2, <1>3, <1>4 DEF Init, TablesInit, TypeOK
<1>6. Control
  BY DEF Init, TablesInit, Control, Started
<1> QED
  BY <1>5, <1>6 DEF TypeInv

LEMMA RejectCallTypes == TypeInv /\ RejectCall => TypeInv'
  BY OutcomeTypes
     DEF RejectCall, Rejected, TypeInv, TypeOK, Control, Started,
         call, tables, dispatch, channels, workers

LEMMA RejectOutputTypes == TypeInv /\ RejectOutput => TypeInv'
<1> SUFFICES ASSUME TypeInv, RejectOutput PROVE TypeInv'
  OBVIOUS
<1>1. outs \in Seq(Key)
  BY CallAssumption DEF TypeInv, TypeOK
<1>2. PICK i \in DOMAIN outs : result' = [tag |-> "OutputMissing", key |-> outs[i]]
  BY DEF RejectOutput, MissingOutput, Rejected
<1>3. outs[i] \in Key
  BY <1>1, LenProperties, ElementOfSeq
<1>4. result' \in Outcome
  BY <1>2, <1>3, OutcomeTypes
<1> QED
  BY <1>4 DEF RejectOutput, MissingOutput, Rejected, TypeInv, TypeOK, Control, Started,
              call, tables, dispatch, channels, workers

LEMMA RetryPendingTypes == TypeInv /\ RetryPending => TypeInv'
<1> SUFFICES ASSUME TypeInv, RetryPending PROVE TypeInv'
  OBVIOUS
<1>1. cfg.max_workers \in Nat \ {0}
  BY ConfigFacts DEF TypeInv, Control, Started, RetryPending, BadCall
<1> QED
  BY <1>1, OptionProperties
     DEF RetryPending, PendingTaken, TypeInv, TypeOK, Control, Started, BadCall,
         call, tables, channels, workers

LEMMA StopDispatchingTypes == TypeInv /\ StopDispatching => TypeInv'
  BY DEF StopDispatching, TypeInv, TypeOK, Control, Started, BadCall,
         call, tables, dispatch, channels, workers

LEMMA StartTypes == TypeInv /\ Start => TypeInv'
<1> SUFFICES ASSUME TypeInv, Start PROVE TypeInv'
  OBVIOUS
<1>1. needed' \in SUBSET NodeId
  BY DEF Start, Seed, Cone
<1>2. \A n \in NodeId : InitialIndegree(n) \in Nat
  BY DepsType DEF InitialIndegree
<1>3. indeg' \in [NodeId -> Int]
  BY <1>2 DEF Start, Seed
<1>4. ready' \in Seq(NodeId)
  <2>1. {n \in needed' : indeg'[n] = 0} \in SUBSET NodeId
    BY <1>1
  <2> QED
    BY <2>1, AscendingIsSeq DEF Start, Seed
<1>5. TypeOK'
  BY <1>1, <1>3, <1>4 DEF Start, Seed, TypeInv, TypeOK, call, dispatch, channels
<1>6. Control'
  BY DEF Start, Seed, TypeInv, TypeOK, Control, Started, BadCall, call
<1> QED
  BY <1>5, <1>6 DEF TypeInv

LEMMA RunSourceTypes == TypeInv /\ RunSource => TypeInv'
<1> SUFFICES ASSUME TypeInv, RunSource PROVE TypeInv'
  OBVIOUS
<1>1. PICK n \in Sources :
        /\ PopReady(n)
        /\ Complete(n, ValueOf(n, <<>>), Tail(ready))
        /\ UNCHANGED <<call, pc, result, needed, in_flight, dispatch, channels, workers>>
  BY DEF RunSource
<1>2. n \in NodeId /\ Tail(ready) \in Seq(NodeId)
  BY <1>1, DagAssumption, HeadTailProperties DEF PopReady, TypeInv, TypeOK
<1>3. /\ vals' \in [NodeId -> Option(Value)] /\ processed' \in Nat
      /\ indeg' \in [NodeId -> Int] /\ ready' \in Seq(NodeId)
  BY <1>1, <1>2, SourceValue, CompleteType DEF TypeInv
<1>4. TypeOK'
  BY <1>1, <1>3 DEF TypeInv, TypeOK, call, dispatch, channels, workers
<1>5. Control'
  BY <1>1 DEF TypeInv, Control, Started, BadCall, call, dispatch, workers
<1> QED
  BY <1>4, <1>5 DEF TypeInv

LEMMA PrepareTaskTypes == TypeInv /\ PrepareTask => TypeInv'
<1> SUFFICES ASSUME TypeInv, PrepareTask PROVE TypeInv'
  OBVIOUS
<1>1. PICK n \in NodeId \ Sources :
        /\ PopReady(n)
        /\ ready' = Tail(ready)
        /\ IF DepsDone(n)
             THEN /\ sending' = Some([id |-> n, args |-> Args(n)])
                  /\ tries' = cfg.max_workers
                  /\ pc' = "send"
                  /\ UNCHANGED result
             ELSE /\ Leave([tag |-> "InternalInvariant", what |-> "dep missing"])
                  /\ UNCHANGED <<sending, tries>>
        /\ UNCHANGED <<call, needed, indeg, vals, processed, in_flight, next_worker, pending,
                       channels, workers>>
  BY DEF PrepareTask
<1>2. ready' \in Seq(NodeId)
  BY <1>1, HeadTailProperties DEF PopReady, TypeInv, TypeOK
<1>3. cfg.max_workers \in Nat \ {0}
  BY <1>1, ConfigFacts DEF PopReady, TypeInv, Control, Started, BadCall
<1>4. CASE DepsDone(n)
  <2>1. sending' \in Option(Task) /\ sending' # None
    BY <1>1, <1>4, ArgsType, OptionProperties DEF TypeInv
  <2>2. tries' \in 0 .. cfg.max_workers /\ tries' # 0
    BY <1>1, <1>3, <1>4
  <2>3. TypeOK'
    BY <1>1, <1>2, <1>4, <2>1, <2>2 DEF TypeInv, TypeOK, call, channels, workers
  <2>4. Control'
    BY <1>1, <1>4, <2>1, <2>2 DEF PopReady, TypeInv, Control, Started, BadCall, call, workers
  <2> QED
    BY <2>3, <2>4 DEF TypeInv
<1>5. CASE ~ DepsDone(n)
  <2>1. result' \in Outcome
    BY <1>1, <1>5, OutcomeTypes DEF Leave
  <2>2. TypeOK'
    BY <1>1, <1>2, <1>5, <2>1 DEF Leave, TypeInv, TypeOK, call, channels, workers
  <2>3. Control'
    BY <1>1, <1>5 DEF Leave, PopReady, TypeInv, Control, Started, BadCall, call, workers
  <2> QED
    BY <2>2, <2>3 DEF TypeInv
<1> QED
  BY <1>4, <1>5

LEMMA TrySendTypes == TypeInv /\ TrySend => TypeInv'
<1> SUFFICES ASSUME TypeInv, TrySend PROVE TypeInv'
  OBVIOUS
<1>1. /\ TryWorker \in WorkerIds /\ TryWorker + 1 \in 0 .. cfg.max_workers
  BY TryWorkerFacts DEF TrySend, TypeInv, Control, Started
<1>2. sending[1] \in Task
  BY OptionProperties DEF TrySend, TypeInv, TypeOK, Control
<1>3. queue' \in [WorkerIds -> Seq(Task)]
  BY <1>1, <1>2 DEF TrySend, TypeInv, TypeOK
<1>4. \A w \in WorkerIds : Len(queue'[w]) <= cfg.worker_queue_cap
  <2> TAKE w \in WorkerIds
  <2>1. CASE w = TryWorker
    <3>1. queue'[w] = Append(queue[w], sending[1])
      BY <2>1 DEF TrySend, TypeInv, TypeOK
    <3>2. Len(queue[w]) \in Nat /\ Len(queue'[w]) = Len(queue[w]) + 1
      BY <1>2, <3>1, AppendProperties, LenProperties DEF TypeInv, TypeOK
    <3> QED
      BY <2>1, <3>2, ConfigFacts DEF TrySend, HasRoom, TypeInv
  <2>2. CASE w # TryWorker
    BY <2>2 DEF TrySend, TypeInv, TypeOK
  <2> QED
    BY <2>1, <2>2
<1>5. None \in Option(Task) /\ 0 \in 0 .. cfg.max_workers
  BY OptionProperties, ConfigFacts DEF TypeInv
<1>6. TypeOK'
  BY <1>1, <1>3, <1>4, <1>5 DEF TrySend, TypeInv, TypeOK, call, tables, workers
<1>7. Control'
  BY DEF TrySend, TypeInv, Control, Started, BadCall, call, workers
<1> QED
  BY <1>6, <1>7 DEF TypeInv

LEMMA TryFullTypes == TypeInv /\ TryFull => TypeInv'
<1> SUFFICES ASSUME TypeInv, TryFull PROVE TypeInv'
  OBVIOUS
<1>1. /\ TryWorker \in WorkerIds /\ TryWorker + 1 \in 0 .. cfg.max_workers
  BY TryWorkerFacts DEF TryFull, TypeInv, Control, Started
<1>2. /\ tries \in 0 .. cfg.max_workers /\ tries # 0 /\ cfg.max_workers \in Nat
      /\ tries' = tries - 1
  BY ConfigFacts DEF TryFull, TypeInv, TypeOK, Control
<1>3. tries' \in 0 .. cfg.max_workers /\ (tries # 1 => tries' # 0)
  BY <1>2
<1>4. pending' \in Option(Task) /\ sending' \in Option(Task)
  BY OptionProperties DEF TryFull, TypeInv, TypeOK
<1>5. pc' = "send" => sending' # None /\ tries' # 0
  BY <1>3 DEF TryFull, TypeInv, Control
<1>6. TypeOK'
  BY <1>1, <1>3, <1>4 DEF TryFull, TypeInv, TypeOK, call, tables, channels, workers
<1>7. Control'
  BY <1>5 DEF TryFull, TypeInv, Control, Started, BadCall, call, workers
<1> QED
  BY <1>6, <1>7 DEF TypeInv

LEMMA TryDisconnectedTypes == TypeInv /\ TryDisconnected => TypeInv'
<1> SUFFICES ASSUME TypeInv, TryDisconnected PROVE TypeInv'
  OBVIOUS
<1>1. TryWorker + 1 \in 0 .. cfg.max_workers
  BY TryWorkerFacts DEF TryDisconnected, TypeInv, Control, Started
<1>2. None \in Option(Task) /\ 0 \in 0 .. cfg.max_workers
  BY OptionProperties, ConfigFacts DEF TypeInv
<1>3. result' \in Outcome
  BY OutcomeTypes DEF TryDisconnected, Leave
<1>4. TypeOK'
  BY <1>1, <1>2, <1>3 DEF TryDisconnected, Leave, TypeInv, TypeOK, call, tables, channels, workers
<1>5. Control'
  BY DEF TryDisconnected, Leave, TypeInv, Control, Started, BadCall, call, workers
<1> QED
  BY <1>4, <1>5 DEF TypeInv

LEMMA ReportCycleTypes == TypeInv /\ ReportCycle => TypeInv'
<1> SUFFICES ASSUME TypeInv, ReportCycle PROVE TypeInv'
  OBVIOUS
<1>1. Remaining \in SUBSET NodeId
  BY DEF Remaining, TypeInv, TypeOK
<1>2. result' \in Outcome
  BY <1>1, AscendingIsSeq, OutcomeTypes DEF ReportCycle, Leave
<1> QED
  BY <1>2 DEF ReportCycle, Leave, TypeInv, TypeOK, Control, Started, BadCall,
              call, tables, dispatch, channels, workers

LEMMA ReceiveOkTypes == TypeInv /\ ReceiveOk => TypeInv'
<1> SUFFICES ASSUME TypeInv, ReceiveOk PROVE TypeInv'
  OBVIOUS
<1>1. PICK n \in NodeId, v \in Value :
        /\ TakeResult([id |-> n, out |-> Some(v)])
        /\ Complete(n, v, ready)
        /\ IF MoreToDo(processed')
             THEN pc' = "dispatch" /\ UNCHANGED result
             ELSE Leave([tag |-> "Evaluated"])
        /\ UNCHANGED <<call, needed, dispatch, task_txs_open, queue, res_rx_open, workers>>
  BY DEF ReceiveOk
<1>2. res_rx' \in Seq(TaskResult) /\ in_flight' \in Nat
  BY <1>1, HeadTailProperties DEF TakeResult, TypeInv, TypeOK
<1>3. /\ vals' \in [NodeId -> Option(Value)] /\ processed' \in Nat
      /\ indeg' \in [NodeId -> Int] /\ ready' \in Seq(NodeId)
  BY <1>1, CompleteType DEF TypeInv, TypeOK
<1>4. pc' \in {"dispatch", "close"} /\ result' \in Outcome
  BY <1>1, OutcomeTypes DEF Leave, TypeInv, TypeOK
<1>5. TypeOK'
  BY <1>1, <1>2, <1>3, <1>4 DEF TypeInv, TypeOK, call, dispatch, workers
<1>6. Control'
  BY <1>1, <1>4 DEF TakeResult, TypeInv, Control, Started, BadCall, call, workers
<1> QED
  BY <1>5, <1>6 DEF TypeInv

LEMMA ReceiveErrTypes == TypeInv /\ ReceiveErr => TypeInv'
<1> SUFFICES ASSUME TypeInv, ReceiveErr PROVE TypeInv'
  OBVIOUS
<1>1. PICK n \in NodeId :
        /\ TakeResult([id |-> n, out |-> None])
        /\ Leave([tag |-> "TaskFailed", task |-> n])
        /\ UNCHANGED <<call, tables, dispatch, task_txs_open, queue, res_rx_open, workers>>
  BY DEF ReceiveErr
<1>2. res_rx' \in Seq(TaskResult) /\ in_flight' \in Nat
  BY <1>1, HeadTailProperties DEF TakeResult, TypeInv, TypeOK
<1>3. result' \in Outcome
  BY <1>1, OutcomeTypes DEF Leave
<1>4. TypeOK'
  BY <1>1, <1>2, <1>3 DEF Leave, TypeInv, TypeOK, call, tables, dispatch, workers
<1>5. Control'
  BY <1>1 DEF TakeResult, Leave, TypeInv, Control, Started, BadCall, call, workers
<1> QED
  BY <1>4, <1>5 DEF TypeInv

LEMMA ReceiveDisconnectedTypes == TypeInv /\ ReceiveDisconnected => TypeInv'
  BY OutcomeTypes
     DEF ReceiveDisconnected, Leave, TypeInv, TypeOK, Control, Started, BadCall,
         call, tables, dispatch, channels, workers

LEMMA ClosePoolTypes == TypeInv /\ ClosePool => TypeInv'
  BY DEF ClosePool, TypeInv, TypeOK, Control, Started, BadCall, call, tables, dispatch, workers

\* The first output without a value exists as soon as one output has none.
LEMMA CollectedType ==
  ASSUME TypeOK
  PROVE  Collected \in Outcome
<1> DEFINE missing == {i \in DOMAIN outs : vals[outs[i]] = None}
           first == CHOOSE i \in DOMAIN outs :
                      vals[outs[i]] = None /\ \A j \in 1 .. i - 1 : vals[outs[j]] # None
           got == [n \in NodeId |-> IF n \in Range(outs) THEN vals[n] ELSE None]
<1>1. outs \in Seq(Key) /\ DOMAIN outs = 1 .. Len(outs) /\ Len(outs) \in Nat
  BY CallAssumption, LenProperties DEF TypeOK
<1>2. CASE missing # {}
  <2>1. missing \in SUBSET Nat /\ IsFiniteSet(missing)
    <3>1. IsFiniteSet(DOMAIN outs)
      BY <1>1, FS_Interval
    <3> QED
      BY <1>1, <3>1, FS_Subset
  <2>2. PICK i \in missing : \A m \in missing : i <= m
    BY <1>2, <2>1, LeastElement
  <2>3. \A j \in 1 .. i - 1 : vals[outs[j]] # None
    BY <1>1, <2>1, <2>2
  <2>4. first \in DOMAIN outs
    BY <2>2, <2>3
  <2>5. outs[first] \in Key
    BY <1>1, <2>4, ElementOfSeq
  <2>6. Collected = [tag |-> "OutputMissing", key |-> outs[first]]
    BY <1>2 DEF Collected
  <2> QED
    BY <2>5, <2>6, OutcomeTypes
<1>3. CASE missing = {}
  <2>1. Collected = [tag |-> "Ok", outputs |-> got]
    BY <1>3 DEF Collected
  <2>2. got \in [NodeId -> Option(Value)]
    BY OptionProperties DEF TypeOK
  <2> QED
    BY <2>1, <2>2, OutcomeTypes
<1> QED
  BY <1>2, <1>3

LEMMA ReturnTypes == TypeInv /\ Return => TypeInv'
<1> SUFFICES ASSUME TypeInv, Return PROVE TypeInv'
  OBVIOUS
<1>1. result' \in Outcome
  BY CollectedType DEF Return, TypeInv, TypeOK
<1>2. res_rx' \in Seq(TaskResult)
  BY EmptySeq DEF Return
<1>3. TypeOK'
  BY <1>1, <1>2 DEF Return, TypeInv, TypeOK, call, tables, dispatch, workers
<1>4. Control'
  BY DEF Return, TypeInv, Control, Started, workers
<1> QED
  BY <1>3, <1>4 DEF TypeInv

LEMMA TakeTaskTypes ==
  ASSUME TypeInv, NEW w \in WorkerIds, TakeTask(w)
  PROVE  TypeInv'
<1>1. queue[w] \in Seq(Task) /\ queue[w] # <<>>
  BY DEF TakeTask, TypeInv, TypeOK
<1>2. Head(queue[w]) \in Task /\ Tail(queue[w]) \in Seq(Task) /\ Len(Tail(queue[w])) = Len(queue[w]) - 1
  BY <1>1, HeadTailProperties
<1>3. Len(queue[w]) \in Nat
  BY <1>1, LenProperties
<1>4. \A x \in WorkerIds : Len(queue'[x]) <= cfg.worker_queue_cap
  BY <1>2, <1>3, ConfigFacts DEF TakeTask, TypeInv, TypeOK
<1>5. wtask' \in [WorkerIds -> Option(Task)] /\ wtask'[w] # None
  BY <1>2, OptionProperties DEF TakeTask, TypeInv, TypeOK
<1>6. TypeOK'
  BY <1>2, <1>4, <1>5 DEF TakeTask, TypeInv, TypeOK, call, tables, dispatch
<1>7. Control'
  BY <1>5 DEF TakeTask, TypeInv, TypeOK, Control, Started, BadCall, call, dispatch
<1> QED
  BY <1>6, <1>7 DEF TypeInv

\* What a running worker may send has the type of a result.
LEMMA SendResultTypes ==
  ASSUME TypeInv, NEW w \in WorkerIds, wstate[w] = "running",
         NEW out \in Option(Value), SendResult(w, out)
  PROVE  TypeInv'
<1>1. wtask[w][1] \in Task
  BY OptionProperties DEF TypeInv, TypeOK, Control
<1>2. [id |-> wtask[w][1].id, out |-> out] \in TaskResult
  BY <1>1, TaskFacts DEF TaskResult
<1>3. res_rx' \in Seq(TaskResult)
  BY <1>2, AppendProperties DEF SendResult, TypeInv, TypeOK
<1>4. /\ wtask' \in [WorkerIds -> Option(Task)]
      /\ wstate' \in [WorkerIds -> {"unborn", "idle", "running", "exited"}]
      /\ wstate'[w] # "running"
  BY OptionProperties DEF SendResult, TypeInv, TypeOK
<1>5. TypeOK'
  BY <1>3, <1>4 DEF SendResult, TypeInv, TypeOK, call, tables, dispatch
<1>6. Control'
  BY <1>4 DEF SendResult, TypeInv, TypeOK, Control, Started, BadCall, call, dispatch
<1> QED
  BY <1>5, <1>6 DEF TypeInv

LEMMA FinishTaskTypes ==
  ASSUME TypeInv, NEW w \in WorkerIds, FinishTask(w)
  PROVE  TypeInv'
<1>1. wtask[w][1] \in Task
  BY OptionProperties DEF FinishTask, TypeInv, TypeOK, Control
<1>2. Some(ValueOf(wtask[w][1].id, wtask[w][1].args)) \in Option(Value) /\ None \in Option(Value)
  BY <1>1, TaskFacts, OptionProperties
<1> QED
  BY <1>2, SendResultTypes DEF FinishTask

LEMMA PanicTaskTypes ==
  ASSUME TypeInv, NEW w \in WorkerIds, PanicTask(w)
  PROVE  TypeInv'
<1>1. <<>> \in Seq(Task) /\ Len(<<>>) = 0 /\ None \in Option(Task)
  BY EmptySeq, OptionProperties
<1>2. \A x \in WorkerIds : Len(queue'[x]) <= cfg.worker_queue_cap
  BY <1>1, ConfigFacts DEF PanicTask, TypeInv, TypeOK
<1>3. TypeOK'
  BY <1>1, <1>2 DEF PanicTask, TypeInv, TypeOK, call, tables, dispatch
<1>4. Control'
  BY DEF PanicTask, TypeInv, TypeOK, Control, Started, BadCall, call, dispatch
<1> QED
  BY <1>3, <1>4 DEF TypeInv

LEMMA ExitWorkerTypes ==
  ASSUME TypeInv, NEW w \in WorkerIds, ExitWorker(w)
  PROVE  TypeInv'
  BY DEF ExitWorker, TypeInv, TypeOK, Control, Started, BadCall,
         call, tables, dispatch, channels

LEMMA TypeStep == TypeInv /\ [Next]_vars => TypeInv'
<1> SUFFICES ASSUME TypeInv, [Next]_vars PROVE TypeInv'
  OBVIOUS
<1>1. CASE Scheduler
  BY <1>1, RejectCallTypes, RejectOutputTypes, StartTypes, RetryPendingTypes, RunSourceTypes,
     PrepareTaskTypes, TrySendTypes, TryFullTypes, TryDisconnectedTypes, StopDispatchingTypes,
     ReportCycleTypes, ReceiveOkTypes, ReceiveErrTypes, ReceiveDisconnectedTypes,
     ClosePoolTypes, ReturnTypes
     DEF Scheduler
<1>2. ASSUME NEW w \in WorkerIds, Worker(w) PROVE TypeInv'
  BY <1>2, TakeTaskTypes, FinishTaskTypes, PanicTaskTypes, ExitWorkerTypes DEF Worker
<1>3. CASE UNCHANGED vars
  BY <1>3 DEF TypeInv, TypeOK, Control, Started, BadCall,
              vars, call, tables, dispatch, channels, workers
<1> QED
  BY <1>1, <1>2, <1>3 DEF Next, Finished

LEMMA TypeInvariant == Spec => []TypeInv
  BY InitTypes, TypeStep, PTL DEF Spec

(***************************************************************************)
(* TypeOK is an invariant: in particular the round-robin cursor never      *)
(* leaves the pool, no worker's channel holds more than worker_queue_cap   *)
(* tasks, and in_flight never goes below zero.                             *)
(***************************************************************************)
THEOREM TypeCorrect == Spec => []TypeOK
<1>1. TypeInv => TypeOK
  BY DEF TypeInv
<1> QED
  BY <1>1, TypeInvariant, PTL

-----------------------------------------------------------------------------
(***************************************************************************)
(* The pool. A call starts with no thread; from then on the first          *)
(* max_workers workers exist; a thread that is gone has left no task in    *)
(* its channel; the receiver of results is kept until the call returns,    *)
(* and the call returns only when every worker is gone.                    *)
(***************************************************************************)
PoolInv ==
  /\ pc = "start" => \A w \in WorkerIds : wstate[w] = "unborn"
  /\ Started => \A w \in 0 .. cfg.max_workers - 1 : wstate[w] # "unborn"
  /\ \A w \in WorkerIds : wstate[w] \in {"unborn", "exited"} => queue[w] = <<>>
  /\ pc # "returned" => res_rx_open
  /\ pc = "returned" => AllExited

LEMMA InitPool == Init => PoolInv
  BY DEF Init, TablesInit, PoolInv, Started

\* Scheduler steps that touch no thread, no task channel and keep the receiver.
LEMMA PoolUntouched ==
  ASSUME PoolInv, UNCHANGED <<cfg, queue, res_rx_open, workers>>,
         pc # "start", pc # "returned", pc' \notin {"start", "returned"}, pc \in {"dispatch", "send", "wait", "close", "join"}
  PROVE  PoolInv'
  BY DEF PoolInv, Started, workers

LEMMA SchedulerPool == TypeInv /\ PoolInv /\ Scheduler => PoolInv'
<1> SUFFICES ASSUME TypeInv, PoolInv, Scheduler PROVE PoolInv'
  OBVIOUS
<1>1. CASE RejectCall \/ RejectOutput
  BY <1>1 DEF RejectCall, RejectOutput, MissingOutput, Rejected, PoolInv, Started, AllExited, call, channels, workers
<1>2. CASE Start
  <2>1. \A w \in 0 .. cfg.max_workers - 1 : w \in WorkerIds /\ w < cfg.max_workers
    BY ConfigFacts DEF TypeInv
  <2>2. \A w \in 0 .. cfg.max_workers - 1 : wstate'[w] # "unborn"
    BY <1>2, <2>1 DEF Start, Seed
  <2>3. cfg' = cfg /\ pc' = "dispatch" /\ queue' = queue /\ res_rx_open' = res_rx_open
    BY <1>2 DEF Start, Seed, call, channels
  <2>4. \A w \in WorkerIds : queue[w] = <<>>
    BY <1>2 DEF Start, Seed, PoolInv
  <2> QED
    BY <1>2, <2>2, <2>3, <2>4 DEF Start, Seed, PoolInv, Started
<1>3. CASE RetryPending \/ RunSource \/ StopDispatching
  BY <1>3, PoolUntouched DEF RetryPending, RunSource, StopDispatching, PopReady, call, channels, workers
<1>4. CASE PrepareTask
  BY <1>4, PoolUntouched DEF PrepareTask, PopReady, Leave, call, channels, workers
<1>5. CASE TrySend
  <2>1. TryWorker \in WorkerIds /\ TryWorker \in 0 .. cfg.max_workers - 1
    BY <1>5, TryWorkerFacts DEF TrySend, TypeInv, Control, Started
  <2>2. wstate[TryWorker] \notin {"unborn", "exited"}
    BY <1>5, <2>1 DEF TrySend, Disconnected, PoolInv, Started
  <2> QED
    BY <1>5, <2>1, <2>2 DEF TrySend, PoolInv, Started, call, workers, TypeInv, TypeOK
<1>6. CASE TryFull \/ TryDisconnected \/ ReportCycle \/ ReceiveDisconnected
  BY <1>6, PoolUntouched
     DEF TryFull, TryDisconnected, ReportCycle, ReceiveDisconnected, Leave, call, channels, workers
<1>7. CASE ReceiveOk \/ ReceiveErr
  BY <1>7, PoolUntouched DEF ReceiveOk, ReceiveErr, TakeResult, Leave, call
<1>8. CASE ClosePool
  BY <1>8, PoolUntouched DEF ClosePool, call
<1>9. CASE Return
  BY <1>9 DEF Return, Joined, PoolInv, Started, AllExited, workers
<1> QED
  BY <1>1, <1>2, <1>3, <1>4, <1>5, <1>6, <1>7, <1>8, <1>9 DEF Scheduler

LEMMA WorkerPoolSteps ==
  ASSUME TypeInv, PoolInv, NEW w \in WorkerIds, Worker(w)
  PROVE  PoolInv'
<1>1. wstate[w] \in {"idle", "running"}
  BY DEF Worker, TakeTask, FinishTask, PanicTask, ExitWorker
<1>2. pc \notin {"start", "returned"} /\ res_rx_open
  BY <1>1 DEF PoolInv, AllExited
<1>3. CASE TakeTask(w)
  BY <1>2, <1>3 DEF TakeTask, PoolInv, Started, call, TypeInv, TypeOK
<1>4. CASE FinishTask(w)
  <2>1. /\ wstate' = [wstate EXCEPT ![w] = "idle"]
        /\ UNCHANGED <<cfg, pc, queue, res_rx_open>>
    BY <1>2, <1>4 DEF FinishTask, SendResult, call
  <2> QED
    BY <1>2, <2>1 DEF PoolInv, Started, TypeInv, TypeOK
<1>5. CASE PanicTask(w)
  BY <1>2, <1>5 DEF PanicTask, PoolInv, Started, call, TypeInv, TypeOK
<1>6. CASE ExitWorker(w)
  BY <1>2, <1>6 DEF ExitWorker, PoolInv, Started, call, channels, TypeInv, TypeOK
<1> QED
  BY <1>3, <1>4, <1>5, <1>6 DEF Worker

LEMMA PoolStep == TypeInv /\ PoolInv /\ [Next]_vars => PoolInv'
<1>1. PoolInv /\ UNCHANGED vars => PoolInv'
  BY DEF PoolInv, Started, AllExited, vars, call, channels, workers
<1> QED
  BY <1>1, SchedulerPool, WorkerPoolSteps DEF Next, Finished

LEMMA PoolInvariant == Spec => []PoolInv
  BY InitPool, PoolStep, TypeInvariant, PTL DEF Spec

(***************************************************************************)
(* RAII shutdown: whatever a call returns, Ok or error, its workers are    *)
(* gone and their channels empty.                                          *)
(***************************************************************************)
THEOREM Shutdown == Spec => []NoThreadOutlivesCall
<1>1. PoolInv => NoThreadOutlivesCall
  BY DEF PoolInv, NoThreadOutlivesCall, AllExited, QueuedIn
<1> QED
  BY <1>1, PoolInvariant, PTL

-----------------------------------------------------------------------------
(* Slots: what each channel operation does to them.                        *)

LEMMA CardMove ==
  ASSUME NEW S, IsFiniteSet(S), NEW a \in S, NEW b, b \notin S
  PROVE  IsFiniteSet((S \ {a}) \cup {b}) /\ Cardinality((S \ {a}) \cup {b}) = Cardinality(S)
<1>1. IsFiniteSet(S \ {a}) /\ Cardinality(S \ {a}) = Cardinality(S) - 1
  BY FS_RemoveElement
<1>2. Cardinality((S \ {a}) \cup {b}) = Cardinality(S \ {a}) + 1 /\ IsFiniteSet((S \ {a}) \cup {b})
  BY <1>1, FS_AddElement
<1> QED
  BY <1>1, <1>2, FS_CardinalityType

LEMMA QueuedAppend ==
  ASSUME NEW q \in [WorkerIds -> Seq(Task)], NEW w \in WorkerIds, NEW t \in Task
  PROVE  /\ <<"queue", w, Len(q[w]) + 1>> \notin QueuedIn(q)
         /\ QueuedIn([q EXCEPT ![w] = Append(@, t)])
              = QueuedIn(q) \cup {<<"queue", w, Len(q[w]) + 1>>}
<1> DEFINE p == [q EXCEPT ![w] = Append(@, t)]
           n == Len(q[w])
<1>1. n \in Nat /\ Len(p[w]) = n + 1
  BY AppendProperties, LenProperties
<1>2. 1 .. n + 1 = (1 .. n) \cup {n + 1} /\ n + 1 \notin 1 .. n
  BY <1>1
<1>3. \A x \in WorkerIds : x # w => p[x] = q[x]
  OBVIOUS
<1>4. <<"queue", w, n + 1>> \notin QueuedIn(q)
  BY <1>2 DEF QueuedIn
<1>5. ASSUME NEW s PROVE s \in QueuedIn(p) <=> s \in QueuedIn(q) \/ s = <<"queue", w, n + 1>>
  BY <1>1, <1>2, <1>3 DEF QueuedIn
<1> QED
  BY <1>4, <1>5

LEMMA QueuedTail ==
  ASSUME NEW q \in [WorkerIds -> Seq(Task)], NEW w \in WorkerIds, q[w] # <<>>
  PROVE  /\ <<"queue", w, Len(q[w])>> \in QueuedIn(q)
         /\ QueuedIn([q EXCEPT ![w] = Tail(@)]) = QueuedIn(q) \ {<<"queue", w, Len(q[w])>>}
<1> DEFINE p == [q EXCEPT ![w] = Tail(@)]
           n == Len(q[w])
<1>1. n \in Nat \ {0} /\ Len(p[w]) = n - 1
  BY EmptySeq, HeadTailProperties
<1>2. 1 .. n - 1 = (1 .. n) \ {n} /\ n \in 1 .. n
  BY <1>1
<1>3. \A x \in WorkerIds : x # w => p[x] = q[x]
  OBVIOUS
<1>4. <<"queue", w, n>> \in QueuedIn(q)
  BY <1>2 DEF QueuedIn
<1>5. ASSUME NEW s PROVE s \in QueuedIn(p) <=> s \in QueuedIn(q) /\ s # <<"queue", w, n>>
  BY <1>1, <1>2, <1>3 DEF QueuedIn
<1> QED
  BY <1>4, <1>5

LEMMA QueuedCleared ==
  ASSUME NEW q \in [WorkerIds -> Seq(Task)], NEW w \in WorkerIds
  PROVE  QueuedIn([q EXCEPT ![w] = <<>>]) \subseteq QueuedIn(q)
<1> DEFINE p == [q EXCEPT ![w] = <<>>]
<1>1. \A x \in WorkerIds : x # w => p[x] = q[x]
  OBVIOUS
<1>2. p[w] = <<>> /\ 1 .. Len(<<>>) = {}
  BY EmptySeq
<1> QED
  BY <1>1, <1>2 DEF QueuedIn

LEMMA RunningStep ==
  ASSUME NEW ws \in [WorkerIds -> {"unborn", "idle", "running", "exited"}], NEW w \in WorkerIds
  PROVE  /\ RunningIn([ws EXCEPT ![w] = "running"]) = RunningIn(ws) \cup {<<"run", w, 0>>}
         /\ \A s \in {"idle", "exited"} :
              RunningIn([ws EXCEPT ![w] = s]) = RunningIn(ws) \ {<<"run", w, 0>>}
         /\ <<"run", w, 0>> \in RunningIn(ws) <=> ws[w] = "running"
  BY DEF RunningIn

LEMMA ResultsStep ==
  ASSUME NEW rs \in Seq(TaskResult), NEW r \in TaskResult
  PROVE  /\ ResultsIn(Append(rs, r)) = ResultsIn(rs) \cup {<<"result", 0, Len(rs) + 1>>}
         /\ <<"result", 0, Len(rs) + 1>> \notin ResultsIn(rs)
<1>1. Len(rs) \in Nat /\ Len(Append(rs, r)) = Len(rs) + 1
  BY AppendProperties, LenProperties
<1>2. 1 .. Len(rs) + 1 = (1 .. Len(rs)) \cup {Len(rs) + 1} /\ Len(rs) + 1 \notin 1 .. Len(rs)
  BY <1>1
<1> QED
  BY <1>1, <1>2 DEF ResultsIn

LEMMA ResultsTail ==
  ASSUME NEW rs \in Seq(TaskResult), rs # <<>>
  PROVE  /\ ResultsIn(Tail(rs)) = ResultsIn(rs) \ {<<"result", 0, Len(rs)>>}
         /\ <<"result", 0, Len(rs)>> \in ResultsIn(rs)
<1>1. Len(rs) \in Nat \ {0} /\ Len(Tail(rs)) = Len(rs) - 1
  BY EmptySeq, HeadTailProperties
<1>2. 1 .. Len(rs) - 1 = (1 .. Len(rs)) \ {Len(rs)} /\ Len(rs) \in 1 .. Len(rs)
  BY <1>1
<1>3. ResultsIn(Tail(rs)) = {<<"result", 0, i>> : i \in (1 .. Len(rs)) \ {Len(rs)}}
  BY <1>1, <1>2 DEF ResultsIn
<1> QED
  BY <1>2, <1>3 DEF ResultsIn

\* Slots of different kinds are different.
LEMMA SlotKinds ==
  ASSUME NEW q, NEW ws, NEW rs
  PROVE  /\ \A s \in QueuedIn(q) : s[1] = "queue"
         /\ \A s \in RunningIn(ws) : s[1] = "run"
         /\ \A s \in ResultsIn(rs) : s[1] = "result"
  BY DEF QueuedIn, RunningIn, ResultsIn

-----------------------------------------------------------------------------
(***************************************************************************)
(* Accounting. in_flight bounds the slots, equals their number as long as  *)
(* no dispatched task can have been lost, and stays within the cap, which  *)
(* leaves room for the task being sent.                                    *)
(***************************************************************************)
Exact == (Scheduling /\ PoolIntact) \/ (pc # "returned" /\ NobodyPanics)

SlotInv ==
  /\ IsFiniteSet(Slots)
  /\ Cardinality(Slots) <= in_flight
  /\ Exact => Cardinality(Slots) = in_flight
  /\ pc = "start" => in_flight = 0
  /\ Started => in_flight <= EffectiveCap
  /\ pc = "send" => in_flight < EffectiveCap

Inv == TypeInv /\ PoolInv /\ SlotInv

\* effective_cap: saturation only lowers it, and it is positive for a usable call
LEMMA CapFacts ==
  ASSUME TypeOK
  PROVE  /\ EffectiveCap \in Nat
         /\ EffectiveCap <= cfg.max_in_flight
         /\ EffectiveCap <= cfg.max_workers * (cfg.worker_queue_cap + 1)
         /\ ~ BadCall => EffectiveCap > 0
<1> DEFINE cap1 == Saturate(cfg.worker_queue_cap + 1)
<1>1. /\ cfg.max_workers \in Nat /\ cfg.max_in_flight \in Nat /\ cfg.worker_queue_cap \in Nat
      /\ UsizeMax \in Nat \ {0}
  BY ConfigFacts, ConfigAssumption
<1>2. \A x \in Nat : Saturate(x) \in Nat /\ Saturate(x) <= x /\ (x # 0 => Saturate(x) # 0)
  BY <1>1 DEF Saturate
<1>3. cap1 \in Nat /\ cap1 <= cfg.worker_queue_cap + 1 /\ cap1 # 0
  BY <1>1, <1>2
<1>4. /\ cfg.max_workers * cap1 \in Nat
      /\ cfg.max_workers * cap1 <= cfg.max_workers * (cfg.worker_queue_cap + 1)
      /\ cfg.max_workers # 0 => cfg.max_workers * cap1 # 0
  <2> HIDE DEF cap1
  <2> QED
    BY <1>1, <1>3, MulMonotone, MulPositive
<1>5. /\ PhysicalMax \in Nat
      /\ PhysicalMax <= cfg.max_workers * cap1
      /\ cfg.max_workers # 0 => PhysicalMax # 0
  BY <1>2, <1>4 DEF PhysicalMax
<1>6. cfg.max_workers * (cfg.worker_queue_cap + 1) \in Nat
  BY <1>1
<1> HIDE DEF cap1
<1>7. PhysicalMax <= cfg.max_workers * (cfg.worker_queue_cap + 1)
  BY <1>4, <1>5, <1>6
<1> QED
  BY <1>1, <1>5, <1>6, <1>7 DEF EffectiveCap, BadCall

LEMMA CardinalitySlots ==
  ASSUME SlotInv
  PROVE  Cardinality(Slots) \in Nat
  BY FS_CardinalityType DEF SlotInv

LEMMA InitSlots == Init => SlotInv
<1> SUFFICES ASSUME Init PROVE SlotInv
  OBVIOUS
<1>1. Slots = {}
  BY EmptySeq DEF Init, TablesInit, Slots, BusySlots, QueuedIn, RunningIn, ResultsIn
<1> QED
  BY <1>1, FS_EmptySet DEF Init, TablesInit, SlotInv, Started

(***************************************************************************)
(* Steps that neither move a task between slots nor change the count.      *)
(***************************************************************************)
LEMMA SlotsKept ==
  ASSUME SlotInv, Slots' = Slots, UNCHANGED <<cfg, in_flight>>,
         Exact' => Exact, pc' # "start",
         Started' => in_flight <= EffectiveCap,
         pc' = "send" => in_flight < EffectiveCap
  PROVE  SlotInv'
<1>1. EffectiveCap' = EffectiveCap
  BY DEF EffectiveCap, PhysicalMax, Saturate
<1> QED
  BY <1>1 DEF SlotInv

LEMMA QuietSteps ==
  ASSUME Inv, UNCHANGED <<cfg, in_flight, queue, wstate, res_rx>>,
         pc # "returned", pc' # "start",
         pc' \in {"dispatch", "send", "wait"} => pc \in {"dispatch", "send", "wait"},
         pc' \in {"dispatch", "send", "wait", "close", "join"} => pc # "start",
         pc' = "send" => in_flight < EffectiveCap
  PROVE  SlotInv'
<1>1. Slots' = Slots
  BY DEF Slots, BusySlots, QueuedIn, RunningIn, ResultsIn
<1>2. Exact' => Exact
  BY DEF Exact, Scheduling, PoolIntact, NobodyPanics
<1>3. Started' => in_flight <= EffectiveCap
  BY DEF Inv, SlotInv, Started, TypeInv, TypeOK
<1> QED
  BY <1>1, <1>2, <1>3, SlotsKept DEF Inv

LEMMA StartSlots == Inv /\ Start => SlotInv'
<1> SUFFICES ASSUME Inv, Start PROVE SlotInv'
  OBVIOUS
<1>1. RunningIn(wstate') = RunningIn(wstate)
  BY DEF Inv, PoolInv, Start, Seed, RunningIn
<1>2. Slots' = Slots
  BY <1>1 DEF Start, Seed, channels, Slots, BusySlots
<1>3. in_flight = 0 /\ in_flight' = 0 /\ cfg' = cfg /\ pc' = "dispatch"
  BY DEF Inv, SlotInv, Start, Seed, call
<1>4. Cardinality(Slots) = 0
  BY <1>3, CardinalitySlots DEF Inv, SlotInv
<1>5. EffectiveCap' = EffectiveCap /\ EffectiveCap \in Nat
  BY <1>3, CapFacts DEF EffectiveCap, PhysicalMax, Saturate, Inv, TypeInv
<1> QED
  BY <1>2, <1>3, <1>4, <1>5 DEF Inv, SlotInv

\* try_send fills one slot.
LEMMA TrySendAdds ==
  ASSUME Inv, TrySend
  PROVE  IsFiniteSet(Slots') /\ Cardinality(Slots') = Cardinality(Slots) + 1
<1> DEFINE slot == <<"queue", TryWorker, Len(queue[TryWorker]) + 1>>
<1>1. TryWorker \in WorkerIds
  BY TryWorkerFacts DEF TrySend, Inv, TypeInv, Control, Started
<1>2. sending[1] \in Task
  BY OptionProperties DEF TrySend, Inv, TypeInv, TypeOK, Control
<1>3. QueuedIn(queue') = QueuedIn(queue) \cup {slot} /\ slot \notin QueuedIn(queue)
  BY <1>1, <1>2, QueuedAppend DEF TrySend, Inv, TypeInv, TypeOK
<1>4. slot \notin RunningIn(wstate) /\ slot \notin ResultsIn(res_rx)
  BY DEF RunningIn, ResultsIn
<1>5. Slots' = Slots \cup {slot} /\ slot \notin Slots
  BY <1>3, <1>4 DEF TrySend, workers, Slots, BusySlots
<1> QED
  BY <1>5, FS_AddElement DEF Inv, SlotInv

LEMMA TrySendSlots == Inv /\ TrySend => SlotInv'
<1> SUFFICES ASSUME Inv, TrySend PROVE SlotInv'
  OBVIOUS
<1>1. IsFiniteSet(Slots') /\ Cardinality(Slots') = Cardinality(Slots) + 1
  BY TrySendAdds
<1>2. in_flight \in Nat /\ in_flight' = in_flight + 1 /\ in_flight < EffectiveCap /\ cfg' = cfg
  BY DEF TrySend, call, Inv, SlotInv, TypeInv, TypeOK
<1>3. EffectiveCap' = EffectiveCap /\ EffectiveCap \in Nat
  BY <1>2, CapFacts DEF EffectiveCap, PhysicalMax, Saturate, Inv, TypeInv
<1>4. Exact' => Exact
  BY DEF TrySend, workers, Exact, Scheduling, PoolIntact, NobodyPanics
<1>5. pc' = "dispatch" /\ Cardinality(Slots) \in Nat
  BY CardinalitySlots DEF TrySend, Inv
<1>6. in_flight' <= EffectiveCap'
  BY <1>2, <1>3
<1>7. Cardinality(Slots') <= in_flight' /\ (Exact' => Cardinality(Slots') = in_flight')
  BY <1>1, <1>2, <1>4, <1>5 DEF Inv, SlotInv
<1> QED
  BY <1>1, <1>5, <1>6, <1>7 DEF SlotInv

\* recv empties one slot.
LEMMA TakeResultRemoves ==
  ASSUME Inv, NEW r, TakeResult(r), UNCHANGED <<queue, wstate>>
  PROVE  IsFiniteSet(Slots') /\ Cardinality(Slots') = Cardinality(Slots) - 1
<1> DEFINE slot == <<"result", 0, Len(res_rx)>>
<1>1. ResultsIn(res_rx') = ResultsIn(res_rx) \ {slot} /\ slot \in ResultsIn(res_rx)
  BY ResultsTail DEF TakeResult, Inv, TypeInv, TypeOK
<1>2. slot \notin RunningIn(wstate) /\ slot \notin QueuedIn(queue)
  BY DEF RunningIn, QueuedIn
<1>3. Slots' = Slots \ {slot} /\ slot \in Slots
  BY <1>1, <1>2 DEF Slots, BusySlots
<1> QED
  BY <1>3, FS_RemoveElement DEF Inv, SlotInv

LEMMA TakeResultSlots ==
  ASSUME Inv, NEW r, TakeResult(r), UNCHANGED <<cfg, queue, wstate>>,
         pc' \in {"dispatch", "close"}
  PROVE  SlotInv'
<1>1. IsFiniteSet(Slots') /\ Cardinality(Slots') = Cardinality(Slots) - 1
  BY TakeResultRemoves
<1>2. in_flight \in Nat /\ in_flight' = in_flight - 1 /\ in_flight <= EffectiveCap
  BY DEF TakeResult, Inv, SlotInv, Started, TypeInv, TypeOK
<1>3. EffectiveCap' = EffectiveCap /\ EffectiveCap \in Nat
  BY CapFacts DEF EffectiveCap, PhysicalMax, Saturate, Inv, TypeInv
<1>4. Exact' => Exact
  BY DEF TakeResult, Exact, Scheduling, PoolIntact, NobodyPanics
<1>5. in_flight' <= EffectiveCap' /\ pc' \notin {"start", "send"}
  BY <1>2, <1>3
<1>6. Cardinality(Slots') <= in_flight' /\ (Exact' => Cardinality(Slots') = in_flight')
  BY <1>1, <1>2, <1>4, CardinalitySlots DEF Inv, SlotInv
<1> QED
  BY <1>1, <1>5, <1>6 DEF SlotInv

LEMMA ReturnSlots == Inv /\ Return => SlotInv'
<1> SUFFICES ASSUME Inv, Return PROVE SlotInv'
  OBVIOUS
<1>1. Slots' \in SUBSET Slots
  <2>1. ResultsIn(res_rx') = {}
    BY EmptySeq DEF Return, ResultsIn
  <2> QED
    BY <2>1 DEF Return, workers, Slots, BusySlots
<1>2. IsFiniteSet(Slots') /\ Cardinality(Slots') <= Cardinality(Slots)
  BY <1>1, FS_Subset DEF Inv, SlotInv
<1>3. Cardinality(Slots') <= in_flight'
  BY <1>2, CardinalitySlots, FS_CardinalityType DEF Return, Inv, SlotInv, TypeInv, TypeOK
<1> QED
  BY <1>2, <1>3 DEF Return, SlotInv, Exact, Scheduling, Started

LEMMA RejectSlots == Inv /\ (RejectCall \/ RejectOutput) => SlotInv'
<1> SUFFICES ASSUME Inv, RejectCall \/ RejectOutput PROVE SlotInv'
  OBVIOUS
<1>1. Slots' = Slots
  BY DEF RejectCall, RejectOutput, MissingOutput, Rejected, channels, workers, Slots, BusySlots
<1> QED
  BY <1>1 DEF RejectCall, RejectOutput, MissingOutput, Rejected, Inv, SlotInv, Exact, Scheduling, Started

LEMMA SchedulerSlots == Inv /\ Scheduler => SlotInv'
<1> SUFFICES ASSUME Inv, Scheduler PROVE SlotInv'
  OBVIOUS
<1>1. CASE RetryPending \/ RunSource \/ StopDispatching
  BY <1>1, QuietSteps
     DEF RetryPending, RunSource, StopDispatching, PopReady, CanDispatch, call, channels, workers
<1>2. CASE PrepareTask
  BY <1>2, QuietSteps DEF PrepareTask, PopReady, CanDispatch, Leave, call, channels, workers
<1>3. CASE TryFull
  BY <1>3, QuietSteps DEF TryFull, Inv, SlotInv, call, channels, workers
<1>4. CASE TryDisconnected \/ ReportCycle \/ ReceiveDisconnected
  BY <1>4, QuietSteps
     DEF TryDisconnected, ReportCycle, ReceiveDisconnected, Leave, call, channels, workers
<1>5. CASE ClosePool
  BY <1>5, QuietSteps DEF ClosePool, call, workers
<1>6. CASE ReceiveOk
  BY <1>6, TakeResultSlots DEF ReceiveOk, Leave, call, workers
<1>7. CASE ReceiveErr
  BY <1>7, TakeResultSlots DEF ReceiveErr, Leave, call, workers
<1> QED
  BY <1>1, <1>2, <1>3, <1>4, <1>5, <1>6, <1>7,
     RejectSlots, StartSlots, TrySendSlots, ReturnSlots DEF Scheduler

\* CardMove, for the slots.
LEMMA MovedSlot ==
  ASSUME Inv, NEW a, NEW b,
         Slots' = (Slots \ {a}) \cup {b} /\ a \in Slots /\ b \notin Slots
  PROVE  IsFiniteSet(Slots') /\ Cardinality(Slots') = Cardinality(Slots)
<1>1. IsFiniteSet(Slots)
  BY DEF Inv, SlotInv
<1>2. IsFiniteSet((Slots \ {a}) \cup {b}) /\ Cardinality((Slots \ {a}) \cup {b}) = Cardinality(Slots)
  BY <1>1, CardMove
<1> QED
  BY <1>2

LEMMA TakeTaskSlots ==
  ASSUME Inv, NEW w \in WorkerIds, TakeTask(w)
  PROVE  Slots' = (Slots \ {<<"queue", w, Len(queue[w])>>}) \cup {<<"run", w, 0>>}
         /\ <<"queue", w, Len(queue[w])>> \in Slots /\ <<"run", w, 0>> \notin Slots
<1> DEFINE old == <<"queue", w, Len(queue[w])>>
           new == <<"run", w, 0>>
<1>1. QueuedIn(queue') = QueuedIn(queue) \ {old} /\ old \in QueuedIn(queue)
  BY QueuedTail DEF TakeTask, Inv, TypeInv, TypeOK
<1>2. RunningIn(wstate') = RunningIn(wstate) \cup {new} /\ new \notin RunningIn(wstate)
  BY RunningStep DEF TakeTask, Inv, TypeInv, TypeOK
<1>3. /\ old \notin RunningIn(wstate) /\ old \notin ResultsIn(res_rx) /\ old # new
      /\ new \notin QueuedIn(queue) /\ new \notin ResultsIn(res_rx)
  BY DEF QueuedIn, RunningIn, ResultsIn
<1> QED
  BY <1>1, <1>2, <1>3 DEF TakeTask, Slots, BusySlots

LEMMA SendResultSlots ==
  ASSUME Inv, NEW w \in WorkerIds, wstate[w] = "running", res_rx_open,
         NEW out \in Option(Value), SendResult(w, out)
  PROVE  Slots' = (Slots \ {<<"run", w, 0>>}) \cup {<<"result", 0, Len(res_rx) + 1>>}
         /\ <<"run", w, 0>> \in Slots /\ <<"result", 0, Len(res_rx) + 1>> \notin Slots
<1> DEFINE old == <<"run", w, 0>>
           new == <<"result", 0, Len(res_rx) + 1>>
           r == [id |-> wtask[w][1].id, out |-> out]
<1>1. r \in TaskResult
  BY TaskFacts, OptionProperties DEF TaskResult, Inv, TypeInv, TypeOK, Control
<1>2. ResultsIn(res_rx') = ResultsIn(res_rx) \cup {new} /\ new \notin ResultsIn(res_rx)
  BY <1>1, ResultsStep DEF SendResult, Inv, TypeInv, TypeOK
<1>3. RunningIn(wstate') = RunningIn(wstate) \ {old} /\ old \in RunningIn(wstate)
  BY RunningStep DEF SendResult, Inv, TypeInv, TypeOK
<1>4. /\ old \notin QueuedIn(queue) /\ old \notin ResultsIn(res_rx) /\ old # new
      /\ new \notin QueuedIn(queue) /\ new \notin RunningIn(wstate)
  BY DEF QueuedIn, RunningIn, ResultsIn
<1> QED
  BY <1>2, <1>3, <1>4 DEF SendResult, Slots, BusySlots

LEMMA PanicTaskSlots ==
  ASSUME Inv, NEW w \in WorkerIds, PanicTask(w)
  PROVE  Slots' \in SUBSET Slots
<1>1. QueuedIn(queue') \subseteq QueuedIn(queue)
  BY QueuedCleared DEF PanicTask, Inv, TypeInv, TypeOK
<1>2. RunningIn(wstate') \subseteq RunningIn(wstate)
  <2>1. wstate' = [wstate EXCEPT ![w] = "exited"]
    BY DEF PanicTask
  <2> QED
    BY <2>1 DEF RunningIn, Inv, TypeInv, TypeOK
<1> QED
  BY <1>1, <1>2 DEF PanicTask, Slots, BusySlots

\* A worker only moves tasks between slots, or loses some by dying.
LEMMA WorkerSlots ==
  ASSUME Inv, NEW w \in WorkerIds, Worker(w)
  PROVE  SlotInv'
<1>1. wstate[w] \in {"idle", "running"}
  BY DEF Worker, TakeTask, FinishTask, PanicTask, ExitWorker
<1>2. pc \notin {"start", "returned"} /\ res_rx_open
  BY <1>1 DEF Inv, PoolInv, AllExited
<1>3. UNCHANGED <<cfg, in_flight, pc>>
  BY DEF Worker, TakeTask, FinishTask, SendResult, PanicTask, ExitWorker, call
<1>4. /\ in_flight <= EffectiveCap
      /\ pc = "send" => in_flight < EffectiveCap
      /\ EffectiveCap' = EffectiveCap
  BY <1>2, <1>3 DEF Inv, SlotInv, Started, TypeInv, TypeOK, EffectiveCap, PhysicalMax, Saturate
<1>5. ASSUME IsFiniteSet(Slots'), Cardinality(Slots') = Cardinality(Slots),
             Scheduling /\ PoolIntact' => PoolIntact
      PROVE  SlotInv'
  BY <1>2, <1>3, <1>4, <1>5 DEF Inv, SlotInv, Exact, Scheduling, NobodyPanics
<1>6. CASE TakeTask(w)
  <2>1. PoolIntact' => PoolIntact
    BY <1>6 DEF TakeTask, PoolIntact, Inv, TypeInv, TypeOK
  <2>2. IsFiniteSet(Slots') /\ Cardinality(Slots') = Cardinality(Slots)
    BY <1>6, TakeTaskSlots, MovedSlot
  <2> QED
    BY <1>5, <2>1, <2>2
<1>7. CASE FinishTask(w)
  <2>1. PICK out \in Option(Value) : SendResult(w, out)
    BY <1>7, TaskFacts, OptionProperties DEF FinishTask, Inv, TypeInv, TypeOK, Control
  <2>2. PoolIntact' => PoolIntact
    BY <1>7, <2>1 DEF FinishTask, SendResult, PoolIntact, Inv, TypeInv, TypeOK
  <2>3. IsFiniteSet(Slots') /\ Cardinality(Slots') = Cardinality(Slots)
    <3>1. wstate[w] = "running"
      BY <1>7 DEF FinishTask
    <3> QED
      BY <1>2, <2>1, <3>1, SendResultSlots, MovedSlot
  <2> QED
    BY <1>5, <2>2, <2>3
<1>8. CASE PanicTask(w)
  <2>1. IsFiniteSet(Slots') /\ Cardinality(Slots') <= Cardinality(Slots) /\ Cardinality(Slots') \in Nat
    BY <1>8, PanicTaskSlots, FS_Subset, FS_CardinalityType DEF Inv, SlotInv
  <2>2. Cardinality(Slots') <= in_flight'
    BY <1>3, <2>1, CardinalitySlots DEF Inv, SlotInv, TypeInv, TypeOK
  <2>3. ~ PoolIntact'
    BY <1>8 DEF PanicTask, PoolIntact, Inv, TypeInv, TypeOK
  <2>4. ~ NobodyPanics
    BY <1>8, TaskFacts, OptionProperties DEF PanicTask, NobodyPanics, Inv, TypeInv, TypeOK, Control
  <2>5. ~ Exact'
    BY <2>3, <2>4 DEF Exact, NobodyPanics
  <2> QED
    BY <1>2, <1>3, <1>4, <2>1, <2>2, <2>5 DEF SlotInv
<1>9. CASE ExitWorker(w)
  <2>1. RunningIn(wstate') = RunningIn(wstate)
    <3>1. wstate' = [wstate EXCEPT ![w] = "exited"] /\ wstate[w] = "idle"
      BY <1>9 DEF ExitWorker
    <3> QED
      BY <3>1 DEF RunningIn, Inv, TypeInv, TypeOK
  <2>2. Slots' = Slots
    BY <1>9, <2>1 DEF ExitWorker, channels, Slots, BusySlots
  <2>3. PoolIntact' => PoolIntact
    BY <1>9 DEF ExitWorker, PoolIntact, Inv, TypeInv, TypeOK
  <2> QED
    BY <1>5, <2>2, <2>3 DEF Inv, SlotInv
<1> QED
  BY <1>6, <1>7, <1>8, <1>9 DEF Worker

LEMMA SlotStep == Inv /\ [Next]_vars => SlotInv'
<1>1. Inv /\ UNCHANGED vars => SlotInv'
  <2> SUFFICES ASSUME Inv, UNCHANGED vars PROVE SlotInv'
    OBVIOUS
  <2>1. UNCHANGED <<cfg, pc, in_flight, queue, wstate, res_rx>>
    BY DEF vars, call, channels, workers
  <2>2. Slots' = Slots /\ EffectiveCap' = EffectiveCap /\ (Exact' => Exact)
    BY <2>1 DEF Slots, BusySlots, QueuedIn, RunningIn, ResultsIn,
                EffectiveCap, PhysicalMax, Saturate, Exact, Scheduling, PoolIntact, NobodyPanics
  <2> QED
    BY <2>1, <2>2 DEF Inv, SlotInv, Started
<1> QED
  BY <1>1, SchedulerSlots, WorkerSlots DEF Next, Finished

LEMMA Invariance == Spec => []Inv
<1>1. Init => Inv
  BY InitTypes, InitPool, InitSlots DEF Inv
<1>2. Inv /\ [Next]_vars => Inv'
  BY TypeStep, PoolStep, SlotStep DEF Inv
<1> QED
  BY <1>1, <1>2, PTL DEF Spec

(***************************************************************************)
(* The in_flight counter is never below the number of tasks in channels    *)
(* and workers, and is that number unless a panic lost some.               *)
(***************************************************************************)
THEOREM Accounting == Spec => []InFlightAccounting
<1>1. Inv => InFlightAccounting
  BY DEF Inv, SlotInv, Exact, InFlightAccounting
<1> QED
  BY <1>1, Invariance, PTL

(***************************************************************************)
(* Queued and running tasks never exceed max_in_flight, nor what the       *)
(* queues and the workers can hold, for every configuration.               *)
(***************************************************************************)
THEOREM BoundedWork == Spec => []Backpressure
<1>1. Inv => Backpressure
  <2> SUFFICES ASSUME Inv PROVE Backpressure
    OBVIOUS
  <2>1. BusySlots \in SUBSET Slots /\ IsFiniteSet(Slots) /\ in_flight \in Nat
    BY DEF Slots, Inv, SlotInv, TypeInv, TypeOK
  <2>2. Cardinality(BusySlots) \in Nat /\ Cardinality(BusySlots) <= in_flight
    BY <2>1, FS_Subset, FS_CardinalityType, CardinalitySlots DEF Inv, SlotInv
  <2>3. CASE Started
    BY <2>1, <2>2, <2>3, CapFacts, ConfigFacts DEF Backpressure, Inv, SlotInv, TypeInv
  <2>4. CASE pc = "start"
    BY <2>2, <2>4, ConfigFacts DEF Backpressure, Inv, SlotInv, TypeInv
  <2>5. CASE pc = "returned"
    <3>1. BusySlots = {}
      BY <2>5, EmptySeq DEF BusySlots, QueuedIn, RunningIn, Inv, PoolInv, AllExited
    <3>2. cfg.max_workers * (cfg.worker_queue_cap + 1) \in Nat /\ cfg.max_in_flight \in Nat
      BY ConfigFacts DEF Inv, TypeInv
    <3> QED
      BY <3>1, <3>2, FS_EmptySet DEF Backpressure
  <2> QED
    BY <2>3, <2>4, <2>5 DEF Started, Inv, TypeInv, TypeOK
<1> QED
  BY <1>1, Invariance, PTL

-----------------------------------------------------------------------------
(***************************************************************************)
(* The end of a dispatch round. With nothing in flight the cap cannot have *)
(* stopped it, and a full channel would be something in flight.            *)
(***************************************************************************)
IdleInv == pc = "wait" /\ in_flight = 0 => ready = <<>> /\ pending = None

\* AllFull is answered only while some task is in flight.
LEMMA FullMeansBusy == Inv /\ TryFull => in_flight # 0
<1> SUFFICES ASSUME Inv, TryFull PROVE in_flight # 0
  OBVIOUS
<1>1. TryWorker \in WorkerIds /\ ~ BadCall
  BY TryWorkerFacts DEF TryFull, Inv, TypeInv, Control, Started
<1>2. Len(queue[TryWorker]) \in Nat /\ cfg.worker_queue_cap \in Nat \ {0}
  BY <1>1, LenProperties, ConfigFacts DEF BadCall, Inv, TypeInv, TypeOK
<1>3. 1 \in 1 .. Len(queue[TryWorker])
  BY <1>2 DEF TryFull, HasRoom
<1>4. <<"queue", TryWorker, 1>> \in Slots
  BY <1>1, <1>3 DEF Slots, BusySlots, QueuedIn
<1>5. Cardinality(Slots) # 0
  BY <1>4, FS_EmptySet DEF Inv, SlotInv
<1> QED
  BY <1>5, CardinalitySlots DEF Inv, SlotInv

LEMMA IdleStep == Inv /\ IdleInv /\ [Next]_vars => IdleInv'
<1> SUFFICES ASSUME Inv, IdleInv, [Next]_vars PROVE IdleInv'
  OBVIOUS
<1>1. CASE StopDispatching
  <2>1. in_flight = 0 => CanDispatch
    BY <1>1, CapFacts DEF StopDispatching, CanDispatch, Inv, TypeInv, Control, Started
  <2> QED
    BY <1>1, <2>1 DEF StopDispatching, IdleInv, tables, dispatch
<1>2. CASE TryFull
  BY <1>2, FullMeansBusy DEF TryFull, IdleInv
<1>3. CASE RejectCall \/ RejectOutput \/ Start \/ RetryPending \/ RunSource \/ PrepareTask
  BY <1>3 DEF RejectCall, RejectOutput, MissingOutput, Rejected, Start, Seed, RetryPending, RunSource, PrepareTask,
              PopReady, Leave, IdleInv
<1>4. CASE TrySend \/ TryDisconnected \/ ReportCycle \/ ReceiveDisconnected \/ ClosePool \/ Return
  BY <1>4 DEF TrySend, TryDisconnected, ReportCycle, ReceiveDisconnected, ClosePool, Return,
              Leave, IdleInv
<1>5. CASE ReceiveOk \/ ReceiveErr
  BY <1>5 DEF ReceiveOk, ReceiveErr, Leave, IdleInv
<1>6. ASSUME NEW w \in WorkerIds, Worker(w) PROVE IdleInv'
  BY <1>6 DEF Worker, TakeTask, FinishTask, SendResult, PanicTask, ExitWorker,
              IdleInv, tables, dispatch
<1>7. CASE UNCHANGED vars
  BY <1>7 DEF IdleInv, vars, tables, dispatch
<1> QED
  BY <1>1, <1>2, <1>3, <1>4, <1>5, <1>6, <1>7 DEF Next, Scheduler, Finished

(***************************************************************************)
(* parallel.rs:271: with nothing in flight at the end of a dispatch round, *)
(* nothing is ready, held back, queued, running or waiting to be received. *)
(***************************************************************************)
THEOREM StallIsIdle == Spec => []StallMeansIdle
<1>1. Init => IdleInv
  BY DEF Init, TablesInit, IdleInv
<1>2. Inv /\ IdleInv => StallMeansIdle
  <2> SUFFICES ASSUME Inv, IdleInv, pc = "wait", in_flight = 0
               PROVE  ready = <<>> /\ pending = None /\ Slots = {}
    BY DEF StallMeansIdle
  <2>1. Cardinality(Slots) = 0
    BY CardinalitySlots DEF Inv, SlotInv
  <2> QED
    BY <2>1, FS_EmptySet DEF IdleInv, Inv, SlotInv
<1> QED
  BY <1>1, <1>2, Invariance, IdleStep, PTL DEF Spec
-----------------------------------------------------------------------------
(***************************************************************************)
(* Waiting. Once the pool is being joined the senders are gone.            *)
(***************************************************************************)
ShutInv == pc = "join" => ~ task_txs_open

LEMMA ShutStep == ShutInv /\ [Next]_vars => ShutInv'
<1> SUFFICES ASSUME ShutInv, [Next]_vars PROVE ShutInv'
  OBVIOUS
<1>1. CASE RejectCall \/ RejectOutput \/ Start \/ RetryPending \/ RunSource \/ PrepareTask
  BY <1>1 DEF RejectCall, RejectOutput, Rejected, Start, RetryPending, RunSource, PrepareTask,
              PopReady, Leave, ShutInv
<1>2. CASE TrySend \/ TryFull \/ TryDisconnected \/ StopDispatching \/ ReportCycle
  BY <1>2 DEF TrySend, TryFull, TryDisconnected, StopDispatching, ReportCycle, Leave, ShutInv
<1>3. CASE ReceiveOk \/ ReceiveErr \/ ReceiveDisconnected \/ ClosePool \/ Return
  BY <1>3 DEF ReceiveOk, ReceiveErr, ReceiveDisconnected, TakeResult, ClosePool, Return, Leave, ShutInv
<1>4. ASSUME NEW w \in WorkerIds, Worker(w) PROVE ShutInv'
  BY <1>4 DEF Worker, TakeTask, FinishTask, SendResult, PanicTask, ExitWorker, ShutInv, channels
<1>5. CASE UNCHANGED vars
  BY <1>5 DEF ShutInv, vars, channels
<1> QED
  BY <1>1, <1>2, <1>3, <1>4, <1>5 DEF Next, Scheduler, Finished

\* A pool has no more threads than it was asked for.
SpawnInv == \A w \in WorkerIds : wstate[w] # "unborn" => w < cfg.max_workers

LEMMA SpawnStep == Inv /\ SpawnInv /\ [Next]_vars => SpawnInv'
<1> SUFFICES ASSUME Inv, SpawnInv, [Next]_vars PROVE SpawnInv'
  OBVIOUS
<1>1. CASE Start
  <2>1. cfg' = cfg /\ wstate' = [w \in WorkerIds |-> IF w < cfg.max_workers THEN "idle" ELSE "unborn"]
    BY <1>1 DEF Start
  <2> QED
    BY <2>1 DEF SpawnInv
<1>2. CASE RejectCall \/ RejectOutput \/ RetryPending \/ RunSource \/ PrepareTask
  BY <1>2 DEF RejectCall, RejectOutput, Rejected, RetryPending, RunSource, PrepareTask,
              PopReady, Leave, SpawnInv, workers, call
<1>3. CASE TrySend \/ TryFull \/ TryDisconnected \/ StopDispatching \/ ReportCycle
  BY <1>3 DEF TrySend, TryFull, TryDisconnected, StopDispatching, ReportCycle, Leave, SpawnInv,
              workers, call
<1>4. CASE ReceiveOk \/ ReceiveErr \/ ReceiveDisconnected \/ ClosePool \/ Return
  BY <1>4 DEF ReceiveOk, ReceiveErr, ReceiveDisconnected, TakeResult, ClosePool, Return, Leave,
              SpawnInv, workers, call
<1>5. ASSUME NEW w \in WorkerIds, Worker(w) PROVE SpawnInv'
  BY <1>5 DEF Worker, TakeTask, FinishTask, SendResult, PanicTask, ExitWorker, SpawnInv,
              Inv, TypeInv, TypeOK, call
<1>6. CASE UNCHANGED vars
  BY <1>6 DEF SpawnInv, vars, workers, call
<1> QED
  BY <1>1, <1>2, <1>3, <1>4, <1>5, <1>6 DEF Next, Scheduler, Finished

\* What is in flight and not in the result channel keeps a worker busy.
LEMMA BusySlotBusyWorker ==
  ASSUME Inv, BusySlots # {}
  PROVE  \E w \in WorkerIds : ~ WorkerWaits(w)
<1>1. PICK s : s \in BusySlots
  OBVIOUS
<1>2. CASE \E w \in WorkerIds : \E i \in 1 .. Len(queue[w]) : s = <<"queue", w, i>>
  <2>1. PICK w \in WorkerIds : \E i \in 1 .. Len(queue[w]) : TRUE
    BY <1>2
  <2>2. Len(queue[w]) # 0
    BY <2>1
  <2>3. queue[w] # <<>>
    BY <2>2, EmptySeq
  <2>4. wstate[w] \notin {"unborn", "exited"}
    BY <2>3 DEF Inv, PoolInv
  <2> QED
    BY <2>3, <2>4 DEF WorkerWaits
<1>3. CASE \E w \in WorkerIds : wstate[w] = "running"
  BY <1>3 DEF WorkerWaits
<1> QED
  BY <1>1, <1>2, <1>3 DEF BusySlots, QueuedIn, RunningIn

(***************************************************************************)
(* The calling thread and the workers never all wait for each other, with  *)
(* any graph, configuration and schedule, but in recv after a panic that   *)
(* left another worker alive.                                              *)
(***************************************************************************)
THEOREM NobodyWaitsInVain == Spec => []BlockedOnlyByPanic
<1>1. Init => ShutInv /\ SpawnInv
  BY DEF Init, ShutInv, SpawnInv
<1>2. Inv /\ ShutInv /\ SpawnInv => BlockedOnlyByPanic
  <2> SUFFICES ASSUME Inv, ShutInv, SpawnInv, SchedulerWaits, \A w \in WorkerIds : WorkerWaits(w),
                      pc # "returned"
               PROVE  pc = "wait" /\ ~ PoolIntact /\ cfg.max_workers > 1
    BY DEF BlockedOnlyByPanic
  <2>1. CASE pc = "wait" /\ in_flight > 0 /\ res_rx = <<>> /\ ~ ResultSendersGone
    <3>1. ASSUME PoolIntact PROVE FALSE
      <4>1. Cardinality(Slots) = in_flight
        BY <2>1, <3>1 DEF Inv, SlotInv, Exact, Scheduling
      <4>2. Slots # {}
        BY <2>1, <4>1, FS_EmptySet
      <4>3. ResultsIn(res_rx) = {}
        BY <2>1, EmptySeq DEF ResultsIn
      <4> QED
        BY <4>2, <4>3, BusySlotBusyWorker DEF Slots
    <3>2. PICK v \in WorkerIds : wstate[v] = "exited"
      BY <3>1 DEF PoolIntact
    <3>3. PICK w \in WorkerIds : wstate[w] \notin {"unborn", "exited"}
      BY <2>1 DEF ResultSendersGone, AllExited
    <3>4. v < cfg.max_workers /\ w < cfg.max_workers /\ v # w
      BY <3>2, <3>3 DEF SpawnInv
    <3>5. v \in Nat /\ w \in Nat /\ cfg.max_workers \in Nat
      BY ConfigFacts, ConfigAssumption DEF WorkerIds, Config, Inv, TypeInv
    <3> QED
      BY <2>1, <3>1, <3>4, <3>5
  <2>2. CASE pc = "join" /\ ~ AllExited
    <3>1. PICK w \in WorkerIds : wstate[w] \notin {"unborn", "exited"}
      BY <2>2 DEF AllExited
    <3>2. task_txs_open
      BY <3>1 DEF WorkerWaits
    <3> QED
      BY <2>2, <3>2 DEF ShutInv
  <2> QED
    BY <2>1, <2>2 DEF SchedulerWaits, Joined
<1> QED
  BY <1>1, <1>2, Invariance, ShutStep, SpawnStep, PTL DEF Spec
=============================================================================
