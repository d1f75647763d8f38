--------------------------- MODULE TracedParallel ---------------------------
(***************************************************************************)
(* Executor::run_parallel_traced: ParallelExec with the observer called by *)
(* the scheduler. A task is marked as started only after try_send has      *)
(* handed it over: the worker may take it, run it and send its result      *)
(* before the scheduler gets there.                                        *)
(***************************************************************************)
EXTENDS ParallelExec, TraceObserver

VARIABLE unmarked   \* the task just queued, and its worker, before mark_start

tracedVars == <<vars, observer, unmarked>>

TracedInit == Init /\ ObserverInit /\ unmarked = None

Observe(o) == obs' = o /\ UNCHANGED <<clock, trace, unmarked>>

-----------------------------------------------------------------------------
\* DispatchOutcome::Queued { worker_id }
NextWorkerId == next_worker'
QueuedWorkerId == TryWorker

TracedTrySend ==
  /\ TrySend
  /\ unmarked' = Some([id |-> sending[1].id, worker |-> QueuedWorkerId])
  /\ UNCHANGED observer

MarkQueued ==
  /\ unmarked # None
  /\ obs' = MarkStart(obs, unmarked[1].id, Some(unmarked[1].worker))
  /\ unmarked' = None
  /\ UNCHANGED <<vars, clock, trace>>

TracedStart == Start /\ Observe(MarkReadyAll(obs, ready', 0))

TracedSource ==
  RunSource /\ Observe(FinishAndRelease(MarkStart(obs, Head(ready), None), Head(ready), Tail(ready)))

\* the result that recv takes
Received == Head(res_rx).id

TracedReceiveOk == ReceiveOk /\ Observe(FinishAndRelease(obs, Received, ready))
TracedReceiveErr == ReceiveErr /\ Observe(MarkFinish(obs, Received))

TracedReturn == Return /\ FinalizeIfOk /\ UNCHANGED <<clock, obs, unmarked>>

SchedulerUnobserved ==
  /\ \/ RejectCall \/ RejectOutput \/ RetryPending \/ PrepareTask \/ TryFull \/ TryDisconnected
     \/ StopDispatching \/ ReportCycle \/ ReceiveDisconnected \/ ClosePool
  /\ UNCHANGED <<observer, unmarked>>

TracedScheduler ==
  /\ unmarked = None
  /\ \/ TracedStart \/ TracedSource \/ TracedTrySend \/ TracedReceiveOk \/ TracedReceiveErr
     \/ TracedReturn \/ SchedulerUnobserved

TracedWorker(w) == Worker(w) /\ UNCHANGED <<observer, unmarked>>

TimePasses == pc # "returned" /\ Tick /\ UNCHANGED <<vars, unmarked>>

TracedNext ==
  \/ MarkQueued \/ TracedScheduler
  \/ \E w \in WorkerIds : TracedWorker(w)
  \/ TimePasses
  \/ Finished /\ UNCHANGED <<observer, unmarked>>

TracedSpec == TracedInit /\ [][TracedNext]_tracedVars

-----------------------------------------------------------------------------
(***************************************************************************)
(* tests/trace.rs parallel_trace_worker_ids_present: a task's worker_id is *)
(* there by the time its result is received, and is the worker that runs   *)
(* it; a source has none.                                                  *)
(***************************************************************************)
HeldBy(w) == {t.id : t \in Range(queue[w]) \cup Range(wtask[w])}

WorkerIdsTrue ==
  /\ \A w \in WorkerIds : \A n \in HeldBy(w) :
       \/ obs.worker_id[n] = Some(w)
       \/ unmarked = Some([id |-> n, worker |-> w]) /\ obs.worker_id[n] = None
  /\ trace # None =>
       \A n \in needed : (obs.worker_id[n] = None) <=> n \in Sources

(***************************************************************************)
(* max_frontier_width is the longest the ready queue has ever been.        *)
(***************************************************************************)
FrontierIsPeak ==
  [][obs'.max_frontier_width = Max({obs.max_frontier_width, Len(ready')})]_tracedVars

-----------------------------------------------------------------------------
(***************************************************************************)
(* run_parallel is an evaluation in the sense of DagEval too: whatever the *)
(* schedule, each step of the scheduler and the workers is one evaluation  *)
(* step or none. It fails where ReportCycle answers for a completed        *)
(* request, see CycleErrorHasRemaining, and after a panic; it holds of the *)
(* requests that use the values of their sources if no closure panics.     *)
(***************************************************************************)
SourcesUsed ==
  \A ids \in Requests : Range(ids) \subseteq NodeId =>
    \A s \in Sources \cap Cone(Range(ids)) : \E n \in Cone(Range(ids)) : s \in DepSet(n)

Eval == INSTANCE DagEval WITH
  usable <- ~ BadCall,
  outcome <- IF result.tag = "Evaluated" THEN [tag |-> "Running"] ELSE result

Implements == Eval!Spec
=============================================================================
