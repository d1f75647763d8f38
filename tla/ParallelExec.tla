---------------------------- MODULE ParallelExec ----------------------------
(***************************************************************************)
(* One call of Executor::run_parallel (src/src/exec/parallel.rs): the      *)
(* scheduler, which is the calling thread, and the worker threads of its   *)
(* pool. They share nothing but channels: one bounded sync_channel of      *)
(* tasks per worker and one unbounded channel of results. Everything else  *)
(* is local to the scheduler, so the model interleaves at channel          *)
(* operations and runs the scheduler's code between two of them in a step. *)
(***************************************************************************)
EXTENDS Kahn

CONSTANTS
  Configs,      \* the ExecutorConfigs considered
  UsizeMax      \* usize::MAX, where saturating_add and saturating_mul stop

Config == [max_workers : Nat, max_in_flight : Nat, worker_queue_cap : Nat]

ASSUME ConfigAssumption ==
  /\ UsizeMax \in Nat \ {0}
  /\ Configs \subseteq Config
  /\ \A c \in Configs : \A f \in DOMAIN c : c[f] <= UsizeMax

\* Worker indices over all configurations; a call spawns the first max_workers.
WorkerIds == UNION {0 .. c.max_workers - 1 : c \in Configs}

\* one argument for each dep
Task == {t \in [id : NodeId, args : Seq(Value)] : Len(t.args) = Len(Deps[t.id])}
TaskResult == [id : NodeId, out : Option(Value)]   \* None: Err(e)

VARIABLES
  cfg,             \* the Executor's configuration
  pc,              \* where the scheduler is
  in_flight, next_worker, pending,
  sending,         \* the task dispatch_task_try is holding
  tries,           \* how many workers it has still to try
  task_txs_open,   \* WorkerPool.task_txs is Some
  queue,           \* queue[w]: what the channel to worker w buffers
  res_rx,          \* what the result channel buffers
  res_rx_open,     \* the scheduler still holds the receiver
  wstate,          \* wstate[w]: what worker thread w is doing
  wtask            \* wtask[w]: the task it is running

call      == <<outs, cfg>>
dispatch  == <<next_worker, pending, sending, tries>>
channels  == <<task_txs_open, queue, res_rx, res_rx_open>>
workers   == <<wstate, wtask>>
vars == <<call, pc, result, tables, in_flight, dispatch, channels, workers>>

-----------------------------------------------------------------------------
(* Capacity.                                                               *)

Saturate(x) == IF x > UsizeMax THEN UsizeMax ELSE x
PhysicalMax == Saturate(cfg.max_workers * Saturate(cfg.worker_queue_cap + 1))
EffectiveCap == IF cfg.max_in_flight < PhysicalMax THEN cfg.max_in_flight ELSE PhysicalMax

CanDispatchLate == in_flight <= EffectiveCap
CanDispatch == in_flight < EffectiveCap

HasRoomAlways(w) == TRUE
HasRoomEarly(w) == Len(queue[w]) + 1 < cfg.worker_queue_cap
HasRoom(w) == Len(queue[w]) < cfg.worker_queue_cap

\* A worker that is gone has dropped its receiver: try_send says Disconnected.
DisconnectedOrFull(w) == wstate[w] = "exited" \/ ~ HasRoom(w)
Disconnected(w) == wstate[w] = "exited"
AllExited == \A w \in WorkerIds : wstate[w] \in {"unborn", "exited"}

\* WorkerPool::spawn keeps no sender of results: the workers hold them all
ResultSendersKept == FALSE
ResultSendersGone == AllExited

\* the condition of the outer loop, with p nodes processed
MoreToDoEarly(p) == p + 1 < Cardinality(needed)
MoreToDo(p) == p < Cardinality(needed)

-----------------------------------------------------------------------------
(* The call begins: argument checks, the tables, WorkerPool::spawn.        *)

Init ==
  /\ TablesInit
  /\ cfg \in Configs
  /\ pc = "start"
  /\ in_flight = 0
  /\ next_worker = 0
  /\ pending = None
  /\ sending = None
  /\ tries = 0
  /\ task_txs_open = TRUE
  /\ queue = [w \in WorkerIds |-> <<>>]
  /\ res_rx = <<>>
  /\ res_rx_open = TRUE
  /\ wstate = [w \in WorkerIds |-> "unborn"]
  /\ wtask = [w \in WorkerIds |-> None]

BadCall ==
  \/ outs = <<>>
  \/ cfg.max_workers = 0
  \/ cfg.max_in_flight = 0
  \/ cfg.worker_queue_cap = 0

Rejected(error) ==
  /\ pc' = "returned"
  /\ result' = error
  /\ UNCHANGED <<call, tables, in_flight, dispatch, channels, workers>>

RejectCall ==
  /\ pc = "start"
  /\ BadCall
  /\ Rejected([tag |-> "InternalInvariant", what |-> "call"])

RejectOutput ==
  /\ pc = "start"
  /\ ~ BadCall
  /\ \E key \in UnknownKeys :
       MissingOutput(key) /\ Rejected([tag |-> "OutputMissing", key |-> key])

Start ==
  /\ pc = "start"
  /\ ~ BadCall
  /\ Seed
  /\ pc' = "dispatch"
  /\ wstate' = [w \in WorkerIds |-> IF w < cfg.max_workers THEN "idle" ELSE "unborn"]
  /\ UNCHANGED <<cfg, result, in_flight, dispatch, channels, wtask>>

-----------------------------------------------------------------------------
(* The scheduling loop.                                                    *)

\* return from run_with_observer: its locals are dropped next
Leave(outcome) ==
  /\ pc' = "close"
  /\ result' = outcome

\* pending.take() leaves
PendingKept == pending
PendingTaken == None

RetryPending ==
  /\ pc = "dispatch" /\ CanDispatch /\ pending # None
  /\ sending' = pending
  /\ pending' = PendingTaken
  /\ tries' = cfg.max_workers
  /\ pc' = "send"
  /\ UNCHANGED <<call, result, tables, in_flight, next_worker, channels, workers>>

\* what the pop of the next ready node needs
PopReadyEagerly(n) ==
  /\ pc = "dispatch" /\ CanDispatch
  /\ ready # <<>>
  /\ n = Head(ready)
PopReady(n) ==
  /\ pc = "dispatch" /\ CanDispatch /\ pending = None
  /\ ready # <<>>
  /\ n = Head(ready)

RunSource ==
  \E n \in Sources :
    /\ PopReady(n)
    /\ Complete(n, ValueOf(n, <<>>), Tail(ready))
    /\ UNCHANGED <<call, pc, result, needed, in_flight, dispatch, channels, workers>>

\* a dep without a value ends the call with "dep missing during exec"
PrepareTask ==
  \E n \in NodeId \ Sources :
    /\ PopReady(n)
    /\ ready' = Tail(ready)
    /\ IF DepsDone(n)
         THEN /\ sending' = Some([id |-> n, args |-> Args(n)])
              /\ tries' = cfg.max_workers
              /\ pc' = "send"
              /\ UNCHANGED result
         ELSE /\ Leave([tag |-> "InternalInvariant", what |-> "dep missing"])
              /\ UNCHANGED <<sending, tries>>
    /\ UNCHANGED <<call, needed, indeg, vals, processed, in_flight, next_worker, pending,
                   channels, workers>>

(* One try_send of dispatch_task_try, to the next worker in turn.          *)
TryWorker == next_worker % cfg.max_workers

TrySend ==
  /\ pc = "send"
  /\ next_worker' = TryWorker + 1
  /\ ~ Disconnected(TryWorker)
  /\ HasRoom(TryWorker)
  /\ queue' = [queue EXCEPT ![TryWorker] = Append(@, sending[1])]
  /\ in_flight' = in_flight + 1
  /\ sending' = None
  /\ tries' = 0
  /\ pc' = "dispatch"
  /\ UNCHANGED <<call, result, tables, pending, task_txs_open, res_rx, res_rx_open, workers>>

TryFull ==
  /\ pc = "send"
  /\ next_worker' = TryWorker + 1
  /\ ~ Disconnected(TryWorker)
  /\ ~ HasRoom(TryWorker)
  /\ tries' = tries - 1
  /\ IF tries = 1
       THEN pending' = sending /\ sending' = None /\ pc' = "wait"   \* AllFull
       ELSE UNCHANGED <<pending, sending, pc>>
  /\ UNCHANGED <<call, result, tables, in_flight, channels, workers>>

TryDisconnected ==
  /\ pc = "send"
  /\ next_worker' = TryWorker + 1
  /\ Disconnected(TryWorker)
  /\ sending' = None
  /\ tries' = 0
  /\ Leave([tag |-> "InternalInvariant", what |-> "task channel"])
  /\ UNCHANGED <<call, tables, in_flight, pending, channels, workers>>

\* the inner loop ends: the cap is reached, or nothing is left to dispatch
StopDispatching ==
  /\ pc = "dispatch"
  /\ ~ CanDispatch \/ (pending = None /\ ready = <<>>)
  /\ pc' = "wait"
  /\ UNCHANGED <<call, result, tables, in_flight, dispatch, channels, workers>>

ReportCycle ==
  /\ pc = "wait"
  /\ in_flight = 0
  /\ Leave([tag |-> "Cycle", remaining |-> Ascending(Remaining)])
  /\ UNCHANGED <<call, tables, in_flight, dispatch, channels, workers>>

\* recv, then in_flight -= 1
TakeResultUncounted(r) ==
  /\ pc = "wait"
  /\ in_flight > 0
  /\ res_rx # <<>>
  /\ r = Head(res_rx)
  /\ res_rx' = Tail(res_rx)
  /\ in_flight' = in_flight
TakeResult(r) ==
  /\ pc = "wait"
  /\ in_flight > 0
  /\ res_rx # <<>>
  /\ r = Head(res_rx)
  /\ res_rx' = Tail(res_rx)
  /\ in_flight' = in_flight - 1

ReceiveOk ==
  \E n \in NodeId, v \in Value :
    /\ TakeResult([id |-> n, out |-> Some(v)])
    /\ Complete(n, v, ready)
    /\ IF MoreToDo(processed')
         THEN pc' = "dispatch" /\ UNCHANGED result
         ELSE Leave([tag |-> "Evaluated"])
    /\ UNCHANGED <<call, needed, dispatch, task_txs_open, queue, res_rx_open, workers>>

ReceiveErr ==
  \E n \in NodeId :
    /\ TakeResult([id |-> n, out |-> None])
    /\ Leave([tag |-> "TaskFailed", task |-> n])
    /\ UNCHANGED <<call, tables, dispatch, task_txs_open, queue, res_rx_open, workers>>

ReceiveDisconnected ==
  /\ pc = "wait"
  /\ in_flight > 0
  /\ res_rx = <<>>
  /\ ResultSendersGone
  /\ Leave([tag |-> "InternalInvariant", what |-> "result channel"])
  /\ UNCHANGED <<call, tables, in_flight, dispatch, channels, workers>>

-----------------------------------------------------------------------------
(* WorkerPool::drop, then the rest of the call.                            *)

ClosePool ==
  /\ pc = "close"
  /\ task_txs_open' = FALSE
  /\ pc' = "join"
  /\ UNCHANGED <<call, result, tables, in_flight, dispatch, queue, res_rx, res_rx_open, workers>>

JoinedNone == TRUE
Joined == AllExited

Return ==
  /\ pc = "join"
  /\ Joined
  /\ pc' = "returned"
  /\ result' = IF result.tag = "Evaluated" THEN Collected ELSE result
  /\ res_rx' = <<>>
  /\ res_rx_open' = FALSE
  /\ UNCHANGED <<call, tables, in_flight, dispatch, task_txs_open, queue, workers>>

-----------------------------------------------------------------------------
(* A worker thread: for task in task_rx { run it; send the result }.       *)

TakeTask(w) ==
  /\ wstate[w] = "idle"
  /\ queue[w] # <<>>
  /\ queue' = [queue EXCEPT ![w] = Tail(@)]
  /\ wtask' = [wtask EXCEPT ![w] = Some(Head(queue[w]))]
  /\ wstate' = [wstate EXCEPT ![w] = "running"]
  /\ UNCHANGED <<call, pc, result, tables, in_flight, dispatch, task_txs_open, res_rx, res_rx_open>>

\* the closure returns; a send nobody can receive ends the thread
SendResult(w, out) ==
  /\ res_rx' = IF res_rx_open THEN Append(res_rx, [id |-> wtask[w][1].id, out |-> out]) ELSE res_rx
  /\ wstate' = [wstate EXCEPT ![w] = IF res_rx_open THEN "idle" ELSE "exited"]
  /\ wtask' = [wtask EXCEPT ![w] = None]
  /\ UNCHANGED <<call, pc, result, tables, in_flight, dispatch, task_txs_open, queue, res_rx_open>>

FinishTask(w) ==
  /\ wstate[w] = "running"
  /\ LET task == wtask[w][1] IN
       \/ "ok" \in Behaviour[task.id] /\ SendResult(w, Some(ValueOf(task.id, task.args)))
       \/ "err" \in Behaviour[task.id] /\ SendResult(w, None)

\* the closure panics: unwinding drops the receiver with what it buffers
PanicTask(w) ==
  /\ wstate[w] = "running"
  /\ "panic" \in Behaviour[wtask[w][1].id]
  /\ wstate' = [wstate EXCEPT ![w] = "exited"]
  /\ wtask' = [wtask EXCEPT ![w] = None]
  /\ queue' = [queue EXCEPT ![w] = <<>>]
  /\ UNCHANGED <<call, pc, result, tables, in_flight, dispatch, task_txs_open, res_rx, res_rx_open>>

ExitWorker(w) ==
  /\ wstate[w] = "idle"
  /\ queue[w] = <<>>
  /\ ~ task_txs_open
  /\ wstate' = [wstate EXCEPT ![w] = "exited"]
  /\ UNCHANGED <<call, pc, result, tables, in_flight, dispatch, channels, wtask>>

-----------------------------------------------------------------------------
Scheduler ==
  \/ RejectCall \/ RejectOutput \/ Start
  \/ RetryPending \/ RunSource \/ PrepareTask
  \/ TrySend \/ TryFull \/ TryDisconnected
  \/ StopDispatching \/ ReportCycle
  \/ ReceiveOk \/ ReceiveErr \/ ReceiveDisconnected
  \/ ClosePool \/ Return

Worker(w) == TakeTask(w) \/ FinishTask(w) \/ PanicTask(w) \/ ExitWorker(w)

\* the call is over; the only state in which nothing is left to do
Finished == pc = "returned" /\ UNCHANGED vars

Next == Scheduler \/ (\E w \in WorkerIds : Worker(w)) \/ Finished

Spec == Init /\ [][Next]_vars

(***************************************************************************)
(* Threads are scheduled by the operating system, which runs every thread  *)
(* that can run; closures are assumed to end. A blocked recv or join is    *)
(* not enabled until what it waits for is there.                           *)
(***************************************************************************)
Fairness == WF_vars(Scheduler) /\ \A w \in WorkerIds : WF_vars(Worker(w))

FairSpec == Spec /\ Fairness
=============================================================================
