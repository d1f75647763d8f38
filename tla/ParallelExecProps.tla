------------------------- MODULE ParallelExecProps -------------------------
(***************************************************************************)
(* What one call of run_parallel promises.                                 *)
(***************************************************************************)
EXTENDS ParallelExec

\* run_with_observer has not returned yet.
Scheduling == pc \in {"start", "dispatch", "send", "wait"}

\* No worker has died: before the pool is closed only a panic ends a worker.
PoolIntact == \A w \in WorkerIds : wstate[w] # "exited"

ChannelErrors == {"task channel", "result channel"}

Outcome ==
  [tag : {"Running", "Evaluated"}]
    \cup [tag : {"InternalInvariant"},
          what : {"call", "dep missing"} \cup ChannelErrors]
    \cup [tag : {"OutputMissing"}, key : Key]
    \cup [tag : {"TaskFailed"}, task : NodeId]
    \cup [tag : {"Cycle"}, remaining : Seq(NodeId)]
    \cup [tag : {"Ok"}, outputs : [NodeId -> Option(Value)]]

(***************************************************************************)
(* The types of the scheduler's locals, the channels and the workers, with *)
(* the ranges the code relies on: the round-robin cursor stays at most one *)
(* past the last worker, and no worker's channel holds more than           *)
(* worker_queue_cap tasks.                                                 *)
(***************************************************************************)
TypeOK ==
  /\ outs \in Requests
  /\ cfg \in Configs
  /\ pc \in {"start", "dispatch", "send", "wait", "close", "join", "returned"}
  /\ result \in Outcome
  /\ needed \in SUBSET NodeId
  /\ indeg \in [NodeId -> Int]
  /\ vals \in [NodeId -> Option(Value)]
  /\ ready \in Seq(NodeId)
  /\ processed \in Nat
  /\ in_flight \in Nat
  /\ next_worker \in 0 .. cfg.max_workers
  /\ pending \in Option(Task)
  /\ sending \in Option(Task)
  /\ tries \in 0 .. cfg.max_workers
  /\ task_txs_open \in BOOLEAN
  /\ queue \in [WorkerIds -> Seq(Task)]
  /\ \A w \in WorkerIds : Len(queue[w]) <= cfg.worker_queue_cap
  /\ res_rx \in Seq(TaskResult)
  /\ res_rx_open \in BOOLEAN
  /\ wstate \in [WorkerIds -> {"unborn", "idle", "running", "exited"}]
  /\ wtask \in [WorkerIds -> Option(Task)]

-----------------------------------------------------------------------------
(* Slots: the places outside the scheduler that hold a dispatched task.    *)

QueuedIn(q)   == UNION {{<<"queue", w, i>> : i \in 1 .. Len(q[w])} : w \in WorkerIds}
RunningIn(ws) == {<<"run", w, 0>> : w \in {x \in WorkerIds : ws[x] = "running"}}
ResultsIn(rs) == {<<"result", 0, i>> : i \in 1 .. Len(rs)}

BusySlots == QueuedIn(queue) \cup RunningIn(wstate)
Slots == BusySlots \cup ResultsIn(res_rx)

(***************************************************************************)
(* README.md:69-70: max_in_flight bounds queued + running work, and so     *)
(* does n_workers * (worker_queue_cap + 1), whatever the interleaving and  *)
(* however the call ends.                                                  *)
(***************************************************************************)
Backpressure ==
  /\ Cardinality(BusySlots) <= cfg.max_in_flight
  /\ Cardinality(BusySlots) <= cfg.max_workers * (cfg.worker_queue_cap + 1)

(***************************************************************************)
(* The scheduler's in_flight counter never falls below the tasks it has    *)
(* dispatched and not heard of, and is exact while no worker has died: a   *)
(* count too high makes recv wait for a result nobody will send, a count   *)
(* too low ends the loop with work outstanding. If no closure panics it is *)
(* exact until the call returns: the receiver outlives the pool, so even   *)
(* after an error every dispatched task can still send its result.         *)
(***************************************************************************)
InFlightAccounting ==
  /\ Cardinality(Slots) <= in_flight
  /\ (Scheduling /\ PoolIntact) \/ (pc # "returned" /\ NobodyPanics)
       => Cardinality(Slots) = in_flight

-----------------------------------------------------------------------------
(* Places: where a node waits for, or is in, evaluation.                   *)

TaskOf(s) ==
  CASE s[1] = "queue"  -> queue[s[2]][s[3]].id
    [] s[1] = "run"    -> wtask[s[2]][1].id
    [] s[1] = "result" -> res_rx[s[3]].id

Places(n) ==
  {s \in Slots : TaskOf(s) = n}
    \cup {<<"ready", 0, i>> : i \in {j \in DOMAIN ready : ready[j] = n}}
    \cup {<<"pending", 0, i>> : i \in {j \in DOMAIN pending : pending[j].id = n}}
    \cup {<<"sending", 0, i>> : i \in {j \in DOMAIN sending : sending[j].id = n}}

(***************************************************************************)
(* Each node is evaluated at most once, only if the request needs it and   *)
(* only after all its deps: it is never in two of the ready queue, the     *)
(* pending slot, the channels and the workers at a time, nor in one after  *)
(* its value is recorded (tests/parallel.rs counts the runs of one task).  *)
(***************************************************************************)
NoDuplicateWork ==
  \A n \in NodeId :
    /\ Cardinality(Places(n)) <= 1
    /\ Places(n) # {} => n \in needed /\ vals[n] = None /\ DepsDone(n)

(***************************************************************************)
(* No needed node is forgotten: while the loop runs and no worker has      *)
(* died, a node whose deps are done is done, or is somewhere on its way.   *)
(***************************************************************************)
NothingForgotten ==
  Scheduling /\ PoolIntact =>
    \A n \in needed : DepsDone(n) => vals[n] # None \/ Places(n) # {}

(***************************************************************************)
(* Kahn's counters tell the truth: a needed node's in-degree is the number *)
(* of its dep occurrences without a value (so the decrement guarded by     *)
(* debug_assert!(indeg > 0) never wraps), processed is the number of       *)
(* recorded values, and nodes outside the cone never get one.              *)
(***************************************************************************)
KahnCounters ==
  pc # "start" =>
    /\ \A n \in needed :
         indeg[n] = Cardinality({i \in DOMAIN Deps[n] : vals[Deps[n][i]] = None})
    /\ \A n \in NodeId \ needed : indeg[n] = 0 /\ vals[n] = None
    /\ processed = Cardinality({n \in NodeId : vals[n] # None})

(***************************************************************************)
(* Values do not depend on the schedule: every recorded value, and every   *)
(* result on its way, is the node's meaning, what the graph alone says.    *)
(***************************************************************************)
ValuesFollowDeps ==
  /\ \A n \in NodeId : vals[n] # None => DepsDone(n) /\ vals[n] = Some(Meaning[n])
  /\ \A i \in DOMAIN res_rx : res_rx[i].out # None => res_rx[i].out = Some(Meaning[res_rx[i].id])

(***************************************************************************)
(* First ready, first dispatched (parallel.rs:207 "Retry pending first     *)
(* (keeps fairness"): the task being sent, the task held back by full      *)
(* queues and the ready queue form one line. A step takes at most the      *)
(* first of them, keeps the others in order and adds only at the end, so   *)
(* no needed node is overtaken for ever.                                   *)
(***************************************************************************)
Line == [i \in DOMAIN sending |-> sending[i].id]
          \o [i \in DOMAIN pending |-> pending[i].id] \o ready

FifoDispatch ==
  [][\E k \in {0, 1} :
       /\ k <= Len(Line) /\ Len(Line) - k <= Len(Line')
       /\ \A i \in 1 .. Len(Line) - k : Line'[i] = Line[i + k]]_vars

(***************************************************************************)
(* parallel.rs:271: in_flight = 0 at the end of a dispatch round means     *)
(* nothing is ready and no task is held back, even after AllFull; else the *)
(* loop would report a cycle with work at hand.                            *)
(***************************************************************************)
StallMeansIdle ==
  pc = "wait" /\ in_flight = 0 => ready = <<>> /\ pending = None /\ Slots = {}

(***************************************************************************)
(* A Cycle error names exactly the needed nodes that no order of           *)
(* evaluation reaches, in NodeId order, whatever the schedule: the nodes   *)
(* on a cycle and those behind one.                                        *)
(***************************************************************************)
CycleIsExact ==
  result.tag = "Cycle" => result.remaining = Ascending(needed \ Evaluable(needed))

(***************************************************************************)
(* How a call may end. Ok: with the answer to the request, all of the cone *)
(* evaluated. TaskFailed: for a needed task whose deps succeeded and whose *)
(* closure can fail. OutputMissing: exactly for the first key the graph    *)
(* lacks. Cycle: with every unfinished node of the cone named and waiting  *)
(* for a dep, so that it names none only if the cone is evaluated. An      *)
(* internal invariant is reported for a bad call, or of a channel when a   *)
(* needed closure that could run and can panic has no value; a missing dep *)
(* is never reported. There is no other end.                               *)
(***************************************************************************)
OutcomeIsJustified ==
  LET done == {n \in NodeId : vals[n] # None} IN
  CASE result.tag = "Ok" ->
         /\ Range(outs) \subseteq NodeId
         /\ needed = done
         /\ SameAnswer
    [] result.tag = "TaskFailed" ->
         /\ result.task \in needed \ done
         /\ DepsDone(result.task)
         /\ "err" \in Behaviour[result.task]
    [] result.tag = "OutputMissing" ->
         /\ ~ BadCall /\ needed = {}
         /\ \E i \in DOMAIN outs : /\ outs[i] = result.key /\ result.key \in UnknownKeys
                                   /\ \A j \in 1 .. i - 1 : outs[j] \in NodeId
    [] result.tag = "Cycle" ->
         /\ Range(result.remaining) = needed \ done
         /\ \A n \in needed \ done : ~ DepsDone(n)
    [] result.tag = "InternalInvariant" ->
         \/ result.what = "call" /\ BadCall
         \/ /\ result.what \in ChannelErrors
            /\ \E n \in needed \ done : "panic" \in Behaviour[n] /\ DepsDone(n)
    [] OTHER -> pc # "returned"

(***************************************************************************)
(* A panic is never taken for anything else, and nothing else for a panic. *)
(* While the senders are open only a panic ends a thread. After one the    *)
(* call does not end with a value, a missing output or a cycle: these come *)
(* only from a pool that is whole and has nothing left to run, so that no  *)
(* closure can panic afterwards either. And a channel is reported as       *)
(* disconnected (parallel.rs:118, 212, 251, 286) only if a thread is gone, *)
(* never because the channel is full or empty; a missing dep never.        *)
(***************************************************************************)
PanicIsReported ==
  /\ result.tag \in {"Evaluated", "Ok", "OutputMissing", "Cycle"} =>
       /\ task_txs_open => PoolIntact
       /\ BusySlots = {}
  /\ result.tag = "InternalInvariant" =>
       \/ result.what = "call" /\ BadCall
       \/ result.what \in ChannelErrors /\ (task_txs_open => ~ PoolIntact)

(***************************************************************************)
(* RAII shutdown: a call that has returned leaves no thread behind and no  *)
(* task in a channel, also when it ends with an error.                     *)
(***************************************************************************)
NoThreadOutlivesCall ==
  pc = "returned" => AllExited /\ QueuedIn(queue) = {}

(***************************************************************************)
(* The threads wait for each other in three places: the scheduler in recv  *)
(* and in join, a worker for its next task. All of them at once only when  *)
(* the call is over, or in recv after a panic that has left another worker *)
(* alive (parallel.rs:284), never with a pool of one: full channels, the   *)
(* cap, a failed task, a cycle or the shutdown never make everyone wait    *)
(* for everyone.                                                           *)
(***************************************************************************)
SchedulerWaits ==
  \/ pc = "wait" /\ in_flight > 0 /\ res_rx = <<>> /\ ~ ResultSendersGone
  \/ pc = "join" /\ ~ Joined
  \/ pc = "returned"

WorkerWaits(w) ==
  \/ wstate[w] \in {"unborn", "exited"}
  \/ wstate[w] = "idle" /\ queue[w] = <<>> /\ task_txs_open

BlockedOnlyByPanic ==
  SchedulerWaits /\ (\A w \in WorkerIds : WorkerWaits(w)) =>
    pc = "returned" \/ (pc = "wait" /\ ~ PoolIntact /\ cfg.max_workers > 1)

(***************************************************************************)
(* A call takes at most 2 * (max_workers + 3) * (NodeCount + 1) steps, in  *)
(* whatever order its threads run and also after a failed task or a panic: *)
(* StepsLeft starts from that number, and every step lowers it. So nothing *)
(* is tried for ever: each try of dispatch_task_try leaves a worker less   *)
(* to try, AllFull ends the round, each result pays for one more round, no *)
(* task is sent twice (parallel.rs:100-124, 204-287), and a thread ends.    *)
(***************************************************************************)
Round == cfg.max_workers + 3   \* a pop, a try per worker, a wait

ToComplete == Cardinality(needed) - processed
ToDispatch == ToComplete - in_flight

\* where the scheduler is in its round
Position ==
  CASE pc = "dispatch" -> Round + 2
    [] pc = "send"     -> tries + 4
    [] pc = "wait"     -> 3

SchedulerSteps ==
  CASE pc = "start"    -> 2 * Round * (NodeCount + 1)
    [] pc \in {"dispatch", "send", "wait"} -> Round * ToDispatch + Round * ToComplete + Position
    [] pc = "close"    -> 2
    [] pc = "join"     -> 1
    [] pc = "returned" -> 0

LiveWorkers == {w \in WorkerIds : wstate[w] \in {"idle", "running"}}

\* a queued task is taken and run, and a worker exits
WorkerSteps ==
  2 * Cardinality(QueuedIn(queue)) + Cardinality(RunningIn(wstate)) + Cardinality(LiveWorkers)

StepsLeft == SchedulerSteps + WorkerSteps

EveryStepCounts == [][StepsLeft' \in Nat /\ StepsLeft' < StepsLeft]_vars

(***************************************************************************)
(* Every call returns.                                                     *)
(***************************************************************************)
Terminates == <>(pc = "returned")

(***************************************************************************)
(* With one worker a panic is noticed: the only sender of results is gone, *)
(* or the next dispatch finds the task channel closed, and the call ends   *)
(* with an internal invariant instead of waiting for ever.                 *)
(***************************************************************************)
LoneWorkerPanicReturns == cfg.max_workers = 1 => Terminates

-----------------------------------------------------------------------------
(* What the repository says and the code does not do.                      *)

(***************************************************************************)
(* tests/parallel.rs:176 "parallel_no_hang_on_task_failure": a call whose  *)
(* task fails comes back. Stated for the task that fails by panicking.     *)
(***************************************************************************)
NoHangOnTaskPanic == <>(pc = "returned")

(***************************************************************************)
(* tests/parallel.rs:73 and the comment at parallel.rs:272: the Cycle      *)
(* error means a cycle in the needed subgraph, and names the nodes left.   *)
(***************************************************************************)
CycleErrorHasRemaining ==
  result.tag = "Cycle" => result.remaining # <<>>

(***************************************************************************)
(* parallel.rs:62: workers consume tasks until the scheduler drops the     *)
(* Sender; parallel.rs:66: a worker exits if the scheduler went away.      *)
(***************************************************************************)
NoTaskStartsAfterClose ==
  [][\A w \in WorkerIds : wstate'[w] = "running" /\ wstate[w] # "running" => task_txs_open]_vars

=============================================================================
