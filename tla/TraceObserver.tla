--------------------------- MODULE TraceObserver ---------------------------
(***************************************************************************)
(* The observer of a traced run (src/src/trace.rs): the executor tells it  *)
(* when a node becomes ready, starts and finishes, and when the call has   *)
(* its outputs finalize makes the ExecutionTrace. Only the executor's      *)
(* thread calls it. The clock stands still within a step of the model.     *)
(***************************************************************************)
EXTENDS Kahn, SequencesExt

CONSTANT MaxTime   \* bound: the clock stops there

VARIABLES
  clock,   \* started.elapsed()
  obs,     \* the TraceObserver
  trace    \* the ExecutionTrace of a call that ended with Ok

observer == <<clock, obs, trace>>

Unset == [n \in NodeId |-> None]

ObserverInit ==
  /\ clock = 0
  /\ obs = [ready_at |-> Unset, started_at |-> Unset, finished_at |-> Unset,
            worker_id |-> Unset, execution_order |-> <<>>, max_frontier_width |-> 0]
  /\ trace = None

Tick == clock < MaxTime /\ clock' = clock + 1 /\ UNCHANGED <<obs, trace>>

-----------------------------------------------------------------------------
(* The first mark of each kind counts.                                     *)

FirstOf(mark, x) == IF mark = None THEN x ELSE mark

\* mark_ready for each of ids, the queue holding width nodes before
WidthsBeforePush(ids, width) == {width + j - 1 : j \in DOMAIN ids}
Widths(ids, width) == {width + j : j \in DOMAIN ids}

MarkReadyAll(o, ids, width) ==
  [o EXCEPT
     !.ready_at = [n \in NodeId |-> IF n \in Range(ids) THEN FirstOf(@[n], Some(clock)) ELSE @[n]],
     !.max_frontier_width = Max({@} \cup Widths(ids, width))]

MarkStart(o, n, worker) ==
  [o EXCEPT
     !.started_at[n] = FirstOf(@, Some(clock)),
     !.execution_order = IF o.started_at[n] = None THEN Append(@, n) ELSE @,
     !.worker_id[n] = FirstOf(@, worker)]

MarkFinishOfTask(o, n) ==
  [o EXCEPT !.finished_at[n] = IF n \in Sources THEN @ ELSE FirstOf(@, Some(clock))]
MarkFinish(o, n) == [o EXCEPT !.finished_at[n] = FirstOf(@, Some(clock))]

\* d finishes and its dependents are released: what the step pushes on q
FinishAndRelease(o, d, q) ==
  LET pushed == SubSeq(ready', Len(q) + 1, Len(ready'))
  IN MarkReadyAll(MarkFinish(o, d), pushed, Len(q))

-----------------------------------------------------------------------------
(* finalize: one pass over the nodes in the order they were started, with  *)
(* the longest path to each.                                               *)

UnwrapOr(mark, x) == IF mark = None THEN x ELSE mark[1]
StartedAt(n) == UnwrapOr(obs.started_at[n], 0)
FinishedAt(n) == UnwrapOr(obs.finished_at[n], StartedAt(n))
RunDuration(n) ==
  IF FinishedAt(n) >= StartedAt(n) THEN FinishedAt(n) - StartedAt(n) ELSE 0

NodeTrace(n) ==
  [node_id |-> n, kind |-> IF n \in Sources THEN "Source" ELSE "Task", deps |-> Deps[n],
   ready_at |-> UnwrapOr(obs.ready_at[n], 0), started_at |-> StartedAt(n),
   finished_at |-> FinishedAt(n), run_duration |-> RunDuration(n), worker_id |-> obs.worker_id[n]]

NeededInOrderOfId == Ascending(needed)
NeededInOrder ==
  LET at == Ascending({i \in DOMAIN obs.execution_order : obs.execution_order[i] \in needed})
  IN [j \in DOMAIN at |-> obs.execution_order[at[j]]]

(* By position; deps started later, if there were any, would count as 0.   *)
longest_path[i \in DOMAIN obs.execution_order] ==
  LET n == obs.execution_order[i]
      deps == {j \in 1 .. i - 1 : obs.execution_order[j] \in DepSet(n)}
  IN IF n \in needed THEN Max({0} \cup {longest_path[j] : j \in deps}) + RunDuration(n)
                     ELSE 0

HeaviestNodeTime == Max({0} \cup {RunDuration(n) : n \in needed})
CriticalPathTime == Max({0} \cup Range(longest_path))

Finalize ==
  [nodes |-> [i \in DOMAIN NeededInOrder |-> NodeTrace(NeededInOrder[i])],
   executed_nodes |-> Len(NeededInOrder),
   wall_time |-> clock,
   critical_path_time |-> CriticalPathTime,
   max_frontier_width |-> obs.max_frontier_width]

\* run_traced: the trace is made once the outputs are there
FinalizeIfOk == trace' = IF result'.tag = "Ok" THEN Some(Finalize) ELSE trace

-----------------------------------------------------------------------------
(***************************************************************************)
(* trace.rs:89: nodes are marked as started after all their deps, whatever *)
(* the order of their ids and of the results; the pass of finalize and     *)
(* tests/trace.rs trace_ordering_is_topological rely on it.                *)
(***************************************************************************)
Topological(ids) ==
  \A i \in DOMAIN ids : \A d \in DepSet(ids[i]) : \E j \in 1 .. i - 1 : ids[j] = d

TraceTopological ==
  /\ Topological(obs.execution_order)
  /\ trace # None => Topological([i \in DOMAIN trace[1].nodes |-> trace[1].nodes[i].node_id])

(***************************************************************************)
(* Durations of a trace make sense although the marks are made on the      *)
(* executor's thread, a start possibly after the task's worker has ended   *)
(* it: ready before started before finished before the end of the call,    *)
(* a node not started before its deps are finished; and each needed node   *)
(* is reported once, with every one of its times recorded.                 *)
(***************************************************************************)
TimesOrdered ==
  trace # None =>
    LET nodes == trace[1].nodes IN
    /\ {nodes[i].node_id : i \in DOMAIN nodes} = needed
    /\ Len(nodes) = Cardinality(needed)
    /\ \A n \in needed : obs.ready_at[n] # None /\ obs.finished_at[n] # None
    /\ \A i \in DOMAIN nodes :
         /\ nodes[i].ready_at <= nodes[i].started_at
         /\ nodes[i].started_at <= nodes[i].finished_at
         /\ nodes[i].finished_at <= trace[1].wall_time
         /\ \A j \in DOMAIN nodes :
              nodes[j].node_id \in DepSet(nodes[i].node_id) =>
                nodes[j].finished_at <= nodes[i].ready_at

(***************************************************************************)
(* critical_path_time is the weight of the heaviest chain of dependent     *)
(* nodes, found without any order, and never more than wall_time           *)
(* (tests/trace.rs trace_critical_path_le_wall_time), also in a parallel   *)
(* run.                                                                    *)
(***************************************************************************)
Heaviest[n \in needed] == RunDuration(n) + Max({0} \cup {Heaviest[d] : d \in DepSet(n)})

CriticalPathIsLongest ==
  trace # None =>
    /\ trace[1].critical_path_time = Max({Heaviest[n] : n \in needed})
    /\ trace[1].critical_path_time <= trace[1].wall_time
=============================================================================
