# A verification of the DAG executor

TLA+ modules, TLC configurations and TLAPS proofs for `dag_exec`, the crate in
`src/`: a graph of keyed sources and tasks is built once, then the values of
requested keys are computed, either on the calling thread or by a pool of
worker threads. Line references are to files under
`src/src/`, or `src/` for `examples/` and `tests/`.

## Inventory

| Part | State | Operations | What is hard |
|---|---|---|---|
| **Builder** (`builder.rs`) | `index: key -> staging position`, `staging: [key, deps, kind]` | `add_source`, `add_task` (both `insert_node`), `build` | forward references, repeated keys, missing deps; ids must be dense and stable |
| **Graph** (`graph.rs`) | immutable `nodes` (key, dep ids, source value or closure) and `index` | none: read only | may be cyclic; a node may name a dep several times, or itself |
| **Request analysis** (`exec/common.rs`) | `needed`, the DFS stack; `dependents`, `indeg`, `needed_count` | `mark_needed`, `build_kahn_metadata`, `collect_outputs` | the cone must be closed under deps and minimal; one in-degree per dep *occurrence* |
| **Sequential executor** (`exec/sequential.rs`) | `vals`, `indeg`, queue, `processed` | `execute`: pop, run, release | cycles, failing closures |
| **Parallel scheduler** (`exec/parallel.rs:99-306`) | the same tables, and `in_flight`, `next_worker`, `pending` | dispatch rounds with `try_send`, retry of the held-back task, `recv`, release, five ways to end | two limits at once, full channels, results in any order, when to conclude "cycle" |
| **Worker pool** (`exec/parallel.rs:20-97`) | one bounded task channel per worker, one shared result channel, threads | spawn, worker loop, close-and-join on drop | panicking closures, disconnection, drop order of pool and receiver |
| **Facade** (`exec.rs`) and errors (`error.rs`) | the `ExecutorConfig` | four `run_*` entry points that collect the keys and forward | none of its own |
| **Observer and trace** (`exec/observe.rs`, `trace.rs`) | per-node timestamps, worker ids, start order, widest frontier | `mark_ready/start/finish`, `finalize` | the critical path is computed over start order, assumed topological; `mark_start` comes after the task was handed over |
| **Examples** (`examples/`) | the graphs of `pipeline`, `merkle` and `rollup`; counters of the closures run | add nodes, build, run for several requests, encode and verify a proof | keys computed from shifts and divisions in four places that must agree |
| **Benches, tests, CI** | | | used only for what they state about the library |

How they interact: the builder's output is read by both executors through
shared references; the executors call `mark_needed`, `build_kahn_metadata` and
`collect_outputs`; the scheduler and the workers share nothing but channels
(tasks one way, results the other) and immutable `Arc`s; the observer is
called from the scheduler's thread only. There is no persistence and no
timeout anywhere, so no crash-recovery or timer behaviour either.

What makes each part correct:

* graph and request: the cone is the least dep-closed set that holds the
  request; every needed node's in-degree counts its unfinished dep occurrences;
* executors: each needed node is run exactly once, after its deps, with their
  values in declared order; others are never run; `Ok` carries every requested
  value; `Cycle` names exactly the nodes no order of evaluation reaches;
  `TaskFailed` names a task that did fail;
* scheduler and pool: bounded work, exact `in_flight`, no task lost or run
  twice, no false stall, every call returns, no thread outlives its call;
* builder: dense ids, deps resolved to the node of their key, errors exactly
  for duplicate and missing keys and the empty graph;
* trace: start order is topological, times are ordered, the critical path is the
  heaviest chain of dependent nodes and at most the wall time;
* examples: no wiring mistake, no more work than asked for, the root of the
  sequential baseline, and a proof that verifies.

`PROJECT.json` lists under `hazards` the places of the code that are hard to
test, with the property that watches each.

## Modules

| Module | Contents |
|---|---|
| `Dag` | the graph as constants with its assumptions; `Cone`, `DepSet`, `Multiplicity`, `Ascending`; the reference notions `Evaluable`, `Meaning`, `Answer` |
| `RequestAnalysis` | `mark_needed` and `build_kahn_metadata`, one iteration per step, with their properties |
| `DagEval` | the abstract specification: what any executor promises |
| `Kahn` | the tables of one call, shared by both executors: seeding, completion of a node, `collect_outputs` |
| `SequentialExec` | one call of `run_sequential`; `Implements`: it refines `DagEval` |
| `ParallelExec` | one call of `run_parallel`: scheduler, channels and workers; `Spec`, `FairSpec` |
| `ParallelExecProps` | its properties |
| `TraceObserver` | the observer, a clock, `finalize`, and the properties of a trace |
| `TracedSequential`, `TracedParallel` | `run_sequential_traced`, `run_parallel_traced`: an executor composed with the observer |
| `DagBuilder` | `add_source`, `add_task`, `build` |
| `Examples` | the three example programs, on top of `DagBuilder` |
| `MCGraph`, `MCScrambled` | the graphs of the instances |
| `MCAnalysis`, `MCDagEval`, `MCSequential`, `MCParallel`, `MCTraced`, `MCBuilder`, `MCExamples` | the instances TLC checks |
| `DagProofs`, `KahnProofs` | facts about the operators of `Dag`; of `Kahn` and `TraceObserver` |
| `RequestAnalysisProofs`, `DagEvalProofs`, `DagBuilderProofs` | theorems about the module named |
| `SequentialExecProofs` | theorems about `SequentialExec` and `TracedSequential` |
| `ParallelExecProofs` | theorems about the scheduler, the channels and the workers |
| `ParallelKahnProofs` | theorems about the evaluation that runs over them, and about `TracedParallel` |

How they are composed:

    Dag <- DagEval
     ^        ^  refined by
     |        |
    Kahn <- SequentialExec <- TracedSequential -> TraceObserver
     ^                                               |
     +---- ParallelExec   <- TracedParallel   -------+
     (RequestAnalysis refines Kahn's Seed: it is what the loops compute)

    DagBuilder <- Examples     (DagBuilder: that build gives the graph Dag assumes)

### `RequestAnalysis` and the code

The loops of `exec/common.rs:12-64`: `pc` = `push` fills the stack from the
keys (`OutputMissing` leaves at the first unknown one), `search` pops until the
stack is empty (`SkipVisited`, `Visit`), `count` walks the nodes in order
(`CountNode`, `SkipNode`). `needed` is the set of marked nodes instead of a
mask. The executors use the results only (`Seed` in `Kahn`: cone, in-degrees,
first queue). `AnalysedAtOnce` says that the loops implement that step: an
instance of `Kahn` reads the tables once the loops have returned, and the
initial ones before.

### `DagEval`: what an executor promises

State: the request, whether the call is acceptable at all, the cone, the values
and the outcome. Nodes of the cone are evaluated one at a time, in any order in
which deps come first; the call ends with all requested values, with a task
that failed, or, when nothing can be started any more, with the nodes that have
no value. Refusals come first, before any evaluation. Nothing is said about
queues, threads, in-degrees or the order. It is what the facade (`exec.rs`)
promises for both executors.

### `SequentialExec` and the code

`exec/sequential.rs:30-131`. `pc` = `start` (argument check, `mark_needed`,
tables), `loop` (`while let Some(id) = q.pop_front()`), `running` (inside a
closure, `current` says whose), `returned`, `unwound` (a closure panicked: the
panic passes through the caller's frame). A source is popped and completed in
one step; a task is popped and counted as processed in `StartTask`, as in the
code, and gets its value in `TaskOk`. The split lets time pass in a closure.

### `ParallelExec` and the code

The variables `needed, indeg, vals, ready, processed, in_flight, next_worker,
pending` are the locals of `run_with_observer`; `sending` and `tries` are the
task and the loop counter of `dispatch_task_try`; `task_txs_open` says whether
`WorkerPool.task_txs` is `Some`; `queue[w]` and `res_rx` are what the channels
buffer; `wstate`, `wtask` are the worker threads. `pc` is where the scheduler
stands:

    start -> dispatch <-> send        (inner loop; one try_send per step)
                 |          |
                 +-> wait <-+         (cap reached, nothing ready, or AllFull)
                      |   \-> dispatch        (a result was received)
                      v
                    close -> join -> returned (drop of the pool, then the rest)

Scheduler and workers communicate only through channels, so a step runs the
code between two channel operations: one `try_send`, one `recv`, dropping the
senders, joining; a worker takes a task, ends it and sends, exits. The
completion of a node (`Complete`) is value, count, in-degrees and the newly
ready dependents in one step, as in the code. All three ways a `try_send` can
end are actions, and so are all ways the call can end: the four argument
checks, an unknown key, a missing dep, a closed task channel, a closed result
channel, a cycle, a failed task, and success.

Abstractions. Values are a small set and closures one function `ValueOf` of
node and arguments, so argument order and repetition stay visible; whether a
run of a closure succeeds, fails or panics is chosen each time from
`Behaviour`. A key is its NodeId (the builder makes them one to one); error
texts are short tags. Observer calls are left out, they cannot influence the
scheduler. `mark_needed` and `build_kahn_metadata` are given by their results
(see `RequestAnalysis`).
A panicking closure drops its worker's receiver (with the tasks it buffers)
and its result sender in one step: the scheduler cannot tell the two apart.

The standard library's channels are modelled from how the code uses them:
`sync_channel(cap)` buffers at most `cap`, `try_send` distinguishes full from
disconnected and reports disconnection first, `recv` returns what is buffered
before it reports disconnection, a receiver's iterator drains the buffer after
the sender is gone.

### `TraceObserver` and the code

`trace.rs`. `obs` is the `TraceObserver` (first mark of each kind counts),
`clock` is `started.elapsed()`, `trace` the `ExecutionTrace`. `mark_ready`,
`mark_start` and `mark_finish` are operators on `obs`; `TracedSequential` and
`TracedParallel` conjoin them with the executor's actions that call them. The
width given to `mark_ready` is read after each push, as at all four call sites.
`Finalize` is `finalize`: nodes in start order, saturating durations, and the
longest-path pass over that order, in which a dep that starts later would count
as zero. In `TracedParallel` a task is marked as started in a step of its own
after `try_send` (`MarkQueued`, `parallel.rs:214` and `:259`): in between, its worker
may already take it, run it and send the result. While it is outstanding the
scheduler does nothing else.
The clock stands still within a step: two `elapsed()` calls of one step give
the same time. The model cannot tell the order of marks in one step by their
times, only by the order in which they are recorded.

### `DagBuilder` and the code

`builder.rs`. `index` and `staging` are the fields; `result` is what the last
call returned, and after `build` (which takes `self`) or a missing dep there is
no builder to call. `insert_node` refuses a known key and changes nothing then.
`build` collects the keys first and resolves deps afterwards (that is why
forward references work), and reports the first missing dep in order of nodes
and then of deps. Ids count from 0 as in the code. Keys, values and closures
are model values.

### `Examples` and the code

Each program is the list of its builder calls, computed from its parameters by
the arithmetic of the source (shifts as halving, `^ 1` as flipping the low bit,
`/` and `%`), then `build`, then its requests in the order `main` makes them.
Keys are tuples in place of formatted strings; numbers in those strings are
separated by slashes, so the two distinguish the same keys. Hashes are terms,
so anything hashed in another order or over other data is a different value.
Closures check what the code checks (`ensure_32`, `read_u64_le`) and a failure
spreads. A run evaluates the cone of the request, which is what `DagEval` says
of either executor. `Verify` and `NaiveRoot` are the proof verifier and the
sequential baseline of `rollup.rs`.

## Runs

| Run | Question | Answer |
|---|---|---|
| `request_analysis` | do the loops end in linear time, with exactly the cone and balanced tables, for every request of one or two keys, and are they the one step the executors' models take? | yes |
| `parallel_safety` | the safety properties and FIFO dispatch (for panics see `parallel_panic`), tasks succeed or fail in every interleaving | hold |
| `parallel_liveness` | does every call return? | yes, when no closure panics |
| `parallel_panic` | every closure may panic: does a call that lost a worker never end as if it had not, is a channel reported as disconnected only after a worker was lost, do threads all wait for each other only then, and is a lone worker's panic noticed? does every step of every call bring its end nearer? | yes |
| `parallel_panic_hang` | does a call return when a closure panics? | **no**, finding 2 |
| `parallel_false_cycle` | does `Cycle` always name a node? | **no**, finding 1 |
| `parallel_drain` | do workers stop consuming when the senders are dropped? | **no**, finding 3 |
| `sequential` | does `run_sequential_traced` refine `DagEval`, always come back, and return the answer the graph determines, closures that fail or panic included? (its traces: proved, and the properties are checked in `traced_parallel`) | yes |
| `traced_parallel` | does `run_parallel_traced` refine `DagEval` (outside findings 1 and 2), and give a true trace although starts are marked late? | yes |
| `dag_eval` | do all orders of evaluation give the same values and stop at the same nodes? | yes |
| `builder` | every sequence of builder calls over three keys: dense ids, justified errors, and the graph the executors assume? | yes |
| `examples` | do the example graphs build, run only what is asked for, agree with the baseline, and do their proofs verify? | yes |

What the less obvious properties mean. `ValuesDetermined`, `ValuesFollowDeps`,
`SameAnswer` and the `Ok` part of `OutcomeIsJustified` compare with `Meaning`: the
value of a node as a recursive function of the graph, over the nodes some order of
evaluation reaches. It knows no request, executor or schedule, so two calls that
return `Ok` for the same request return the same outputs, whichever executor ran
and whatever the configuration was. `LinearWork` and `EveryStepCounts`: the steps
the analysis, or the threads of a parallel call, can still take are at most
`StepsLeft`, which falls with every step. The scheduler is charged for two rounds
per node without a value (one that dispatches it, one that receives it; a round is
a pop, a try per worker and a wait), a worker for each task it will take and run
and for its exit; a `try_send` that succeeds pays for the worker's steps out of
its round. `TablesBalance`: the decrements that `dependents` will cause are
exactly the in-degrees. `OutcomeIsJustified`: how a call may
end, read off the tables. A `Cycle` names the nodes without a value, each of which
waits for a dep; it says no more of the empty list of finding 1, which is left to
`CycleErrorHasRemaining` and the refinement. An internal invariant other than of a bad call names one of
the channels, and then there is a closure that could run, may panic and has no
value; "dep missing" is never reported. Where every closure may panic that branch
says little, so `parallel_panic` checks `PanicIsReported` instead, which reads the
threads themselves: a value, a missing output or a cycle is reported only by a pool
that is whole and has nothing left to run, and a disconnected channel only when a
thread is gone, in particular not when a `try_send` finds it full. It looks at the
threads while the senders are open, since once they are dropped threads end for
another reason. `BlockedOnlyByPanic`: the three places where a thread
waits for another (`recv`, `join`, a worker's next task) are never all occupied at
once, but in `recv` after a panic in a pool of several workers; TLC's own deadlock
check says the same of the runs without panics. `TimesOrdered`: in a trace ready
<= started <= finished <= wall time, no node becomes ready before its deps are
finished, and each needed node appears once with real times.
`CriticalPathIsLongest`: the one-pass computation agrees with a recursion over the
graph. `WorkerIdsTrue`: the worker id of the trace is the worker whose channel and
closure held the task. `FrontierIsPeak`: a step raises `max_frontier_width`
exactly to the length the queue has after it. `PrunedWork`: the counts the
programs print as expected.

### Bounds

*Parallel runs and `request_analysis`* use a graph of eleven nodes (`MCGraph`)
with two sources, chains, a join, a task that names a dep twice, a zero-dep
task, a two-node cycle and a task behind it; a request cuts one shape out of
it. `MCConfigs`: one to three workers, channel capacity 1 and 2,
`max_in_flight` below, between and above what the channels hold, and each of
the three bad configurations. `AllFull` needs `max_in_flight` above the
capacity and more ready tasks than slots: request `<<7, 2, 9, 4, 3>>` has four
ready at once. `MCRequests`: empty, unknown key, source only, repeated key,
repeated dep, join, cycle, cycle beside work. The state space is finite
without further bounds, because each node is dispatched at most once. The
temporal runs use the three configurations and five requests that show
different ways to wait (`MCFewConfigs`, `MCFewRequests`). `MCUsizeMax` = 255
stands for `usize::MAX`, and no product in these instances reaches it; the
theorems hold for every `usize::MAX`.
`MCRequests` of `MCAnalysis` is every request of one or two keys, unknown ones
included: two are enough for a repeated key, overlapping cones and an unknown
key before or after a known one; longer requests only repeat this.

*Runs about evaluation and traces* use `MCScrambled`, nine nodes whose ids are
in no topological order, so that a pass in id order where start order is meant
shows. `MaxTime` (4 and 3) stops the clock: the longest chain has four nodes,
of which three can take time, and a mark can be early, equal or late with
respect to another already with two ticks. `traced_parallel` has one and two
workers with channels that fill, a bad configuration, and requests whose last
node to finish is a task: after finding 1 the refinement does not hold.
`dag_eval` has requests with up to seven nodes in free order.

*`builder`* allows three keys, each added any number of times with up to two
deps: enough for a forward reference, a self-reference, a repeated dep, two
missing deps in one and in different nodes. *`examples`* takes the programs at
the sizes they have (16 leaves; a batch of 16 in chunks of 4) and at the
smaller powers of two their asserts allow, with every subtree and every target.

Deadlock is checked in all runs but `parallel_panic` and `parallel_panic_hang`:
the only states without a further step are those of a returned or unwound call,
a consumed builder, a finished program, which stutter explicitly. With panics the
parallel scheduler really may block for ever.

### Fairness

`ParallelExec.FairSpec` asks weak fairness of the scheduler and of each worker:
the operating system runs every thread that can run, and closures are assumed
to end. Nothing is assumed about which worker is faster, or about `recv` being
served before its message is there: a blocked `recv` or `join` is not enabled.
`RequestAnalysis` and `SequentialExec` are one thread running straight
through: weak fairness of `Next`, and in `TracedSequential` of the thread only,
never of the clock. A panic in the sequential executor unwinds, so `Terminates`
there means "returned or unwound".

### Refinement

Both executors are shown to do what `DagEval` allows. The mapping takes `outs`,
`needed`, `vals` and the result; `usable` is "the request is not empty", in the
parallel case "no argument check fails". A result `Evaluated` of the parallel
scheduler, which has left its loop but not collected the outputs, maps to a
running call. Popping, counting, dispatching, channel operations, marks and
the clock are stuttering steps. For the sequential executor it is
checked and proved for all graphs. For the parallel one it is false with
findings 1 and 2: `Cycle` for a completed request is no outcome of `DagEval`,
nor is a lost worker. So it is proved in two forms. `StepsEvaluate` assumes
nothing and names those two as the only steps that are not `DagEval`'s.
`ParallelRefines` is the refinement itself, under `SourcesUsed` (each source in
the cone of a request is a dep of some node in it, so that the last node to
finish is a task) and `NobodyPanics`; the instance of `traced_parallel` meets
both (`MCImplementable`, an `ASSUME` that TLC evaluates).

### Findings

1. *False cycle* (`parallel.rs:271`). Sources are completed inside the
   dispatch round. If the last needed node is a source, the round ends with
   `in_flight == 0` although `processed == needed_count`, and the call returns
   `Cycle { remaining: [] }`. Requesting a source alone is enough. The
   sequential executor returns the value.
2. *Hang after a panic* (`parallel.rs:284`). A panicking closure kills its
   worker and what that worker had queued; no result comes for those tasks,
   and as long as another worker lives the result channel stays open and
   `recv` blocks for ever. With one worker the call does return
   (`LoneWorkerPanicReturns`).
3. *Comments on shutdown* (`parallel.rs:62`, `:66`). Workers do not stop when
   the senders are dropped: they run everything still buffered first, and
   since the receiver is dropped after the pool, their sends never fail. An
   error therefore returns only after all dispatched work has been done.

## Proofs

Assumptions: `DagAssumption` (what `build` guarantees, cycles allowed; proved of
the builder as `BuildMeetsAssumption`), `ValueAssumption` (closures are total
functions into `Value`), `CallAssumption` (requests are sequences of keys, and a
task's behaviour is a set of ways to end, panics included), `ConfigAssumption`
(configurations of naturals, `usize::MAX` positive), `BoundAssumption` (the
bound on deps in `DagBuilder` is a natural), and that `mark_needed` is not
called for an empty request (`RequestsAssumption`, both executors check it
first). Everything holds for all values of the constants that meet them.

| Theorem | Property | Module |
|---|---|---|
| `NeededCorrect` | `NeededIsCone` | `RequestAnalysisProofs` |
| `FirstMissing` | refusals name the first unknown key (`MissingIsFirst`, part of what `AnalysedAtOnce` checks) | |
| `TypeCorrect` | types (`TypeOK`), so that no index is out of bounds | |
| `TablesPaired` | `TablesBalance` | |
| `ListsMatchDeps` | dependents lists name each node once per dep occurrence | |
| `AnalysisRefines` | `AnalysedAtOnce` (a refinement) | |
| `LinearAnalysis` | `LinearWork`, and the bound at the start | |
| `Determinate` | `ValuesDetermined` | `DagEvalProofs` |
| `CycleNamesUnreachable` | `CycleExact` | |
| `SequentialRefines` | `Implements` | `SequentialExecProofs` |
| `SequentialAgrees` | `SameAnswer` | |
| `SequentialBounded` | at most `2 * NodeCount + 2` steps | |
| `TracedSequentialRefines` | `Implements`, observed | |
| `SequentialTopological` | `TraceTopological` | |
| `SequentialTimes` | `TimesOrdered` | |
| `SequentialCriticalPath` | `CriticalPathIsLongest` | |
| `TypeCorrect` | `TypeOK` | `ParallelExecProofs` |
| `Shutdown` | `NoThreadOutlivesCall` | |
| `Accounting` | `InFlightAccounting` | |
| `BoundedWork` | `Backpressure` | |
| `StallIsIdle` | `StallMeansIdle` | |
| `NobodyWaitsInVain` | `BlockedOnlyByPanic` | |
| `CountersTellTruth` | `KahnCounters` | `ParallelKahnProofs` |
| `ScheduleIndependent` | `ValuesFollowDeps` | |
| `OncePerRequest` | `NoDuplicateWork` | |
| `NoneForgotten` | `NothingForgotten` | |
| `CycleNamesCycle` | `CycleIsExact` | |
| `EveryEndJustified` | `OutcomeIsJustified` | |
| `PanicsReported` | `PanicIsReported` | |
| `ParallelAgrees` | `SameAnswer` | |
| `BoundedCall` | `EveryStepCounts`, and the bound at the start | |
| `DispatchInOrder` | `FifoDispatch` (an action property) | |
| `StepsEvaluate` | every step evaluates, but for findings 1 and 2 | |
| `ParallelRefines` | `Implements`, if `SourcesUsed` and `NobodyPanics` | |
| `CycleIsReal` | `CycleErrorHasRemaining`, if `SourcesUsed` | |
| `TracedParallelRefines` | `Implements`, observed, likewise | |
| `ParallelTopological` | `TraceTopological` | |
| `ParallelTimes` | `TimesOrdered` | |
| `ParallelCriticalPath` | `CriticalPathIsLongest` | |
| `WorkerIdsPresent` | `WorkerIdsTrue` | |
| `FrontierWidth` | `FrontierIsPeak` (an action property) | |
| `DenseIds` | `IndexInverse` | `DagBuilderProofs` |
| `BuildMeetsAssumption` | `BuildGivesDag` | |
| `BuildFaithful` | `BuildIsJustified` | |

**Request analysis.** `NeededCorrect` rests on `SearchInv`: nothing outside the
cone is marked or stacked, and what a marked node depends on, or the caller
asked for, is marked or still stacked. `NeededIsCone` alone is not inductive, it
says nothing while the search runs. With the stack empty the marked nodes are
dep-closed and hold the request, and `ConeProperties` says the cone is the
least such set. `CountInv` describes the tables half-way: nodes below `i` have
their in-degree and, in the list of each dep, as many entries as that dep has
occurrences; nodes from `i` on have none. The in-degree is then the number of
entries in all lists together by `SumOfFibres`: sets of the size of the fibres
of a function hold together as much as its domain. It is a bijection put
together from one for each fibre, where the code has two loops, and needs no
induction. `AnalysisRefines` follows: until the loops return the instance of
`Kahn` shows its initial tables, and `CountInv` at `i = NodeCount` is `Seed`.
`LinearAnalysis` counts the places in dep lists not yet stacked: marking a node
moves the places of its list from that set onto the stack and takes the node off it
(`DepSlotsWithout`), so what is left to pop falls by one with every iteration.

**Abstract evaluation.** The invariant adds to the types that only nodes of the
cone have values, that each value is the node's `Meaning`, recorded after those
of its deps, and that valued nodes are `Evaluable`. When nothing can be started the valued
nodes are closed under "all deps valued", and so contain all that is evaluable:
what is left is exactly the rest.

**Sequential executor.** `IInv` = `KahnOK` (in-degrees count dep occurrences
without a value), `processed` counts the pops, and the queue, with the running task,
holds exactly the startable nodes, each once. Then a popped node is one
`DagEval` may evaluate, "dep missing" is unreachable, and an empty queue means
that nothing is startable, so `Finish` is `DagEval`'s `Finish` or `Stop`.
`KahnProofs` has what both executors need of the tables: seeding establishes
them (`SeedOK`), completing a node keeps them (`RecordOK`), a positive
in-degree means an unvalued node (`RemainingIsUnvalued`), equal counts mean
that all have values (`CountSaysAll`).

**Scheduler and pool** (`ParallelExecProofs`), in layers, each inductive given
those below. `TypeInv` adds to the types what the control points mean
(`Control`: past the checks the configuration is usable; the scheduler holds a
task while sending; a running worker holds one). `PoolInv` says which threads
exist when, that a thread that is gone left its channel empty, and that the
receiver is kept until the call returns. `SlotInv` is the accounting: the
*slots* are the occupied places of channels and workers; every channel
operation moves one task from one slot to another, so their number changes only
with a `try_send` (with `in_flight += 1`), a `recv` (with `in_flight -= 1`), or
a panic, which only removes slots. It also carries `in_flight <= EffectiveCap`,
strictly while a task is being sent, and from that follows `Backpressure`,
since `CapFacts` shows that saturation can only lower the cap and never to
zero. `IdleInv` adds that a round ending with nothing in flight was not stopped
by the cap (it is positive) nor by full channels (a full channel is a slot).
`NobodyWaitsInVain` uses the same count: while no worker has died, a positive
`in_flight` with nothing to receive is a slot of some worker, and a worker with
a slot does not wait; when the pool is joined the senders are gone (`ShutInv`),
and so no worker waits for a task. After a panic a blocked `recv` still has a
sender, another worker, and `SpawnInv` (no more threads than asked for) makes that
a pool of at least two.

**Kahn's algorithm over the pool** (`ParallelKahnProofs`), on top of these.
A *hand* is a place that can hold nodes: the ready queue, the task held back or
being sent, each worker's channel, each worker, the result channel.

* `HandInv`: the hands are disjoint families of node ids, a node occurs once in
  its hand, and whatever is in a hand is startable. Every step moves one node
  from a hand to another, adds newly released ones, or drops some.
* `ArgInv`: the arguments of a task and the results on their way are what the
  deps' recorded values give. Values are never overwritten, so this stays true.
* `KahnInv`: the tables of `Kahn`, and that valued nodes are `Evaluable`.
* `LostInv`: unless a worker has panicked every startable node is in a hand; if
  one has, some startable node whose closure may panic is in none.
* `OpenInv`: the senders are open while the scheduler works. `DebtInv`: after a
  panic there are fewer slots than `in_flight` says. Hence `in_flight` cannot
  come down to zero, and a panic is never reported as a cycle.
* `EndInv`: each way to end, from all the above. For `Cycle`: `StallMeansIdle`
  says all hands are empty, `LostInv` that nothing was startable. It holds the outcome
  against the tables only (`OutcomeIsJustified`); what it says of the channels
  comes from `LostInv`, since a channel is disconnected only by a lost worker.
* `IdleAtEnd`, which follows from `EndInv`: after an end with a value, a missing
  output or a cycle nothing is startable, so no worker has a task and none can
  panic afterwards. `PanicInv` says, while the senders are open, that such an end
  leaves the pool whole and a disconnected channel does not. It is kept because a
  thread other than a panicking one only exits once the senders are gone, and because
  the last result of a cone cannot arrive after a panic: `LostInv` keeps a startable
  node that is in no hand, and that node would be without a value. Together they
  are `PanicsReported`.

**Refinement of `DagEval`** by the parallel executor. `StepRefines` goes through
the actions: only `RunSource`, `ReceiveOk`, `ReceiveErr`, the refusals, `Start`,
`ReportCycle` and `Return` show in `DagEval`, and `AllInv` with `EndInv` gives the
guards its steps ask for (what is received is startable, what is collected is
complete). `Unfinished` is the extra invariant under `SourcesUsed`: in the loop
some needed node has no value, since a source that gets one leaves its user
without. It refutes the false cycle, and `SomeonePanicked` the lost worker.

`DispatchInOrder` takes the task being sent, the one held back and the queue as
one line, and shows that every step leaves it, or takes its first element, or
appends.

**Traces.** `ObsOK` is the invariant of the observer, whoever calls it: a node
is marked finished only after it is marked started, started only after it is
marked ready, and ready only when each of its deps has a value and is marked
finished; the times are in that order and not after the clock; the order of
execution holds each started node once and after its deps; whatever has a value
is marked finished and whatever may start is marked ready. `KahnProofs` shows
that `mark_ready`, `mark_start` and `mark_finish`, called where the executors
call them, keep it, and that `finalize` then gives `TraceOK`: every needed node
has a value, `nodes` is the order of execution, and the critical path is the
largest of weights `f` with `f[n]` = the duration of `n` + the largest `f` of
its deps. From these follow the three properties (`TopologicalFollows`,
`TimesFollow`, `CriticalFollows`). Such weights exist because each fits in the
time until its node has finished (`PathTimesExist`). The pass over the order of
execution and the recursive reference both solve the same equation, and there
is one solution: at the first place in a topological order where two would
differ, all deps agree (`PassIsWeight`, `HeaviestIsWeight`). The argument is by
the least element of a finite set of places, so it needs no induction over data.

In a sequential run the marks follow the executor's own steps. In a parallel one
the scheduler marks a start after `try_send`, so the task may run, and its
result be in the channel, before it is marked. No invariant about marks alone is
inductive there: `ObservedInv` relates them to the hands. `HandMarks`: what the
scheduler still holds is not marked, what a worker or the result channel holds is
marked with its worker, but for the one task `unmarked` names; `UnmarkedOK`:
while there is one the scheduler does nothing but mark it. Hence a received result has
been marked as started. `ObservedInv` was checked by TLC, with and without
panics, before it was proved. The properties hold of the code as it is: no
assumption on requests or panics is needed.

**Builder.** `IInv` = types, `IndexInverse` and the two properties of the
result. Since each key is staged once, `key_to_id` has one candidate per key:
its place, which is also what `index` says.

**One answer.** A recursive definition says nothing of a node unless its equation
is known to have a solution, and graphs may have cycles. `MeaningExists`
(`DagProofs`) builds one: among the sets of pairs of an evaluable node and a value
that are closed under applying a closure, take the least. On the evaluable nodes it
is a function, since removing a second value of a node would leave the set closed
(`OneDerivedValue`) and evaluable nodes are the least set closed under "all deps
are in it" (`EvaluableLeast`); that function solves the equation. No induction over
data is needed. Then a step that records a node from the meanings of its deps
records its meaning, which is what the invariants of `DagEval` and of both executors
say of all that is recorded or on its way; `Ok` outputs are read from that table
(`SequentialAgrees`, `ParallelAgrees`).

**The bounds.** That `StepsLeft` is a natural number and falls with every step is
arithmetic, once two counts are known not to go below zero. `CountInv`
(`ParallelKahnProofs`) says where the nodes are that the other invariants leave
uncounted: while the scheduler loops, each needed node is processed, in flight,
ready or held back, or has a positive in-degree, and the numbers add up. A
completed node adds to the queue exactly those it takes out of the last group
(`RecordCount`), and the first queue leaves exactly the others (`SeedCount`). So
a task at hand is one not yet dispatched, a result received is one not yet
completed, and each pays for the round it starts (`LoopSteps`); the other steps
move within a round, or belong to a worker (`WorkerStepsFall`). At the start
`StepsLeft` is `2 * (max_workers + 3) * (NodeCount + 1)`. With
`NobodyWaitsInVain`, by which some thread can step until the call has returned
unless a panic left the scheduler in `recv`, this is the safety part of
termination. What is left to the run `parallel_liveness` is that a thread that can
run is run. `SequentialBounded` is the same for one thread: a node is popped once, so
`processed` never passes the size of the cone.

Only model-checked: liveness (`Terminates`, `LoneWorkerPanicReturns`), which is
out of the prover's reach, as is `ENABLED` (`BlockedOnlyByPanic` spells out the
guards of the waiting steps instead); and the examples (`NoWiringMistake`,
`PrunedWork`, `RootMatchesNaive`, `ProofVerifies`): closed instances that TLC
covers, whose general statements, for every power of two, are inductions over
the levels of a tree.

## Not modelled

* Benches, tests and CI: they keep no state of the system.
* `ExecutorConfig::default` and `DagBuilder::default`, `Display` and `From` of
  the errors, the text of messages, the capacity hints of maps and vectors.
* Failure of `thread::spawn`, allocation failure for huge capacities, panics in
  the caller's `Hash`, `Eq` or `Clone` of keys.
* Keys and deps copied into a `NodeTrace` are not compared with the graph: they
  are read from it and written nowhere else.
* In the examples: byte layouts, the arithmetic of the toy hash (a term stands
  for a hash), printing and timing.

## Plan

Done: all parts of the inventory that keep state, every safety property of the
library as a theorem, one answer for both executors, and a bound on the steps of a
call. What could still be added:

1. After a repair of findings 1 and 2 in the code: the unconditional refinement,
   and `Terminates` with panics.
