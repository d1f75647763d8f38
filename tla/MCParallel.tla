----------------------------- MODULE MCParallel -----------------------------
(* Instances of ParallelExec for TLC.                                      *)
EXTENDS ParallelExecProps, MCGraph

\* Seven values tell argument order and repetition apart.
MCValue == 0 .. 6
MCValueOf(n, args) == (n + SumFunction([i \in DOMAIN args |-> i * args[i]])) % 7

Conf(w, f, c) == [max_workers |-> w, max_in_flight |-> f, worker_queue_cap |-> c]

(***************************************************************************)
(* max_in_flight below, between and above what the queues hold (AllFull    *)
(* needs it above), up to three workers, and each bad configuration.       *)
(***************************************************************************)
MCConfigs == {Conf(1, 1, 1), Conf(1, 9, 1), Conf(2, 2, 1), Conf(2, 9, 1), Conf(2, 3, 2),
              Conf(3, 9, 1), Conf(0, 1, 1), Conf(1, 0, 1), Conf(1, 1, 0)}

(***************************************************************************)
(* No output, an unknown key, a source alone, a zero-dep task before a     *)
(* source, a repeated dep, a repeated output, the join, four tasks ready   *)
(* at once, a cycle, and a cycle with work beside it.                      *)
(***************************************************************************)
MCRequests == {<<>>, <<2, 11>>, <<0>>, <<7, 1>>, <<3>>, <<4, 3, 4>>, <<10>>,
               <<7, 2, 9, 4, 3>>, <<6>>, <<8, 9, 4>>}

\* Smaller, for the temporal properties.
MCFewConfigs == {Conf(1, 9, 1), Conf(2, 2, 1), Conf(2, 9, 1)}
MCFewRequests == {<<0>>, <<7, 1>>, <<3, 9>>, <<8, 4>>, <<10>>}

Tasks(how) == [n \in 0 .. MCNodeCount - 1 |-> how]
MCMayFail == Tasks({"ok", "err"})
MCMayPanic == Tasks({"ok", "panic"})
MCUsizeMax == 255
=============================================================================
