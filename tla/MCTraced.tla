------------------------------ MODULE MCTraced ------------------------------
(* An instance of TracedParallel for TLC.                                  *)
EXTENDS TracedParallel, MCScrambled

MCValue == 0 .. 6
MCValueOf(n, args) == (n + SumFunction([i \in DOMAIN args |-> i * args[i]])) % 7

Conf(w, f, c) == [max_workers |-> w, max_in_flight |-> f, worker_queue_cap |-> c]
MCConfigs == {Conf(1, 9, 1), Conf(2, 9, 1), Conf(0, 1, 1)}

\* Bad ones, the join, a task without deps, and a cycle with work before it.
MCRequests == {<<>>, <<0, 9>>, <<0>>, <<1, 8>>, <<7, 3>>}

\* what Implements asks of the requests and the closures
ASSUME MCImplementable == SourcesUsed /\ NobodyPanics

MCMaxTime == 3
MCUsizeMax == 255
=============================================================================
