---------------------------- MODULE MCSequential ----------------------------
(* An instance of TracedSequential for TLC.                                *)
EXTENDS TracedSequential, MCScrambled

MCValue == 0 .. 6
MCValueOf(n, args) == (n + SumFunction([i \in DOMAIN args |-> i * args[i]])) % 7

\* The empty request, an unknown key, a source, the join, pruned work, a cycle.
MCRequests == {<<>>, <<0, 9>>, <<2>>, <<0>>, <<1, 8>>, <<4, 1, 4>>, <<7, 3>>}

\* Enough for every node of the longest chain to take some time.
MCMaxTime == 4
=============================================================================
