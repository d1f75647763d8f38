----------------------------- MODULE MCDagEval -----------------------------
(* An instance of DagEval for TLC.                                         *)
EXTENDS DagEval, MCScrambled

MCValue == 0 .. 6
MCValueOf(n, args) == (n + SumFunction([i \in DOMAIN args |-> i * args[i]])) % 7

\* Wide requests: five and seven nodes whose order is free, a cycle beside them.
MCRequests == {<<>>, <<0, 9>>, <<0, 8>>, <<7, 8, 4, 7>>, <<6>>, <<3, 5, 8>>}
=============================================================================
