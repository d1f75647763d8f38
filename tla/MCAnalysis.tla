----------------------------- MODULE MCAnalysis -----------------------------
(* An instance of RequestAnalysis for TLC.                                 *)
EXTENDS RequestAnalysis, MCGraph

\* Every request of one or two keys, repetitions and unknown keys included.
MCKeys == 0 .. MCNodeCount - 1 \cup MCUnknownKeys
MCRequests == {<<a>> : a \in MCKeys} \cup {<<a, b>> : a, b \in MCKeys}

\* The analysis never applies a closure: one value is enough.
MCValue == {0}
MCValueOf(n, args) == 0
MCBehaviour == [n \in 0 .. MCNodeCount - 1 |-> {"ok"}]
=============================================================================
