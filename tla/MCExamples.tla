----------------------------- MODULE MCExamples -----------------------------
(* An instance of Examples for TLC.                                        *)
EXTENDS Examples

(***************************************************************************)
(* The programs with the sizes they have, and with the smaller powers of   *)
(* two their asserts allow: every subtree, every target position.          *)
(***************************************************************************)
Merkle(n) ==
  UNION {{[name |-> "merkle", n_leaves |-> n, level |-> l, index |-> i] :
            i \in 0 .. n \div 2 ^ l - 1} : l \in 1 .. Log2(n)}
Rollup(b, c) ==
  {[name |-> "rollup", batch_size |-> b, chunk_size |-> c, target_tx |-> t] : t \in 0 .. b - 1}

MCPrograms ==
  {[name |-> "pipeline"]} \cup Merkle(2) \cup Merkle(8) \cup Merkle(16)
    \cup Rollup(4, 2) \cup Rollup(8, 4) \cup Rollup(8, 2) \cup Rollup(16, 4)

\* The programs fix what they add: the builder's free choices are not used.
MCNone == {}
MCMaxDeps == 0
=============================================================================
