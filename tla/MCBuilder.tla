------------------------------ MODULE MCBuilder ------------------------------
(* An instance of DagBuilder for TLC.                                      *)
EXTENDS DagBuilder

(***************************************************************************)
(* Three keys that may be added, in any order and repeatedly, with up to   *)
(* two deps each: forward references, self-references, repeats, missing.   *)
(***************************************************************************)
CONSTANTS a, b, c
MCKeys == {a, b, c}
MCValues == {"v"}
MCFuns == {"f"}
MCMaxDeps == 2
=============================================================================
