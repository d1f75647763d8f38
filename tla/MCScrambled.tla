---------------------------- MODULE MCScrambled ----------------------------
(* The graph of the instances about traces and evaluation.                 *)
EXTENDS Integers, TLC

(***************************************************************************)
(* Forward references: the ids are in no topological order.                *)
(*   2, 5 sources     1 = f(2)     3 = f(2, 2)    4 = f(3, 5)              *)
(*   0 = f(1, 4)      8 = f()      6 = f(7, 1) <-> 7 = f(6)  a cycle       *)
(***************************************************************************)
MCNodeCount == 9
MCDeps == (0 :> <<1, 4>>) @@ (1 :> <<2>>) @@ (2 :> <<>>) @@ (3 :> <<2, 2>>) @@ (4 :> <<3, 5>>)
            @@ (5 :> <<>>) @@ (6 :> <<7, 1>>) @@ (7 :> <<6>>) @@ (8 :> <<>>)
MCSources == {2, 5}
MCUnknownKeys == {9}
Tasks(how) == [n \in 0 .. MCNodeCount - 1 |-> how]
MCMayFail == Tasks({"ok", "err"})
MCMayFailOrPanic == Tasks({"ok", "err", "panic"})
=============================================================================
