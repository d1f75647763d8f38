------------------------------ MODULE MCGraph ------------------------------
(* The graph the TLC instances share.                                      *)
EXTENDS Integers, TLC

(***************************************************************************)
(* One graph that holds every shape the requests cut out of it:            *)
(*   0, 1  sources        2 = f(0, 1)         3 = f(2, 0, 2)    4 = f(2)   *)
(*   5 <-> 6  a cycle     7 = f()             8 = f(5, 2)  behind the cycle*)
(*   9 = f(1)             10 = f(4, 3, 9)  a join                          *)
(***************************************************************************)
MCNodeCount == 11
MCDeps == (0 :> <<>>) @@ (1 :> <<>>) @@ (2 :> <<0, 1>>) @@ (3 :> <<2, 0, 2>>)
            @@ (4 :> <<2>>) @@ (5 :> <<0, 6>>) @@ (6 :> <<5>>) @@ (7 :> <<>>)
            @@ (8 :> <<5, 2>>) @@ (9 :> <<1>>) @@ (10 :> <<4, 3, 9>>)
MCSources == {0, 1}
MCUnknownKeys == {11}
=============================================================================
