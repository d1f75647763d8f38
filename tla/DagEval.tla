------------------------------ MODULE DagEval ------------------------------
(***************************************************************************)
(* What an executor promises, whichever it is: the nodes of the cone of a  *)
(* request get their values one at a time, in any order that respects the  *)
(* deps, and each once; a call ends with the values asked for, with a task *)
(* that failed, or with the nodes that no order of evaluation reaches.     *)
(*                                                                         *)
(* Executor::run_sequential and Executor::run_parallel (src/src/exec.rs)   *)
(* are two ways to do this: SequentialExec and ParallelExec refine it.     *)
(***************************************************************************)
EXTENDS Dag

VARIABLES
  outs,      \* the request
  usable,    \* the executor accepts the call's configuration and request
  needed,    \* the cone of the request, once it is known
  vals,
  outcome

vars == <<outs, usable, needed, vals, outcome>>

Init ==
  /\ outs \in Requests
  /\ usable \in BOOLEAN
  /\ usable => outs # <<>>
  /\ needed = {}
  /\ vals = [n \in NodeId |-> None]
  /\ outcome = [tag |-> "Running"]

Running == outcome = [tag |-> "Running"]
Fresh == Running /\ needed = {}

End(o) == outcome' = o /\ UNCHANGED <<outs, usable, needed, vals>>

-----------------------------------------------------------------------------
RefuseCall ==
  /\ Fresh
  /\ ~ usable
  /\ End([tag |-> "InternalInvariant", what |-> "call"])

RefuseOutput ==
  /\ Fresh
  /\ usable
  /\ \E i \in DOMAIN outs :
       /\ outs[i] \notin NodeId
       /\ \A j \in 1 .. i - 1 : outs[j] \in NodeId
       /\ End([tag |-> "OutputMissing", key |-> outs[i]])

Begin ==
  /\ Fresh
  /\ usable
  /\ Range(outs) \subseteq NodeId
  /\ needed' = Cone(Range(outs))
  /\ UNCHANGED <<outs, usable, vals, outcome>>

-----------------------------------------------------------------------------
DepsDone(n) == \A d \in DepSet(n) : vals[d] # None

StartableUnasked(n) == vals[n] = None /\ DepsDone(n)
Startable(n) == n \in needed /\ vals[n] = None /\ DepsDone(n)

Applied(n) == ValueOf(n, [i \in 1 .. Len(Deps[n]) |-> vals[Deps[n][i]][1]])

Evaluate ==
  \E n \in NodeId :
    /\ Running
    /\ Startable(n)
    /\ n \in Sources \/ "ok" \in Behaviour[n]
    /\ vals' = [vals EXCEPT ![n] = Some(Applied(n))]
    /\ UNCHANGED <<outs, usable, needed, outcome>>

Fail ==
  \E n \in NodeId \ Sources :
    /\ Running
    /\ Startable(n)
    /\ "err" \in Behaviour[n]
    /\ End([tag |-> "TaskFailed", task |-> n])

Finish ==
  /\ Running
  /\ needed # {}
  /\ \A n \in needed : vals[n] # None
  /\ End([tag |-> "Ok",
          outputs |-> [n \in NodeId |-> IF n \in Range(outs) THEN vals[n] ELSE None]])

\* nothing more can be evaluated, and something has no value
UnreachedAll == needed
Unreached == {n \in needed : vals[n] = None}

Stop ==
  /\ Running
  /\ Unreached # {}
  /\ \A n \in needed : ~ Startable(n)
  /\ End([tag |-> "Cycle", remaining |-> Ascending(Unreached)])

Done == ~ Running /\ UNCHANGED vars

Next == RefuseCall \/ RefuseOutput \/ Begin \/ Evaluate \/ Fail \/ Finish \/ Stop \/ Done

Spec == Init /\ [][Next]_vars

-----------------------------------------------------------------------------
(* What follows for every order of evaluation.                             *)

(***************************************************************************)
(* The request alone determines the values and the answer: each value is   *)
(* the node's meaning, recorded after those of its deps, and an Ok outcome *)
(* holds those of the keys asked for (tests/parallel.rs:26 compares two    *)
(* executors).                                                             *)
(***************************************************************************)
ValuesDetermined ==
  /\ \A n \in NodeId :
       vals[n] # None => n \in needed /\ DepsDone(n) /\ vals[n] = Some(Meaning[n])
  /\ outcome.tag = "Ok" => outcome.outputs = Answer(outs)

(***************************************************************************)
(* ExecError::Cycle names exactly the needed nodes that lie on a cycle or  *)
(* behind one, in NodeId order, and so never none of them.                 *)
(***************************************************************************)
CycleExact ==
  outcome.tag = "Cycle" =>
    /\ outcome.remaining = Ascending(needed \ Evaluable(needed))
    /\ needed \ Evaluable(needed) # {}
=============================================================================
