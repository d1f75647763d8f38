--------------------------- MODULE SequentialExec ---------------------------
(***************************************************************************)
(* One call of Executor::run_sequential (src/src/exec/sequential.rs): the  *)
(* calling thread pops ready nodes in order and runs their closures        *)
(* itself. The closure's run is a step of its own, between mark_start and  *)
(* mark_finish, so that time can pass in it (see TracedSequential).        *)
(***************************************************************************)
EXTENDS Kahn

VARIABLES
  pc,        \* where the thread is
  current    \* the task whose closure runs

vars == <<outs, result, tables, pc, current>>

Init ==
  /\ TablesInit
  /\ pc = "start"
  /\ current = None

-----------------------------------------------------------------------------
Return(outcome) ==
  /\ pc' = "returned"
  /\ result' = outcome

RejectCall ==
  /\ pc = "start"
  /\ outs = <<>>
  /\ Return([tag |-> "InternalInvariant", what |-> "call"])
  /\ UNCHANGED <<outs, tables, current>>

RejectOutput ==
  /\ pc = "start"
  /\ \E key \in UnknownKeys :
       MissingOutput(key) /\ Return([tag |-> "OutputMissing", key |-> key])
  /\ UNCHANGED <<outs, tables, current>>

Start ==
  /\ pc = "start"
  /\ outs # <<>>
  /\ Seed
  /\ pc' = "loop"
  /\ UNCHANGED <<result, current>>

-----------------------------------------------------------------------------
(* while let Some(id) = q.pop_front()                                      *)

Pop(n) ==
  /\ pc = "loop"
  /\ ready # <<>>
  /\ n = Head(ready)

RunSource ==
  \E n \in Sources :
    /\ Pop(n)
    /\ Complete(n, ValueOf(n, <<>>), Tail(ready))
    /\ UNCHANGED <<outs, result, needed, pc, current>>

\* a dep without a value ends the call with "dep missing during exec"
StartTask ==
  \E n \in NodeId \ Sources :
    /\ Pop(n)
    /\ processed' = processed + 1
    /\ ready' = Tail(ready)
    /\ IF DepsDone(n)
         THEN pc' = "running" /\ current' = Some(n) /\ UNCHANGED result
         ELSE Return([tag |-> "InternalInvariant", what |-> "dep missing"]) /\ UNCHANGED current
    /\ UNCHANGED <<outs, needed, indeg, vals>>

ClosureEnds(n, how) ==
  /\ pc = "running"
  /\ n = current[1]
  /\ how \in Behaviour[n]
  /\ current' = None

TaskOk ==
  \E n \in NodeId :
    /\ ClosureEnds(n, "ok")
    /\ Record(n, ValueOf(n, Args(n)), ready)
    /\ pc' = "loop"
    /\ UNCHANGED <<outs, result, needed, processed>>

TaskErr ==
  \E n \in NodeId :
    /\ ClosureEnds(n, "err")
    /\ Return([tag |-> "TaskFailed", task |-> n])
    /\ UNCHANGED <<outs, tables>>

\* the panic unwinds through the caller: the call returns nothing
TaskPanics ==
  \E n \in NodeId :
    /\ ClosureEnds(n, "panic")
    /\ pc' = "unwound"
    /\ UNCHANGED <<outs, result, tables>>

AllProcessed == processed = Cardinality(needed)

\* "while processed != needed_count", with nothing left to pop
FinishSpinning ==
  /\ pc = "loop"
  /\ ready = <<>>
  /\ IF AllProcessed THEN Return(Collected) ELSE UNCHANGED <<pc, result>>
  /\ UNCHANGED <<outs, tables, current>>
Finish ==
  /\ pc = "loop"
  /\ ready = <<>>
  /\ Return(IF AllProcessed THEN Collected
                            ELSE [tag |-> "Cycle", remaining |-> Ascending(Remaining)])
  /\ UNCHANGED <<outs, tables, current>>

Finished == pc \in {"returned", "unwound"} /\ UNCHANGED vars

Next ==
  \/ RejectCall \/ RejectOutput \/ Start
  \/ RunSource \/ StartTask \/ TaskOk \/ TaskErr \/ TaskPanics
  \/ Finish \/ Finished

Spec == Init /\ [][Next]_vars

\* One thread, and closures that end: the call runs until it returns.
FairSpec == Spec /\ WF_vars(Next)

-----------------------------------------------------------------------------
(***************************************************************************)
(* run_sequential is an evaluation in the sense of DagEval: it evaluates   *)
(* each needed node once, after its deps, and ends as DagEval allows.      *)
(***************************************************************************)
Eval == INSTANCE DagEval WITH usable <- outs # <<>>, outcome <- result

Implements == Eval!Spec

(***************************************************************************)
(* Every call comes back: with a result, or unwinding from a panic. The    *)
(* queue runs dry on cyclic graphs too.                                    *)
(***************************************************************************)
Terminates == <>(pc \in {"returned", "unwound"})
=============================================================================
