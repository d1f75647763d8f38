-------------------------- MODULE TracedSequential --------------------------
(***************************************************************************)
(* Executor::run_sequential_traced: SequentialExec with the observer       *)
(* called where the code calls it, and a clock that runs beside it.        *)
(***************************************************************************)
EXTENDS SequentialExec, TraceObserver

tracedVars == <<vars, observer>>

TracedInit == Init /\ ObserverInit

Observe(o) == obs' = o /\ UNCHANGED <<clock, trace>>

TracedStart == Start /\ Observe(MarkReadyAll(obs, ready', 0))

TracedSource ==
  RunSource /\ Observe(FinishAndRelease(MarkStart(obs, Head(ready), None), Head(ready), Tail(ready)))

TracedStartTask == StartTask /\ Observe(MarkStart(obs, Head(ready), None))

TracedTaskOk == TaskOk /\ Observe(FinishAndRelease(obs, current[1], ready))

TracedFinish == Finish /\ FinalizeIfOk /\ UNCHANGED <<clock, obs>>

Unobserved == (RejectCall \/ RejectOutput \/ TaskErr \/ TaskPanics \/ Finished) /\ UNCHANGED observer

TimePasses == pc \notin {"returned", "unwound"} /\ Tick /\ UNCHANGED vars

Thread ==
  TracedStart \/ TracedSource \/ TracedStartTask \/ TracedTaskOk \/ TracedFinish \/ Unobserved

TracedNext == Thread \/ TimePasses

TracedSpec == TracedInit /\ [][TracedNext]_tracedVars /\ WF_tracedVars(Thread)
=============================================================================
