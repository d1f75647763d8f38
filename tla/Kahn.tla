-------------------------------- MODULE Kahn --------------------------------
(***************************************************************************)
(* The state one call of an executor keeps, whichever of the two runs it,  *)
(* and what both do with it: the tables they seed (mark_needed and         *)
(* build_kahn_metadata), the completion of a node (release_dependents in   *)
(* exec/parallel.rs, the same loop inlined in exec/sequential.rs), the     *)
(* nodes a Cycle error names and collect_outputs.                          *)
(***************************************************************************)
EXTENDS Dag

VARIABLES
  outs,        \* the call's out_keys
  result,      \* what the executor, then the call, ends with
  needed,      \* the nodes mark_needed marked
  indeg, vals,
  ready,       \* the queue of ready nodes (q in exec/sequential.rs)
  processed

tables == <<needed, indeg, vals, ready, processed>>

TablesInit ==
  /\ outs \in Requests
  /\ result = [tag |-> "Running"]
  /\ needed = {}
  /\ indeg = [n \in NodeId |-> 0]
  /\ vals = [n \in NodeId |-> None]
  /\ ready = <<>>
  /\ processed = 0

-----------------------------------------------------------------------------
InitialIndegreeDistinct(n) == Cardinality(DepSet(n))
InitialIndegree(n) == Len(Deps[n])

\* mark_needed stops at the first key dag.index does not hold.
MissingOutput(key) ==
  \E i \in DOMAIN outs :
    /\ outs[i] = key
    /\ key \notin NodeId
    /\ \A j \in 1 .. i - 1 : outs[j] \in NodeId

\* mark_needed, build_kahn_metadata and the seeding loop
Seed ==
  /\ Range(outs) \subseteq NodeId
  /\ needed' = Cone(Range(outs))
  /\ indeg' = [n \in NodeId |-> IF n \in needed' THEN InitialIndegree(n) ELSE 0]
  /\ ready' = Ascending({n \in needed' : indeg'[n] = 0})
  /\ UNCHANGED <<outs, vals, processed>>

-----------------------------------------------------------------------------
Dependents(d) == {n \in needed : d \in DepSet(n)}

IndegreeAfter(d) ==
  [n \in NodeId |-> IF n \in Dependents(d) THEN indeg[n] - Multiplicity(n, d) ELSE indeg[n]]

Released(d) == {n \in Dependents(d) : IndegreeAfter(d)[n] = 0}

\* d has value v, and its dependents are released, with q the queue so far
Record(d, v, q) ==
  /\ vals' = [vals EXCEPT ![d] = Some(v)]
  /\ indeg' = IndegreeAfter(d)
  /\ ready' = q \o Ascending(Released(d))

Complete(d, v, q) == Record(d, v, q) /\ processed' = processed + 1

DepsDone(n) == \A d \in DepSet(n) : vals[d] # None

ArgsReversed(n) == [i \in 1 .. Len(Deps[n]) |-> vals[Deps[n][Len(Deps[n]) + 1 - i]][1]]
Args(n) == [i \in 1 .. Len(Deps[n]) |-> vals[Deps[n][i]][1]]

-----------------------------------------------------------------------------
RemainingAll == {n \in needed : indeg[n] >= 0}
Remaining == {n \in needed : indeg[n] > 0}

\* collect_outputs
Collected ==
  IF \E i \in DOMAIN outs : vals[outs[i]] = None
  THEN [tag |-> "OutputMissing",
        key |-> outs[CHOOSE i \in DOMAIN outs :
                       vals[outs[i]] = None /\ \A j \in 1 .. i - 1 : vals[outs[j]] # None]]
  ELSE [tag |-> "Ok", outputs |-> [n \in NodeId |-> IF n \in Range(outs) THEN vals[n] ELSE None]]

(***************************************************************************)
(* Both executors give the same answer (tests/parallel.rs:26 compares them *)
(* on one graph): an Ok result is what the graph and the request say,      *)
(* whoever computed it, in whatever order and with how many workers.       *)
(***************************************************************************)
SameAnswer == result.tag = "Ok" => result.outputs = Answer(outs)
=============================================================================
