-------------------------- MODULE RequestAnalysis --------------------------
(***************************************************************************)
(* What both executors do first with the requested keys: mark_needed, a    *)
(* depth-first search with an explicit stack, then build_kahn_metadata     *)
(* (src/src/exec/common.rs). The other modules take the result for granted *)
(* (Cone, in-degrees, dependents); this one runs the loops that compute it.*)
(***************************************************************************)
EXTENDS Dag, SequencesExt

\* Both executors reject an empty request before they analyse it.
ASSUME RequestsAssumption == <<>> \notin Requests

VARIABLES
  outs,           \* the keys requested
  pc,             \* which of the three loops runs, or how the call ended
  k,              \* position in outs of the loop that fills the stack
  missing,        \* the key of Err(OutputMissing), if there is one
  stack,          \* the NodeIds still to look at, the last one first
  needed,         \* the nodes marked
  i,              \* the node build_kahn_metadata is at
  dependents,     \* dependents[d]: who waits for d, once per occurrence
  indeg,
  needed_count

tables == <<i, dependents, indeg, needed_count>>
vars == <<outs, pc, k, missing, stack, needed, tables>>

Init ==
  /\ outs \in Requests
  /\ pc = "push"
  /\ k = 1
  /\ missing = None
  /\ stack = <<>>
  /\ needed = {}
  /\ i = 0
  /\ dependents = [d \in NodeId |-> <<>>]
  /\ indeg = [n \in NodeId |-> 0]
  /\ needed_count = 0

-----------------------------------------------------------------------------
(* mark_needed: for k in outputs                                           *)

PushKnown ==
  /\ pc = "push"
  /\ k <= Len(outs)
  /\ stack' = IF outs[k] \in NodeId THEN Append(stack, outs[k]) ELSE stack
  /\ k' = k + 1
  /\ UNCHANGED <<outs, pc, missing, needed, tables>>

PushOutput ==
  /\ pc = "push"
  /\ k <= Len(outs)
  /\ outs[k] \in NodeId
  /\ stack' = Append(stack, outs[k])
  /\ k' = k + 1
  /\ UNCHANGED <<outs, pc, missing, needed, tables>>

\* dag.index.get(k) finds nothing: the ? returns
OutputMissing ==
  /\ pc = "push"
  /\ k <= Len(outs)
  /\ outs[k] \notin NodeId
  /\ pc' = "missing"
  /\ missing' = Some(outs[k])
  /\ UNCHANGED <<outs, k, stack, needed, tables>>

AllPushed ==
  /\ pc = "push"
  /\ k > Len(outs)
  /\ pc' = "search"
  /\ UNCHANGED <<outs, k, missing, stack, needed, tables>>

-----------------------------------------------------------------------------
(* mark_needed: while let Some(id) = stack.pop()                           *)

\* if needed[id.0]
NeverSeen(id) == FALSE
Seen(id) == id \in needed

Peeked == stack
Popped == Front(stack)

SkipVisited ==
  /\ pc = "search"
  /\ stack # <<>>
  /\ Seen(Last(stack))
  /\ stack' = Popped
  /\ UNCHANGED <<outs, pc, k, missing, needed, tables>>

VisitAllButLast ==
  /\ pc = "search"
  /\ stack # <<>>
  /\ LET id == Last(stack) IN
       /\ ~ Seen(id)
       /\ needed' = needed \cup {id}
       /\ stack' = Front(stack) \o Front(Deps[id])
  /\ UNCHANGED <<outs, pc, k, missing, tables>>

Visit ==
  /\ pc = "search"
  /\ stack # <<>>
  /\ LET id == Last(stack) IN
       /\ ~ Seen(id)
       /\ needed' = needed \cup {id}
       /\ stack' = Front(stack) \o Deps[id]
  /\ UNCHANGED <<outs, pc, k, missing, tables>>

SearchDone ==
  /\ pc = "search"
  /\ stack = <<>>
  /\ pc' = "count"
  /\ UNCHANGED <<outs, k, missing, stack, needed, tables>>

-----------------------------------------------------------------------------
(* build_kahn_metadata: for i in 0..n                                      *)

\* what indeg[i] starts from
DistinctDeps(n) == Cardinality(DepSet(n))
DepOccurrences(n) == Len(Deps[n])

CountNode ==
  /\ pc = "count"
  /\ i < NodeCount
  /\ i \in needed
  /\ needed_count' = needed_count + 1
  /\ indeg' = [indeg EXCEPT ![i] = DepOccurrences(i)]
  /\ dependents' = [d \in NodeId |-> dependents[d] \o [j \in 1 .. Multiplicity(i, d) |-> i]]
  /\ i' = i + 1
  /\ UNCHANGED <<outs, pc, k, missing, stack, needed>>

SkipNode ==
  /\ pc = "count"
  /\ i < NodeCount
  /\ i \notin needed
  /\ i' = i + 1
  /\ UNCHANGED <<outs, pc, k, missing, stack, needed, dependents, indeg, needed_count>>

CountDone ==
  /\ pc = "count"
  /\ i = NodeCount
  /\ pc' = "done"
  /\ UNCHANGED <<outs, k, missing, stack, needed, tables>>

\* The analysis has returned: nothing more happens.
Finished ==
  /\ pc \in {"missing", "done"}
  /\ UNCHANGED vars

Next ==
  \/ PushOutput \/ OutputMissing \/ AllPushed
  \/ SkipVisited \/ Visit \/ SearchDone
  \/ CountNode \/ SkipNode \/ CountDone
  \/ Finished

Spec == Init /\ [][Next]_vars

\* One thread runs straight through: it stops only by returning.
FairSpec == Spec /\ WF_vars(Next)

-----------------------------------------------------------------------------
(* Properties.                                                             *)

TypeOK ==
  /\ outs \in Requests
  /\ pc \in {"push", "search", "count", "done", "missing"}
  /\ k \in 1 .. Len(outs) + 1
  /\ missing \in Option(UnknownKeys)
  /\ stack \in Seq(NodeId)
  /\ needed \subseteq NodeId
  /\ i \in 0 .. NodeCount
  /\ dependents \in [NodeId -> Seq(NodeId)]
  /\ indeg \in [NodeId -> Nat]
  /\ needed_count \in 0 .. NodeCount

(***************************************************************************)
(* The search stops with exactly the nodes the request depends on, also    *)
(* through cycles, whatever order the stack visits them in (mark_needed).  *)
(***************************************************************************)
NeededIsCone == pc \in {"count", "done"} => needed = Cone(Range(outs))

(***************************************************************************)
(* A request is refused exactly when it names a key the graph lacks, for   *)
(* the first such key, and never half-way through the search.              *)
(***************************************************************************)
MissingIsFirst ==
  /\ pc = "missing" =>
       \E j \in DOMAIN outs :
         /\ missing = Some(outs[j])
         /\ outs[j] \notin NodeId
         /\ \A h \in 1 .. j - 1 : outs[h] \in NodeId
  /\ pc \in {"search", "count", "done"} => Range(outs) \subseteq NodeId

\* the positions of dependents[d] that hold n
Entries(d, n) == {j \in DOMAIN dependents[d] : dependents[d][j] = n}

(***************************************************************************)
(* The tables of build_kahn_metadata balance: a node's in-degree is the    *)
(* number of times all dependents lists name it, so the decrements of      *)
(* release_dependents bring it to zero, never below; lists hold needed     *)
(* nodes only, in the order of their ids; needed_count counts the cone.    *)
(***************************************************************************)
TablesBalance ==
  pc = "done" =>
    /\ needed_count = Cardinality(needed)
    /\ \A n \in needed :
         indeg[n] = Cardinality(UNION {{d} \X Entries(d, n) : d \in NodeId})
    /\ \A n \in NodeId \ needed : indeg[n] = 0 /\ dependents[n] = <<>>
    /\ \A d \in NodeId : \A j \in DOMAIN dependents[d] :
         /\ dependents[d][j] \in needed
         /\ j > 1 => dependents[d][j - 1] <= dependents[d][j]

(***************************************************************************)
(* The executors' models take all of this as one step, Seed of module Kahn *)
(* (or a refusal, their RejectOutput). The three loops implement that      *)
(* step: the tables an executor reads when they have returned are the ones *)
(* Seed writes, and a refused call has written none it could read.         *)
(***************************************************************************)
Verdict ==
  IF pc = "missing" THEN [tag |-> "OutputMissing", key |-> missing[1]] ELSE [tag |-> "Running"]

Seeding == INSTANCE Kahn WITH
  result <- Verdict,
  needed <- IF pc = "done" THEN needed ELSE {},
  indeg <- IF pc = "done" THEN indeg ELSE [n \in NodeId |-> 0],
  ready <- IF pc = "done" THEN Ascending({n \in needed : indeg[n] = 0}) ELSE <<>>,
  vals <- [n \in NodeId |-> None],
  processed <- 0

Accepted == Seeding!Seed /\ UNCHANGED Verdict

Refused ==
  /\ \E key \in UnknownKeys :
       Seeding!MissingOutput(key) /\ Verdict' = [tag |-> "OutputMissing", key |-> key]
  /\ UNCHANGED <<outs, Seeding!tables>>

AnalysedAtOnce ==
  Seeding!TablesInit /\ [][Accepted \/ Refused]_<<outs, Verdict, Seeding!tables>>

(***************************************************************************)
(* The work is linear in the request and the graph, cyclic or not: keys    *)
(* are looked up once, the list of deps of a node is stacked only when the *)
(* node is marked, and each place in it popped once (common.rs:30-38), so  *)
(* the stack never holds more than the request and all dep lists together. *)
(***************************************************************************)
UnstackedDeps == UNION {{n} \X (1 .. Len(Deps[n])) : n \in NodeId \ needed}

ToPop == Len(stack) + Cardinality(UnstackedDeps)

StepsLeft ==
  CASE pc = "push"   -> 2 * (Len(outs) + 1 - k) + ToPop + NodeCount + 3
    [] pc = "search" -> ToPop + NodeCount + 2
    [] pc = "count"  -> NodeCount + 1 - i
    [] OTHER         -> 0

LinearWork == [][StepsLeft' \in Nat /\ StepsLeft' < StepsLeft]_vars

(***************************************************************************)
(* The analysis ends for every graph, cyclic ones included: a marked node  *)
(* is popped again but never expanded again.                               *)
(***************************************************************************)
Terminates == <>(pc \in {"missing", "done"})
=============================================================================
