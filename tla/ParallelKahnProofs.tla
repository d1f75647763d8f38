------------------------- MODULE ParallelKahnProofs -------------------------
(***************************************************************************)
(* What ParallelExec does with the graph, for every graph, configuration,  *)
(* request and schedule, and with closures that fail or panic.             *)
(*                                                                         *)
(* A node that can be evaluated is in one of several hands: the ready      *)
(* queue, the task held back or being sent, a worker's channel, a worker,  *)
(* or the channel of results. The proofs follow the nodes from hand to     *)
(* hand: a step moves one, adds some to the ready queue or drops some.     *)
(***************************************************************************)
EXTENDS TracedParallel, ParallelExecProofs, KahnProofs

-----------------------------------------------------------------------------
(* Families of disjoint sets.                                              *)

Disjoint(F) == \A g, h \in DOMAIN F : g # h => F[g] \cap F[h] = {}
AllOf(F) == UNION {F[h] : h \in DOMAIN F}

LEMMA FamilyMove ==
  ASSUME NEW F, NEW G, Disjoint(F), DOMAIN G = DOMAIN F,
         NEW a \in DOMAIN F, NEW b \in DOMAIN F, a # b, NEW n \in F[a],
         G[a] = F[a] \ {n}, G[b] = F[b] \cup {n},
         \A h \in DOMAIN F : h # a /\ h # b => G[h] = F[h]
  PROVE  Disjoint(G) /\ AllOf(G) = AllOf(F)
<1>1. \A h \in DOMAIN F : h # a => n \notin F[h]
  BY DEF Disjoint
<1>2. \A x, h : h \in DOMAIN F /\ x # n => (x \in G[h] <=> x \in F[h])
  OBVIOUS
<1>3. \A h \in DOMAIN F : n \in G[h] => h = b
  BY <1>1
<1>4. Disjoint(G)
  BY <1>2, <1>3 DEF Disjoint
<1>5. ASSUME NEW x PROVE x \in AllOf(G) <=> x \in AllOf(F)
  <2>1. x = n => x \in AllOf(G) /\ x \in AllOf(F)
    BY DEF AllOf
  <2>2. x # n => (x \in AllOf(G) <=> x \in AllOf(F))
    BY <1>2 DEF AllOf
  <2> QED BY <2>1, <2>2
<1> QED BY <1>4, <1>5

LEMMA FamilyShrinks ==
  ASSUME NEW F, NEW G, Disjoint(F), DOMAIN G = DOMAIN F,
         \A h \in DOMAIN F : G[h] \subseteq F[h]
  PROVE  Disjoint(G) /\ AllOf(G) \subseteq AllOf(F)
<1>1. Disjoint(G)
  BY DEF Disjoint
<1>2. AllOf(G) \subseteq AllOf(F)
  BY DEF AllOf
<1> QED BY <1>1, <1>2

LEMMA FamilyLoses ==
  ASSUME NEW F, NEW G, Disjoint(F), DOMAIN G = DOMAIN F,
         NEW a \in DOMAIN F, NEW n \in F[a], G[a] = F[a] \ {n},
         \A h \in DOMAIN F : h # a => G[h] = F[h]
  PROVE  Disjoint(G) /\ AllOf(G) = AllOf(F) \ {n} /\ n \in AllOf(F)
<1>1. Disjoint(G)
  BY FamilyShrinks
<1>2. \A h \in DOMAIN F : n \notin G[h]
  BY DEF Disjoint
<1>3. \A x, h : h \in DOMAIN F /\ x # n => (x \in G[h] <=> x \in F[h])
  OBVIOUS
<1>4. AllOf(G) = AllOf(F) \ {n}
  BY <1>2, <1>3 DEF AllOf
<1>5. n \in AllOf(F)
  BY DEF AllOf
<1> QED BY <1>1, <1>4, <1>5

LEMMA FamilyGrows ==
  ASSUME NEW F, NEW G, Disjoint(F), DOMAIN G = DOMAIN F,
         NEW a \in DOMAIN F, NEW N, N \cap AllOf(F) = {}, G[a] = F[a] \cup N,
         \A h \in DOMAIN F : h # a => G[h] = F[h]
  PROVE  Disjoint(G) /\ AllOf(G) = AllOf(F) \cup N
<1>1. \A h \in DOMAIN F : N \cap F[h] = {}
  BY DEF AllOf
<1>2. Disjoint(G)
  BY <1>1 DEF Disjoint
<1>3. AllOf(G) = AllOf(F) \cup N
  <2>1. AllOf(G) \subseteq AllOf(F) \cup N
    BY DEF AllOf
  <2>2. AllOf(F) \cup N \subseteq AllOf(G)
    <3>1. \A h \in DOMAIN F : F[h] \subseteq G[h]
      OBVIOUS
    <3>2. N \subseteq G[a]
      OBVIOUS
    <3> QED BY <3>1, <3>2 DEF AllOf
  <2> QED BY <2>1, <2>2
<1> QED BY <1>2, <1>3

-----------------------------------------------------------------------------
(* The nodes that the elements of a channel or a slot are for.             *)

IdsOf(s) == {x.id : x \in Range(s)}

\* No two of them are for one node.
OncePerNode(s) == \A i, j \in DOMAIN s : s[i].id = s[j].id => i = j

LEMMA TailIds ==
  ASSUME NEW S, NEW s \in Seq(S), s # <<>>, OncePerNode(s)
  PROVE  /\ Head(s).id \in IdsOf(s) /\ Head(s) \in Range(s)
         /\ OncePerNode(Tail(s))
         /\ IdsOf(Tail(s)) = IdsOf(s) \ {Head(s).id}
         /\ Range(Tail(s)) \subseteq Range(s)
<1>1. /\ Len(s) \in Nat \ {0} /\ DOMAIN s = 1 .. Len(s)
      /\ Head(s) = s[1]
      /\ Tail(s) \in Seq(S) /\ DOMAIN Tail(s) = 1 .. Len(s) - 1
      /\ \A i \in 1 .. Len(s) - 1 : Tail(s)[i] = s[i + 1]
  BY HeadTailProperties, EmptySeq, LenProperties
<1>2. Head(s) \in Range(s) /\ Head(s).id \in IdsOf(s)
  BY <1>1 DEF IdsOf, Range
<1>3. OncePerNode(Tail(s))
  <2> SUFFICES ASSUME NEW i \in 1 .. Len(s) - 1, NEW j \in 1 .. Len(s) - 1,
                      Tail(s)[i].id = Tail(s)[j].id
               PROVE  i = j
    BY <1>1 DEF OncePerNode
  <2>1. s[i + 1].id = s[j + 1].id /\ i + 1 \in DOMAIN s /\ j + 1 \in DOMAIN s
    BY <1>1
  <2>2. i + 1 = j + 1
    BY <2>1 DEF OncePerNode
  <2> QED BY <2>2
<1>4. Range(Tail(s)) \subseteq Range(s)
  <2> SUFFICES ASSUME NEW i \in 1 .. Len(s) - 1 PROVE Tail(s)[i] \in Range(s)
    BY <1>1 DEF Range
  <2>1. Tail(s)[i] = s[i + 1] /\ i + 1 \in DOMAIN s
    BY <1>1
  <2> QED BY <2>1 DEF Range
<1>5. ASSUME NEW x \in IdsOf(Tail(s)) PROVE x \in IdsOf(s) \ {Head(s).id}
  <2>1. PICK i \in 1 .. Len(s) - 1 : Tail(s)[i].id = x
    BY <1>1, <1>5 DEF IdsOf, Range
  <2>2. s[i + 1].id = x /\ i + 1 \in DOMAIN s /\ 1 \in DOMAIN s /\ i + 1 # 1
    BY <1>1, <2>1
  <2>3. s[i + 1].id # s[1].id
    BY <2>2 DEF OncePerNode
  <2>4. x \in IdsOf(s)
    BY <2>2 DEF IdsOf, Range
  <2> QED BY <1>1, <2>2, <2>3, <2>4
<1>6. ASSUME NEW x \in IdsOf(s) \ {Head(s).id} PROVE x \in IdsOf(Tail(s))
  <2>1. PICK i \in 1 .. Len(s) : s[i].id = x
    BY <1>1, <1>6 DEF IdsOf, Range
  <2>2. i # 1 /\ i - 1 \in 1 .. Len(s) - 1
    BY <1>1, <2>1
  <2>3. Tail(s)[i - 1] = s[i - 1 + 1] /\ i - 1 + 1 = i
    BY <1>1, <2>2
  <2> QED BY <1>1, <2>1, <2>2, <2>3 DEF IdsOf, Range
<1> QED BY <1>2, <1>3, <1>4, <1>5, <1>6

LEMMA AppendIds ==
  ASSUME NEW S, NEW s \in Seq(S), NEW x \in S, OncePerNode(s), x.id \notin IdsOf(s)
  PROVE  /\ OncePerNode(Append(s, x))
         /\ IdsOf(Append(s, x)) = IdsOf(s) \cup {x.id}
         /\ Range(Append(s, x)) = Range(s) \cup {x}
<1> DEFINE t == Append(s, x)
<1>1. /\ Len(s) \in Nat /\ DOMAIN s = 1 .. Len(s) /\ DOMAIN t = 1 .. Len(s) + 1
      /\ t[Len(s) + 1] = x /\ \A i \in 1 .. Len(s) : t[i] = s[i]
  BY AppendProperties, LenProperties
<1>2. 1 .. Len(s) + 1 = (1 .. Len(s)) \cup {Len(s) + 1} /\ Len(s) + 1 \notin 1 .. Len(s)
  BY <1>1
<1> HIDE DEF t
<1>3. Range(t) = Range(s) \cup {x}
  BY <1>1, <1>2 DEF Range
<1>4. IdsOf(t) = IdsOf(s) \cup {x.id}
  BY <1>3 DEF IdsOf
<1>5. \A i \in DOMAIN s : s[i].id # x.id
  BY DEF IdsOf, Range
<1>6. OncePerNode(t)
  BY <1>1, <1>2, <1>5 DEF OncePerNode
<1> QED BY <1>3, <1>4, <1>6 DEF t

LEMMA SlotIds ==
  /\ Range(None) = {} /\ IdsOf(None) = {} /\ OncePerNode(None)
  /\ \A x : Range(Some(x)) = {x} /\ IdsOf(Some(x)) = {x.id} /\ Some(x)[1] = x
  /\ \A s \in Option(Task) : s # None => s = Some(s[1]) /\ s[1] \in Task
<1>1. Range(None) = {} /\ IdsOf(None) = {} /\ OncePerNode(None)
  BY DEF None, Range, IdsOf, OncePerNode
<1>2. \A x : Range(Some(x)) = {x} /\ Some(x)[1] = x
  BY DEF Some, Range
<1>3. \A x : IdsOf(Some(x)) = {x.id}
  BY <1>2 DEF IdsOf
<1> QED BY <1>1, <1>2, <1>3, OptionProperties

-----------------------------------------------------------------------------
(* The hands.                                                              *)

ReadyHand == <<"ready", 0>>
HeldHand == <<"held", 0>>
ResultHand == <<"result", 0>>
QueueHand(w) == <<"queue", w>>
RunHand(w) == <<"run", w>>

HandId ==
  {ReadyHand, HeldHand, ResultHand}
    \cup {QueueHand(w) : w \in WorkerIds} \cup {RunHand(w) : w \in WorkerIds}

HandsOf(rq, pnd, snd, rx, qs, ts) ==
  [h \in HandId |->
     CASE h[1] = "ready"  -> Range(rq)
       [] h[1] = "held"   -> IdsOf(pnd) \cup IdsOf(snd)
       [] h[1] = "result" -> IdsOf(rx)
       [] h[1] = "queue"  -> IdsOf(qs[h[2]])
       [] OTHER           -> IdsOf(ts[h[2]])]

Hands == HandsOf(ready, pending, sending, res_rx, queue, wtask)

InHand == AllOf(Hands)

LEMMA HandIds ==
  /\ ReadyHand \in HandId /\ HeldHand \in HandId /\ ResultHand \in HandId
  /\ ReadyHand # HeldHand /\ ReadyHand # ResultHand /\ HeldHand # ResultHand
  /\ \A w \in WorkerIds :
       /\ QueueHand(w) \in HandId /\ RunHand(w) \in HandId /\ QueueHand(w) # RunHand(w)
       /\ QueueHand(w) # ReadyHand /\ QueueHand(w) # HeldHand /\ QueueHand(w) # ResultHand
       /\ RunHand(w) # ReadyHand /\ RunHand(w) # HeldHand /\ RunHand(w) # ResultHand
       /\ \A x \in WorkerIds : /\ QueueHand(x) # RunHand(w)
                               /\ x # w => QueueHand(x) # QueueHand(w) /\ RunHand(x) # RunHand(w)
  /\ \A h \in HandId : \/ h \in {ReadyHand, HeldHand, ResultHand}
                       \/ \E w \in WorkerIds : h = QueueHand(w) \/ h = RunHand(w)
BY DEF HandId, ReadyHand, HeldHand, ResultHand, QueueHand, RunHand

LEMMA HandFacts ==
  ASSUME NEW rq, NEW pnd, NEW snd, NEW rx, NEW qs, NEW ts,
         NEW H, H = HandsOf(rq, pnd, snd, rx, qs, ts)
  PROVE  /\ DOMAIN H = HandId
         /\ H[ReadyHand] = Range(rq)
         /\ H[HeldHand] = IdsOf(pnd) \cup IdsOf(snd)
         /\ H[ResultHand] = IdsOf(rx)
         /\ \A w \in WorkerIds : H[QueueHand(w)] = IdsOf(qs[w]) /\ H[RunHand(w)] = IdsOf(ts[w])
<1>1. DOMAIN H = HandId
  BY DEF HandsOf
<1>2. H[ReadyHand] = Range(rq)
  BY HandIds DEF HandsOf, ReadyHand
<1>3. H[HeldHand] = IdsOf(pnd) \cup IdsOf(snd)
  BY HandIds DEF HandsOf, HeldHand
<1>4. H[ResultHand] = IdsOf(rx)
  BY HandIds DEF HandsOf, ResultHand
<1>5. ASSUME NEW w \in WorkerIds PROVE H[QueueHand(w)] = IdsOf(qs[w])
  <2>1. QueueHand(w) \in HandId /\ QueueHand(w)[1] = "queue" /\ QueueHand(w)[2] = w
    BY HandIds DEF QueueHand
  <2> QED BY <2>1 DEF HandsOf
<1>6. ASSUME NEW w \in WorkerIds PROVE H[RunHand(w)] = IdsOf(ts[w])
  <2>1. RunHand(w) \in HandId /\ RunHand(w)[1] = "run" /\ RunHand(w)[2] = w
    BY HandIds DEF RunHand
  <2> QED BY <2>1 DEF HandsOf
<1> QED BY <1>1, <1>2, <1>3, <1>4, <1>5, <1>6

\* A hand whose contents stay is the same hand.
LEMMA HandKept ==
  ASSUME NEW h \in HandId,
         h = ReadyHand => ready' = ready,
         h = HeldHand => pending' = pending /\ sending' = sending,
         h = ResultHand => res_rx' = res_rx,
         \A w \in WorkerIds : /\ h = QueueHand(w) => queue'[w] = queue[w]
                              /\ h = RunHand(w) => wtask'[w] = wtask[w]
  PROVE  Hands'[h] = Hands[h]
<1>1. CASE h = ReadyHand
  BY <1>1, HandFacts DEF Hands
<1>2. CASE h = HeldHand
  <2>1. /\ Hands'[HeldHand] = IdsOf(pending') \cup IdsOf(sending')
        /\ Hands[HeldHand] = IdsOf(pending) \cup IdsOf(sending)
    BY HandFacts DEF Hands
  <2> QED BY <1>2, <2>1
<1>3. CASE h = ResultHand
  BY <1>3, HandFacts DEF Hands
<1>4. ASSUME NEW w \in WorkerIds, h = QueueHand(w) PROVE Hands'[h] = Hands[h]
  <2>1. Hands'[QueueHand(w)] = IdsOf(queue'[w]) /\ Hands[QueueHand(w)] = IdsOf(queue[w])
    BY HandFacts DEF Hands
  <2> QED BY <1>4, <2>1
<1>5. ASSUME NEW w \in WorkerIds, h = RunHand(w) PROVE Hands'[h] = Hands[h]
  <2>1. Hands'[RunHand(w)] = IdsOf(wtask'[w]) /\ Hands[RunHand(w)] = IdsOf(wtask[w])
    BY HandFacts DEF Hands
  <2> QED BY <1>5, <2>1
<1> QED BY <1>1, <1>2, <1>3, <1>4, <1>5, HandIds

\* A node is in one hand, once; the places of that hand hold one task each.
OnceEach ==
  /\ IsInjective(ready)
  /\ \A w \in WorkerIds : OncePerNode(queue[w])
  /\ OncePerNode(res_rx)
  /\ sending # None => pc = "send" /\ pending = None
  /\ \A w \in WorkerIds : wtask[w] # None => wstate[w] = "running"

HandInv ==
  /\ OnceEach
  /\ Disjoint(Hands)
  /\ InHand \subseteq StartableNodes

TasksOut ==
  Range(pending) \cup Range(sending)
    \cup UNION {Range(queue[w]) \cup Range(wtask[w]) : w \in WorkerIds}

\* What the closure of n may end with, given the values of its deps.
Ends(n, out) ==
  IF out = None THEN "err" \in Behaviour[n]
  ELSE "ok" \in Behaviour[n] /\ out = Some(ValueOf(n, Args(n)))

\* Arguments and results are those the values of the deps give; sources are not sent out.
ArgInv ==
  /\ \A t \in TasksOut : t.args = Args(t.id) /\ t.id \notin Sources
  /\ \A r \in Range(res_rx) : Ends(r.id, r.out) /\ r.id \notin Sources

KahnInv ==
  /\ KahnOK
  /\ \A n \in NodeId \ needed : indeg[n] = 0
  /\ processed = Cardinality(ValuedNodes)
  /\ pc = "start" => needed = {}

(***************************************************************************)
(* Nothing is lost but by a panic, and then the node whose closure         *)
(* panicked stays out of every hand.                                       *)
(***************************************************************************)
LostInv ==
  Scheduling =>
    IF PoolIntact THEN StartableNodes \subseteq InHand
    ELSE \E n \in StartableNodes \ InHand : "panic" \in Behaviour[n]

GraphInv == HandInv /\ ArgInv /\ KahnInv /\ LostInv

\* The types that the steps below rely on.
LEMMA TypesOfHands ==
  ASSUME TypeInv
  PROVE  /\ ready \in Seq(NodeId) /\ res_rx \in Seq(TaskResult)
         /\ pending \in Option(Task) /\ sending \in Option(Task)
         /\ queue \in [WorkerIds -> Seq(Task)] /\ wtask \in [WorkerIds -> Option(Task)]
         /\ wstate \in [WorkerIds -> {"unborn", "idle", "running", "exited"}]
         /\ vals \in [NodeId -> Option(Value)]
         /\ needed \subseteq NodeId
BY DEF TypeInv, TypeOK

-----------------------------------------------------------------------------
(***************************************************************************)
(* Steps that leave the tables alone: it is enough to follow the hands.    *)
(***************************************************************************)
LEMMA TablesSame ==
  ASSUME KahnInv, UNCHANGED <<outs, needed, indeg, vals, processed>>, pc' = "start" => pc = "start"
  PROVE  /\ KahnInv' /\ StartableNodes' = StartableNodes /\ ValuedNodes' = ValuedNodes
         /\ \A n : Args(n)' = Args(n)
<1>1. \A n \in NodeId : /\ DepsDone(n)' = DepsDone(n) /\ Unresolved(n)' = Unresolved(n)
  BY DEF DepsDone, Unresolved
<1>2. KahnOK'
  BY <1>1 DEF KahnInv, KahnOK, KahnTypes, DepClosed, MeaningOK, Evaluable
<1>3. StartableNodes' = StartableNodes /\ ValuedNodes' = ValuedNodes
  BY DEF StartableNodes, ValuedNodes, DepsDone
<1>4. \A n : Args(n)' = Args(n)
  BY DEF Args
<1>5. Evaluable(needed)' = Evaluable(needed)
  BY DEF Evaluable
<1> QED BY <1>2, <1>3, <1>4, <1>5 DEF KahnInv

LEMMA ArgSame ==
  ASSUME ArgInv, \A n : Args(n)' = Args(n),
         TasksOut' \subseteq TasksOut, Range(res_rx') \subseteq Range(res_rx)
  PROVE  ArgInv'
BY DEF ArgInv, Ends

\* If no hand changes, a step keeps the invariant.
LEMMA HandsSame ==
  ASSUME GraphInv, UNCHANGED <<outs, needed, indeg, vals, processed>>,
         UNCHANGED <<ready, res_rx, queue, wtask>>,
         IdsOf(pending') \cup IdsOf(sending') = IdsOf(pending) \cup IdsOf(sending),
         Range(pending') \cup Range(sending') = Range(pending) \cup Range(sending),
         sending' # None => pc' = "send" /\ pending' = None,
         \A w \in WorkerIds : wtask[w] # None => wstate'[w] = "running",
         pc' = "start" => pc = "start",
         Scheduling' => Scheduling /\ (PoolIntact' <=> PoolIntact)
  PROVE  GraphInv'
<1>1. KahnInv' /\ StartableNodes' = StartableNodes /\ \A n : Args(n)' = Args(n)
  BY TablesSame DEF GraphInv
<1>2. Hands' = Hands
  BY DEF Hands, HandsOf
<1>3. HandInv'
  BY <1>1, <1>2 DEF GraphInv, HandInv, OnceEach, InHand
<1>4. TasksOut' = TasksOut
  BY DEF TasksOut
<1>5. ArgInv'
  BY <1>1, <1>4, ArgSame DEF GraphInv
<1>6. LostInv'
  BY <1>1, <1>2 DEF GraphInv, LostInv, InHand
<1> QED BY <1>1, <1>3, <1>5, <1>6 DEF GraphInv

\* A step that drops tasks, or moves one, and leaves the tables alone.
LEMMA HandsMove ==
  ASSUME GraphInv, UNCHANGED <<outs, needed, indeg, vals, processed>>,
         pc' = "start" => pc = "start",
         OnceEach', Disjoint(Hands'), InHand' \subseteq InHand,
         TasksOut' \subseteq TasksOut, Range(res_rx') \subseteq Range(res_rx),
         Scheduling' => InHand' = InHand /\ Scheduling /\ (PoolIntact' <=> PoolIntact)
  PROVE  GraphInv'
<1>1. KahnInv' /\ StartableNodes' = StartableNodes /\ \A n : Args(n)' = Args(n)
  BY TablesSame DEF GraphInv
<1>2. HandInv'
  BY <1>1 DEF GraphInv, HandInv
<1>3. ArgInv'
  BY <1>1, ArgSame DEF GraphInv
<1>4. LostInv'
  BY <1>1 DEF GraphInv, LostInv
<1> QED BY <1>1, <1>2, <1>3, <1>4 DEF GraphInv

\* What is handed out is in a hand, and so startable.
LEMMA OutInHand ==
  ASSUME GraphInv
  PROVE  /\ \A t \in TasksOut : t.id \in InHand
         /\ \A r \in Range(res_rx) : r.id \in InHand
         /\ \A n \in Range(ready) : n \in InHand
         /\ \A n \in InHand : n \in StartableNodes /\ n \in NodeId /\ DepsDone(n) /\ vals[n] = None
<1>1. \A h \in HandId : Hands[h] \subseteq InHand
  BY HandFacts, HandIds DEF InHand, AllOf, Hands
<1>2. ASSUME NEW t \in TasksOut PROVE t.id \in InHand
  <2>1. CASE t \in Range(pending) \cup Range(sending)
    <3>1. t.id \in Hands[HeldHand]
      BY <2>1, HandFacts, HandIds DEF Hands, IdsOf
    <3> QED BY <1>1, <3>1, HandFacts, HandIds
  <2>2. ASSUME NEW w \in WorkerIds, t \in Range(queue[w]) PROVE t.id \in InHand
    <3>1. t.id \in Hands[QueueHand(w)]
      BY <2>2, HandFacts, HandIds DEF Hands, IdsOf
    <3> QED BY <1>1, <3>1, HandFacts, HandIds
  <2>3. ASSUME NEW w \in WorkerIds, t \in Range(wtask[w]) PROVE t.id \in InHand
    <3>1. t.id \in Hands[RunHand(w)]
      BY <2>3, HandFacts, HandIds DEF Hands, IdsOf
    <3> QED BY <1>1, <3>1, HandFacts, HandIds
  <2> QED BY <2>1, <2>2, <2>3 DEF TasksOut
<1>3. ASSUME NEW r \in Range(res_rx) PROVE r.id \in InHand
  <2>1. r.id \in Hands[ResultHand]
    BY <1>3, HandFacts, HandIds DEF Hands, IdsOf
  <2> QED BY <1>1, <2>1, HandFacts, HandIds
<1>4. \A n \in Range(ready) : n \in InHand
  BY <1>1, HandFacts, HandIds DEF Hands
<1>5. \A n \in InHand : n \in StartableNodes /\ n \in NodeId /\ DepsDone(n) /\ vals[n] = None
  BY DEF GraphInv, HandInv, KahnInv, KahnOK, KahnTypes, StartableNodes
<1> QED BY <1>2, <1>3, <1>4, <1>5

-----------------------------------------------------------------------------
(* The scheduler's hand-overs.                                             *)

LEMMA TrySendGraph == ASSUME Inv, GraphInv, TrySend PROVE GraphInv'
<1> DEFINE w == TryWorker
           t == sending[1]
           F == Hands
           G == Hands'
<1>1. w \in WorkerIds
  BY TryWorkerFacts DEF TrySend, Inv, TypeInv, Control, Started
<1>2. t \in Task /\ sending = Some(t) /\ pending = None /\ sending # None
  BY SlotIds, TypesOfHands DEF TrySend, Inv, TypeInv, Control, GraphInv, HandInv, OnceEach
<1>3. /\ UNCHANGED <<outs, needed, indeg, vals, processed>>
      /\ UNCHANGED <<ready, pending, res_rx, wtask, wstate>>
      /\ queue' = [queue EXCEPT ![w] = Append(@, t)]
      /\ sending' = None /\ pc' = "dispatch" /\ pc = "send"
  BY DEF TrySend, call, tables, workers
<1>4. /\ queue[w] \in Seq(Task)
      /\ queue'[w] = Append(queue[w], t) /\ \A x \in WorkerIds : x # w => queue'[x] = queue[x]
  BY <1>1, <1>3, TypesOfHands DEF Inv
<1> HIDE DEF w, t
<1>5. /\ DOMAIN F = HandId
      /\ HeldHand \in HandId /\ F[HeldHand] = {t.id}
      /\ QueueHand(w) \in HandId /\ F[QueueHand(w)] = IdsOf(queue[w])
  BY <1>1, <1>2, HandFacts, HandIds, SlotIds DEF Hands
<1>6. t.id \notin IdsOf(queue[w])
  BY <1>1, <1>5, HandIds DEF GraphInv, HandInv, Disjoint
<1>7. /\ OncePerNode(queue'[w])
      /\ IdsOf(queue'[w]) = IdsOf(queue[w]) \cup {t.id}
      /\ Range(queue'[w]) = Range(queue[w]) \cup {t}
  BY <1>1, <1>2, <1>4, <1>6, AppendIds DEF GraphInv, HandInv, OnceEach
<1>8. /\ DOMAIN G = HandId
      /\ G[HeldHand] = {} /\ G[QueueHand(w)] = F[QueueHand(w)] \cup {t.id}
      /\ \A h \in HandId : h # HeldHand /\ h # QueueHand(w) => G[h] = F[h]
  <2>1. DOMAIN G = HandId /\ G[HeldHand] = {}
    BY <1>2, <1>3, HandFacts, HandIds, SlotIds DEF Hands
  <2>2. G[QueueHand(w)] = F[QueueHand(w)] \cup {t.id}
    BY <1>1, <1>5, <1>7, HandFacts, HandIds DEF Hands
  <2>3. ASSUME NEW h \in HandId, h # HeldHand, h # QueueHand(w) PROVE G[h] = F[h]
    BY <1>3, <1>4, <2>3, HandIds, HandKept
  <2> QED BY <2>1, <2>2, <2>3
<1>9. Disjoint(G) /\ AllOf(G) = AllOf(F)
  <2>1. G[HeldHand] = F[HeldHand] \ {t.id} /\ t.id \in F[HeldHand]
        /\ HeldHand # QueueHand(w)
    BY <1>5, <1>8
  <2> HIDE DEF F, G
  <2>2. Disjoint(F)
    BY DEF F, GraphInv, HandInv
  <2> QED BY <1>5, <1>8, <2>1, <2>2, FamilyMove
<1>10. Disjoint(Hands') /\ InHand' = InHand
  BY <1>9 DEF InHand
<1>11. OnceEach'
  BY <1>3, <1>4, <1>7 DEF GraphInv, HandInv, OnceEach
<1>12. TasksOut' \subseteq TasksOut
  <2>1. t \in Range(sending) /\ Range(sending') = {}
    BY <1>2, <1>3, SlotIds
  <2>2. \A x \in WorkerIds : Range(queue'[x]) \subseteq Range(queue[x]) \cup Range(sending)
    BY <1>4, <1>7, <2>1
  <2> QED BY <1>3, <2>1, <2>2 DEF TasksOut
<1>13. PoolIntact' = PoolIntact /\ Scheduling
  BY <1>3 DEF PoolIntact, Scheduling
<1> QED BY <1>3, <1>10, <1>11, <1>12, <1>13, HandsMove

\* A popped task has its deps: "dep missing during exec" is never returned.
LEMMA PrepareTaskGraph ==
  ASSUME Inv, GraphInv, PrepareTask PROVE GraphInv' /\ UNCHANGED result
<1>1. PICK n \in NodeId \ Sources :
        /\ PopReady(n)
        /\ ready' = Tail(ready)
        /\ IF DepsDone(n)
             THEN /\ sending' = Some([id |-> n, args |-> Args(n)])
                  /\ tries' = cfg.max_workers
                  /\ pc' = "send"
                  /\ UNCHANGED result
             ELSE /\ Leave([tag |-> "InternalInvariant", what |-> "dep missing"])
                  /\ UNCHANGED <<sending, tries>>
        /\ UNCHANGED <<call, needed, indeg, vals, processed, in_flight, next_worker, pending,
                       channels, workers>>
  BY DEF PrepareTask
<1> DEFINE t == [id |-> n, args |-> Args(n)]
           F == Hands
           G == Hands'
<1>2. pc = "dispatch" /\ pending = None /\ ready # <<>> /\ n = Head(ready) /\ sending = None
  BY <1>1 DEF PopReady, GraphInv, HandInv, OnceEach
<1>3. /\ n \in Range(ready) /\ IsInjective(Tail(ready)) /\ Range(Tail(ready)) = Range(ready) \ {n}
  BY <1>2, TailOnce, TypesOfHands DEF Inv, GraphInv, HandInv, OnceEach
<1>4. DepsDone(n)
  BY <1>3, OutInHand
<1>5. /\ sending' = Some(t) /\ pc' = "send" /\ result' = result /\ ready' = Tail(ready)
      /\ UNCHANGED <<outs, needed, indeg, vals, processed>>
      /\ UNCHANGED <<pending, res_rx, queue, wtask, wstate>>
  BY <1>1, <1>4 DEF call, channels, workers
<1>6. Range(sending') = {t} /\ IdsOf(sending') = {n} /\ Range(pending) = {} /\ Range(sending) = {}
      /\ IdsOf(pending) = {} /\ IdsOf(sending) = {}
  BY <1>2, <1>5, SlotIds
<1>7. Disjoint(G) /\ AllOf(G) = AllOf(F)
  <2>1. /\ DOMAIN F = HandId /\ DOMAIN G = HandId
        /\ HeldHand \in HandId /\ F[HeldHand] = {} /\ G[HeldHand] = {n}
        /\ ReadyHand \in HandId /\ F[ReadyHand] = Range(ready)
        /\ G[ReadyHand] = Range(ready) \ {n}
    BY <1>3, <1>5, <1>6, HandFacts, HandIds DEF Hands
  <2>2. ASSUME NEW h \in HandId, h # HeldHand, h # ReadyHand PROVE G[h] = F[h]
    BY <1>5, <2>2, HandKept
  <2>3. Disjoint(F) /\ ReadyHand # HeldHand /\ n \in F[ReadyHand]
        /\ G[HeldHand] = F[HeldHand] \cup {n}
        /\ G[ReadyHand] = F[ReadyHand] \ {n}
    BY <1>3, <2>1 DEF GraphInv, HandInv
  <2> HIDE DEF F, G
  <2> QED BY <2>1, <2>2, <2>3, FamilyMove
<1>8. KahnInv' /\ StartableNodes' = StartableNodes /\ \A m : Args(m)' = Args(m)
  BY <1>5, TablesSame DEF GraphInv
<1>9. OnceEach'
  BY <1>2, <1>3, <1>5 DEF GraphInv, HandInv, OnceEach
<1>10. HandInv'
  BY <1>7, <1>8, <1>9 DEF GraphInv, HandInv, InHand
<1>11. ArgInv'
  <2>1. TasksOut' \subseteq TasksOut \cup {t}
    BY <1>5, <1>6 DEF TasksOut
  <2>2. t.args = Args(t.id) /\ t.id \notin Sources
    OBVIOUS
  <2>3. \A x \in TasksOut' : x.args = Args(x.id) /\ x.id \notin Sources
    BY <2>1, <2>2 DEF GraphInv, ArgInv
  <2> QED BY <1>5, <1>8, <2>3 DEF GraphInv, ArgInv, Ends
<1>12. LostInv'
  <2>1. Scheduling /\ PoolIntact' = PoolIntact
    BY <1>2, <1>5 DEF Scheduling, PoolIntact
  <2> QED BY <1>7, <1>8, <2>1 DEF GraphInv, LostInv, InHand
<1> QED BY <1>5, <1>8, <1>10, <1>11, <1>12 DEF GraphInv

\* Steps of the scheduler in which no task changes hands.
LEMMA QuietGraph ==
  ASSUME Inv, GraphInv,
         RejectCall \/ RejectOutput \/ RetryPending \/ TryFull \/ StopDispatching
           \/ ReportCycle \/ ReceiveDisconnected \/ ClosePool
  PROVE  GraphInv'
<1>1. CASE RejectCall \/ RejectOutput
  <2>1. /\ pc = "start" /\ pc' = "returned"
        /\ UNCHANGED <<outs, needed, indeg, vals, processed>>
        /\ UNCHANGED <<ready, pending, sending, res_rx, queue, wtask, wstate>>
    BY <1>1 DEF RejectCall, RejectOutput, Rejected, call, tables, dispatch, channels, workers
  <2>2. sending' = None /\ \A w \in WorkerIds : wtask[w] # None => wstate'[w] = "running"
    BY <2>1 DEF GraphInv, HandInv, OnceEach
  <2>3. ~ Scheduling'
    BY <2>1 DEF Scheduling
  <2> QED BY <2>1, <2>2, <2>3, HandsSame
<1>2. CASE RetryPending
  <2>1. /\ pc = "dispatch" /\ pc' = "send" /\ sending' = pending /\ pending' = None
        /\ UNCHANGED <<outs, needed, indeg, vals, processed>>
        /\ UNCHANGED <<ready, res_rx, queue, wtask, wstate>>
    BY <1>2 DEF RetryPending, PendingTaken, call, tables, channels, workers
  <2>2. sending = None
    BY <2>1 DEF GraphInv, HandInv, OnceEach
  <2>3. \A w \in WorkerIds : wtask[w] # None => wstate'[w] = "running"
    BY <2>1 DEF GraphInv, HandInv, OnceEach
  <2>4. Scheduling /\ PoolIntact' = PoolIntact
    BY <2>1 DEF Scheduling, PoolIntact
  <2>5. IdsOf(pending') \cup IdsOf(sending') = IdsOf(pending) \cup IdsOf(sending)
        /\ Range(pending') \cup Range(sending') = Range(pending) \cup Range(sending)
    BY <2>1, <2>2, SlotIds
  <2> QED BY <2>1, <2>3, <2>4, <2>5, HandsSame
<1>3. CASE TryFull
  <2>1. /\ pc = "send" /\ pending = None
        /\ UNCHANGED <<outs, needed, indeg, vals, processed>>
        /\ UNCHANGED <<ready, res_rx, queue, wtask, wstate>>
        /\ \/ pending' = sending /\ sending' = None /\ pc' = "wait"
           \/ UNCHANGED <<pending, sending, pc>>
    BY <1>3 DEF TryFull, call, tables, channels, workers, Inv, TypeInv, Control, GraphInv, HandInv, OnceEach
  <2>2. \A w \in WorkerIds : wtask[w] # None => wstate'[w] = "running"
    BY <2>1 DEF GraphInv, HandInv, OnceEach
  <2>3. Scheduling /\ PoolIntact' = PoolIntact
    BY <2>1 DEF Scheduling, PoolIntact
  <2>4. IdsOf(pending') \cup IdsOf(sending') = IdsOf(pending) \cup IdsOf(sending)
        /\ Range(pending') \cup Range(sending') = Range(pending) \cup Range(sending)
        /\ (sending' # None => pc' = "send" /\ pending' = None) /\ pc' # "start"
    BY <2>1, SlotIds
  <2> QED BY <2>1, <2>2, <2>3, <2>4, HandsSame
<1>4. CASE StopDispatching \/ ReportCycle \/ ReceiveDisconnected \/ ClosePool
  <2>1. /\ pc \in {"dispatch", "wait", "close"} /\ pc' \in {"wait", "close", "join"}
        /\ pc' = "wait" => pc = "dispatch"
        /\ UNCHANGED <<outs, needed, indeg, vals, processed>>
        /\ UNCHANGED <<ready, pending, sending, res_rx, queue, wtask, wstate>>
    BY <1>4 DEF StopDispatching, ReportCycle, ReceiveDisconnected, ClosePool, Leave,
                call, tables, dispatch, channels, workers
  <2>2. sending' = None /\ \A w \in WorkerIds : wtask[w] # None => wstate'[w] = "running"
    BY <2>1 DEF GraphInv, HandInv, OnceEach
  <2>3. (Scheduling' => Scheduling) /\ PoolIntact' = PoolIntact
    BY <2>1 DEF Scheduling, PoolIntact
  <2> QED BY <2>1, <2>2, <2>3, HandsSame
<1> QED BY <1>1, <1>2, <1>3, <1>4

\* The task being sent goes down with the call.
LEMMA TryDisconnectedGraph == ASSUME Inv, GraphInv, TryDisconnected PROVE GraphInv'
<1>1. /\ pc' = "close" /\ sending' = None
      /\ UNCHANGED <<outs, needed, indeg, vals, processed>>
      /\ UNCHANGED <<ready, pending, res_rx, queue, wtask, wstate>>
  BY DEF TryDisconnected, Leave, call, tables, channels, workers
<1>2. Range(sending') = {} /\ IdsOf(sending') = {}
  BY <1>1, SlotIds
<1>3. Disjoint(Hands') /\ InHand' \subseteq InHand
  <2> DEFINE F == Hands
             G == Hands'
  <2>1. DOMAIN F = HandId /\ DOMAIN G = HandId /\ Disjoint(F)
    BY HandFacts DEF Hands, GraphInv, HandInv
  <2>2. G[HeldHand] \subseteq F[HeldHand]
    BY <1>1, <1>2, HandFacts DEF Hands
  <2>3. ASSUME NEW h \in HandId PROVE G[h] \subseteq F[h]
    BY <1>1, <2>2, HandKept
  <2> HIDE DEF F, G
  <2>4. Disjoint(G) /\ AllOf(G) \subseteq AllOf(F)
    BY <2>1, <2>3, FamilyShrinks
  <2> QED BY <2>4 DEF F, G, InHand
<1>4. OnceEach'
  BY <1>1 DEF GraphInv, HandInv, OnceEach
<1>5. TasksOut' \subseteq TasksOut
  BY <1>1, <1>2 DEF TasksOut
<1>6. ~ Scheduling'
  BY <1>1 DEF Scheduling
<1> QED BY <1>1, <1>3, <1>4, <1>5, <1>6, HandsMove

\* An error is received, or the call ends with results unread.
LEMMA ResultsDropped ==
  ASSUME Inv, GraphInv, ReceiveErr \/ Return
  PROVE  GraphInv'
<1>1. /\ pc' \in {"close", "returned"} /\ pc \in {"wait", "join"}
      /\ UNCHANGED <<outs, needed, indeg, vals, processed>>
      /\ UNCHANGED <<ready, pending, sending, queue, wtask, wstate>>
  BY DEF ReceiveErr, Return, TakeResult, Leave, call, tables, dispatch, workers
<1>2. OncePerNode(res_rx') /\ IdsOf(res_rx') \subseteq IdsOf(res_rx) /\ Range(res_rx') \subseteq Range(res_rx)
  <2>1. CASE ReceiveErr
    <3>1. res_rx # <<>> /\ res_rx' = Tail(res_rx)
      BY <2>1 DEF ReceiveErr, TakeResult
    <3> QED BY <3>1, TailIds, TypesOfHands DEF Inv, GraphInv, HandInv, OnceEach
  <2>2. CASE Return
    BY <2>2, SlotIds DEF Return, None
  <2> QED BY <2>1, <2>2
<1>3. Disjoint(Hands') /\ InHand' \subseteq InHand
  <2> DEFINE F == Hands
             G == Hands'
  <2>1. DOMAIN F = HandId /\ DOMAIN G = HandId /\ Disjoint(F)
    BY HandFacts DEF Hands, GraphInv, HandInv
  <2>2. G[ResultHand] \subseteq F[ResultHand]
    BY <1>2, HandFacts DEF Hands
  <2>3. ASSUME NEW h \in HandId PROVE G[h] \subseteq F[h]
    BY <1>1, <2>2, HandKept
  <2> HIDE DEF F, G
  <2>4. Disjoint(G) /\ AllOf(G) \subseteq AllOf(F)
    BY <2>1, <2>3, FamilyShrinks
  <2> QED BY <2>4 DEF F, G, InHand
<1>4. OnceEach'
  BY <1>1, <1>2 DEF GraphInv, HandInv, OnceEach
<1>5. TasksOut' \subseteq TasksOut
  BY <1>1 DEF TasksOut
<1>6. ~ Scheduling'
  BY <1>1 DEF Scheduling
<1> QED BY <1>1, <1>2, <1>3, <1>4, <1>5, <1>6, HandsMove

-----------------------------------------------------------------------------
(* The workers.                                                            *)

\* A worker that runs a task holds it, and the call has not returned.
LEMMA RunningWorker ==
  ASSUME Inv, NEW w \in WorkerIds, wstate[w] = "running"
  PROVE  /\ wtask[w][1] \in Task /\ wtask[w] = Some(wtask[w][1])
         /\ res_rx_open /\ pc # "start" /\ pc # "returned"
<1>1. wtask[w] # None /\ wtask[w] \in Option(Task)
  BY TypesOfHands DEF Inv, TypeInv, Control
<1>2. pc # "start" /\ pc # "returned"
  BY DEF Inv, PoolInv, AllExited
<1> QED BY <1>1, <1>2, SlotIds DEF Inv, PoolInv

LEMMA TakeTaskGraph ==
  ASSUME Inv, GraphInv, NEW w \in WorkerIds, TakeTask(w) PROVE GraphInv'
<1> DEFINE t == Head(queue[w])
           F == Hands
           G == Hands'
<1>1. /\ wstate[w] = "idle" /\ queue[w] # <<>>
      /\ queue' = [queue EXCEPT ![w] = Tail(@)]
      /\ wtask' = [wtask EXCEPT ![w] = Some(t)]
      /\ wstate' = [wstate EXCEPT ![w] = "running"]
      /\ UNCHANGED <<outs, needed, indeg, vals, processed>>
      /\ UNCHANGED <<ready, pending, sending, res_rx, pc>>
  BY DEF TakeTask, call, tables, dispatch
<1>2. /\ queue'[w] = Tail(queue[w]) /\ wtask'[w] = Some(t) /\ wstate'[w] = "running"
      /\ queue[w] \in Seq(Task)
      /\ \A x \in WorkerIds : x # w => /\ queue'[x] = queue[x] /\ wtask'[x] = wtask[x]
                                       /\ wstate'[x] = wstate[x]
  BY <1>1, TypesOfHands DEF Inv
<1>3. wtask[w] = None
  BY <1>1 DEF GraphInv, HandInv, OnceEach
<1>4. /\ t.id \in IdsOf(queue[w]) /\ t \in Range(queue[w])
      /\ OncePerNode(Tail(queue[w]))
      /\ IdsOf(Tail(queue[w])) = IdsOf(queue[w]) \ {t.id}
      /\ Range(Tail(queue[w])) \subseteq Range(queue[w])
  BY <1>1, <1>2, TailIds DEF GraphInv, HandInv, OnceEach
<1> HIDE DEF t
<1>5. Disjoint(Hands') /\ InHand' = InHand
  <2>1. /\ DOMAIN F = HandId /\ DOMAIN G = HandId /\ Disjoint(F)
        /\ QueueHand(w) \in HandId /\ RunHand(w) \in HandId /\ QueueHand(w) # RunHand(w)
    BY HandFacts, HandIds DEF Hands, GraphInv, HandInv
  <2>2. /\ F[QueueHand(w)] = IdsOf(queue[w]) /\ G[QueueHand(w)] = IdsOf(queue[w]) \ {t.id}
        /\ F[RunHand(w)] = {} /\ G[RunHand(w)] = {t.id}
    <3>1. F[QueueHand(w)] = IdsOf(queue[w]) /\ F[RunHand(w)] = IdsOf(wtask[w])
      BY HandFacts DEF Hands
    <3>2. G[QueueHand(w)] = IdsOf(queue'[w]) /\ G[RunHand(w)] = IdsOf(wtask'[w])
      BY HandFacts DEF Hands
    <3> QED BY <1>2, <1>3, <1>4, <3>1, <3>2, SlotIds
  <2>3. ASSUME NEW h \in HandId, h # QueueHand(w), h # RunHand(w) PROVE G[h] = F[h]
    BY <1>1, <1>2, <2>3, HandKept
  <2> HIDE DEF F, G
  <2>4. Disjoint(G) /\ AllOf(G) = AllOf(F)
    BY <1>4, <2>1, <2>2, <2>3, FamilyMove
  <2> QED BY <2>4 DEF F, G, InHand
<1>6. OnceEach'
  BY <1>1, <1>2, <1>4 DEF GraphInv, HandInv, OnceEach
<1>7. TasksOut' \subseteq TasksOut
  <2>1. ASSUME NEW x \in WorkerIds
        PROVE  Range(queue'[x]) \cup Range(wtask'[x]) \subseteq Range(queue[x]) \cup Range(wtask[x])
    <3>1. CASE x = w
      BY <1>2, <1>4, <3>1, SlotIds
    <3>2. CASE x # w
      BY <1>2, <3>2
    <3> QED BY <3>1, <3>2
  <2>2. Range(pending') \cup Range(sending') = Range(pending) \cup Range(sending)
    BY <1>1
  <2> QED BY <2>1, <2>2 DEF TasksOut
<1>8. (Scheduling' <=> Scheduling) /\ (PoolIntact' <=> PoolIntact)
  BY <1>1, <1>2 DEF Scheduling, PoolIntact
<1> QED BY <1>1, <1>5, <1>6, <1>7, <1>8, HandsMove

LEMMA FinishTaskGraph ==
  ASSUME Inv, GraphInv, NEW w \in WorkerIds, FinishTask(w) PROVE GraphInv'
<1> DEFINE t == wtask[w][1]
           F == Hands
           G == Hands'
<1>1. wstate[w] = "running" /\ t \in Task /\ wtask[w] = Some(t) /\ res_rx_open /\ pc # "start"
  BY RunningWorker DEF FinishTask
<1>2. PICK out \in {None, Some(ValueOf(t.id, t.args))} :
        /\ IF out = None THEN "err" \in Behaviour[t.id]
           ELSE "ok" \in Behaviour[t.id] /\ out = Some(ValueOf(t.id, t.args))
        /\ SendResult(w, out)
  <2>1. Some(ValueOf(t.id, t.args)) # None
    BY DEF Some, None
  <2> QED BY <2>1 DEF FinishTask
<1> DEFINE r == [id |-> t.id, out |-> out]
<1>3. /\ res_rx' = Append(res_rx, r)
      /\ wtask' = [wtask EXCEPT ![w] = None]
      /\ wstate' = [wstate EXCEPT ![w] = "idle"]
      /\ UNCHANGED <<outs, needed, indeg, vals, processed>>
      /\ UNCHANGED <<ready, pending, sending, queue, pc>>
  BY <1>1, <1>2 DEF SendResult, call, tables, dispatch
<1>4. /\ wtask'[w] = None /\ wstate'[w] = "idle"
      /\ \A x \in WorkerIds : x # w => wtask'[x] = wtask[x] /\ wstate'[x] = wstate[x]
  BY <1>3, TypesOfHands DEF Inv
<1>5. t \in TasksOut
  BY <1>1, SlotIds DEF TasksOut
<1>6. r \in TaskResult /\ r.id = t.id /\ r.out = out /\ res_rx \in Seq(TaskResult)
  <2>1. ValueOf(t.id, t.args) \in Value /\ t.id \in NodeId
    BY <1>1, TaskFacts
  <2> QED BY <1>2, <2>1, OptionProperties, TypesOfHands DEF TaskResult, Inv
<1>7. t.args = Args(t.id)
  BY <1>5 DEF GraphInv, ArgInv
<1> HIDE DEF t, r
<1>8. /\ DOMAIN F = HandId /\ DOMAIN G = HandId /\ Disjoint(F)
      /\ RunHand(w) \in HandId /\ ResultHand \in HandId /\ RunHand(w) # ResultHand
      /\ F[RunHand(w)] = {t.id} /\ F[ResultHand] = IdsOf(res_rx)
  <2>1. F[RunHand(w)] = IdsOf(wtask[w])
    BY HandFacts DEF Hands
  <2> QED BY <1>1, <2>1, HandFacts, HandIds, SlotIds DEF Hands, GraphInv, HandInv
<1>9. t.id \notin IdsOf(res_rx)
  <2>1. F[RunHand(w)] \cap F[ResultHand] = {}
    BY <1>8 DEF Disjoint
  <2> QED BY <1>8, <2>1
<1>10. /\ OncePerNode(res_rx')
       /\ IdsOf(res_rx') = IdsOf(res_rx) \cup {t.id}
       /\ Range(res_rx') = Range(res_rx) \cup {r}
  BY <1>3, <1>6, <1>9, AppendIds DEF GraphInv, HandInv, OnceEach
<1>11. Disjoint(Hands') /\ InHand' = InHand
  <2>1. G[RunHand(w)] = {} /\ G[ResultHand] = IdsOf(res_rx) \cup {t.id}
    <3>1. G[RunHand(w)] = IdsOf(wtask'[w]) /\ G[ResultHand] = IdsOf(res_rx')
      BY HandFacts DEF Hands
    <3> QED BY <1>4, <1>10, <3>1, SlotIds
  <2>2. ASSUME NEW h \in HandId, h # RunHand(w), h # ResultHand PROVE G[h] = F[h]
    BY <1>3, <1>4, <2>2, HandKept
  <2> HIDE DEF F, G
  <2>3. Disjoint(G) /\ AllOf(G) = AllOf(F)
    BY <1>8, <2>1, <2>2, FamilyMove
  <2> QED BY <2>3 DEF F, G, InHand
<1>12. OnceEach'
  BY <1>3, <1>4, <1>10 DEF GraphInv, HandInv, OnceEach
<1>13. TasksOut' \subseteq TasksOut
  <2>1. \A x \in WorkerIds : Range(wtask'[x]) \subseteq Range(wtask[x])
    BY <1>4, SlotIds
  <2> QED BY <1>3, <2>1 DEF TasksOut
<1>14. KahnInv' /\ StartableNodes' = StartableNodes /\ \A n : Args(n)' = Args(n)
  BY <1>1, <1>3, TablesSame DEF GraphInv
<1>15. HandInv'
  BY <1>11, <1>12, <1>14 DEF GraphInv, HandInv
<1>16. ArgInv'
  <2>1. Ends(r.id, r.out)
    BY <1>2, <1>6, <1>7 DEF Ends
  <2>2. r.id \notin Sources
    BY <1>5, <1>6 DEF GraphInv, ArgInv
  <2> QED BY <1>10, <1>13, <1>14, <2>1, <2>2 DEF GraphInv, ArgInv, Ends
<1>17. LostInv'
  <2>1. (Scheduling' <=> Scheduling) /\ (PoolIntact' <=> PoolIntact)
    BY <1>1, <1>3, <1>4 DEF Scheduling, PoolIntact
  <2> QED BY <1>11, <1>14, <2>1 DEF GraphInv, LostInv
<1> QED BY <1>14, <1>15, <1>16, <1>17 DEF GraphInv

\* The node whose closure panics is in no hand from then on.
LEMMA PanicTaskGraph ==
  ASSUME Inv, GraphInv, NEW w \in WorkerIds, PanicTask(w) PROVE GraphInv'
<1> DEFINE n == wtask[w][1].id
           F == Hands
           G == Hands'
<1>1. /\ wstate[w] = "running" /\ "panic" \in Behaviour[n] /\ wtask[w] = Some(wtask[w][1])
      /\ pc # "start"
  BY RunningWorker DEF PanicTask
<1>2. /\ queue' = [queue EXCEPT ![w] = <<>>]
      /\ wtask' = [wtask EXCEPT ![w] = None]
      /\ wstate' = [wstate EXCEPT ![w] = "exited"]
      /\ UNCHANGED <<outs, needed, indeg, vals, processed>>
      /\ UNCHANGED <<ready, pending, sending, res_rx, pc>>
  BY DEF PanicTask, call, tables, dispatch
<1>3. /\ queue'[w] = None /\ wtask'[w] = None /\ wstate'[w] = "exited"
      /\ \A x \in WorkerIds : x # w => /\ queue'[x] = queue[x] /\ wtask'[x] = wtask[x]
                                       /\ wstate'[x] = wstate[x]
  BY <1>2, TypesOfHands DEF Inv, None
<1>4. /\ DOMAIN F = HandId /\ DOMAIN G = HandId /\ Disjoint(F)
      /\ RunHand(w) \in HandId /\ F[RunHand(w)] = {n} /\ G[RunHand(w)] = {}
      /\ G[QueueHand(w)] = {}
  <2>1. F[RunHand(w)] = IdsOf(wtask[w])
    BY HandFacts DEF Hands
  <2>2. G[RunHand(w)] = IdsOf(wtask'[w]) /\ G[QueueHand(w)] = IdsOf(queue'[w])
    BY HandFacts DEF Hands
  <2>3. DOMAIN F = HandId /\ DOMAIN G = HandId /\ Disjoint(F)
    BY HandFacts DEF Hands, GraphInv, HandInv
  <2> QED BY <1>1, <1>3, <2>1, <2>2, <2>3, SlotIds, HandIds
<1>5. ASSUME NEW h \in HandId PROVE G[h] \subseteq F[h]
  <2>1. CASE h = RunHand(w) \/ h = QueueHand(w)
    BY <1>4, <2>1
  <2>2. CASE h # RunHand(w) /\ h # QueueHand(w)
    <3>1. G[h] = F[h]
      BY <1>2, <1>3, <2>2, HandKept
    <3> QED BY <3>1
  <2> QED BY <2>1, <2>2
<1>6. Disjoint(Hands') /\ InHand' \subseteq InHand /\ n \in InHand /\ n \notin InHand'
  <2> HIDE DEF F, G, n
  <2>1. Disjoint(G) /\ AllOf(G) \subseteq AllOf(F)
    BY <1>4, <1>5, FamilyShrinks
  <2>2. n \in AllOf(F)
    BY <1>4 DEF AllOf
  <2>3. n \notin AllOf(G)
    <3>1. ASSUME NEW h \in HandId, n \in G[h] PROVE FALSE
      <4>1. n \in F[h] /\ n \in F[RunHand(w)] /\ h # RunHand(w)
        BY <1>4, <1>5, <3>1
      <4> QED BY <1>4, <4>1 DEF Disjoint
    <3> QED BY <1>4, <3>1 DEF AllOf
  <2> QED BY <2>1, <2>2, <2>3 DEF F, G, InHand
<1>7. KahnInv' /\ StartableNodes' = StartableNodes /\ \A m : Args(m)' = Args(m)
  BY <1>1, <1>2, TablesSame DEF GraphInv
<1>8. OnceEach'
  BY <1>2, <1>3, SlotIds DEF GraphInv, HandInv, OnceEach
<1>9. HandInv'
  BY <1>6, <1>7, <1>8 DEF GraphInv, HandInv
<1>10. TasksOut' \subseteq TasksOut
  <2>1. \A x \in WorkerIds : /\ Range(queue'[x]) \subseteq Range(queue[x])
                             /\ Range(wtask'[x]) \subseteq Range(wtask[x])
    BY <1>3, SlotIds
  <2> QED BY <1>2, <2>1 DEF TasksOut
<1>11. ArgInv'
  BY <1>2, <1>7, <1>10, ArgSame DEF GraphInv
<1>12. LostInv'
  <2>1. ~ PoolIntact' /\ (Scheduling' <=> Scheduling)
    BY <1>2, <1>3 DEF PoolIntact, Scheduling
  <2>2. n \in StartableNodes'
    BY <1>6, <1>7 DEF GraphInv, HandInv
  <2> QED BY <1>1, <1>6, <2>1, <2>2 DEF LostInv
<1> QED BY <1>7, <1>9, <1>11, <1>12 DEF GraphInv

\* A worker leaves by itself only when the pool has been closed.
OpenInv == Scheduling => task_txs_open

LEMMA OpenStep == OpenInv /\ [Next]_vars => OpenInv'
<1> SUFFICES ASSUME OpenInv, [Next]_vars PROVE OpenInv'
  OBVIOUS
<1>1. CASE RejectCall \/ RejectOutput \/ Start \/ RetryPending \/ RunSource \/ PrepareTask
  BY <1>1 DEF RejectCall, RejectOutput, Rejected, Start, RetryPending, RunSource, PrepareTask, PopReady,
              Leave, OpenInv, Scheduling, channels
<1>2. CASE TrySend \/ TryFull \/ TryDisconnected \/ StopDispatching \/ ReportCycle
  BY <1>2 DEF TrySend, TryFull, TryDisconnected, StopDispatching, ReportCycle, Leave,
              OpenInv, Scheduling, channels
<1>3. CASE ReceiveOk \/ ReceiveErr \/ ReceiveDisconnected \/ ClosePool \/ Return
  BY <1>3 DEF ReceiveOk, ReceiveErr, ReceiveDisconnected, TakeResult, ClosePool, Return, Leave,
              OpenInv, Scheduling, channels
<1>4. ASSUME NEW w \in WorkerIds, Worker(w) PROVE OpenInv'
  BY <1>4 DEF Worker, TakeTask, FinishTask, SendResult, PanicTask, ExitWorker,
              OpenInv, Scheduling, channels
<1>5. CASE UNCHANGED vars
  BY <1>5 DEF OpenInv, Scheduling, vars, channels
<1> QED BY <1>1, <1>2, <1>3, <1>4, <1>5 DEF Next, Scheduler, Finished

LEMMA ExitWorkerGraph ==
  ASSUME Inv, GraphInv, OpenInv, NEW w \in WorkerIds, ExitWorker(w) PROVE GraphInv'
<1>1. /\ wstate[w] = "idle" /\ wstate' = [wstate EXCEPT ![w] = "exited"] /\ ~ task_txs_open
      /\ UNCHANGED <<outs, needed, indeg, vals, processed>>
      /\ UNCHANGED <<ready, pending, sending, res_rx, queue, wtask, pc>>
  BY DEF ExitWorker, call, tables, dispatch, channels
<1>2. \A x \in WorkerIds : wtask[x] # None => wstate'[x] = "running"
  BY <1>1, TypesOfHands DEF Inv, GraphInv, HandInv, OnceEach
<1>3. ~ Scheduling'
  BY <1>1 DEF OpenInv, Scheduling
<1>4. sending' # None => pc' = "send" /\ pending' = None
  BY <1>1 DEF GraphInv, HandInv, OnceEach
<1> QED BY <1>1, <1>2, <1>3, <1>4, HandsSame

-----------------------------------------------------------------------------
(***************************************************************************)
(* Recording a value. d has left the hand it was in; what it releases goes *)
(* to the ready queue.                                                     *)
(***************************************************************************)
LEMMA ArgsKept ==
  ASSUME NEW d \in NodeId, vals[d] = None, NEW v,
         vals \in [NodeId -> Option(Value)], vals' = [vals EXCEPT ![d] = Some(v)],
         NEW m \in NodeId, DepsDone(m)
  PROVE  Args(m)' = Args(m)
<1>1. \A i \in 1 .. Len(Deps[m]) : vals'[Deps[m][i]] = vals[Deps[m][i]]
  <2> TAKE i \in 1 .. Len(Deps[m])
  <2>1. Deps[m][i] \in NodeId /\ Deps[m][i] # d
    BY DepLists DEF DepsDone
  <2> QED BY <2>1
<1> QED BY <1>1 DEF Args

LEMMA RecordTables ==
  ASSUME KahnInv, NEW d \in StartableNodes, NEW v \in Value, v = ValueOf(d, Args(d)), NEW q,
         Complete(d, v, q), UNCHANGED <<outs, needed>>, pc' # "start"
  PROVE  KahnInv'
<1>1. Record(d, v, q) /\ processed' = processed + 1 /\ outs' = outs /\ needed' = needed
  BY DEF Complete
<1>2. /\ KahnOK' /\ ValuedNodes' = ValuedNodes \cup {d} /\ d \notin ValuedNodes
  BY <1>1, RecordOK DEF KahnInv
<1>3. /\ d \in NodeId /\ vals[d] = None /\ DepsDone(d) /\ d \in needed /\ needed \subseteq NodeId
      /\ vals \in [NodeId -> Option(Value)] /\ indeg \in [NodeId -> Int]
  BY DEF KahnInv, KahnOK, KahnTypes, StartableNodes
<1>4. vals' = [vals EXCEPT ![d] = Some(v)] /\ indeg' = IndegreeAfter(d)
  BY <1>1 DEF Record
<1>5. \A n \in NodeId \ needed' : indeg'[n] = 0
  BY <1>1, <1>4 DEF IndegreeAfter, Dependents, KahnInv
<1>6. processed' = Cardinality(ValuedNodes')
  BY <1>1, <1>2, ValuedCount DEF KahnInv
<1> QED BY <1>2, <1>5, <1>6 DEF KahnInv

LEMMA RecordGraph ==
  ASSUME Inv, GraphInv, Scheduling, pc' # "start", sending = None,
         NEW d \in InHand, NEW v \in Value, v = ValueOf(d, Args(d)),
         NEW q \in Seq(NodeId), IsInjective(q), Complete(d, v, q),
         UNCHANGED <<outs, needed, pending, sending, queue, wtask, wstate>>,
         NEW M, M = HandsOf(q, pending, sending, res_rx', queue, wtask),
         Disjoint(M), AllOf(M) = InHand \ {d},
         OncePerNode(res_rx'), Range(res_rx') \subseteq Range(res_rx)
  PROVE  GraphInv'
<1> DEFINE G == Hands'
<1>1. Record(d, v, q) /\ d \in StartableNodes /\ KahnInv /\ KahnOK
      /\ vals' = [vals EXCEPT ![d] = Some(v)] /\ ready' = q \o Ascending(Released(d))
  BY OutInHand DEF Complete, Record, GraphInv, KahnInv
<1>2. /\ Released(d) \subseteq needed /\ Released(d) \cap StartableNodes = {}
      /\ StartableNodes' = (StartableNodes \ {d}) \cup Released(d)
  BY <1>1, RecordOK
<1>3. KahnInv'
  BY <1>1, RecordTables
<1>4. /\ Ascending(Released(d)) \in Seq(NodeId) /\ IsInjective(Ascending(Released(d)))
      /\ Range(Ascending(Released(d))) = Released(d)
  <2>1. Released(d) \in SUBSET NodeId
    BY <1>1, <1>2 DEF KahnOK, KahnTypes
  <2> QED BY <2>1, AscendingOnce
<1>5. DOMAIN M = HandId /\ M[ReadyHand] = Range(q) /\ ReadyHand \in HandId
  BY HandFacts, HandIds
<1>6. Range(q) \cap Released(d) = {}
  <2>1. M[ReadyHand] \subseteq AllOf(M)
    BY <1>5 DEF AllOf
  <2> QED BY <1>2, <1>5, <2>1 DEF GraphInv, HandInv
<1>7. IsInjective(ready') /\ Range(ready') = Range(q) \cup Released(d)
  BY <1>1, <1>4, <1>6, ConcatOnce
<1>8. DOMAIN G = HandId /\ G[ReadyHand] = M[ReadyHand] \cup Released(d)
  <2>1. DOMAIN G = HandId /\ G[ReadyHand] = Range(ready')
    BY HandFacts DEF Hands
  <2> QED BY <1>5, <1>7, <2>1
<1>9. ASSUME NEW h \in HandId, h # ReadyHand PROVE G[h] = M[h]
  <2>1. /\ M[HeldHand] = IdsOf(pending) \cup IdsOf(sending) /\ M[ResultHand] = IdsOf(res_rx')
        /\ \A w \in WorkerIds : M[QueueHand(w)] = IdsOf(queue[w]) /\ M[RunHand(w)] = IdsOf(wtask[w])
    BY HandFacts
  <2>2. /\ G[HeldHand] = IdsOf(pending') \cup IdsOf(sending') /\ G[ResultHand] = IdsOf(res_rx')
        /\ \A w \in WorkerIds : G[QueueHand(w)] = IdsOf(queue'[w]) /\ G[RunHand(w)] = IdsOf(wtask'[w])
    BY HandFacts DEF Hands
  <2> HIDE DEF G
  <2>3. /\ G[HeldHand] = M[HeldHand] /\ G[ResultHand] = M[ResultHand]
        /\ \A w \in WorkerIds : G[QueueHand(w)] = M[QueueHand(w)] /\ G[RunHand(w)] = M[RunHand(w)]
    BY <2>1, <2>2
  <2> QED BY <1>9, <2>3, HandIds
<1>10. Disjoint(Hands') /\ InHand' = (InHand \ {d}) \cup Released(d)
  <2>1. Released(d) \cap AllOf(M) = {}
    BY <1>2 DEF GraphInv, HandInv
  <2> HIDE DEF G
  <2>2. Disjoint(G) /\ AllOf(G) = AllOf(M) \cup Released(d)
    BY <1>5, <1>8, <1>9, <2>1, FamilyGrows
  <2> QED BY <2>2 DEF G, InHand
<1>11. HandInv'
  <2>1. OnceEach'
    BY <1>7 DEF GraphInv, HandInv, OnceEach
  <2> QED BY <1>2, <1>10, <2>1 DEF GraphInv, HandInv
<1>12. ArgInv'
  <2>1. ASSUME NEW m \in InHand PROVE Args(m)' = Args(m)
    <3>1. vals \in [NodeId -> Option(Value)]
      BY <1>1 DEF KahnOK, KahnTypes
    <3>2. d \in NodeId /\ vals[d] = None /\ m \in NodeId /\ DepsDone(m)
      BY OutInHand
    <3> QED BY <1>1, <3>1, <3>2, ArgsKept
  <2>2. TasksOut' = TasksOut
    BY DEF TasksOut
  <2>3. \A t \in TasksOut' : t.args = Args(t.id)' /\ t.id \notin Sources
    BY <2>1, <2>2, OutInHand DEF GraphInv, ArgInv
  <2>4. ASSUME NEW r \in Range(res_rx')
        PROVE  Ends(r.id, r.out)' /\ r.id \notin Sources
    <3>1. r \in Range(res_rx) /\ r.id \in InHand
      BY OutInHand
    <3>2. Args(r.id)' = Args(r.id)
      BY <2>1, <3>1
    <3> QED BY <3>1, <3>2 DEF GraphInv, ArgInv, Ends
  <2> QED BY <2>3, <2>4 DEF ArgInv
<1>13. LostInv'
  <2>1. PoolIntact' = PoolIntact
    BY DEF PoolIntact
  <2>2. CASE PoolIntact
    BY <1>2, <1>10, <2>1, <2>2 DEF GraphInv, LostInv
  <2>3. CASE ~ PoolIntact
    <3>1. PICK n \in StartableNodes \ InHand : "panic" \in Behaviour[n]
      BY <2>3 DEF GraphInv, LostInv
    <3>2. n \in StartableNodes' \ InHand'
      BY <1>2, <1>10, <3>1
    <3> QED BY <2>1, <2>3, <3>1, <3>2 DEF LostInv
  <2> QED BY <2>2, <2>3
<1> QED BY <1>3, <1>11, <1>12, <1>13 DEF GraphInv

LEMMA RunSourceGraph == ASSUME Inv, GraphInv, RunSource PROVE GraphInv'
<1>1. PICK n \in Sources :
        /\ PopReady(n)
        /\ Complete(n, ValueOf(n, <<>>), Tail(ready))
        /\ UNCHANGED <<call, pc, result, needed, in_flight, dispatch, channels, workers>>
  BY DEF RunSource
<1>2. /\ pc = "dispatch" /\ pc' = "dispatch" /\ ready # <<>> /\ n = Head(ready)
      /\ UNCHANGED <<outs, needed, pending, sending, queue, wtask, wstate>>
      /\ res_rx' = res_rx
  BY <1>1 DEF PopReady, call, dispatch, channels, workers
<1>3. sending = None /\ OncePerNode(res_rx') /\ Scheduling
  BY <1>2 DEF GraphInv, HandInv, OnceEach, Scheduling
<1>4. /\ n \in Range(ready) /\ IsInjective(Tail(ready)) /\ Range(Tail(ready)) = Range(ready) \ {n}
      /\ Tail(ready) \in Seq(NodeId)
  BY <1>2, TailOnce, TypesOfHands DEF Inv, GraphInv, HandInv, OnceEach
<1>5. n \in InHand
  BY <1>4, OutInHand
<1>6. ValueOf(n, <<>>) \in Value /\ ValueOf(n, <<>>) = ValueOf(n, Args(n))
  BY SourceYields DEF GraphInv, KahnInv, KahnOK
<1> DEFINE F == Hands
           M == HandsOf(Tail(ready), pending, sending, res_rx', queue, wtask)
<1>7. Disjoint(M) /\ AllOf(M) = InHand \ {n}
  <2>1. /\ DOMAIN F = HandId /\ DOMAIN M = HandId /\ ReadyHand \in HandId
        /\ F[ReadyHand] = Range(ready) /\ M[ReadyHand] = Range(ready) \ {n}
    BY <1>4, HandFacts, HandIds DEF Hands
  <2>2. /\ M[HeldHand] = F[HeldHand] /\ M[ResultHand] = F[ResultHand]
        /\ \A w \in WorkerIds : M[QueueHand(w)] = F[QueueHand(w)] /\ M[RunHand(w)] = F[RunHand(w)]
    <3>1. /\ M[HeldHand] = IdsOf(pending) \cup IdsOf(sending) /\ M[ResultHand] = IdsOf(res_rx')
          /\ \A w \in WorkerIds : M[QueueHand(w)] = IdsOf(queue[w]) /\ M[RunHand(w)] = IdsOf(wtask[w])
      BY HandFacts
    <3>2. /\ F[HeldHand] = IdsOf(pending) \cup IdsOf(sending) /\ F[ResultHand] = IdsOf(res_rx)
          /\ \A w \in WorkerIds : F[QueueHand(w)] = IdsOf(queue[w]) /\ F[RunHand(w)] = IdsOf(wtask[w])
      BY HandFacts DEF Hands
    <3> HIDE DEF F, M
    <3> QED BY <1>2, <3>1, <3>2
  <2>3. \A h \in HandId : h # ReadyHand => M[h] = F[h]
    BY <2>2, HandIds
  <2>4. Disjoint(F) /\ n \in F[ReadyHand]
    BY <1>4, <2>1 DEF GraphInv, HandInv
  <2> HIDE DEF F, M
  <2>5. Disjoint(M) /\ AllOf(M) = AllOf(F) \ {n}
    BY <2>1, <2>3, <2>4, FamilyLoses
  <2> QED BY <2>5 DEF F, InHand
<1> HIDE DEF F
<1> QED BY <1>1, <1>2, <1>3, <1>4, <1>5, <1>6, <1>7, RecordGraph

LEMMA ReceiveOkGraph == ASSUME Inv, GraphInv, ReceiveOk PROVE GraphInv'
<1>1. PICK n \in NodeId, v \in Value :
        /\ TakeResult([id |-> n, out |-> Some(v)])
        /\ Complete(n, v, ready)
        /\ pc' # "start"
        /\ UNCHANGED <<call, needed, dispatch, task_txs_open, queue, res_rx_open, workers>>
  BY DEF ReceiveOk, Leave
<1>2. /\ pc = "wait" /\ res_rx # <<>> /\ Head(res_rx) = [id |-> n, out |-> Some(v)]
      /\ res_rx' = Tail(res_rx)
      /\ UNCHANGED <<outs, needed, pending, sending, queue, wtask, wstate>>
  BY <1>1 DEF TakeResult, call, dispatch, workers
<1>3. sending = None /\ Scheduling /\ ready \in Seq(NodeId) /\ IsInjective(ready)
  BY <1>2, TypesOfHands DEF GraphInv, HandInv, OnceEach, Scheduling, Inv
<1>4. /\ n \in IdsOf(res_rx) /\ Head(res_rx) \in Range(res_rx)
      /\ OncePerNode(res_rx') /\ IdsOf(res_rx') = IdsOf(res_rx) \ {n}
      /\ Range(res_rx') \subseteq Range(res_rx)
  <2>1. Head(res_rx).id = n
    BY <1>2
  <2> QED BY <1>2, <2>1, TailIds, TypesOfHands DEF Inv, GraphInv, HandInv, OnceEach
<1>5. n \in InHand /\ v = ValueOf(n, Args(n))
  <2>1. Head(res_rx).id = n /\ Head(res_rx).out = Some(v) /\ Some(v) # None
    BY <1>2 DEF Some, None
  <2>2. Some(v) = Some(ValueOf(n, Args(n)))
    BY <1>4, <2>1 DEF GraphInv, ArgInv, Ends
  <2> QED BY <1>4, <2>1, <2>2, OutInHand, SlotIds
<1> DEFINE F == Hands
           M == HandsOf(ready, pending, sending, res_rx', queue, wtask)
<1>6. Disjoint(M) /\ AllOf(M) = InHand \ {n}
  <2>1. /\ DOMAIN F = HandId /\ DOMAIN M = HandId /\ ResultHand \in HandId
        /\ F[ResultHand] = IdsOf(res_rx) /\ M[ResultHand] = IdsOf(res_rx) \ {n}
    BY <1>4, HandFacts, HandIds DEF Hands
  <2>2. /\ M[ReadyHand] = F[ReadyHand] /\ M[HeldHand] = F[HeldHand]
        /\ \A w \in WorkerIds : M[QueueHand(w)] = F[QueueHand(w)] /\ M[RunHand(w)] = F[RunHand(w)]
    <3>1. /\ M[ReadyHand] = Range(ready) /\ M[HeldHand] = IdsOf(pending) \cup IdsOf(sending)
          /\ \A w \in WorkerIds : M[QueueHand(w)] = IdsOf(queue[w]) /\ M[RunHand(w)] = IdsOf(wtask[w])
      BY HandFacts
    <3>2. /\ F[ReadyHand] = Range(ready) /\ F[HeldHand] = IdsOf(pending) \cup IdsOf(sending)
          /\ \A w \in WorkerIds : F[QueueHand(w)] = IdsOf(queue[w]) /\ F[RunHand(w)] = IdsOf(wtask[w])
      BY HandFacts DEF Hands
    <3> HIDE DEF F, M
    <3> QED BY <1>2, <3>1, <3>2
  <2>3. \A h \in HandId : h # ResultHand => M[h] = F[h]
    BY <2>2, HandIds
  <2>4. Disjoint(F) /\ n \in F[ResultHand]
    BY <1>4, <2>1 DEF GraphInv, HandInv
  <2> HIDE DEF F, M
  <2>5. Disjoint(M) /\ AllOf(M) = AllOf(F) \ {n}
    BY <2>1, <2>3, <2>4, FamilyLoses
  <2> QED BY <2>5 DEF F, InHand
<1> HIDE DEF F
<1> QED BY <1>1, <1>2, <1>3, <1>4, <1>5, <1>6, RecordGraph

-----------------------------------------------------------------------------
(* The beginning of a call, and the invariant of every step.               *)

LEMMA InitGraph == ASSUME Init PROVE GraphInv /\ OpenInv
<1>1. /\ TablesInit /\ pc = "start" /\ pending = None /\ sending = None /\ res_rx = None
      /\ ready = None /\ needed = {} /\ processed = 0 /\ task_txs_open
      /\ \A w \in WorkerIds : queue[w] = None /\ wtask[w] = None /\ wstate[w] = "unborn"
      /\ \A n \in NodeId : indeg[n] = 0 /\ vals[n] = None
  BY DEF Init, TablesInit, None
<1>2. KahnOK /\ StartableNodes = {}
  BY <1>1, TablesInitOK
<1>3. ValuedNodes = {} /\ Cardinality(ValuedNodes) = 0
  <2>1. ValuedNodes = {}
    BY <1>1 DEF ValuedNodes
  <2> QED BY <2>1, FS_EmptySet
<1>4. KahnInv
  BY <1>1, <1>2, <1>3 DEF KahnInv
<1>5. \A h \in HandId : Hands[h] = {}
  <2>1. /\ Hands[ReadyHand] = {} /\ Hands[HeldHand] = {} /\ Hands[ResultHand] = {}
        /\ \A w \in WorkerIds : Hands[QueueHand(w)] = {} /\ Hands[RunHand(w)] = {}
    BY <1>1, HandFacts, SlotIds DEF Hands
  <2> QED BY <2>1, HandIds
<1>6. DOMAIN Hands = HandId /\ Disjoint(Hands) /\ InHand = {}
  <2>1. DOMAIN Hands = HandId
    BY HandFacts DEF Hands
  <2> QED BY <1>5, <2>1 DEF Disjoint, InHand, AllOf
<1>7. OnceEach
  <2>1. IsInjective(None)
    BY DEF None, IsInjective
  <2> QED BY <1>1, <2>1, SlotIds DEF OnceEach
<1>8. ArgInv
  <2>1. TasksOut = {} /\ Range(res_rx) = {}
    BY <1>1, SlotIds DEF TasksOut
  <2> QED BY <2>1 DEF ArgInv
<1>9. LostInv
  <2>1. PoolIntact
    BY <1>1 DEF PoolIntact
  <2> QED BY <1>2, <2>1 DEF LostInv
<1> QED BY <1>1, <1>2, <1>4, <1>6, <1>7, <1>8, <1>9 DEF GraphInv, HandInv, OpenInv

\* Seed puts every startable node in the ready queue; no other hand holds one.
LEMMA StartGraph == ASSUME Inv, GraphInv, Start PROVE GraphInv'
<1>1. /\ pc = "start" /\ pc' = "dispatch" /\ Seed
      /\ UNCHANGED <<outs, vals, processed>>
      /\ UNCHANGED <<pending, sending, res_rx, queue, wtask>>
      /\ needed = {}
  BY DEF Start, Seed, dispatch, channels, GraphInv, KahnInv
<1>2. /\ KahnOK' /\ IsInjective(ready') /\ Range(ready') = StartableNodes'
  BY <1>1, SeedOK DEF GraphInv, KahnInv
<1>3. InHand = {}
  BY <1>1 DEF GraphInv, HandInv, StartableNodes
<1>4. /\ \A t \in TasksOut : FALSE
      /\ \A r \in Range(res_rx) : FALSE
      /\ \A n \in Range(ready) : FALSE
  BY <1>3, OutInHand
<1>5. \A h \in HandId : Hands[h] = {}
  <2>1. DOMAIN Hands = HandId
    BY HandFacts DEF Hands
  <2> QED BY <1>3, <2>1 DEF InHand, AllOf
<1>6. \A h \in HandId : h # ReadyHand => Hands'[h] = {}
  <2> TAKE h \in HandId
  <2>1. h # ReadyHand => Hands'[h] = Hands[h]
    BY <1>1, HandKept
  <2> QED BY <1>5, <2>1
<1>7. DOMAIN Hands' = HandId /\ Hands'[ReadyHand] = StartableNodes' /\ ReadyHand \in HandId
  BY <1>2, HandFacts, HandIds DEF Hands
<1>8. Disjoint(Hands') /\ InHand' = StartableNodes'
  <2>1. Disjoint(Hands')
    BY <1>6, <1>7 DEF Disjoint
  <2>2. InHand' = StartableNodes'
    BY <1>6, <1>7 DEF InHand, AllOf
  <2> QED BY <2>1, <2>2
<1>9. \A n \in NodeId : vals[n] = None
  BY <1>1 DEF GraphInv, KahnInv, KahnOK
<1>10. KahnInv'
  <2>1. ValuedNodes = {} /\ ValuedNodes' = {}
    BY <1>1, <1>9 DEF ValuedNodes
  <2>2. \A n \in NodeId \ needed' : indeg'[n] = 0
    BY <1>1 DEF Seed
  <2>3. processed' = Cardinality(ValuedNodes')
    BY <1>1, <2>1 DEF GraphInv, KahnInv
  <2> QED BY <1>1, <1>2, <1>9, <2>1, <2>2, <2>3 DEF KahnInv
<1>11. \A w \in WorkerIds : wtask'[w] = None
  <2> TAKE w \in WorkerIds
  <2>1. wtask[w] # None => wtask[w][1] \in TasksOut
    <3>1. wtask[w] # None => wtask[w] = Some(wtask[w][1])
      BY SlotIds, TypesOfHands DEF Inv
    <3>2. wtask[w] # None => wtask[w][1] \in Range(wtask[w])
      BY <3>1, SlotIds
    <3> QED BY <3>2 DEF TasksOut
  <2> QED BY <1>1, <1>4, <2>1
<1>12. HandInv'
  <2>1. OnceEach'
    BY <1>1, <1>2, <1>11 DEF GraphInv, HandInv, OnceEach
  <2> QED BY <1>8, <2>1 DEF HandInv
<1>13. ArgInv'
  <2>1. TasksOut' = TasksOut
    BY <1>1 DEF TasksOut
  <2> QED BY <1>1, <1>4, <2>1 DEF ArgInv
<1>14. LostInv'
  <2>1. PoolIntact'
    BY DEF Start, PoolIntact
  <2> QED BY <1>8, <2>1 DEF LostInv
<1> QED BY <1>10, <1>12, <1>13, <1>14 DEF GraphInv

LEMMA NextGraph == Inv /\ GraphInv /\ OpenInv /\ [Next]_vars => GraphInv'
<1> SUFFICES ASSUME Inv, GraphInv, OpenInv, [Next]_vars PROVE GraphInv'
  OBVIOUS
<1>1. CASE Scheduler
  BY <1>1, QuietGraph, StartGraph, RunSourceGraph, PrepareTaskGraph, TrySendGraph,
     TryDisconnectedGraph, ReceiveOkGraph, ResultsDropped DEF Scheduler
<1>2. ASSUME NEW w \in WorkerIds, Worker(w) PROVE GraphInv'
  BY <1>2, TakeTaskGraph, FinishTaskGraph, PanicTaskGraph, ExitWorkerGraph DEF Worker
<1>3. CASE UNCHANGED vars
  <2>1. /\ UNCHANGED <<outs, needed, indeg, vals, processed>>
        /\ UNCHANGED <<ready, pending, sending, res_rx, queue, wtask, wstate, pc>>
    BY <1>3 DEF vars, call, tables, dispatch, channels, workers
  <2>2. /\ sending' # None => pc' = "send" /\ pending' = None
        /\ \A w \in WorkerIds : wtask[w] # None => wstate'[w] = "running"
    BY <2>1 DEF GraphInv, HandInv, OnceEach
  <2>3. (Scheduling' => Scheduling) /\ PoolIntact' = PoolIntact
    BY <2>1 DEF Scheduling, PoolIntact
  <2> QED BY <2>1, <2>2, <2>3, HandsSame
<1> QED BY <1>1, <1>2, <1>3 DEF Next, Finished

LEMMA GraphInvariance == Spec => [](Inv /\ GraphInv /\ OpenInv)
<1>1. Init => GraphInv /\ OpenInv
  BY InitGraph
<1>2. Spec => []Inv
  BY Invariance
<1>3. Inv /\ (GraphInv /\ OpenInv) /\ [Next]_vars => (GraphInv /\ OpenInv)'
  BY NextGraph, OpenStep
<1> QED BY <1>1, <1>2, <1>3, PTL DEF Spec

(***************************************************************************)
(* Kahn's counters tell the truth in every state after the seeding: an     *)
(* in-degree is the number of dep occurrences without a value, so its      *)
(* decrement never wraps, and processed is the number of recorded values.  *)
(***************************************************************************)
THEOREM CountersTellTruth == Spec => []KahnCounters
<1>1. GraphInv => KahnCounters
  <2> SUFFICES ASSUME GraphInv PROVE KahnCounters
    OBVIOUS
  <2>1. KahnOK /\ needed \subseteq NodeId
    BY DEF GraphInv, KahnInv, KahnOK, KahnTypes
  <2>2. ASSUME NEW n \in needed
        PROVE  indeg[n] = Cardinality({i \in DOMAIN Deps[n] : vals[Deps[n][i]] = None})
    <3>1. Unresolved(n) = {i \in DOMAIN Deps[n] : vals[Deps[n][i]] = None}
      BY <2>1, DepLists DEF Unresolved
    <3> QED BY <2>1, <3>1 DEF KahnOK
  <2>3. \A n \in NodeId \ needed : indeg[n] = 0 /\ vals[n] = None
    BY <2>1 DEF GraphInv, KahnInv, KahnOK
  <2> QED BY <2>2, <2>3 DEF KahnCounters, GraphInv, KahnInv, ValuedNodes
<1> QED BY <1>1, GraphInvariance, PTL

(***************************************************************************)
(* Whatever the schedule, a recorded value, and a result on its way, is    *)
(* the node's meaning: the graph alone determines it.                      *)
(***************************************************************************)
THEOREM ScheduleIndependent == Spec => []ValuesFollowDeps
<1>1. Inv /\ GraphInv => ValuesFollowDeps
  <2> SUFFICES ASSUME Inv, GraphInv PROVE ValuesFollowDeps
    OBVIOUS
  <2>1. \A n \in NodeId : vals[n] # None => DepsDone(n) /\ vals[n] = Some(Meaning[n])
    BY DEF GraphInv, KahnInv, KahnOK, MeaningOK
  <2>2. ASSUME NEW i \in DOMAIN res_rx, res_rx[i].out # None
        PROVE  res_rx[i].out = Some(Meaning[res_rx[i].id])
    <3>1. res_rx[i] \in Range(res_rx)
      BY DEF Range
    <3>2. res_rx[i].id \in needed /\ DepsDone(res_rx[i].id)
      BY <3>1, OutInHand DEF StartableNodes
    <3>3. res_rx[i].out = Some(ValueOf(res_rx[i].id, Args(res_rx[i].id)))
      BY <2>2, <3>1 DEF GraphInv, ArgInv, Ends
    <3>4. ValueOf(res_rx[i].id, Args(res_rx[i].id)) = Meaning[res_rx[i].id]
      BY <3>2, ArgsMean DEF GraphInv, KahnInv
    <3> QED BY <3>3, <3>4
  <2> QED BY <2>1, <2>2 DEF ValuesFollowDeps
<1> QED BY <1>1, GraphInvariance, PTL

-----------------------------------------------------------------------------
(* Places, seen from the hands.                                            *)

HandOf(p) == IF p[1] \in {"pending", "sending"} THEN HeldHand ELSE <<p[1], p[2]>>

\* The forms a place takes.
PlaceForm(p, n) ==
  \/ \E w \in WorkerIds : \E i \in 1 .. Len(queue[w]) : p = <<"queue", w, i>> /\ queue[w][i].id = n
  \/ \E w \in WorkerIds : p = <<"run", w, 0>> /\ wstate[w] = "running" /\ wtask[w][1].id = n
  \/ \E i \in 1 .. Len(res_rx) : p = <<"result", 0, i>> /\ res_rx[i].id = n
  \/ \E i \in DOMAIN ready : p = <<"ready", 0, i>> /\ ready[i] = n
  \/ \E i \in DOMAIN pending : p = <<"pending", 0, i>> /\ pending[i].id = n
  \/ \E i \in DOMAIN sending : p = <<"sending", 0, i>> /\ sending[i].id = n

LEMMA PlacesAreForms == ASSUME NEW n, NEW p PROVE p \in Places(n) <=> PlaceForm(p, n)
<1>1. p \in Slots /\ TaskOf(p) = n <=>
        \/ \E w \in WorkerIds : \E i \in 1 .. Len(queue[w]) : p = <<"queue", w, i>> /\ queue[w][i].id = n
        \/ \E w \in WorkerIds : p = <<"run", w, 0>> /\ wstate[w] = "running" /\ wtask[w][1].id = n
        \/ \E i \in 1 .. Len(res_rx) : p = <<"result", 0, i>> /\ res_rx[i].id = n
  <2>1. p \in QueuedIn(queue) <=> \E w \in WorkerIds : \E i \in 1 .. Len(queue[w]) : p = <<"queue", w, i>>
    BY DEF QueuedIn
  <2>2. p \in RunningIn(wstate) <=> \E w \in WorkerIds : p = <<"run", w, 0>> /\ wstate[w] = "running"
    BY DEF RunningIn
  <2>3. p \in ResultsIn(res_rx) <=> \E i \in 1 .. Len(res_rx) : p = <<"result", 0, i>>
    BY DEF ResultsIn
  <2>4. /\ \A w, i : TaskOf(<<"queue", w, i>>) = queue[w][i].id
        /\ \A w : TaskOf(<<"run", w, 0>>) = wtask[w][1].id
        /\ \A i : TaskOf(<<"result", 0, i>>) = res_rx[i].id
    BY DEF TaskOf
  <2> QED BY <2>1, <2>2, <2>3, <2>4 DEF Slots, BusySlots
<1> QED BY <1>1 DEF Places, PlaceForm

\* A place is in the hand of its name.
LEMMA PlaceInHand ==
  ASSUME Inv, GraphInv, NEW n, NEW p, PlaceForm(p, n)
  PROVE  HandOf(p) \in HandId /\ n \in Hands[HandOf(p)]
<1>1. /\ Hands[ReadyHand] = Range(ready)
      /\ Hands[HeldHand] = IdsOf(pending) \cup IdsOf(sending)
      /\ Hands[ResultHand] = IdsOf(res_rx)
      /\ \A w \in WorkerIds : Hands[QueueHand(w)] = IdsOf(queue[w]) /\ Hands[RunHand(w)] = IdsOf(wtask[w])
  BY HandFacts DEF Hands
<1>2. ASSUME NEW s, NEW i \in DOMAIN s, s[i].id = n PROVE n \in IdsOf(s)
  BY <1>2 DEF IdsOf, Range
<1>3. ASSUME NEW w \in WorkerIds, NEW i \in 1 .. Len(queue[w]), p = <<"queue", w, i>>, queue[w][i].id = n
      PROVE  HandOf(p) \in HandId /\ n \in Hands[HandOf(p)]
  <2>1. HandOf(p) = QueueHand(w)
    BY <1>3 DEF HandOf, QueueHand
  <2>2. i \in DOMAIN queue[w]
    BY TypesOfHands, LenProperties DEF Inv
  <2>3. n \in IdsOf(queue[w])
    BY <1>2, <1>3, <2>2
  <2> QED BY <1>1, <2>1, <2>3, HandIds
<1>4. ASSUME NEW w \in WorkerIds, p = <<"run", w, 0>>, wstate[w] = "running", wtask[w][1].id = n
      PROVE  HandOf(p) \in HandId /\ n \in Hands[HandOf(p)]
  <2>1. HandOf(p) = RunHand(w)
    BY <1>4 DEF HandOf, RunHand
  <2>2. IdsOf(wtask[w]) = {n}
    BY <1>4, RunningWorker, SlotIds
  <2> QED BY <1>1, <2>1, <2>2, HandIds
<1>5. ASSUME NEW i \in 1 .. Len(res_rx), p = <<"result", 0, i>>, res_rx[i].id = n
      PROVE  HandOf(p) \in HandId /\ n \in Hands[HandOf(p)]
  <2>1. HandOf(p) = ResultHand /\ i \in DOMAIN res_rx
    BY <1>5, TypesOfHands, LenProperties DEF HandOf, ResultHand, Inv
  <2>2. n \in IdsOf(res_rx)
    BY <1>2, <1>5, <2>1
  <2> QED BY <1>1, <2>1, <2>2, HandIds
<1>6. ASSUME NEW i \in DOMAIN ready, p = <<"ready", 0, i>>, ready[i] = n
      PROVE  HandOf(p) \in HandId /\ n \in Hands[HandOf(p)]
  <2>1. HandOf(p) = ReadyHand
    BY <1>6 DEF HandOf, ReadyHand
  <2>2. n \in Range(ready)
    BY <1>6 DEF Range
  <2> QED BY <1>1, <2>1, <2>2, HandIds
<1>7. ASSUME NEW i, \/ i \in DOMAIN pending /\ p = <<"pending", 0, i>> /\ pending[i].id = n
                    \/ i \in DOMAIN sending /\ p = <<"sending", 0, i>> /\ sending[i].id = n
      PROVE  HandOf(p) \in HandId /\ n \in Hands[HandOf(p)]
  <2>1. HandOf(p) = HeldHand
    BY <1>7 DEF HandOf
  <2>2. n \in IdsOf(pending) \cup IdsOf(sending)
    BY <1>2, <1>7
  <2> QED BY <1>1, <2>1, <2>2, HandIds
<1> QED BY <1>3, <1>4, <1>5, <1>6, <1>7 DEF PlaceForm

\* Within a hand a node has one place.
LEMMA OnePlaceInHand ==
  ASSUME Inv, GraphInv, NEW n, NEW p, NEW q, PlaceForm(p, n), PlaceForm(q, n), HandOf(p) = HandOf(q)
  PROVE  p = q
<1>1. /\ IsInjective(ready) /\ OncePerNode(res_rx)
      /\ \A w \in WorkerIds : OncePerNode(queue[w])
      /\ sending # None => pending = None
      /\ \A w \in WorkerIds : DOMAIN queue[w] = 1 .. Len(queue[w])
      /\ DOMAIN res_rx = 1 .. Len(res_rx)
  BY TypesOfHands, LenProperties DEF Inv, GraphInv, HandInv, OnceEach
<1>2. \A s \in Option(Task) : \A i \in DOMAIN s : i = 1 /\ s # None
  <2>1. DOMAIN None = {} /\ \A x : DOMAIN Some(x) = {1}
    BY DEF None, Some
  <2> QED BY <2>1, SlotIds
<1>3. \A i \in DOMAIN pending : i = 1 /\ pending # None
  BY <1>2, TypesOfHands DEF Inv
<1>4. \A i \in DOMAIN sending : i = 1 /\ sending # None
  BY <1>2, TypesOfHands DEF Inv
<1>5. CASE p[1] = "queue"
  <2>1. PICK w \in WorkerIds : \E i \in 1 .. Len(queue[w]) : p = <<"queue", w, i>> /\ queue[w][i].id = n
    BY <1>5 DEF PlaceForm
  <2>2. PICK i \in 1 .. Len(queue[w]) : p = <<"queue", w, i>> /\ queue[w][i].id = n
    BY <2>1
  <2>3. HandOf(q) = <<"queue", w>>
    BY <2>2 DEF HandOf
  <2>4. PICK j \in 1 .. Len(queue[w]) : q = <<"queue", w, j>> /\ queue[w][j].id = n
    BY <2>3 DEF PlaceForm, HandOf, HeldHand
  <2>5. i = j
    BY <1>1, <2>2, <2>4 DEF OncePerNode
  <2> QED BY <2>2, <2>4, <2>5
<1>6. CASE p[1] = "run"
  BY <1>6 DEF PlaceForm, HandOf, HeldHand
<1>7. CASE p[1] = "result"
  <2>1. PICK i \in 1 .. Len(res_rx) : p = <<"result", 0, i>> /\ res_rx[i].id = n
    BY <1>7 DEF PlaceForm
  <2>2. PICK j \in 1 .. Len(res_rx) : q = <<"result", 0, j>> /\ res_rx[j].id = n
    BY <2>1 DEF PlaceForm, HandOf, HeldHand
  <2>3. i = j
    BY <1>1, <2>1, <2>2 DEF OncePerNode
  <2> QED BY <2>1, <2>2, <2>3
<1>8. CASE p[1] = "ready"
  <2>1. PICK i \in DOMAIN ready : p = <<"ready", 0, i>> /\ ready[i] = n
    BY <1>8 DEF PlaceForm
  <2>2. PICK j \in DOMAIN ready : q = <<"ready", 0, j>> /\ ready[j] = n
    BY <2>1 DEF PlaceForm, HandOf, HeldHand
  <2>3. i = j
    BY <1>1, <2>1, <2>2 DEF IsInjective
  <2> QED BY <2>1, <2>2, <2>3
<1>9. CASE p[1] \in {"pending", "sending"}
  <2>1. q[1] \in {"pending", "sending"}
    BY <1>9 DEF PlaceForm, HandOf, HeldHand
  <2>2. \/ p = <<"pending", 0, 1>> /\ pending # None
        \/ p = <<"sending", 0, 1>> /\ sending # None
    BY <1>3, <1>4, <1>9 DEF PlaceForm
  <2>3. \/ q = <<"pending", 0, 1>> /\ pending # None
        \/ q = <<"sending", 0, 1>> /\ sending # None
    BY <1>3, <1>4, <2>1 DEF PlaceForm
  <2> QED BY <1>1, <2>2, <2>3
<1> QED BY <1>5, <1>6, <1>7, <1>8, <1>9 DEF PlaceForm

(***************************************************************************)
(* Each node is evaluated at most once, only if needed and only after its  *)
(* deps, on every schedule: two places of a node would be in two hands, or *)
(* twice in one.                                                           *)
(***************************************************************************)
THEOREM OncePerRequest == Spec => []NoDuplicateWork
<1>1. Inv /\ GraphInv => NoDuplicateWork
  <2> SUFFICES ASSUME Inv, GraphInv, NEW n \in NodeId
               PROVE  /\ Cardinality(Places(n)) <= 1
                      /\ Places(n) # {} => n \in needed /\ vals[n] = None /\ DepsDone(n)
    BY DEF NoDuplicateWork
  <2>1. ASSUME NEW p \in Places(n), NEW q \in Places(n) PROVE p = q
    <3>1. PlaceForm(p, n) /\ PlaceForm(q, n)
      BY PlacesAreForms
    <3>2. /\ HandOf(p) \in HandId /\ n \in Hands[HandOf(p)]
          /\ HandOf(q) \in HandId /\ n \in Hands[HandOf(q)]
      BY <3>1, PlaceInHand
    <3>3. DOMAIN Hands = HandId /\ Disjoint(Hands)
      BY HandFacts DEF Hands, GraphInv, HandInv
    <3>4. HandOf(p) = HandOf(q)
      BY <3>2, <3>3 DEF Disjoint
    <3> QED BY <3>1, <3>4, OnePlaceInHand
  <2>2. CASE Places(n) = {}
    BY <2>2, FS_EmptySet
  <2>3. CASE Places(n) # {}
    <3>1. PICK p \in Places(n) : TRUE
      BY <2>3
    <3>2. Places(n) = {p}
      BY <2>1
    <3>3. Cardinality(Places(n)) = 1
      BY <3>2, FS_Singleton
    <3>4. HandOf(p) \in HandId /\ n \in Hands[HandOf(p)] /\ DOMAIN Hands = HandId
      BY PlacesAreForms, PlaceInHand, HandFacts DEF Hands
    <3>5. n \in InHand
      BY <3>4 DEF InHand, AllOf
    <3> QED BY <3>3, <3>5, OutInHand DEF StartableNodes
  <2> QED BY <2>2, <2>3
<1> QED BY <1>1, GraphInvariance, PTL

\* A node in a hand has a place.
LEMMA InHandHasPlace ==
  ASSUME Inv, GraphInv, NEW n \in InHand
  PROVE  \E p : PlaceForm(p, n)
<1>1. PICK h \in HandId : n \in Hands[h]
  <2>1. DOMAIN Hands = HandId
    BY HandFacts DEF Hands
  <2> QED BY <2>1 DEF InHand, AllOf
<1>2. /\ Hands[ReadyHand] = Range(ready)
      /\ Hands[HeldHand] = IdsOf(pending) \cup IdsOf(sending)
      /\ Hands[ResultHand] = IdsOf(res_rx)
      /\ \A w \in WorkerIds : Hands[QueueHand(w)] = IdsOf(queue[w]) /\ Hands[RunHand(w)] = IdsOf(wtask[w])
  BY HandFacts DEF Hands
<1>3. ASSUME NEW s, n \in IdsOf(s) PROVE \E i \in DOMAIN s : s[i].id = n
  BY <1>3 DEF IdsOf, Range
<1>4. CASE h = ReadyHand
  <2>1. PICK i \in DOMAIN ready : ready[i] = n
    BY <1>1, <1>2, <1>4 DEF Range
  <2>2. PlaceForm(<<"ready", 0, i>>, n)
    BY <2>1 DEF PlaceForm
  <2> QED BY <2>2
<1>5. CASE h = HeldHand
  <2>1. CASE n \in IdsOf(pending)
    <3>1. PICK i \in DOMAIN pending : pending[i].id = n
      BY <1>3, <2>1
    <3>2. PlaceForm(<<"pending", 0, i>>, n)
      BY <3>1 DEF PlaceForm
    <3> QED BY <3>2
  <2>2. CASE n \in IdsOf(sending)
    <3>1. PICK i \in DOMAIN sending : sending[i].id = n
      BY <1>3, <2>2
    <3>2. PlaceForm(<<"sending", 0, i>>, n)
      BY <3>1 DEF PlaceForm
    <3> QED BY <3>2
  <2> QED BY <1>1, <1>2, <1>5, <2>1, <2>2
<1>6. CASE h = ResultHand
  <2>1. PICK i \in DOMAIN res_rx : res_rx[i].id = n
    BY <1>1, <1>2, <1>3, <1>6
  <2>2. i \in 1 .. Len(res_rx)
    BY TypesOfHands, LenProperties DEF Inv
  <2>3. PlaceForm(<<"result", 0, i>>, n)
    BY <2>1, <2>2 DEF PlaceForm
  <2> QED BY <2>3
<1>7. ASSUME NEW w \in WorkerIds, h = QueueHand(w) PROVE \E p : PlaceForm(p, n)
  <2>1. PICK i \in DOMAIN queue[w] : queue[w][i].id = n
    BY <1>1, <1>2, <1>3, <1>7
  <2>2. i \in 1 .. Len(queue[w])
    BY TypesOfHands, LenProperties DEF Inv
  <2>3. PlaceForm(<<"queue", w, i>>, n)
    BY <2>1, <2>2 DEF PlaceForm
  <2> QED BY <2>3
<1>8. ASSUME NEW w \in WorkerIds, h = RunHand(w) PROVE \E p : PlaceForm(p, n)
  <2>1. n \in IdsOf(wtask[w])
    BY <1>1, <1>2, <1>8
  <2>2. wtask[w] # None /\ wtask[w] \in Option(Task)
    BY <2>1, SlotIds, TypesOfHands DEF Inv
  <2>3. wstate[w] = "running" /\ wtask[w][1].id = n
    BY <2>1, <2>2, SlotIds DEF GraphInv, HandInv, OnceEach
  <2>4. PlaceForm(<<"run", w, 0>>, n)
    BY <2>3 DEF PlaceForm
  <2> QED BY <2>4
<1> QED BY <1>4, <1>5, <1>6, <1>7, <1>8, HandIds

(***************************************************************************)
(* No needed node is forgotten: while the loop runs and no worker has      *)
(* died, a node whose deps are done is done or in one of the hands, and so *)
(* in one of the places.                                                   *)
(***************************************************************************)
THEOREM NoneForgotten == Spec => []NothingForgotten
<1>1. Inv /\ GraphInv => NothingForgotten
  <2> SUFFICES ASSUME Inv, GraphInv, Scheduling, PoolIntact,
                      NEW n \in needed, DepsDone(n), vals[n] = None
               PROVE  Places(n) # {}
    BY DEF NothingForgotten
  <2>1. n \in InHand
    BY DEF GraphInv, LostInv, StartableNodes
  <2> QED BY <2>1, InHandHasPlace, PlacesAreForms
<1> QED BY <1>1, GraphInvariance, PTL

-----------------------------------------------------------------------------
(***************************************************************************)
(* A panic leaves a debt: the task that was running is in in_flight and in *)
(* no slot, so in_flight cannot come back to 0, and no Cycle is reported.  *)
(***************************************************************************)
DebtInv == Scheduling /\ ~ PoolIntact => Cardinality(Slots) < in_flight

LEMMA DebtKept ==
  ASSUME Inv, DebtInv, UNCHANGED <<in_flight, queue, res_rx, wstate>>,
         Scheduling' => Scheduling
  PROVE  DebtInv'
<1>1. Slots' = Slots /\ PoolIntact' = PoolIntact
  BY DEF Slots, BusySlots, QueuedIn, RunningIn, ResultsIn, PoolIntact
<1> QED BY <1>1 DEF DebtInv

LEMMA DebtWorker ==
  ASSUME Inv, DebtInv, OpenInv, NEW w \in WorkerIds, Worker(w) PROVE DebtInv'
<1>1. UNCHANGED <<pc, in_flight>> /\ (Scheduling' <=> Scheduling)
  BY DEF Worker, TakeTask, FinishTask, SendResult, PanicTask, ExitWorker, Scheduling
<1>2. CASE TakeTask(w)
  <2>1. Cardinality(Slots') = Cardinality(Slots)
    BY <1>2, TakeTaskSlots, MovedSlot
  <2>2. PoolIntact => PoolIntact'
    BY <1>2, TypesOfHands DEF TakeTask, PoolIntact, Inv
  <2> QED BY <1>1, <2>1, <2>2 DEF DebtInv
<1>3. CASE FinishTask(w)
  <2>1. wstate[w] = "running"
    BY <1>3 DEF FinishTask
  <2>2. res_rx_open
    BY <2>1, RunningWorker
  <2>3. PICK out \in Option(Value) : SendResult(w, out)
    BY <1>3, <2>1, TaskFacts, RunningWorker, OptionProperties DEF FinishTask
  <2>4. Cardinality(Slots') = Cardinality(Slots)
    BY <2>1, <2>2, <2>3, SendResultSlots, MovedSlot
  <2>5. PoolIntact => PoolIntact'
    BY <2>2, <2>3, TypesOfHands DEF SendResult, PoolIntact, Inv
  <2> QED BY <1>1, <2>4, <2>5 DEF DebtInv
<1>4. CASE PanicTask(w)
  <2> DEFINE slot == <<"run", w, 0>>
  <2>1. slot \in Slots
    BY <1>4 DEF PanicTask, Slots, BusySlots, RunningIn
  <2>2. slot \notin Slots'
    <3>1. wstate'[w] = "exited"
      BY <1>4, TypesOfHands DEF PanicTask, Inv
    <3> QED BY <3>1 DEF Slots, BusySlots, QueuedIn, RunningIn, ResultsIn
  <2>3. Slots' \subseteq Slots \ {slot} /\ IsFiniteSet(Slots \ {slot})
        /\ Cardinality(Slots \ {slot}) = Cardinality(Slots) - 1
    BY <1>4, <2>1, <2>2, PanicTaskSlots, FS_RemoveElement DEF Inv, SlotInv
  <2>4. Cardinality(Slots') <= Cardinality(Slots) - 1 /\ Cardinality(Slots') \in Nat
    BY <2>3, FS_Subset, FS_CardinalityType
  <2>5. Cardinality(Slots) \in Nat /\ Cardinality(Slots) <= in_flight /\ in_flight \in Nat
    BY CardinalitySlots DEF Inv, SlotInv, TypeInv, TypeOK
  <2> QED BY <1>1, <2>4, <2>5 DEF DebtInv
<1>5. CASE ExitWorker(w)
  <2>1. ~ Scheduling
    BY <1>5 DEF ExitWorker, OpenInv
  <2> QED BY <1>1, <2>1 DEF DebtInv
<1> QED BY <1>2, <1>3, <1>4, <1>5 DEF Worker

LEMMA DebtStep == Inv /\ OpenInv /\ DebtInv /\ [Next]_vars => DebtInv'
<1> SUFFICES ASSUME Inv, OpenInv, DebtInv, [Next]_vars PROVE DebtInv'
  OBVIOUS
<1>1. Cardinality(Slots) \in Nat /\ in_flight \in Nat
  BY CardinalitySlots DEF Inv, TypeInv, TypeOK
<1>2. CASE RejectCall \/ RejectOutput
  BY <1>2 DEF RejectCall, RejectOutput, Rejected, DebtInv, Scheduling
<1>3. CASE Start
  <2>1. PoolIntact'
    BY <1>3 DEF Start, PoolIntact
  <2> QED BY <2>1 DEF DebtInv
<1>4. CASE RetryPending \/ RunSource \/ PrepareTask
  BY <1>4, DebtKept DEF RetryPending, RunSource, PrepareTask, PopReady, Scheduling, channels, workers
<1>5. CASE TrySend
  <2>1. Cardinality(Slots') = Cardinality(Slots) + 1 /\ in_flight' = in_flight + 1
    BY <1>5, TrySendAdds DEF TrySend
  <2>2. Scheduling /\ PoolIntact' = PoolIntact
    BY <1>5 DEF TrySend, workers, Scheduling, PoolIntact
  <2> QED BY <1>1, <2>1, <2>2 DEF DebtInv
<1>6. CASE TryFull \/ TryDisconnected \/ StopDispatching \/ ReportCycle
  BY <1>6, DebtKept DEF TryFull, TryDisconnected, StopDispatching, ReportCycle, Leave, Scheduling,
                        channels, workers
<1>7. CASE ReceiveOk
  <2>1. PICK r : TakeResult(r)
    BY <1>7 DEF ReceiveOk
  <2>2. UNCHANGED <<queue, wstate>>
    BY <1>7 DEF ReceiveOk, workers
  <2>3. Cardinality(Slots') = Cardinality(Slots) - 1 /\ in_flight' = in_flight - 1
    BY <2>1, <2>2, TakeResultRemoves DEF TakeResult
  <2>4. Scheduling /\ PoolIntact' = PoolIntact
    BY <2>1, <2>2 DEF TakeResult, Scheduling, PoolIntact
  <2> QED BY <1>1, <2>3, <2>4 DEF DebtInv
<1>8. CASE ReceiveErr \/ Return
  BY <1>8 DEF ReceiveErr, Return, Leave, DebtInv, Scheduling
<1>9. CASE ReceiveDisconnected \/ ClosePool
  BY <1>9, DebtKept DEF ReceiveDisconnected, ClosePool, Leave, Scheduling, channels, workers
<1>10. ASSUME NEW w \in WorkerIds, Worker(w) PROVE DebtInv'
  BY <1>10, DebtWorker
<1>11. CASE UNCHANGED vars
  BY <1>11, DebtKept DEF vars, channels, workers, Scheduling
<1> QED BY <1>2, <1>3, <1>4, <1>5, <1>6, <1>7, <1>8, <1>9, <1>10, <1>11 DEF Next, Scheduler, Finished

-----------------------------------------------------------------------------
(* How a call ends.                                                        *)

OutcomeTags ==
  {"Running", "Evaluated", "Ok", "TaskFailed", "OutputMissing", "Cycle", "InternalInvariant"}

\* The loop has no result; it ends with Evaluated once it has counted the cone,
\* and the call with one of the other outcomes.
LoopResult ==
  /\ Scheduling => result = [tag |-> "Running"]
  /\ result.tag = "Running" => Scheduling
  /\ result.tag = "Evaluated" => needed # {} /\ ~ MoreToDo(processed)
  /\ pc = "returned" => result.tag \notin {"Running", "Evaluated"}
  /\ result.tag \in OutcomeTags

EndInv == LoopResult /\ CycleIsExact /\ OutcomeIsJustified

AllInv == Inv /\ GraphInv /\ OpenInv /\ DebtInv /\ StallMeansIdle

\* With nothing in flight and nothing ready, what has no value cannot get one.
LEMMA CycleFound ==
  ASSUME AllInv, pc = "wait", in_flight = 0
  PROVE  StartableNodes = {} /\ Remaining = needed \ Evaluable(needed)
<1>1. ready = <<>> /\ pending = None /\ Slots = {} /\ sending = None /\ Scheduling
  BY DEF AllInv, StallMeansIdle, GraphInv, HandInv, OnceEach, Scheduling
<1>2. PoolIntact
  <2>1. Cardinality(Slots) = 0
    BY <1>1, FS_EmptySet
  <2> QED BY <1>1, <2>1 DEF AllInv, DebtInv
<1>3. InHand = {}
  <2> SUFFICES ASSUME NEW n \in InHand PROVE FALSE
    OBVIOUS
  <2>1. Places(n) # {}
    BY InHandHasPlace, PlacesAreForms DEF AllInv
  <2> QED BY <1>1, <2>1 DEF Places, None
<1>4. StartableNodes = {}
  BY <1>1, <1>2, <1>3 DEF AllInv, GraphInv, LostInv
<1>5. KahnOK /\ needed \in SUBSET NodeId
  BY DEF AllInv, GraphInv, KahnInv, KahnOK, KahnTypes
<1>6. Evaluable(needed) \subseteq ValuedNodes
  <2>1. ASSUME NEW m \in needed, DepSet(m) \subseteq ValuedNodes PROVE m \in ValuedNodes
    <3>1. DepsDone(m)
      BY <2>1 DEF DepsDone, ValuedNodes
    <3> QED BY <1>4, <1>5, <3>1 DEF StartableNodes, ValuedNodes
  <2>2. ValuedNodes \in SUBSET NodeId
    BY DEF ValuedNodes
  <2> QED BY <1>5, <2>1, <2>2, EvaluableLeast
<1>7. Remaining = needed \ ValuedNodes
  BY <1>4, <1>5, RemainingIsUnvalued DEF ValuedNodes
<1>8. ValuedNodes \subseteq Evaluable(needed)
  BY <1>5 DEF KahnOK, MeaningOK, ValuedNodes
<1> QED BY <1>4, <1>6, <1>7, <1>8

LEMMA EndKept ==
  ASSUME EndInv, UNCHANGED <<outs, cfg, needed, vals, processed, result>>, Scheduling' <=> Scheduling,
         pc' = "returned" => pc = "returned" \/ result.tag # "Evaluated"
  PROVE  EndInv'
<1>1. BadCall' = BadCall /\ Evaluable(needed)' = Evaluable(needed) /\ MoreToDo(processed)' = MoreToDo(processed)
  BY DEF BadCall, Evaluable, MoreToDo
<1>2. pc' = "returned" => ~ Scheduling'
  BY DEF Scheduling
<1>3. LoopResult' /\ CycleIsExact'
  BY <1>1, <1>2 DEF EndInv, LoopResult, OutcomeTags, CycleIsExact
<1>4. OutcomeIsJustified'
  <2>1. OutcomeIsJustified
    BY DEF EndInv
  <2>2. CASE result.tag = "Ok"
    BY <2>1, <2>2 DEF OutcomeIsJustified, SameAnswer, Answer
  <2>3. CASE result.tag = "TaskFailed"
    BY <2>1, <2>3 DEF OutcomeIsJustified, DepsDone
  <2>4. CASE result.tag = "OutputMissing"
    BY <1>1, <2>1, <2>4 DEF OutcomeIsJustified
  <2>5. CASE result.tag = "Cycle"
    BY <2>1, <2>5 DEF OutcomeIsJustified, DepsDone
  <2>6. CASE result.tag = "InternalInvariant"
    BY <1>1, <2>1, <2>6 DEF OutcomeIsJustified, DepsDone
  <2>7. CASE result.tag \in {"Running", "Evaluated"}
    <3>1. pc' # "returned"
      BY <1>3, <2>7 DEF LoopResult
    <3> QED BY <2>7, <3>1 DEF OutcomeIsJustified
  <2> QED BY <2>2, <2>3, <2>4, <2>5, <2>6, <2>7 DEF EndInv, LoopResult, OutcomeTags
<1> QED BY <1>3, <1>4 DEF EndInv

LEMMA EndRunning == ASSUME result' = [tag |-> "Running"], Scheduling' PROVE EndInv'
<1>1. pc' # "returned"
  BY DEF Scheduling
<1> QED BY <1>1 DEF EndInv, LoopResult, OutcomeTags, CycleIsExact, OutcomeIsJustified

\* A worker is gone while the loop runs: some closure of a startable node panicked.
LEMMA SomeonePanicked ==
  ASSUME AllInv, Scheduling, ~ PoolIntact
  PROVE  \E n \in needed \ {m \in NodeId : vals[m] # None} : "panic" \in Behaviour[n] /\ DepsDone(n)
<1>1. PICK n \in StartableNodes : "panic" \in Behaviour[n]
  BY DEF AllInv, GraphInv, LostInv
<1> QED BY <1>1 DEF StartableNodes

LEMMA RejectEnd == ASSUME AllInv, RejectCall \/ RejectOutput PROVE EndInv'
<1>1. ~ Scheduling' /\ UNCHANGED <<outs, cfg, needed, vals>> /\ needed = {}
  BY DEF RejectCall, RejectOutput, Rejected, Scheduling, call, tables, AllInv, GraphInv, KahnInv
<1>2. CASE RejectCall
  <2>1. BadCall' /\ result' = [tag |-> "InternalInvariant", what |-> "call"]
    BY <1>2 DEF RejectCall, Rejected, BadCall, call
  <2> QED BY <1>1, <2>1 DEF EndInv, LoopResult, OutcomeTags, CycleIsExact, OutcomeIsJustified
<1>3. CASE RejectOutput
  <2>1. PICK key \in UnknownKeys : MissingOutput(key) /\ result' = [tag |-> "OutputMissing", key |-> key]
    BY <1>3 DEF RejectOutput, Rejected
  <2>2. ~ BadCall'
    BY <1>1, <1>3 DEF RejectOutput, BadCall
  <2>3. PICK i \in DOMAIN outs : outs[i] = key /\ \A j \in 1 .. i - 1 : outs[j] \in NodeId
    BY <2>1 DEF MissingOutput
  <2>4. result'.tag = "OutputMissing" /\ result'.key = key
    BY <2>1
  <2>5. OutcomeIsJustified'
    BY <1>1, <2>2, <2>3, <2>4 DEF OutcomeIsJustified
  <2> QED BY <1>1, <2>4, <2>5 DEF EndInv, LoopResult, OutcomeTags, CycleIsExact
<1> QED BY <1>2, <1>3

\* A channel is found disconnected: the worker behind it has gone.
LEMMA WorkerIsLost ==
  ASSUME AllInv, TryDisconnected \/ ReceiveDisconnected
  PROVE  Scheduling /\ ~ PoolIntact
<1>1. Scheduling
  BY DEF TryDisconnected, ReceiveDisconnected, Scheduling
<1>2. CASE TryDisconnected
  <2>1. TryWorker \in WorkerIds
    BY <1>2, TryWorkerFacts DEF TryDisconnected, AllInv, Inv, TypeInv, Control, Started
  <2> QED BY <1>1, <1>2, <2>1 DEF TryDisconnected, Disconnected, PoolIntact
<1>3. CASE ReceiveDisconnected
  <2>1. cfg.max_workers \in Nat \ {0} /\ 0 .. cfg.max_workers - 1 \subseteq WorkerIds
    BY <1>3, ConfigFacts DEF ReceiveDisconnected, BadCall, AllInv, Inv, TypeInv, Control, Started
  <2>2. 0 \in 0 .. cfg.max_workers - 1 /\ 0 \in WorkerIds
    BY <2>1
  <2>3. wstate[0] # "unborn" /\ wstate[0] \in {"unborn", "exited"}
    BY <1>3, <2>2 DEF ReceiveDisconnected, ResultSendersGone, AllExited, AllInv, Inv, PoolInv, Started
  <2> QED BY <1>1, <2>2, <2>3 DEF PoolIntact
<1> QED BY <1>2, <1>3

\* The loop breaks off: the pool has lost a worker, or there is a cycle.
LEMMA BreakEnd ==
  ASSUME AllInv, TryDisconnected \/ ReceiveDisconnected \/ ReportCycle
  PROVE  EndInv'
<1>1. pc' = "close" /\ ~ Scheduling' /\ Scheduling /\ UNCHANGED <<outs, cfg, needed, vals>>
  BY DEF TryDisconnected, ReceiveDisconnected, ReportCycle, Leave, Scheduling, call, tables
<1>2. CASE TryDisconnected \/ ReceiveDisconnected
  <2>1. ~ PoolIntact
    BY <1>2, WorkerIsLost
  <2>2. PICK n \in needed \ {m \in NodeId : vals[m] # None} : "panic" \in Behaviour[n] /\ DepsDone(n)
    BY <1>1, <2>1, SomeonePanicked
  <2>3. result'.tag = "InternalInvariant" /\ result'.what \in ChannelErrors
    <3>1. CASE TryDisconnected
      <4>1. result' = [tag |-> "InternalInvariant", what |-> "task channel"]
        BY <3>1 DEF TryDisconnected, Leave
      <4> QED BY <4>1 DEF ChannelErrors
    <3>2. CASE ReceiveDisconnected
      <4>1. result' = [tag |-> "InternalInvariant", what |-> "result channel"]
        BY <3>2 DEF ReceiveDisconnected, Leave
      <4> QED BY <4>1 DEF ChannelErrors
    <3> QED BY <1>2, <3>1, <3>2
  <2>4. n \in needed' \ {m \in NodeId : vals'[m] # None} /\ "panic" \in Behaviour[n] /\ DepsDone(n)'
    BY <1>1, <2>2 DEF DepsDone
  <2>5. OutcomeIsJustified'
    BY <2>3, <2>4 DEF OutcomeIsJustified
  <2> QED BY <1>1, <2>3, <2>5 DEF EndInv, LoopResult, OutcomeTags, CycleIsExact
<1>3. CASE ReportCycle
  <2>1. /\ result' = [tag |-> "Cycle", remaining |-> Ascending(Remaining)]
        /\ StartableNodes = {} /\ Remaining = needed \ Evaluable(needed)
    BY <1>3, CycleFound DEF ReportCycle, Leave
  <2>2. Evaluable(needed)' = Evaluable(needed)
    BY <1>1 DEF Evaluable
  <2>3. Remaining = {n \in needed : vals[n] = None} /\ needed \in SUBSET NodeId
    BY <2>1, RemainingIsUnvalued DEF AllInv, GraphInv, KahnInv, KahnOK, KahnTypes
  <2>4. Range(Ascending(Remaining)) = needed \ {n \in NodeId : vals[n] # None}
    <3>1. Remaining = needed \ {n \in NodeId : vals[n] # None} /\ Remaining \in SUBSET NodeId
      BY <2>3
    <3> QED BY <3>1, AscendingOnce
  <2>5. \A n \in needed \ {m \in NodeId : vals[m] # None} : ~ DepsDone(n)
    BY <2>1, <2>3 DEF StartableNodes
  <2>6. \A n \in needed : DepsDone(n)' = DepsDone(n)
    BY <1>1 DEF DepsDone
  <2>7. result'.tag = "Cycle" /\ result'.remaining = Ascending(Remaining)
    BY <2>1
  <2>8. OutcomeIsJustified'
    BY <1>1, <2>4, <2>5, <2>6, <2>7 DEF OutcomeIsJustified
  <2> QED BY <1>1, <2>1, <2>2, <2>7, <2>8 DEF EndInv, LoopResult, OutcomeTags, CycleIsExact
<1> QED BY <1>2, <1>3

LEMMA ReceiveEnd ==
  ASSUME AllInv, LoopResult, ReceiveOk \/ ReceiveErr
  PROVE  EndInv'
<1>1. pc = "wait" /\ result = [tag |-> "Running"] /\ res_rx # <<>> /\ Head(res_rx) \in Range(res_rx)
  <2>1. pc = "wait" /\ res_rx # <<>>
    BY DEF ReceiveOk, ReceiveErr, TakeResult
  <2> QED BY <2>1, TailIds, TypesOfHands DEF LoopResult, Scheduling, AllInv, Inv, GraphInv, HandInv, OnceEach
<1>2. CASE ReceiveOk
  <2>1. PICK n \in NodeId, v \in Value :
          /\ TakeResult([id |-> n, out |-> Some(v)])
          /\ \/ pc' = "dispatch" /\ result' = result
             \/ ~ MoreToDo(processed') /\ result' = [tag |-> "Evaluated"] /\ pc' = "close"
          /\ needed' = needed
    BY <1>2 DEF ReceiveOk, Leave
  <2>2. n \in needed
    <3>1. Head(res_rx).id = n
      BY <2>1 DEF TakeResult
    <3> QED BY <1>1, <3>1, OutInHand DEF AllInv, StartableNodes
  <2>3. CASE pc' = "dispatch" /\ result' = result
    BY <1>1, <2>3, EndRunning DEF Scheduling
  <2>4. CASE ~ MoreToDo(processed') /\ result' = [tag |-> "Evaluated"] /\ pc' = "close"
    <3>1. ~ MoreToDo(processed)' /\ needed' # {}
      BY <2>1, <2>2, <2>4 DEF MoreToDo
    <3> QED BY <2>4, <3>1 DEF EndInv, LoopResult, OutcomeTags, CycleIsExact, OutcomeIsJustified, Scheduling
  <2> QED BY <2>1, <2>3, <2>4
<1>3. CASE ReceiveErr
  <2>1. PICK n \in NodeId :
          /\ Head(res_rx) = [id |-> n, out |-> None]
          /\ result' = [tag |-> "TaskFailed", task |-> n] /\ pc' = "close"
          /\ UNCHANGED <<needed, vals>>
    BY <1>3 DEF ReceiveErr, TakeResult, Leave, tables
  <2>2. Head(res_rx).id = n /\ Head(res_rx).out = None
    BY <2>1
  <2>3. "err" \in Behaviour[n]
    BY <1>1, <2>2 DEF AllInv, GraphInv, ArgInv, Ends
  <2>4. n \in needed /\ DepsDone(n) /\ vals[n] = None
    BY <1>1, <2>2, OutInHand DEF AllInv, StartableNodes
  <2>5. n \in needed' \ {m \in NodeId : vals'[m] # None} /\ DepsDone(n)'
    BY <2>1, <2>4 DEF DepsDone
  <2>6. result'.tag = "TaskFailed" /\ result'.task = n
    BY <2>1
  <2>7. OutcomeIsJustified'
    BY <2>3, <2>5, <2>6 DEF OutcomeIsJustified
  <2> QED BY <2>1, <2>6, <2>7 DEF EndInv, LoopResult, OutcomeTags, CycleIsExact, Scheduling
<1> QED BY <1>2, <1>3

LEMMA ReturnEnd == ASSUME AllInv, EndInv, Return PROVE EndInv'
<1>1. /\ ~ Scheduling' /\ UNCHANGED <<outs, cfg, needed, vals, processed>>
      /\ result' = IF result.tag = "Evaluated" THEN Collected ELSE result
  BY DEF Return, Scheduling, call, tables
<1>2. CASE result.tag # "Evaluated"
  <2>1. ~ Scheduling /\ UNCHANGED result
    BY <1>1, <1>2 DEF Return, Scheduling
  <2> QED BY <1>1, <1>2, <2>1, EndKept
<1>3. CASE result.tag = "Evaluated"
  <2>1. KahnOK /\ needed # {} /\ ~ (processed < Cardinality(needed)) /\ processed = Cardinality(ValuedNodes)
    BY <1>3 DEF EndInv, LoopResult, MoreToDo, AllInv, GraphInv, KahnInv
  <2>2. \A n \in needed : vals[n] # None
    <3>1. Cardinality(needed) \in Nat
      <4>1. IsFiniteSet(needed)
        BY <2>1, NodeSets DEF KahnOK, KahnTypes
      <4> QED BY <4>1, FS_CardinalityType
    <3> QED BY <2>1, <3>1, CountSaysAll
  <2>3. result' = [tag |-> "Ok",
                   outputs |-> [n \in NodeId |-> IF n \in Range(outs) THEN vals[n] ELSE None]]
    BY <1>1, <1>3, <2>1, <2>2, CollectedOk
  <2>4. Range(outs) \subseteq needed /\ needed \subseteq NodeId /\ needed = {n \in NodeId : vals[n] # None}
    BY <2>1, <2>2 DEF KahnOK, KahnTypes
  <2>5. result'.tag = "Ok" /\ SameAnswer'
    BY <1>1, <1>3, <2>1, <2>2, <2>3, CollectedOk DEF SameAnswer, Answer
  <2>6. OutcomeIsJustified'
    BY <1>1, <2>4, <2>5 DEF OutcomeIsJustified
  <2> QED BY <1>1, <2>5, <2>6 DEF EndInv, LoopResult, OutcomeTags, CycleIsExact
<1> QED BY <1>2, <1>3

LEMMA EndStep == AllInv /\ EndInv /\ [Next]_vars => EndInv'
<1> SUFFICES ASSUME AllInv, EndInv, [Next]_vars PROVE EndInv'
  OBVIOUS
<1>1. CASE Start \/ RetryPending \/ RunSource \/ TrySend \/ TryFull \/ StopDispatching
  <2>1. Scheduling /\ Scheduling' /\ result' = result
    BY <1>1 DEF Start, Seed, RetryPending, RunSource, PopReady, TrySend, TryFull, StopDispatching, Scheduling
  <2> QED BY <2>1, EndRunning DEF EndInv, LoopResult
<1>2. CASE PrepareTask
  <2>1. Scheduling /\ UNCHANGED result /\ result = [tag |-> "Running"]
    BY <1>2, PrepareTaskGraph DEF PrepareTask, PopReady, Scheduling, AllInv, EndInv, LoopResult
  <2>2. pc' = "send" \/ result' = [tag |-> "InternalInvariant", what |-> "dep missing"]
    BY <1>2 DEF PrepareTask, Leave
  <2>3. Scheduling'
    BY <2>1, <2>2 DEF Scheduling
  <2> QED BY <2>1, <2>3, EndRunning
<1>3. CASE RejectCall \/ RejectOutput
  BY <1>3, RejectEnd
<1>4. CASE TryDisconnected \/ ReceiveDisconnected \/ ReportCycle
  BY <1>4, BreakEnd
<1>5. CASE ReceiveOk \/ ReceiveErr
  BY <1>5, ReceiveEnd DEF EndInv
<1>6. CASE ClosePool
  BY <1>6, EndKept DEF ClosePool, Scheduling, call, tables
<1>7. CASE Return
  BY <1>7, ReturnEnd
<1>8. ASSUME NEW w \in WorkerIds, Worker(w) PROVE EndInv'
  BY <1>8, EndKept DEF Worker, TakeTask, FinishTask, SendResult, PanicTask, ExitWorker,
                       Scheduling, call, tables
<1>9. CASE UNCHANGED vars
  BY <1>9, EndKept DEF vars, Scheduling, call, tables
<1> QED BY <1>1, <1>2, <1>3, <1>4, <1>5, <1>6, <1>7, <1>8, <1>9 DEF Next, Scheduler, Finished

LEMMA EndInvariance == Spec => []EndInv
<1>1. Init => DebtInv /\ EndInv
  <2>1. Init => PoolIntact
    BY DEF Init, PoolIntact
  <2>2. Init => EndInv
    BY DEF Init, Scheduling, TablesInit, EndInv, LoopResult, OutcomeTags, CycleIsExact, OutcomeIsJustified
  <2> QED BY <2>1, <2>2 DEF DebtInv
<1>2. Inv /\ OpenInv /\ DebtInv /\ [Next]_vars => DebtInv'
  BY DebtStep
<1>3. (Inv /\ GraphInv /\ OpenInv /\ DebtInv /\ StallMeansIdle) /\ EndInv /\ [Next]_vars => EndInv'
  BY EndStep DEF AllInv
<1> QED BY <1>1, <1>2, <1>3, GraphInvariance, StallIsIdle, PTL DEF Spec

(***************************************************************************)
(* A Cycle error names exactly the needed nodes no order of evaluation     *)
(* reaches, in NodeId order, whatever the schedule and whoever panics.     *)
(***************************************************************************)
THEOREM CycleNamesCycle == Spec => []CycleIsExact
<1>1. EndInv => CycleIsExact
  BY DEF EndInv
<1> QED BY <1>1, EndInvariance, PTL

(***************************************************************************)
(* Every way a call ends is justified, for every graph, pool and schedule  *)
(* and however the closures end: Ok holds the value of every requested key *)
(* with the whole cone evaluated; TaskFailed names a needed task that      *)
(* could fail; Cycle names exactly the nodes without a value, and each of  *)
(* these waits for a dep; an internal invariant other than a bad call's    *)
(* comes of a channel, with a needed closure that could run and panic left *)
(* without a value, and never of a missing dep; there are no other ends.   *)
(***************************************************************************)
THEOREM EveryEndJustified == Spec => []OutcomeIsJustified
<1>1. EndInv => OutcomeIsJustified
  BY DEF EndInv
<1> QED BY <1>1, EndInvariance, PTL

(***************************************************************************)
(* run_parallel gives the answer the graph and the request determine, with *)
(* any number of workers and any capacities, under every schedule.         *)
(***************************************************************************)
THEOREM ParallelAgrees == Spec => []SameAnswer
<1>1. EndInv => SameAnswer
  BY DEF EndInv, OutcomeIsJustified, SameAnswer
<1> QED BY <1>1, EndInvariance, PTL

-----------------------------------------------------------------------------
(* The line of nodes waiting for dispatch.                                 *)

LineOf(snd, pnd, rq) ==
  [i \in DOMAIN snd |-> snd[i].id] \o [i \in DOMAIN pnd |-> pnd[i].id] \o rq

\* From line L to line M at most the first leaves, and others come at the end.
Advances(L, M) ==
  \E k \in {0, 1} :
    /\ k <= Len(L) /\ Len(L) - k <= Len(M)
    /\ \A i \in 1 .. Len(L) - k : M[i] = L[i + k]

LEMMA LineForms ==
  ASSUME NEW rq \in Seq(NodeId)
  PROVE  /\ LineOf(None, None, rq) = rq
         /\ \A t \in Task : /\ LineOf(Some(t), None, rq) = <<t.id>> \o rq
                            /\ LineOf(None, Some(t), rq) = <<t.id>> \o rq
<1>1. [i \in DOMAIN None |-> None[i].id] = <<>>
  BY DEF None
<1>2. \A t \in Task : [i \in DOMAIN Some(t) |-> Some(t)[i].id] = <<t.id>> /\ t.id \in NodeId
  BY DEF Some, Task
<1>3. \A s \in Seq(NodeId) : <<>> \o s = s /\ s \o <<>> = s
  BY ConcatProperties
<1>4. LineOf(None, None, rq) = rq
  <2>1. <<>> \o <<>> = <<>>
    BY ConcatProperties
  <2> QED BY <1>1, <1>3, <2>1 DEF LineOf
<1>5. ASSUME NEW t \in Task
      PROVE  LineOf(Some(t), None, rq) = <<t.id>> \o rq /\ LineOf(None, Some(t), rq) = <<t.id>> \o rq
  <2>1. <<t.id>> \in Seq(NodeId)
    <3>1. t.id \in NodeId
      BY <1>2
    <3> QED BY <3>1
  <2>2. <<t.id>> \o <<>> = <<t.id>> /\ <<>> \o <<t.id>> = <<t.id>>
    BY <1>3, <2>1
  <2> QED BY <1>1, <1>2, <2>2 DEF LineOf
<1> QED BY <1>4, <1>5

LEMMA LineGrows ==
  ASSUME NEW L \in Seq(NodeId), NEW q \in Seq(NodeId)
  PROVE  /\ Advances(L, L) /\ Advances(L, L \o q)
         /\ L # <<>> => Advances(L, Tail(L) \o q)
<1>1. Len(L) \in Nat /\ Len(q) \in Nat
  OBVIOUS
<1>2. Advances(L, L)
  BY <1>1 DEF Advances
<1>3. Advances(L, L \o q)
  <2>1. Len(L \o q) = Len(L) + Len(q) /\ \A i \in 1 .. Len(L) : (L \o q)[i] = L[i]
    BY ConcatProperties
  <2> QED BY <1>1, <2>1 DEF Advances
<1>4. ASSUME L # <<>> PROVE Advances(L, Tail(L) \o q)
  <2>1. /\ Len(L) >= 1 /\ Tail(L) \in Seq(NodeId) /\ Len(Tail(L)) = Len(L) - 1
        /\ \A i \in 1 .. Len(L) - 1 : Tail(L)[i] = L[i + 1]
    BY <1>4, HeadTailProperties, EmptySeq
  <2>2. Len(Tail(L) \o q) = Len(L) - 1 + Len(q)
        /\ \A i \in 1 .. Len(L) - 1 : (Tail(L) \o q)[i] = L[i + 1]
    BY <1>1, <2>1, ConcatProperties
  <2> QED BY <1>1, <2>1, <2>2 DEF Advances
<1> QED BY <1>2, <1>3, <1>4

LEMMA LineDrops ==
  ASSUME NEW n \in NodeId, NEW rq \in Seq(NodeId)
  PROVE  Advances(<<n>> \o rq, rq)
<1> DEFINE L == <<n>> \o rq
<1>1. L \in Seq(NodeId) /\ Len(L) = Len(rq) + 1 /\ Len(rq) \in Nat
      /\ \A i \in 1 .. Len(rq) : L[i + 1] = rq[i]
  <2>1. <<n>> \in Seq(NodeId) /\ Len(<<n>>) = 1
    OBVIOUS
  <2> QED BY <2>1, ConcatProperties
<1> HIDE DEF L
<1>2. 1 <= Len(L) /\ Len(L) - 1 <= Len(rq) /\ \A i \in 1 .. Len(L) - 1 : rq[i] = L[i + 1]
  BY <1>1
<1>3. Advances(L, rq)
  BY <1>2 DEF Advances
<1> QED BY <1>3 DEF L

\* A node popped from the ready queue becomes the task being sent, or has its value.
LEMMA PopLine ==
  ASSUME Inv, GraphInv, NEW n, PopReady(n)
  PROVE  /\ sending = None /\ pending = None /\ ready # <<>> /\ n = Head(ready)
         /\ Tail(ready) \in Seq(NodeId) /\ ready = <<n>> \o Tail(ready)
         /\ LineOf(sending, pending, ready) = ready
<1>1. sending = None /\ pending = None /\ ready # <<>> /\ n = Head(ready) /\ ready \in Seq(NodeId)
  BY TypesOfHands DEF PopReady, GraphInv, HandInv, OnceEach, Inv
<1>2. Tail(ready) \in Seq(NodeId) /\ ready = <<n>> \o Tail(ready)
  BY <1>1, HeadTailProperties, ConcatProperties
<1> QED BY <1>1, <1>2, LineForms

\* Before the call has started nothing is on its way.
LEMMA NothingAtStart ==
  ASSUME Inv, GraphInv, pc = "start"
  PROVE  ready = <<>> /\ sending = None /\ pending = None /\ ValuedNodes = {}
<1>1. needed = {} /\ ready \in Seq(NodeId) /\ sending \in Option(Task) /\ pending \in Option(Task)
  BY TypesOfHands DEF Inv, GraphInv, KahnInv
<1>2. InHand = {} /\ ValuedNodes = {}
  BY <1>1, OutInHand DEF StartableNodes, ValuedNodes, GraphInv, KahnInv, KahnOK
<1>3. Range(ready) = {} /\ Range(sending) = {} /\ Range(pending) = {}
  BY <1>2, OutInHand DEF TasksOut
<1>4. ready # <<>> => Head(ready) \in Range(ready)
  BY <1>1, TailOnce DEF GraphInv, HandInv, OnceEach
<1>5. \A s \in Option(Task) : s # None => s[1] \in Range(s)
  <2> SUFFICES ASSUME NEW s \in Option(Task), s # None PROVE s[1] \in Range(s)
    OBVIOUS
  <2>1. s = Some(s[1])
    BY SlotIds
  <2> QED BY <2>1, SlotIds
<1> QED BY <1>1, <1>2, <1>3, <1>4, <1>5

LEMMA LineStep ==
  ASSUME Inv, GraphInv, [Next]_vars
  PROVE  Advances(LineOf(sending, pending, ready), LineOf(sending', pending', ready'))
<1> DEFINE L == LineOf(sending, pending, ready)
           M == LineOf(sending', pending', ready')
<1>1. /\ ready \in Seq(NodeId) /\ sending \in Option(Task) /\ pending \in Option(Task)
      /\ sending # None => pc = "send" /\ pending = None
      /\ pc = "send" => sending # None
  BY TypesOfHands DEF Inv, TypeInv, Control, GraphInv, HandInv, OnceEach
<1>2. L \in Seq(NodeId)
  <2>1. ASSUME NEW t \in Task PROVE <<t.id>> \o ready \in Seq(NodeId)
    <3>1. t.id \in NodeId
      BY DEF Task
    <3>2. <<t.id>> \in Seq(NodeId)
      BY <3>1
    <3> QED BY <1>1, <3>2, ConcatProperties
  <2>2. CASE sending # None
    <3>1. PICK t \in Task : sending = Some(t)
      BY <1>1, <2>2, SlotIds
    <3>2. L = <<t.id>> \o ready
      BY <1>1, <2>2, <3>1, LineForms
    <3> QED BY <2>1, <3>2
  <2>3. CASE sending = None /\ pending # None
    <3>1. PICK t \in Task : pending = Some(t)
      BY <1>1, <2>3, SlotIds
    <3>2. L = <<t.id>> \o ready
      BY <1>1, <2>3, <3>1, LineForms
    <3> QED BY <2>1, <3>2
  <2>4. CASE sending = None /\ pending = None
    BY <1>1, <2>4, LineForms
  <2> QED BY <2>2, <2>3, <2>4
<1>3. ASSUME UNCHANGED <<sending, pending, ready>> PROVE Advances(L, M)
  BY <1>2, <1>3, LineGrows, EmptySeq
<1>4. CASE RejectCall \/ RejectOutput \/ StopDispatching \/ ReportCycle \/ ReceiveErr
             \/ ReceiveDisconnected \/ ClosePool \/ Return
  BY <1>3, <1>4 DEF RejectCall, RejectOutput, Rejected, StopDispatching, ReportCycle, ReceiveErr,
                    ReceiveDisconnected, ClosePool, Return, Leave, tables, dispatch
<1>5. CASE Start
  <2>1. ready = <<>> /\ sending = None /\ pending = None
    BY <1>5, NothingAtStart DEF Start
  <2>2. sending' = sending /\ pending' = pending /\ ready' \in Seq(NodeId)
    <3>1. Seed /\ needed = {} /\ KahnOK
      BY <1>5 DEF Start, GraphInv, KahnInv
    <3> QED BY <1>5, <3>1, SeedOK DEF Start, dispatch
  <2>3. L = <<>> /\ M = ready'
    BY <2>1, <2>2, LineForms, EmptySeq
  <2>4. ready' = <<>> \o ready'
    BY <2>2, ConcatProperties
  <2> QED BY <2>2, <2>3, <2>4, <1>2, LineGrows
<1>6. CASE RetryPending
  <2>1. sending = None /\ \E t \in Task : pending = Some(t)
    BY <1>1, <1>6, SlotIds DEF RetryPending
  <2>2. sending' = pending /\ pending' = None /\ ready' = ready
    BY <1>6 DEF RetryPending, PendingTaken, tables
  <2>3. PICK t \in Task : pending = Some(t)
    BY <2>1
  <2>4. L = <<t.id>> \o ready /\ M = <<t.id>> \o ready
    BY <1>1, <2>1, <2>2, <2>3, LineForms
  <2> QED BY <1>2, <2>4, LineGrows
<1>7. CASE RunSource
  <2>1. PICK n \in Sources :
          /\ PopReady(n) /\ Complete(n, ValueOf(n, <<>>), Tail(ready))
          /\ UNCHANGED <<needed, sending, pending>>
    BY <1>7 DEF RunSource, dispatch
  <2>2. ready' = Tail(ready) \o Ascending(Released(n)) /\ Ascending(Released(n)) \in Seq(NodeId)
    <3>1. Released(n) \in SUBSET NodeId
      BY DEF Released, Dependents, GraphInv, KahnInv, KahnOK, KahnTypes
    <3> QED BY <2>1, <3>1, AscendingIsSeq DEF Complete, Record
  <2>3. ready' \in Seq(NodeId)
    BY <2>1, <2>2, PopLine, ConcatProperties
  <2>4. L = ready /\ M = ready'
    BY <2>1, <2>3, PopLine, LineForms
  <2> QED BY <1>1, <2>1, <2>2, <2>4, PopLine, LineGrows
<1>8. CASE PrepareTask
  <2>1. PICK n \in NodeId \ Sources :
          /\ PopReady(n) /\ ready' = Tail(ready) /\ pending' = pending
          /\ DepsDone(n) => sending' = Some([id |-> n, args |-> Args(n)])
    BY <1>8 DEF PrepareTask
  <2>2. n \in Range(ready)
    BY <1>1, <2>1, TailOnce DEF PopReady, GraphInv, HandInv, OnceEach
  <2>3. DepsDone(n) /\ [id |-> n, args |-> Args(n)] \in Task
    BY <2>2, OutInHand, ArgsType DEF Inv, TypeInv
  <2> DEFINE t == [id |-> n, args |-> Args(n)]
  <2>4. /\ sending' = Some(t) /\ pending' = None /\ ready' = Tail(ready) /\ t \in Task /\ t.id = n
        /\ Tail(ready) \in Seq(NodeId)
    BY <2>1, <2>3, PopLine
  <2> HIDE DEF t
  <2>5. M = <<n>> \o Tail(ready)
    BY <2>4, LineForms
  <2>6. M = L
    BY <2>1, <2>5, PopLine
  <2> QED BY <1>2, <2>6, LineGrows, EmptySeq
<1>9. CASE TrySend \/ TryDisconnected
  <2>1. pc = "send" /\ sending' = None /\ pending' = pending /\ ready' = ready
    BY <1>9 DEF TrySend, TryDisconnected, tables
  <2>2. sending = Some(sending[1]) /\ sending[1] \in Task /\ pending = None
    BY <1>1, <2>1, SlotIds
  <2>3. L = <<sending[1].id>> \o ready /\ M = ready
    BY <1>1, <2>1, <2>2, LineForms
  <2>4. sending[1].id \in NodeId
    BY <2>2 DEF Task
  <2> QED BY <1>1, <2>3, <2>4, LineDrops
<1>10. CASE TryFull
  <2>1. /\ pc = "send" /\ ready' = ready
        /\ \/ pending' = sending /\ sending' = None
           \/ UNCHANGED <<pending, sending>>
    BY <1>10 DEF TryFull, tables
  <2>2. pending = None /\ \E t \in Task : sending = Some(t)
    BY <1>1, <2>1, SlotIds
  <2>3. PICK t \in Task : sending = Some(t)
    BY <2>2
  <2>4. L = <<t.id>> \o ready /\ M = <<t.id>> \o ready
    BY <1>1, <2>1, <2>2, <2>3, LineForms
  <2> QED BY <1>2, <2>4, LineGrows
<1>11. CASE ReceiveOk
  <2>1. PICK n \in NodeId, v \in Value : Complete(n, v, ready) /\ UNCHANGED <<sending, pending>>
    BY <1>11 DEF ReceiveOk, dispatch
  <2>2. ready' = ready \o Ascending(Released(n)) /\ Ascending(Released(n)) \in Seq(NodeId)
    <3>1. Released(n) \in SUBSET NodeId
      BY DEF Released, Dependents, GraphInv, KahnInv, KahnOK, KahnTypes
    <3> QED BY <2>1, <3>1, AscendingIsSeq DEF Complete, Record
  <2> DEFINE q == Ascending(Released(n))
  <2>3. sending = None /\ ready' \in Seq(NodeId)
    <3>1. pc = "wait"
      BY <1>11 DEF ReceiveOk, TakeResult
    <3> QED BY <1>1, <2>2, <3>1, ConcatProperties
  <2>4. CASE pending = None
    <3>1. L = ready /\ M = ready'
      BY <1>1, <2>1, <2>3, <2>4, LineForms
    <3> QED BY <1>1, <2>2, <3>1, LineGrows
  <2>5. CASE pending # None
    <3>1. pending = Some(pending[1]) /\ pending[1] \in Task /\ pending[1].id \in NodeId
      BY <1>1, <2>5, SlotIds DEF Task
    <3> DEFINE h == <<pending[1].id>>
    <3>2. L = h \o ready /\ M = h \o ready' /\ h \in Seq(NodeId)
      BY <1>1, <2>1, <2>3, <3>1, LineForms
    <3>3. h \o (ready \o q) = (h \o ready) \o q
      <4>1. h \in Seq(NodeId) /\ ready \in Seq(NodeId) /\ q \in Seq(NodeId)
        BY <1>1, <2>2, <3>2
      <4> HIDE DEF h, q
      <4> QED BY <4>1, ConcatAssociative
    <3>4. M = L \o q
      BY <2>2, <3>2, <3>3
    <3> QED BY <1>2, <2>2, <3>4, LineGrows
  <2> QED BY <2>4, <2>5
<1>12. ASSUME NEW w \in WorkerIds, Worker(w) PROVE Advances(L, M)
  BY <1>3, <1>12 DEF Worker, TakeTask, FinishTask, SendResult, PanicTask, ExitWorker, tables, dispatch
<1>13. CASE UNCHANGED vars
  BY <1>3, <1>13 DEF vars, tables, dispatch
<1> QED BY <1>4, <1>5, <1>6, <1>7, <1>8, <1>9, <1>10, <1>11, <1>12, <1>13 DEF Next, Scheduler, Finished

(***************************************************************************)
(* parallel.rs:207: first ready, first dispatched. No node is overtaken,   *)
(* also not by the task held back when every channel was full.             *)
(***************************************************************************)
THEOREM DispatchInOrder == Spec => FifoDispatch
<1>1. Inv /\ GraphInv /\ [Next]_vars =>
        [\E k \in {0, 1} :
           /\ k <= Len(Line) /\ Len(Line) - k <= Len(Line')
           /\ \A i \in 1 .. Len(Line) - k : Line'[i] = Line[i + k]]_vars
  BY LineStep DEF Line, LineOf, Advances
<1> QED BY <1>1, GraphInvariance, PTL DEF Spec, FifoDispatch

-----------------------------------------------------------------------------
(***************************************************************************)
(* The refinement. Two kinds of step depart from DagEval, and no other: a  *)
(* Cycle reported although every needed node has its value, and the end of *)
(* a call that has lost a worker.                                          *)
(***************************************************************************)
FalseCycle == ReportCycle /\ \A n \in needed : vals[n] # None
WorkerLost == TryDisconnected \/ ReceiveDisconnected

\* DagEval's notions, seen through the instance, are those of Dag.
LEMMA EvalNotions ==
  /\ Eval!NodeId = NodeId
  /\ Eval!None = None
  /\ \A x : Eval!Some(x) = Some(x)
  /\ \A S : Eval!Cone(S) = Cone(S)
  /\ \A S : Eval!Ascending(S) = Ascending(S)
  /\ \A n : Eval!DepSet(n) = DepSet(n)
  /\ Eval!Range(outs) = Range(outs)
<1>1. Eval!NodeId = NodeId /\ Eval!None = None /\ \A x : Eval!Some(x) = Some(x)
  BY DEF Eval!NodeId, NodeId, Eval!None, None, Eval!Some, Some
<1>2. \A n : Eval!DepSet(n) = DepSet(n)
  BY DEF Eval!DepSet, DepSet, Eval!Range, Range
<1>3. Eval!Range(outs) = Range(outs)
  BY DEF Eval!Range, Range
<1>4. \A S : Eval!Cone(S) = Cone(S)
  BY <1>1, <1>2 DEF Eval!Cone, Cone, Eval!DepClosed, DepClosed
<1>5. \A S : Eval!Ascending(S) = Ascending(S)
  <2>1. \A S : Eval!Cardinality(S) = Cardinality(S)
    BY DEF Eval!Cardinality, Cardinality
  <2>2. \A S, n : Eval!Rank(S, n) = Rank(S, n)
    BY <2>1 DEF Eval!Rank, Rank
  <2> QED BY <2>1, <2>2 DEF Eval!Ascending, Ascending
<1> QED BY <1>1, <1>2, <1>3, <1>4, <1>5

\* What DagEval sees of a step; an Evaluated call is running for it.
EvalOutcome == IF result.tag = "Evaluated" THEN [tag |-> "Running"] ELSE result

LEMMA EvalVars == Eval!vars = <<outs, ~ BadCall, needed, vals, EvalOutcome>>
BY DEF Eval!vars, EvalOutcome

LEMMA EvalStutters ==
  ASSUME UNCHANGED <<outs, cfg, needed, vals, result>>
  PROVE  UNCHANGED Eval!vars
BY DEF Eval!vars, BadCall

LEMMA SchedulingRuns ==
  ASSUME LoopResult, Scheduling
  PROVE  EvalOutcome = [tag |-> "Running"] /\ Eval!Running
<1>1. result = [tag |-> "Running"] /\ result.tag # "Evaluated"
  BY DEF LoopResult
<1> QED BY <1>1 DEF EvalOutcome, Eval!Running

\* A node in hand is one that DagEval may evaluate, to the same value.
LEMMA EvaluateRefines ==
  ASSUME AllInv, LoopResult, Scheduling, NEW n \in InHand, n \in Sources \/ "ok" \in Behaviour[n],
         vals' = [vals EXCEPT ![n] = Some(ValueOf(n, Args(n)))],
         UNCHANGED <<outs, cfg, needed>>, EvalOutcome' = [tag |-> "Running"]
  PROVE  Eval!Evaluate
<1>1. n \in NodeId /\ n \in needed /\ vals[n] = None /\ DepsDone(n)
  BY OutInHand DEF AllInv, StartableNodes
<1>2. Eval!Startable(n)
  BY <1>1, EvalNotions DEF Eval!Startable, Eval!DepsDone, DepsDone
<1>3. Eval!Applied(n) = ValueOf(n, Args(n))
  BY DEF Eval!Applied, Args
<1>4. UNCHANGED <<outs, ~ BadCall, needed, EvalOutcome>>
  BY SchedulingRuns DEF BadCall
<1> QED
  BY <1>1, <1>2, <1>3, <1>4, SchedulingRuns, EvalNotions DEF Eval!Evaluate, EvalOutcome

LEMMA BeginRefines ==
  ASSUME AllInv, EndInv, RejectCall \/ RejectOutput \/ Start
  PROVE  Eval!RefuseCall \/ Eval!RefuseOutput \/ Eval!Begin
<1>1. /\ pc = "start" /\ needed = {} /\ Scheduling /\ UNCHANGED <<outs, cfg, vals>>
      /\ EvalOutcome = [tag |-> "Running"] /\ Eval!Running /\ Eval!Fresh
  <2>1. /\ pc = "start" /\ UNCHANGED <<outs, cfg, vals>> /\ Scheduling
    BY DEF RejectCall, RejectOutput, Rejected, Start, Seed, call, tables, Scheduling
  <2>2. needed = {}
    BY <2>1 DEF AllInv, GraphInv, KahnInv
  <2> QED BY <2>1, <2>2, SchedulingRuns DEF EndInv, Eval!Fresh
<1>2. BadCall' = BadCall
  BY <1>1 DEF BadCall
<1>3. CASE RejectCall
  <2>1. /\ BadCall /\ needed' = needed
        /\ result' = [tag |-> "InternalInvariant", what |-> "call"] /\ EvalOutcome' = result'
    BY <1>3 DEF RejectCall, Rejected, tables, EvalOutcome
  <2> QED BY <1>1, <1>2, <2>1 DEF Eval!RefuseCall, Eval!End, EvalOutcome
<1>4. CASE RejectOutput
  <2>1. PICK key \in UnknownKeys : MissingOutput(key) /\ Rejected([tag |-> "OutputMissing", key |-> key])
    BY <1>4 DEF RejectOutput
  <2>2. PICK i \in DOMAIN outs :
          /\ outs[i] = key /\ key \notin NodeId /\ \A j \in 1 .. i - 1 : outs[j] \in NodeId
    BY <2>1 DEF MissingOutput
  <2>3. /\ ~ BadCall /\ needed' = needed
        /\ result' = [tag |-> "OutputMissing", key |-> outs[i]] /\ EvalOutcome' = result'
    BY <1>4, <2>1, <2>2 DEF RejectOutput, Rejected, tables, EvalOutcome
  <2> QED BY <1>1, <1>2, <2>2, <2>3, EvalNotions DEF Eval!RefuseOutput, Eval!End, EvalOutcome
<1>5. CASE Start
  <2>1. /\ ~ BadCall /\ Range(outs) \subseteq NodeId /\ needed' = Cone(Range(outs)) /\ result' = result
    BY <1>5 DEF Start, Seed
  <2> QED BY <1>1, <1>2, <2>1, EvalNotions DEF Eval!Begin
<1> QED BY <1>3, <1>4, <1>5

LEMMA RunSourceRefines == ASSUME AllInv, EndInv, RunSource PROVE Eval!Evaluate
<1>1. PICK n \in Sources :
        /\ PopReady(n)
        /\ Complete(n, ValueOf(n, <<>>), Tail(ready))
        /\ UNCHANGED <<call, pc, result, needed, in_flight, dispatch, channels, workers>>
  BY DEF RunSource
<1>2. Scheduling /\ UNCHANGED <<outs, cfg, needed, result>>
  BY <1>1 DEF PopReady, Scheduling, call
<1>3. n \in InHand
  <2>1. ready # <<>> /\ n = Head(ready)
    BY <1>1 DEF PopReady
  <2>2. n \in Range(ready)
    BY <2>1, TailOnce, TypesOfHands DEF AllInv, Inv, GraphInv, HandInv, OnceEach
  <2> QED BY <2>2, OutInHand DEF AllInv
<1>4. ValueOf(n, <<>>) = ValueOf(n, Args(n))
  BY SourceYields DEF AllInv, GraphInv, KahnInv, KahnOK
<1>5. vals' = [vals EXCEPT ![n] = Some(ValueOf(n, Args(n)))]
  BY <1>1, <1>4 DEF Complete, Record
<1>6. EvalOutcome' = [tag |-> "Running"]
  BY <1>2, SchedulingRuns DEF EndInv, EvalOutcome
<1> QED BY <1>2, <1>3, <1>5, <1>6, EvaluateRefines DEF EndInv

\* The result received first is in hand, with the outcome its task may have.
LEMMA ReceivedFacts ==
  ASSUME AllInv, NEW r, TakeResult(r)
  PROVE  /\ r \in Range(res_rx) /\ r.id \in InHand /\ r.id \notin Sources /\ Scheduling
         /\ Ends(r.id, r.out)
<1>1. res_rx # <<>> /\ r = Head(res_rx) /\ Scheduling
  BY DEF TakeResult, Scheduling
<1>2. r \in Range(res_rx)
  BY <1>1, TailIds, TypesOfHands DEF AllInv, Inv, GraphInv, HandInv, OnceEach
<1> QED BY <1>1, <1>2, OutInHand DEF AllInv, GraphInv, ArgInv

LEMMA ReceiveOkRefines == ASSUME AllInv, EndInv, ReceiveOk PROVE Eval!Evaluate
<1>1. PICK n \in NodeId, v \in Value :
        /\ TakeResult([id |-> n, out |-> Some(v)])
        /\ Complete(n, v, ready)
        /\ UNCHANGED result \/ result' = [tag |-> "Evaluated"]
        /\ UNCHANGED <<outs, cfg, needed>>
  BY DEF ReceiveOk, Leave, call
<1> DEFINE r == [id |-> n, out |-> Some(v)]
<1>2. r.id = n /\ r.out = Some(v) /\ r.out # None
  BY DEF Some, None
<1>3. n \in InHand /\ Scheduling /\ "ok" \in Behaviour[n] /\ Some(v) = Some(ValueOf(n, Args(n)))
  BY <1>1, <1>2, ReceivedFacts DEF Ends
<1>4. vals' = [vals EXCEPT ![n] = Some(ValueOf(n, Args(n)))]
  BY <1>1, <1>3 DEF Complete, Record
<1>5. EvalOutcome' = [tag |-> "Running"]
  <2>1. CASE UNCHANGED result
    BY <1>3, <2>1, SchedulingRuns DEF EndInv, EvalOutcome
  <2>2. CASE result' = [tag |-> "Evaluated"]
    BY <2>2 DEF EvalOutcome
  <2> QED BY <1>1, <2>1, <2>2
<1> QED BY <1>1, <1>3, <1>4, <1>5, EvaluateRefines DEF EndInv

LEMMA ReceiveErrRefines == ASSUME AllInv, EndInv, ReceiveErr PROVE Eval!Fail
<1>1. PICK n \in NodeId :
        /\ TakeResult([id |-> n, out |-> None])
        /\ result' = [tag |-> "TaskFailed", task |-> n]
        /\ UNCHANGED <<outs, cfg, needed, vals>>
  BY DEF ReceiveErr, Leave, call, tables
<1> DEFINE r == [id |-> n, out |-> None]
<1>2. n \in InHand /\ n \notin Sources /\ Scheduling /\ "err" \in Behaviour[n]
  <2>1. r.id = n /\ r.out = None
    OBVIOUS
  <2> QED BY <1>1, <2>1, ReceivedFacts DEF Ends
<1>3. n \in needed /\ vals[n] = None /\ DepsDone(n)
  BY <1>2, OutInHand DEF AllInv, StartableNodes
<1>4. Eval!Startable(n) /\ Eval!Running
  BY <1>2, <1>3, SchedulingRuns, EvalNotions DEF EndInv, Eval!Startable, Eval!DepsDone, DepsDone
<1>5. EvalOutcome' = [tag |-> "TaskFailed", task |-> n]
  BY <1>1 DEF EvalOutcome
<1>6. BadCall' = BadCall
  BY <1>1 DEF BadCall
<1> QED BY <1>1, <1>2, <1>4, <1>5, <1>6, EvalNotions DEF Eval!Fail, Eval!End, EvalOutcome

LEMMA ReportCycleRefines == ASSUME AllInv, EndInv, ReportCycle PROVE Eval!Stop \/ FalseCycle
<1> SUFFICES ASSUME \E n \in needed : vals[n] = None PROVE Eval!Stop
  BY DEF FalseCycle
<1>1. /\ pc = "wait" /\ in_flight = 0 /\ Scheduling /\ UNCHANGED <<outs, cfg, needed, vals>>
      /\ result' = [tag |-> "Cycle", remaining |-> Ascending(Remaining)]
  BY DEF ReportCycle, Leave, Scheduling, call, tables
<1>2. StartableNodes = {} /\ Remaining = {n \in needed : vals[n] = None}
  BY <1>1, CycleFound, RemainingIsUnvalued DEF AllInv, GraphInv, KahnInv
<1>3. Eval!Unreached = Remaining /\ Eval!Unreached # {}
  BY <1>2, EvalNotions DEF Eval!Unreached
<1>4. \A n \in needed : ~ Eval!Startable(n)
  BY <1>2, EvalNotions DEF StartableNodes, Eval!Startable, Eval!DepsDone, DepsDone
<1>5. EvalOutcome' = [tag |-> "Cycle", remaining |-> Ascending(Remaining)]
  BY <1>1 DEF EvalOutcome
<1>6. BadCall' = BadCall /\ Eval!Running
  BY <1>1, SchedulingRuns DEF BadCall, EndInv
<1> QED BY <1>1, <1>3, <1>4, <1>5, <1>6, EvalNotions DEF Eval!Stop, Eval!End, EvalOutcome

\* An evaluated call has the whole cone, and so every output.
LEMMA ReturnRefines == ASSUME AllInv, EndInv, Return PROVE Eval!Finish \/ UNCHANGED Eval!vars
<1>1. /\ UNCHANGED <<outs, cfg, needed, vals>>
      /\ result' = IF result.tag = "Evaluated" THEN Collected ELSE result
  BY DEF Return, call, tables
<1>2. CASE result.tag # "Evaluated"
  BY <1>1, <1>2, EvalStutters
<1>3. CASE result.tag = "Evaluated"
  <2>1. KahnOK /\ needed # {} /\ ~ (processed < Cardinality(needed)) /\ processed = Cardinality(ValuedNodes)
    BY <1>3 DEF EndInv, LoopResult, MoreToDo, AllInv, GraphInv, KahnInv
  <2>2. \A n \in needed : vals[n] # None
    <3>1. IsFiniteSet(needed)
      BY <2>1, NodeSets DEF KahnOK, KahnTypes
    <3> QED BY <2>1, <3>1, CountSaysAll, FS_CardinalityType
  <2>3. result' = [tag |-> "Ok",
                   outputs |-> [n \in NodeId |-> IF n \in Range(outs) THEN vals[n] ELSE None]]
    BY <1>1, <1>3, <2>1, <2>2, CollectedOk
  <2>4. EvalOutcome = [tag |-> "Running"] /\ EvalOutcome' = result' /\ Eval!Running
    BY <1>3, <2>3 DEF EvalOutcome, Eval!Running
  <2>5. BadCall' = BadCall
    BY <1>1 DEF BadCall
  <2> QED BY <1>1, <2>1, <2>2, <2>3, <2>4, <2>5, EvalNotions DEF Eval!Finish, Eval!End, EvalOutcome
<1> QED BY <1>2, <1>3

LEMMA QuietRefines ==
  ASSUME AllInv,
         \/ RetryPending \/ PrepareTask \/ TrySend \/ TryFull \/ StopDispatching \/ ClosePool
         \/ \E w \in WorkerIds : Worker(w)
         \/ UNCHANGED vars
  PROVE  UNCHANGED Eval!vars
<1>1. CASE PrepareTask
  BY <1>1, PrepareTaskGraph, EvalStutters DEF PrepareTask, AllInv, call
<1>2. CASE RetryPending \/ TrySend \/ TryFull \/ StopDispatching \/ ClosePool
  BY <1>2, EvalStutters DEF RetryPending, TrySend, TryFull, StopDispatching, ClosePool, call, tables
<1>3. ASSUME NEW w \in WorkerIds, Worker(w) PROVE UNCHANGED Eval!vars
  BY <1>3, EvalStutters DEF Worker, TakeTask, FinishTask, SendResult, PanicTask, ExitWorker, call, tables
<1>4. CASE UNCHANGED vars
  BY <1>4, EvalStutters DEF vars, call, tables
<1> QED BY <1>1, <1>2, <1>3, <1>4

LEMMA StepRefines ==
  ASSUME AllInv, EndInv, [Next]_vars
  PROVE  [Eval!Next \/ FalseCycle \/ WorkerLost]_(Eval!vars)
<1>1. CASE RejectCall \/ RejectOutput \/ Start
  BY <1>1, BeginRefines DEF Eval!Next
<1>2. CASE RunSource
  BY <1>2, RunSourceRefines DEF Eval!Next
<1>3. CASE ReceiveOk
  BY <1>3, ReceiveOkRefines DEF Eval!Next
<1>4. CASE ReceiveErr
  BY <1>4, ReceiveErrRefines DEF Eval!Next
<1>5. CASE ReportCycle
  BY <1>5, ReportCycleRefines DEF Eval!Next
<1>6. CASE TryDisconnected \/ ReceiveDisconnected
  BY <1>6 DEF WorkerLost
<1>7. CASE Return
  BY <1>7, ReturnRefines DEF Eval!Next
<1>8. CASE \/ RetryPending \/ PrepareTask \/ TrySend \/ TryFull \/ StopDispatching \/ ClosePool
           \/ \E w \in WorkerIds : Worker(w)
           \/ UNCHANGED vars
  BY <1>8, QuietRefines
<1> QED BY <1>1, <1>2, <1>3, <1>4, <1>5, <1>6, <1>7, <1>8 DEF Next, Scheduler, Finished

LEMMA InitRefines == ASSUME Init PROVE Eval!Init
<1>1. /\ outs \in Requests /\ needed = {} /\ vals = [n \in NodeId |-> None]
      /\ EvalOutcome = [tag |-> "Running"]
  BY DEF Init, TablesInit, EvalOutcome
<1>2. ~ BadCall => outs # <<>>
  BY DEF BadCall
<1> QED BY <1>1, <1>2, EvalNotions DEF Eval!Init, EvalOutcome, BadCall

LEMMA AllInvariance == Spec => [](AllInv /\ EndInv)
<1>1. Init => DebtInv
  BY DEF Init, DebtInv, PoolIntact
<1>2. Inv /\ OpenInv /\ DebtInv /\ [Next]_vars => DebtInv'
  BY DebtStep
<1>3. Inv /\ GraphInv /\ OpenInv /\ DebtInv /\ StallMeansIdle /\ EndInv => AllInv /\ EndInv
  BY DEF AllInv
<1> QED BY <1>1, <1>2, <1>3, GraphInvariance, StallIsIdle, EndInvariance, PTL DEF Spec

-----------------------------------------------------------------------------
(* What a panic leads to.                                                  *)

\* The outcomes of a call that came to the end of its evaluation.
PeacefulTags == {"Evaluated", "Ok", "OutputMissing", "Cycle"}

\* After such an end no closure runs, nor can one be started.
IdleAtEnd == result.tag \in PeacefulTags => StartableNodes = {} /\ BusySlots = {}

\* While the senders are open, a thread is gone just when an end says so.
PanicInv ==
  task_txs_open =>
    /\ result.tag \in PeacefulTags => PoolIntact
    /\ result.tag = "InternalInvariant" => result.what = "call" \/ ~ PoolIntact

\* A task in a channel or a worker is startable.
LEMMA BusyIsStartable ==
  ASSUME Inv, GraphInv, StartableNodes = {} PROVE BusySlots = {}
<1> SUFFICES ASSUME NEW s \in BusySlots PROVE FALSE
  OBVIOUS
<1>1. TasksOut = {}
  BY OutInHand
<1>2. CASE \E w \in WorkerIds : \E i \in 1 .. Len(queue[w]) : s = <<"queue", w, i>>
  <2>1. PICK w \in WorkerIds : \E i \in 1 .. Len(queue[w]) : TRUE
    BY <1>2
  <2>2. PICK i \in 1 .. Len(queue[w]) : TRUE
    BY <2>1
  <2>3. queue[w] \in Seq(Task)
    BY TypesOfHands DEF Inv
  <2>4. queue[w][i] \in Range(queue[w])
    BY <2>2, <2>3 DEF Range
  <2> QED BY <1>1, <2>4 DEF TasksOut
<1>3. CASE \E w \in WorkerIds : wstate[w] = "running"
  <2>1. PICK w \in WorkerIds : wstate[w] = "running"
    BY <1>3
  <2>2. wtask[w] \in Option(Task) /\ wtask[w] # None
    BY <2>1, TypesOfHands DEF Inv, TypeInv, Control
  <2>3. wtask[w][1] \in Range(wtask[w])
    BY <2>2, SlotIds
  <2> QED BY <1>1, <2>3 DEF TasksOut
<1> QED BY <1>2, <1>3 DEF BusySlots, QueuedIn, RunningIn

LEMMA IdleEnds == ASSUME AllInv, EndInv PROVE IdleAtEnd
<1> SUFFICES ASSUME result.tag \in PeacefulTags PROVE StartableNodes = {}
  BY BusyIsStartable DEF IdleAtEnd, AllInv
<1>1. KahnOK /\ needed \in SUBSET NodeId
  BY DEF AllInv, GraphInv, KahnInv, KahnOK, KahnTypes
<1>2. CASE result.tag = "Evaluated"
  <2>1. ~ (processed < Cardinality(needed)) /\ processed = Cardinality(ValuedNodes)
    BY <1>2 DEF EndInv, LoopResult, MoreToDo, AllInv, GraphInv, KahnInv
  <2>2. Cardinality(needed) \in Nat
    BY <1>1, NodeSets, FS_CardinalityType
  <2>3. \A n \in needed : vals[n] # None
    BY <1>1, <2>1, <2>2, CountSaysAll
  <2> QED BY <2>3 DEF StartableNodes
<1>3. CASE result.tag \in {"Ok", "OutputMissing", "Cycle"}
  BY <1>1, <1>3 DEF EndInv, OutcomeIsJustified, StartableNodes
<1> QED BY <1>2, <1>3 DEF PeacefulTags

\* The last result cannot complete a cone that a panic has left incomplete.
LEMMA ReceiveOkPanic ==
  ASSUME AllInv, EndInv, IdleAtEnd', ReceiveOk PROVE PanicInv'
<1>1. PICK n \in NodeId, v \in Value :
        /\ TakeResult([id |-> n, out |-> Some(v)])
        /\ Complete(n, v, ready)
        /\ UNCHANGED result \/ result' = [tag |-> "Evaluated"]
        /\ needed' = needed /\ wstate' = wstate
  BY DEF ReceiveOk, Leave, workers
<1>2. Scheduling /\ result = [tag |-> "Running"] /\ n \in InHand
  <2> DEFINE r == [id |-> n, out |-> Some(v)]
  <2>1. r.id \in InHand /\ Scheduling
    BY <1>1, ReceivedFacts
  <2> QED BY <2>1 DEF EndInv, LoopResult
<1>3. PoolIntact' = PoolIntact
  BY <1>1 DEF PoolIntact
<1>4. CASE UNCHANGED result
  BY <1>2, <1>4 DEF PanicInv, PeacefulTags
<1>5. CASE result' = [tag |-> "Evaluated"]
  <2>1. StartableNodes' = {} /\ result'.tag = "Evaluated"
    BY <1>5 DEF IdleAtEnd, PeacefulTags
  <2>2. PoolIntact
    <3> SUFFICES ASSUME ~ PoolIntact PROVE FALSE
      OBVIOUS
    <3>1. PICK m \in StartableNodes : m \notin InHand
      BY <1>2 DEF AllInv, GraphInv, LostInv
    <3>2. vals' = [vals EXCEPT ![n] = Some(v)] /\ vals \in [NodeId -> Option(Value)]
      BY <1>1 DEF Complete, Record, AllInv, GraphInv, KahnInv, KahnOK, KahnTypes
    <3>3. m # n /\ m \in needed' /\ m \in NodeId
      BY <1>1, <1>2, <3>1 DEF StartableNodes, AllInv, GraphInv, KahnInv, KahnOK, KahnTypes
    <3>4. vals'[m] = None /\ \A d \in NodeId : vals[d] # None => vals'[d] # None
      BY <3>1, <3>2, <3>3 DEF StartableNodes, Some, None
    <3>5. DepSet(m) \subseteq NodeId
      BY <3>3, DepLists
    <3>6. \A d \in DepSet(m) : vals'[d] # None
      BY <3>1, <3>4, <3>5 DEF StartableNodes, DepsDone
    <3> QED BY <2>1, <3>3, <3>4, <3>6 DEF StartableNodes, DepsDone
  <2> QED BY <1>3, <2>1, <2>2 DEF PanicInv
<1> QED BY <1>1, <1>4, <1>5

LEMMA PanicStep ==
  AllInv /\ EndInv /\ ShutInv /\ IdleAtEnd /\ IdleAtEnd' /\ PanicInv /\ [Next]_vars => PanicInv'
<1> SUFFICES ASSUME AllInv, EndInv, ShutInv, IdleAtEnd, IdleAtEnd', PanicInv, [Next]_vars PROVE PanicInv'
  OBVIOUS
<1> USE DEF PeacefulTags
<1>1. CASE RejectCall \/ RejectOutput
  <2>1. PoolIntact /\ PoolIntact' = PoolIntact
    BY <1>1 DEF RejectCall, RejectOutput, Rejected, PoolIntact, workers, AllInv, Inv, PoolInv
  <2>2. \/ result' = [tag |-> "InternalInvariant", what |-> "call"]
        \/ \E key : result' = [tag |-> "OutputMissing", key |-> key]
    BY <1>1 DEF RejectCall, RejectOutput, Rejected
  <2> QED BY <2>1, <2>2 DEF PanicInv
<1>2. CASE Start \/ RetryPending \/ RunSource \/ TrySend \/ TryFull \/ StopDispatching
  <2>1. result' = [tag |-> "Running"]
    BY <1>2 DEF Start, Seed, RetryPending, RunSource, PopReady, TrySend, TryFull, StopDispatching,
                Scheduling, EndInv, LoopResult
  <2> QED BY <2>1 DEF PanicInv
<1>3. CASE PrepareTask
  <2>1. result' = [tag |-> "Running"]
    BY <1>3, PrepareTaskGraph DEF PrepareTask, PopReady, Scheduling, AllInv, EndInv, LoopResult
  <2> QED BY <2>1 DEF PanicInv
<1>4. CASE TryDisconnected \/ ReceiveDisconnected
  <2>1. ~ PoolIntact /\ PoolIntact' = PoolIntact
    BY <1>4, WorkerIsLost DEF TryDisconnected, ReceiveDisconnected, PoolIntact, workers
  <2>2. CASE TryDisconnected
    <3>1. result' = [tag |-> "InternalInvariant", what |-> "task channel"]
      BY <2>2 DEF TryDisconnected, Leave
    <3> QED BY <2>1, <3>1 DEF PanicInv
  <2>3. CASE ReceiveDisconnected
    <3>1. result' = [tag |-> "InternalInvariant", what |-> "result channel"]
      BY <2>3 DEF ReceiveDisconnected, Leave
    <3> QED BY <2>1, <3>1 DEF PanicInv
  <2> QED BY <1>4, <2>2, <2>3
<1>5. CASE ReportCycle
  <2>1. Scheduling /\ StartableNodes = {}
    BY <1>5, CycleFound DEF ReportCycle, Scheduling
  <2>2. PoolIntact
    BY <2>1 DEF AllInv, GraphInv, LostInv
  <2>3. PoolIntact' = PoolIntact /\ result'.tag = "Cycle"
    BY <1>5 DEF ReportCycle, Leave, PoolIntact, workers
  <2> QED BY <2>2, <2>3 DEF PanicInv
<1>6. CASE ReceiveOk
  BY <1>6, ReceiveOkPanic
<1>7. CASE ReceiveErr
  <2>1. result'.tag = "TaskFailed"
    BY <1>7 DEF ReceiveErr, Leave
  <2> QED BY <2>1 DEF PanicInv
<1>8. CASE ClosePool \/ Return
  BY <1>8 DEF ClosePool, Return, ShutInv, PanicInv
<1>9. ASSUME NEW w \in WorkerIds, Worker(w) PROVE PanicInv'
  <2>1. UNCHANGED <<result, task_txs_open>>
    BY <1>9 DEF Worker, TakeTask, FinishTask, SendResult, PanicTask, ExitWorker, channels
  <2> SUFFICES ASSUME task_txs_open PROVE PanicInv'
    BY <2>1 DEF PanicInv
  <2>2. wstate \in [WorkerIds -> {"unborn", "idle", "running", "exited"}]
    BY DEF AllInv, Inv, TypeInv, TypeOK
  <2>3. CASE TakeTask(w)
    <3>1. PoolIntact' = PoolIntact
      BY <2>2, <2>3 DEF TakeTask, PoolIntact
    <3> QED BY <2>1, <3>1 DEF PanicInv
  <2>4. CASE FinishTask(w)
    <3>1. wstate[w] = "running" /\ res_rx_open
      BY <2>4, RunningWorker DEF FinishTask, AllInv
    <3>2. wstate' = [wstate EXCEPT ![w] = "idle"]
      BY <2>4, <3>1 DEF FinishTask, SendResult
    <3>3. PoolIntact' = PoolIntact
      BY <2>2, <3>1, <3>2 DEF PoolIntact
    <3> QED BY <2>1, <3>3 DEF PanicInv
  <2>5. CASE PanicTask(w)
    <3>1. ~ PoolIntact'
      BY <2>2, <2>5 DEF PanicTask, PoolIntact
    <3>2. <<"run", w, 0>> \in BusySlots
      BY <2>5 DEF PanicTask, BusySlots, RunningIn
    <3>3. result.tag \notin PeacefulTags
      BY <3>2 DEF IdleAtEnd
    <3> QED BY <2>1, <3>1, <3>3 DEF PanicInv
  <2>6. CASE ExitWorker(w)
    BY <2>6 DEF ExitWorker
  <2> QED BY <1>9, <2>3, <2>4, <2>5, <2>6 DEF Worker
<1>10. CASE UNCHANGED vars
  <2>1. PoolIntact' = PoolIntact /\ UNCHANGED <<result, task_txs_open>>
    BY <1>10 DEF vars, channels, workers, PoolIntact
  <2> QED BY <2>1 DEF PanicInv
<1> QED BY <1>1, <1>2, <1>3, <1>4, <1>5, <1>6, <1>7, <1>8, <1>9, <1>10 DEF Next, Scheduler, Finished

(***************************************************************************)
(* A panic is never taken for anything else, and nothing else for a panic, *)
(* for every graph, pool and schedule: a call that ends with a value, a    *)
(* missing output or a cycle has lost no worker and has none at work, and  *)
(* one that ends with a disconnected channel has lost a worker.            *)
(***************************************************************************)
THEOREM PanicsReported == Spec => []PanicIsReported
<1>1. Init => ShutInv /\ PanicInv
  BY DEF Init, TablesInit, ShutInv, PanicInv, PeacefulTags
<1>2. AllInv /\ EndInv => IdleAtEnd
  BY IdleEnds
<1>3. AllInv /\ EndInv /\ ShutInv /\ IdleAtEnd /\ IdleAtEnd' /\ PanicInv /\ [Next]_vars => PanicInv'
  BY PanicStep
<1>4. EndInv /\ IdleAtEnd /\ PanicInv => PanicIsReported
  <2> SUFFICES ASSUME EndInv, IdleAtEnd, PanicInv PROVE PanicIsReported
    OBVIOUS
  <2>1. result.tag = "InternalInvariant" =>
          \/ result.what = "call" /\ BadCall
          \/ result.what \in ChannelErrors /\ result.what # "call"
    BY DEF EndInv, OutcomeIsJustified, ChannelErrors
  <2> QED BY <2>1 DEF PanicIsReported, PanicInv, IdleAtEnd, PeacefulTags
<1> QED BY <1>1, <1>2, <1>3, <1>4, ShutStep, AllInvariance, PTL DEF Spec

-----------------------------------------------------------------------------
(* The implementation of DagEval.                                          *)

(***************************************************************************)
(* Whatever the request, the schedule and the ends of the closures, each   *)
(* step of the scheduler or a worker is one evaluation step or none, but   *)
(* for the Cycle reported of a completed request and the end of a call     *)
(* that has lost a worker.                                                 *)
(***************************************************************************)
THEOREM StepsEvaluate ==
  Spec => Eval!Init /\ [][Eval!Next \/ FalseCycle \/ WorkerLost]_(Eval!vars)
<1>1. Init => Eval!Init
  BY InitRefines
<1>2. (AllInv /\ EndInv) /\ [Next]_vars => [Eval!Next \/ FalseCycle \/ WorkerLost]_(Eval!vars)
  BY StepRefines
<1> QED BY <1>1, <1>2, AllInvariance, PTL DEF Spec

(***************************************************************************)
(* What is left when the sources of a request are used in it: while the    *)
(* scheduler is in its loop some needed node has no value, since the last  *)
(* node to get one is a task, whose result the loop waits for and counts.  *)
(***************************************************************************)
Unfinished ==
  /\ needed # {} => Range(outs) \subseteq NodeId /\ needed = Cone(Range(outs))
  /\ pc \in {"dispatch", "send", "wait"} => \E n \in needed : vals[n] = None

\* A source without a value leaves a task without one.
LEMMA UserUnvalued ==
  ASSUME SourcesUsed, KahnOK, Range(outs) \subseteq NodeId, needed = Cone(Range(outs)),
         NEW s \in Sources \cap needed
  PROVE  \E n \in needed : n # s /\ s \in DepSet(n) /\ (vals[n] # None => vals[s] # None)
<1>1. outs \in Requests /\ needed \subseteq NodeId
  BY DEF KahnOK, KahnTypes
<1>2. PICK n \in needed : s \in DepSet(n)
  BY <1>1 DEF SourcesUsed
<1>3. n # s
  <2>1. s \in NodeId /\ DepSet(s) = {}
    BY DagAssumption DEF DepSet, Range
  <2> QED BY <1>2, <2>1
<1>4. vals[n] # None => vals[s] # None
  BY <1>1, <1>2 DEF KahnOK, DepsDone
<1> QED BY <1>2, <1>3, <1>4

LEMMA UnfinishedStep ==
  ASSUME SourcesUsed, AllInv, EndInv, Unfinished, [Next]_vars
  PROVE  Unfinished'
<1>1. KahnOK
  BY DEF AllInv, GraphInv, KahnInv
<1>2. ASSUME UNCHANGED <<outs, needed, vals>>, pc' \in {"dispatch", "send", "wait"} =>
                                               pc \in {"dispatch", "send", "wait"}
      PROVE  Unfinished'
  BY <1>2 DEF Unfinished
<1>3. CASE Start
  <2>1. /\ pc = "start" /\ ~ BadCall /\ Seed /\ needed' = Cone(Range(outs)) /\ UNCHANGED <<outs, vals>>
        /\ Range(outs) \subseteq NodeId
    BY <1>3 DEF Start, Seed
  <2>2. outs \in Seq(Key) /\ outs # <<>>
    BY <1>1, <2>1, CallAssumption DEF BadCall, KahnOK, KahnTypes
  <2>3. 1 \in DOMAIN outs
    BY <2>2, EmptySeq, LenProperties
  <2>4. outs[1] \in needed' /\ outs[1] \in NodeId
    BY <2>1, <2>3, ConeProperties DEF Range
  <2>5. needed = {}
    BY <2>1 DEF AllInv, GraphInv, KahnInv
  <2>6. vals[outs[1]] = None
    BY <1>1, <2>4, <2>5 DEF KahnOK
  <2> QED BY <2>1, <2>4, <2>6 DEF Unfinished
<1>4. CASE RunSource
  <2>1. PICK n \in Sources : PopReady(n) /\ vals' = [vals EXCEPT ![n] = Some(ValueOf(n, <<>>))]
                             /\ UNCHANGED <<outs, needed, pc>>
    BY <1>4 DEF RunSource, Complete, Record, call
  <2>2. n \in needed /\ n \in NodeId /\ vals[n] = None
    <3>1. ready # <<>> /\ n = Head(ready)
      BY <2>1 DEF PopReady
    <3>2. n \in Range(ready)
      BY <3>1, TailOnce, TypesOfHands DEF AllInv, Inv, GraphInv, HandInv, OnceEach
    <3> QED BY <3>2, OutInHand DEF AllInv, StartableNodes
  <2>3. Range(outs) \subseteq NodeId /\ needed = Cone(Range(outs))
    BY <2>2 DEF Unfinished
  <2>4. PICK m \in needed : m # n /\ vals[m] = None
    BY <1>1, <2>2, <2>3, UserUnvalued
  <2>5. m \in NodeId /\ vals'[m] = None
    BY <1>1, <2>1, <2>4 DEF KahnOK, KahnTypes
  <2> QED BY <2>1, <2>3, <2>4, <2>5 DEF Unfinished
<1>5. CASE ReceiveOk
  <2>1. /\ UNCHANGED <<outs, needed>>
        /\ pc' = "close" \/ (pc' = "dispatch" /\ MoreToDo(processed'))
        /\ pc = "wait"
    BY <1>5 DEF ReceiveOk, TakeResult, Leave, call
  <2>2. CASE pc' = "close"
    BY <2>1, <2>2 DEF Unfinished
  <2>3. CASE pc' = "dispatch" /\ MoreToDo(processed')
    <3>1. KahnOK' /\ processed' = Cardinality(ValuedNodes')
      <4>1. GraphInv'
        BY NextGraph DEF AllInv
      <4> QED BY <4>1 DEF GraphInv, KahnInv
    <3>2. processed' < Cardinality(needed')
      BY <2>1, <2>3 DEF MoreToDo
    <3>3. needed' \subseteq NodeId /\ IsFiniteSet(needed')
      BY <3>1, NodeSets DEF KahnOK, KahnTypes
    <3>4. \E n \in needed' : vals'[n] = None
      <4> SUFFICES ASSUME \A n \in needed' : vals'[n] # None PROVE FALSE
        OBVIOUS
      <4>1. needed' = ValuedNodes'
        BY <3>1, <3>3 DEF KahnOK, ValuedNodes
      <4>2. Cardinality(needed') \in Nat
        BY <3>3, FS_CardinalityType
      <4> QED BY <3>1, <3>2, <4>1, <4>2
    <3> QED BY <2>1, <3>4 DEF Unfinished
  <2> QED BY <2>1, <2>2, <2>3
<1>6. CASE RejectCall \/ RejectOutput \/ ReceiveErr \/ ReportCycle \/ TryDisconnected \/ ReceiveDisconnected
           \/ ClosePool \/ Return
  BY <1>2, <1>6 DEF RejectCall, RejectOutput, Rejected, ReceiveErr, ReportCycle, TryDisconnected,
                    ReceiveDisconnected, ClosePool, Return, Leave, call, tables
<1>7. CASE RetryPending \/ PrepareTask \/ TrySend \/ TryFull \/ StopDispatching
  BY <1>2, <1>7 DEF RetryPending, PrepareTask, PopReady, TrySend, TryFull, StopDispatching, Leave, call, tables
<1>8. ASSUME NEW w \in WorkerIds, Worker(w) PROVE Unfinished'
  BY <1>2, <1>8 DEF Worker, TakeTask, FinishTask, SendResult, PanicTask, ExitWorker, call, tables
<1>9. CASE UNCHANGED vars
  BY <1>2, <1>9 DEF vars, call, tables
<1> QED BY <1>3, <1>4, <1>5, <1>6, <1>7, <1>8, <1>9 DEF Next, Scheduler, Finished

(***************************************************************************)
(* run_parallel is an evaluation in the sense of DagEval, whatever the     *)
(* graph, the configuration and the schedule, and whichever closures fail, *)
(* for requests that use the values of their sources, if no closure        *)
(* panics: neither departure of StepsEvaluate can happen then.             *)
(***************************************************************************)
THEOREM ParallelRefines ==
  ASSUME SourcesUsed, NobodyPanics
  PROVE  Spec => Implements
<1>1. Init => Eval!Init
  BY InitRefines
<1>2. Init => Unfinished
  BY DEF Init, TablesInit, Unfinished
<1>3. AllInv /\ EndInv /\ Unfinished /\ [Next]_vars => Unfinished'
  BY UnfinishedStep
<1>4. AllInv /\ EndInv /\ Unfinished /\ [Next]_vars => [Eval!Next]_(Eval!vars)
  <2> SUFFICES ASSUME AllInv, EndInv, Unfinished, [Next]_vars PROVE [Eval!Next]_(Eval!vars)
    OBVIOUS
  <2>1. ~ FalseCycle
    BY DEF FalseCycle, ReportCycle, Unfinished
  <2>2. ~ WorkerLost
    <3>1. needed \subseteq NodeId
      BY DEF AllInv, GraphInv, KahnInv, KahnOK, KahnTypes
    <3> QED BY <3>1, WorkerIsLost, SomeonePanicked DEF WorkerLost, NobodyPanics
  <2> QED BY <2>1, <2>2, StepRefines
<1> QED BY <1>1, <1>2, <1>3, <1>4, AllInvariance, PTL DEF Spec, Implements, Eval!Spec

-----------------------------------------------------------------------------
(***************************************************************************)
(* How far the false cycle reaches: when some needed node has no value at  *)
(* the end of an idle round, what is left is not empty.                    *)
(***************************************************************************)
LEMMA TrueCycleNamesNodes ==
  ASSUME AllInv, Unfinished, ReportCycle
  PROVE  Ascending(Remaining) # <<>>
<1>1. pc = "wait" /\ in_flight = 0
  BY DEF ReportCycle
<1>2. StartableNodes = {} /\ KahnOK
  BY <1>1, CycleFound DEF AllInv, GraphInv, KahnInv
<1>3. PICK n \in needed : vals[n] = None
  BY <1>1 DEF Unfinished
<1>4. n \in Remaining /\ Remaining \in SUBSET NodeId
  BY <1>2, <1>3, RemainingIsUnvalued DEF KahnOK, KahnTypes
<1>5. Range(Ascending(Remaining)) = Remaining
  BY <1>4, AscendingOnce
<1>6. Ascending(Remaining) # <<>>
  BY <1>4, <1>5, EmptySeq DEF Range
<1> QED
  BY <1>6

LEMMA RemainingStep ==
  ASSUME AllInv, Unfinished, CycleErrorHasRemaining, [Next]_vars
  PROVE  CycleErrorHasRemaining'
<1>1. CASE ReportCycle
  BY <1>1, TrueCycleNamesNodes DEF ReportCycle, Leave, CycleErrorHasRemaining
<1>2. CASE Return
  BY <1>2 DEF Return, Collected, CycleErrorHasRemaining
<1>3. CASE RejectCall \/ RejectOutput
  BY <1>3 DEF RejectCall, RejectOutput, Rejected, CycleErrorHasRemaining
<1>4. CASE PrepareTask
  <2>1. result' = result \/ \E x : result' = [tag |-> "InternalInvariant", what |-> x]
    BY <1>4 DEF PrepareTask, Leave
  <2>2. \A x : [tag |-> "InternalInvariant", what |-> x].tag # "Cycle"
    OBVIOUS
  <2> QED
    BY <2>1, <2>2 DEF CycleErrorHasRemaining
<1>5. CASE ReceiveOk \/ ReceiveErr
  <2>1. \/ result' = result
        \/ result' = [tag |-> "Evaluated"]
        \/ \E n \in NodeId : result' = [tag |-> "TaskFailed", task |-> n]
    BY <1>5 DEF ReceiveOk, ReceiveErr, Leave
  <2> QED
    BY <2>1 DEF CycleErrorHasRemaining
<1>6. CASE TryDisconnected \/ ReceiveDisconnected
  <2>1. \E x : result' = [tag |-> "InternalInvariant", what |-> x]
    BY <1>6 DEF TryDisconnected, ReceiveDisconnected, Leave
  <2>2. \A x : [tag |-> "InternalInvariant", what |-> x].tag # "Cycle"
    OBVIOUS
  <2> QED
    BY <2>1, <2>2 DEF CycleErrorHasRemaining
<1>7. CASE Start \/ RetryPending \/ RunSource \/ TrySend \/ TryFull \/ StopDispatching \/ ClosePool
  <2>1. result' = result
    BY <1>7 DEF Start, RetryPending, RunSource, TrySend, TryFull, StopDispatching, ClosePool
  <2> QED
    BY <2>1 DEF CycleErrorHasRemaining
<1>8. ASSUME NEW w \in WorkerIds, Worker(w) PROVE CycleErrorHasRemaining'
  BY <1>8 DEF Worker, TakeTask, FinishTask, SendResult, PanicTask, ExitWorker, CycleErrorHasRemaining
<1>9. CASE UNCHANGED vars
  BY <1>9 DEF CycleErrorHasRemaining, vars
<1> QED
  BY <1>1, <1>2, <1>3, <1>4, <1>5, <1>6, <1>7, <1>8, <1>9 DEF Next, Scheduler, Finished

(***************************************************************************)
(* The reach of the false cycle (parallel.rs:271): when every source of    *)
(* a request is used in it, a Cycle error names at least one node, and by  *)
(* CycleNamesCycle one on or behind a cycle, with panics too.              *)
(***************************************************************************)
THEOREM CycleIsReal ==
  ASSUME SourcesUsed
  PROVE  Spec => []CycleErrorHasRemaining
<1>1. Init => Unfinished /\ CycleErrorHasRemaining
  BY DEF Init, TablesInit, Unfinished, CycleErrorHasRemaining
<1>2. AllInv /\ EndInv /\ Unfinished /\ [Next]_vars => Unfinished'
  BY UnfinishedStep
<1>3. AllInv /\ Unfinished /\ CycleErrorHasRemaining /\ [Next]_vars => CycleErrorHasRemaining'
  BY RemainingStep
<1> QED
  BY <1>1, <1>2, <1>3, AllInvariance, PTL DEF Spec

-----------------------------------------------------------------------------
(***************************************************************************)
(* Every step counts. CountInv holds also after a panic: in_flight keeps   *)
(* the nodes a dead worker took with it, so each needed node is counted    *)
(* once, as waiting for a dep, in the line, dispatched or completed. Hence *)
(* no more than what is needed is dispatched, and StepsLeft is a natural   *)
(* number that every step lowers.                                          *)
(***************************************************************************)
Looping == pc \in {"dispatch", "send", "wait"}

Held(s) == IF s = None THEN 0 ELSE 1
InLine == Held(sending) + Held(pending) + Len(ready)
Waiting == Cardinality(Remaining)
Total == Cardinality(needed)

CountInv ==
  Looping => in_flight + InLine + Waiting + processed = Total

VariantInv == AllInv /\ CountInv

LEMMA HeldOf ==
  /\ Held(None) = 0
  /\ \A t : Held(Some(t)) = 1
  /\ \A s : Held(s) \in {0, 1}
  BY DEF Held, None, Some

LEMMA CountFacts ==
  ASSUME Inv, GraphInv
  PROVE  /\ in_flight \in Nat /\ processed \in Nat /\ Len(ready) \in Nat /\ InLine \in Nat
         /\ Waiting \in Nat
         /\ Total \in Nat
<1>1. in_flight \in Nat /\ processed \in Nat /\ ready \in Seq(NodeId)
  BY DEF Inv, TypeInv, TypeOK
<1>2. KahnOK /\ needed \in SUBSET NodeId
  BY DEF GraphInv, KahnInv, KahnOK, KahnTypes
<1>3. Total \in Nat
  BY <1>2, NodeSets, FS_CardinalityType DEF Total
<1> QED BY <1>1, <1>2, <1>3, HeldOf, LenProperties, RemainingFacts DEF InLine, Waiting

LEMMA CountKept ==
  ASSUME CountInv, InLine' = InLine, UNCHANGED <<needed, indeg, in_flight, processed>>,
         Looping' => Looping
  PROVE  CountInv'
  BY DEF CountInv, Waiting, Total, Remaining

\* A node leaves the head of the ready queue.
LEMMA PopCount ==
  ASSUME Inv, GraphInv, NEW n, PopReady(n)
  PROVE  /\ sending = None /\ pending = None /\ InLine = Len(ready)
         /\ Tail(ready) \in Seq(NodeId) /\ Len(Tail(ready)) = Len(ready) - 1
<1>1. ready \in Seq(NodeId) /\ Len(ready) \in Nat
  BY TypesOfHands, LenProperties DEF Inv
<1>2. Tail(ready) \in Seq(NodeId) /\ Len(Tail(ready)) = Len(ready) - 1
  BY <1>1, HeadTailProperties, EmptySeq DEF PopReady
<1>3. sending = None /\ pending = None
  BY PopLine
<1> QED BY <1>1, <1>2, <1>3 DEF InLine, Held

LEMMA CountStep == ASSUME VariantInv, [Next]_vars PROVE CountInv'
<1>1. /\ Inv /\ GraphInv /\ CountInv
      /\ in_flight \in Nat /\ processed \in Nat /\ Len(ready) \in Nat /\ InLine \in Nat
      /\ Waiting \in Nat /\ Total \in Nat
  BY CountFacts DEF VariantInv, AllInv
<1>2. sending # None => pc = "send" /\ pending = None
  BY <1>1 DEF GraphInv, HandInv, OnceEach
<1>3. pc = "send" => sending # None
  BY <1>1 DEF Inv, TypeInv, Control
<1>4. ASSUME NEW n \in StartableNodes, NEW v \in Value, v = ValueOf(n, Args(n)),
             NEW q \in Seq(NodeId), Complete(n, v, q), UNCHANGED <<outs, needed, sending, pending>>
      PROVE  \E k \in Nat : /\ InLine' = InLine - Len(ready) + Len(q) + k /\ Waiting' = Waiting - k
                            /\ processed' = processed + 1
  <2>1. Record(n, v, q) /\ processed' = processed + 1 /\ KahnOK
    BY <1>1, <1>4 DEF Complete, GraphInv, KahnInv
  <2>2. PICK k \in Nat : Len(ready') = Len(q) + k /\ Waiting' = Waiting - k /\ Len(q) \in Nat
    BY <1>4, <2>1, RecordCount DEF Waiting
  <2>3. InLine' = InLine - Len(ready) + Len(q) + k
    BY <1>1, <1>4, <2>2 DEF InLine, Held
  <2> QED BY <2>1, <2>2, <2>3
<1>5. CASE RejectCall \/ RejectOutput \/ TryDisconnected \/ ReportCycle \/ ReceiveErr
             \/ ReceiveDisconnected \/ ClosePool \/ Return
  BY <1>5 DEF RejectCall, RejectOutput, Rejected, TryDisconnected, ReportCycle, ReceiveErr,
              ReceiveDisconnected, ClosePool, Return, Leave, CountInv, Looping
<1>6. CASE Start
  <2>1. /\ KahnOK /\ needed = {} /\ Seed /\ sending' = None /\ pending' = None
        /\ in_flight' = 0 /\ processed' = 0
    <3>1. processed = 0 /\ sending = None /\ pending = None /\ in_flight = 0
      BY <1>1, <1>6, NothingAtStart, FS_EmptySet DEF Start, GraphInv, KahnInv, Inv, SlotInv
    <3> QED BY <1>1, <1>6, <3>1 DEF Start, Seed, GraphInv, KahnInv, dispatch
  <2>2. /\ Len(ready') + Waiting' = Total'
        /\ Len(ready') \in Nat /\ Waiting' \in Nat
    BY <2>1, SeedCount DEF Waiting, Total
  <2>3. InLine' = Len(ready')
    BY <2>1, <2>2, HeldOf DEF InLine
  <2> QED BY <2>1, <2>2, <2>3 DEF CountInv
<1>7. CASE RetryPending
  <2>1. sending = None /\ pending # None /\ sending' = pending /\ pending' = None
        /\ UNCHANGED <<needed, indeg, in_flight, processed, ready>> /\ Looping
    BY <1>2, <1>7 DEF RetryPending, PendingTaken, tables, Looping
  <2>2. InLine' = InLine
    BY <1>1, <2>1 DEF InLine, Held
  <2> QED BY <1>1, <2>1, <2>2, CountKept
<1>8. CASE RunSource
  <2>1. PICK n \in Sources :
          /\ PopReady(n) /\ Complete(n, ValueOf(n, <<>>), Tail(ready))
          /\ UNCHANGED <<outs, needed, in_flight, sending, pending>>
    BY <1>8 DEF RunSource, dispatch, call
  <2>2. n \in StartableNodes /\ ValueOf(n, <<>>) \in Value /\ ValueOf(n, <<>>) = ValueOf(n, Args(n))
    <3>1. n \in Range(ready)
      BY <1>1, <2>1, TailOnce, TypesOfHands DEF PopReady, GraphInv, HandInv, OnceEach, Inv
    <3> QED BY <1>1, <3>1, OutInHand, SourceYields DEF GraphInv, KahnInv, KahnOK
  <2>3. Tail(ready) \in Seq(NodeId) /\ Len(Tail(ready)) = Len(ready) - 1 /\ Looping
    BY <1>1, <2>1, PopCount DEF PopReady, Looping
  <2>4. PICK k \in Nat : InLine' = InLine - 1 + k /\ Waiting' = Waiting - k /\ processed' = processed + 1
    <3>1. PICK k \in Nat : /\ InLine' = InLine - Len(ready) + Len(Tail(ready)) + k
                           /\ Waiting' = Waiting - k /\ processed' = processed + 1
      BY <1>4, <2>1, <2>2, <2>3
    <3> QED BY <1>1, <2>3, <3>1
  <2>5. in_flight' = in_flight /\ Total' = Total
    BY <2>1 DEF Total
  <2> QED BY <1>1, <2>3, <2>4, <2>5 DEF CountInv
<1>9. CASE PrepareTask
  <2>1. PICK n \in NodeId \ Sources :
          /\ PopReady(n) /\ ready' = Tail(ready) /\ pending' = pending
          /\ Looping' => sending' = Some([id |-> n, args |-> Args(n)])
          /\ UNCHANGED <<needed, indeg, in_flight, processed>>
    BY <1>9 DEF PrepareTask, Leave, Looping
  <2>2. /\ sending = None /\ pending = None /\ InLine = Len(ready)
        /\ Len(ready') = Len(ready) - 1 /\ Looping
    BY <1>1, <2>1, PopCount DEF PopReady, Looping
  <2>3. Looping' => InLine' = InLine
    BY <1>1, <2>1, <2>2, HeldOf DEF InLine
  <2> QED BY <1>1, <2>1, <2>2, <2>3 DEF CountInv, Waiting, Total, Remaining
<1>10. CASE TrySend
  <2>1. /\ sending # None /\ sending' = None /\ in_flight' = in_flight + 1 /\ Looping
        /\ UNCHANGED <<needed, indeg, processed, pending, ready>>
    BY <1>3, <1>10 DEF TrySend, tables, Looping
  <2>2. InLine' = InLine - 1
    BY <1>1, <2>1, HeldOf DEF InLine, Held
  <2> QED BY <1>1, <2>1, <2>2 DEF CountInv, Waiting, Total, Remaining
<1>11. CASE TryFull
  <2>1. /\ pending = None /\ Looping
        /\ \/ pending' = sending /\ sending' = None
           \/ UNCHANGED <<pending, sending>>
        /\ UNCHANGED <<needed, indeg, processed, in_flight, ready>>
    BY <1>2, <1>3, <1>11 DEF TryFull, tables, Looping
  <2>2. InLine' = InLine
    BY <1>1, <2>1, HeldOf DEF InLine
  <2> QED BY <1>1, <2>1, <2>2, CountKept
<1>12. CASE ReceiveOk
  <2>1. PICK n \in NodeId, v \in Value :
          /\ TakeResult([id |-> n, out |-> Some(v)]) /\ Complete(n, v, ready)
          /\ UNCHANGED <<outs, needed, sending, pending>>
    BY <1>12 DEF ReceiveOk, dispatch, call
  <2>2. n \in StartableNodes /\ v = ValueOf(n, Args(n)) /\ Looping /\ in_flight' = in_flight - 1
        /\ Total' = Total
    <3>1. Some(v) # None
      BY DEF Some, None
    <3>2. n \in InHand /\ Some(v) = Some(ValueOf(n, Args(n)))
      BY <2>1, <3>1, ReceivedFacts DEF Ends, VariantInv
    <3> QED BY <1>1, <2>1, <3>2, OutInHand DEF Some, TakeResult, Looping, Total
  <2>3. PICK k \in Nat : InLine' = InLine + k /\ Waiting' = Waiting - k /\ processed' = processed + 1
    <3>1. ready \in Seq(NodeId)
      BY <1>1, TypesOfHands DEF Inv
    <3>2. PICK k \in Nat : /\ InLine' = InLine - Len(ready) + Len(ready) + k
                           /\ Waiting' = Waiting - k /\ processed' = processed + 1
      BY <1>4, <2>1, <2>2, <3>1
    <3> QED BY <1>1, <3>2
  <2> QED BY <1>1, <2>2, <2>3 DEF CountInv
<1>13. CASE StopDispatching \/ UNCHANGED vars
  <2>1. UNCHANGED <<needed, indeg, processed, in_flight, ready, sending, pending>>
        /\ (Looping' => Looping)
    BY <1>13 DEF StopDispatching, vars, tables, dispatch, Looping
  <2> QED BY <1>1, <2>1, CountKept DEF InLine
<1>14. ASSUME NEW w \in WorkerIds, Worker(w) PROVE CountInv'
  <2>1. UNCHANGED <<pc, needed, indeg, processed, in_flight, ready, sending, pending>>
    BY <1>14 DEF Worker, TakeTask, FinishTask, SendResult, PanicTask, ExitWorker, tables, dispatch
  <2> QED BY <1>1, <2>1, CountKept DEF InLine, Looping
<1> QED BY <1>5, <1>6, <1>7, <1>8, <1>9, <1>10, <1>11, <1>12, <1>13, <1>14 DEF Next, Scheduler, Finished

LEMMA VariantInvariance == Spec => []VariantInv
<1>1. Init => CountInv
  BY DEF Init, CountInv, Looping
<1> QED BY <1>1, CountStep, AllInvariance, PTL DEF Spec, VariantInv

\* No more is dispatched and completed than is needed.
LeftInv == Looping => ToDispatch \in Nat /\ ToComplete \in Nat

LEMMA LoopFacts == ASSUME VariantInv PROVE LeftInv
<1> SUFFICES ASSUME Looping PROVE ToDispatch \in Nat /\ ToComplete \in Nat
  BY DEF LeftInv
<1>1. in_flight \in Nat /\ processed \in Nat /\ InLine \in Nat /\ Waiting \in Nat /\ Total \in Nat
  BY CountFacts DEF VariantInv, AllInv
<1>2. in_flight + InLine + Waiting + processed = Total
  BY DEF VariantInv, CountInv
<1>3. Total - processed \in Nat /\ Total - processed - in_flight \in Nat
  BY <1>1, <1>2
<1> QED BY <1>3 DEF ToDispatch, ToComplete, Total

LEMMA RoundFacts == ASSUME Inv PROVE Round \in Nat /\ Round = cfg.max_workers + 3 /\ Round >= 3
  BY ConfigFacts DEF Round, Inv, TypeInv

LEMMA Products ==
  ASSUME NEW r \in Nat, NEW a \in Nat, NEW b \in Nat
  PROVE  /\ r * a \in Nat
         /\ r * (a + 1) = r * a + r
         /\ a <= b => r * a <= r * b
  OBVIOUS

\* The threads: what they have still to do is finite, and a step of theirs is less.
LEMMA WorkerFacts ==
  ASSUME Inv
  PROVE  /\ IsFiniteSet(QueuedIn(queue)) /\ Cardinality(QueuedIn(queue)) \in Nat
         /\ IsFiniteSet(RunningIn(wstate)) /\ Cardinality(RunningIn(wstate)) \in Nat
         /\ IsFiniteSet(LiveWorkers) /\ Cardinality(LiveWorkers) \in Nat
         /\ WorkerSteps \in Nat
<1>1. QueuedIn(queue) \subseteq Slots /\ RunningIn(wstate) \subseteq Slots /\ IsFiniteSet(Slots)
  BY DEF Slots, BusySlots, Inv, SlotInv
<1>2. LiveWorkers \subseteq 0 .. UsizeMax
  <2> SUFFICES ASSUME NEW w \in WorkerIds PROVE w \in 0 .. UsizeMax
    BY DEF LiveWorkers
  <2>1. PICK c \in Configs : w \in 0 .. c.max_workers - 1
    BY DEF WorkerIds
  <2>2. c.max_workers \in Nat /\ c.max_workers <= UsizeMax /\ UsizeMax \in Nat
    BY ConfigAssumption DEF Config
  <2> QED BY <2>1, <2>2
<1>3. IsFiniteSet(0 .. UsizeMax)
  BY ConfigAssumption, FS_Interval
<1>4. /\ IsFiniteSet(QueuedIn(queue)) /\ Cardinality(QueuedIn(queue)) \in Nat
      /\ IsFiniteSet(RunningIn(wstate)) /\ Cardinality(RunningIn(wstate)) \in Nat
      /\ IsFiniteSet(LiveWorkers) /\ Cardinality(LiveWorkers) \in Nat
  BY <1>1, <1>2, <1>3, FS_Subset, FS_CardinalityType
<1> QED BY <1>4 DEF WorkerSteps

LEMMA WorkerStepsFall ==
  ASSUME Inv, NEW w \in WorkerIds, Worker(w)
  PROVE  WorkerSteps' \in Nat /\ WorkerSteps' < WorkerSteps
<1> DEFINE q == Cardinality(QueuedIn(queue))
           r == Cardinality(RunningIn(wstate))
           l == Cardinality(LiveWorkers)
           q1 == Cardinality(QueuedIn(queue'))
           r1 == Cardinality(RunningIn(wstate'))
           l1 == Cardinality(LiveWorkers')
           slot == <<"queue", w, Len(queue[w])>>
           run == <<"run", w, 0>>
<1>1. IsFiniteSet(QueuedIn(queue)) /\ IsFiniteSet(RunningIn(wstate)) /\ IsFiniteSet(LiveWorkers)
  BY WorkerFacts
<1>2. q \in Nat /\ r \in Nat /\ l \in Nat
  BY WorkerFacts
<1>3. WorkerSteps = 2 * q + r + l /\ WorkerSteps' = 2 * q1 + r1 + l1
  BY DEF WorkerSteps
<1>4. /\ wstate \in [WorkerIds -> {"unborn", "idle", "running", "exited"}]
      /\ queue \in [WorkerIds -> Seq(Task)]
  BY TypesOfHands DEF Inv
<1>5. CASE TakeTask(w)
  <2>1. /\ wstate[w] = "idle" /\ queue[w] # <<>> /\ queue' = [queue EXCEPT ![w] = Tail(@)]
        /\ wstate' = [wstate EXCEPT ![w] = "running"]
    BY <1>5 DEF TakeTask
  <2>2. QueuedIn(queue') = QueuedIn(queue) \ {slot} /\ slot \in QueuedIn(queue)
    BY <1>4, <2>1, QueuedTail
  <2>3. RunningIn(wstate') = RunningIn(wstate) \cup {run} /\ run \notin RunningIn(wstate)
    BY <1>4, <2>1, RunningStep
  <2>4. LiveWorkers' = LiveWorkers
    BY <1>4, <2>1 DEF LiveWorkers
  <2>5. q1 = q - 1 /\ q1 \in Nat
    BY <1>1, <2>2, FS_RemoveElement, FS_CardinalityType
  <2>6. r1 = r + 1 /\ l1 = l
    BY <1>1, <2>3, <2>4, FS_AddElement
  <2> HIDE DEF q, r, l, q1, r1, l1
  <2> QED BY <1>2, <1>3, <2>5, <2>6
<1>6. CASE FinishTask(w)
  <2>1. wstate[w] = "running" /\ wstate' = [wstate EXCEPT ![w] = "idle"] /\ queue' = queue
    BY <1>6, RunningWorker DEF FinishTask, SendResult
  <2>2. RunningIn(wstate') = RunningIn(wstate) \ {run} /\ run \in RunningIn(wstate)
    BY <1>4, <2>1, RunningStep
  <2>3. LiveWorkers' = LiveWorkers
    BY <1>4, <2>1 DEF LiveWorkers
  <2>4. q1 = q /\ r1 = r - 1 /\ l1 = l
    BY <1>1, <2>1, <2>2, <2>3, FS_RemoveElement
  <2>5. r1 \in Nat
    BY <1>1, <2>2, FS_RemoveElement, FS_CardinalityType
  <2> HIDE DEF q, r, l, q1, r1, l1
  <2> QED BY <1>2, <1>3, <2>4, <2>5
<1>7. CASE PanicTask(w)
  <2>1. /\ wstate[w] = "running" /\ wstate' = [wstate EXCEPT ![w] = "exited"]
        /\ queue' = [queue EXCEPT ![w] = <<>>]
    BY <1>7 DEF PanicTask
  <2>2. RunningIn(wstate') = RunningIn(wstate) \ {run} /\ run \in RunningIn(wstate)
    BY <1>4, <2>1, RunningStep
  <2>3. QueuedIn(queue') \subseteq QueuedIn(queue)
    BY <1>4, <2>1, QueuedCleared
  <2>4. LiveWorkers' \subseteq LiveWorkers
    BY <1>4, <2>1 DEF LiveWorkers
  <2>5. q1 <= q /\ q1 \in Nat /\ l1 <= l /\ l1 \in Nat
    BY <1>1, <2>3, <2>4, FS_Subset, FS_CardinalityType
  <2>6. r1 = r - 1 /\ r1 \in Nat
    BY <1>1, <2>2, FS_RemoveElement, FS_CardinalityType
  <2> HIDE DEF q, r, l, q1, r1, l1
  <2> QED BY <1>2, <1>3, <2>5, <2>6
<1>8. CASE ExitWorker(w)
  <2>1. wstate[w] = "idle" /\ wstate' = [wstate EXCEPT ![w] = "exited"] /\ queue' = queue
    BY <1>8 DEF ExitWorker, channels
  <2>2. RunningIn(wstate') = RunningIn(wstate)
    BY <1>4, <2>1 DEF RunningIn
  <2>3. LiveWorkers' = LiveWorkers \ {w} /\ w \in LiveWorkers
    BY <1>4, <2>1 DEF LiveWorkers
  <2>4. q1 = q /\ r1 = r /\ l1 = l - 1
    BY <1>1, <2>1, <2>2, <2>3, FS_RemoveElement
  <2>5. l1 \in Nat
    BY <1>1, <2>3, FS_RemoveElement, FS_CardinalityType
  <2> HIDE DEF q, r, l, q1, r1, l1
  <2> QED BY <1>2, <1>3, <2>4, <2>5
<1> QED BY <1>5, <1>6, <1>7, <1>8 DEF Worker

(***************************************************************************)
(* The scheduler's steps within the loop: one moves on in its round, runs  *)
(* a source, sends a task, which is two steps more for a worker, or takes  *)
(* a result; what it starts anew a node dispatched or completed pays for.  *)
(***************************************************************************)
Fewer == StepsLeft' \in Nat /\ StepsLeft' < StepsLeft

LEMMA LoopSteps ==
  ASSUME VariantInv, LeftInv', Looping, Looping', cfg' = cfg,
         Position \in Nat, Position' \in Nat,
         \/ /\ ToDispatch' = ToDispatch /\ ToComplete' = ToComplete /\ WorkerSteps' = WorkerSteps
            /\ Position' < Position
         \/ /\ ToDispatch' = ToDispatch - 1 /\ ToComplete' = ToComplete - 1 /\ WorkerSteps' = WorkerSteps
            /\ Position' = Position
         \/ /\ ToDispatch' = ToDispatch - 1 /\ ToComplete' = ToComplete /\ WorkerSteps' = WorkerSteps + 2
            /\ Position' + 2 < Position + Round
         \/ /\ ToDispatch' = ToDispatch /\ ToComplete' = ToComplete - 1 /\ WorkerSteps' = WorkerSteps
            /\ Position' < Position + Round
  PROVE  Fewer
<1> DEFINE a == ToDispatch
           b == ToComplete
           a1 == ToDispatch'
           b1 == ToComplete'
           r == Round
           p == Position
           p1 == Position'
           w == WorkerSteps
           w1 == WorkerSteps'
<1>1. /\ a \in Nat /\ b \in Nat /\ a1 \in Nat /\ b1 \in Nat /\ r \in Nat /\ r >= 3 /\ w \in Nat
      /\ p \in Nat /\ p1 \in Nat
  BY LoopFacts, RoundFacts, WorkerFacts DEF LeftInv, VariantInv, AllInv
<1>2. StepsLeft = r * a + r * b + p + w /\ StepsLeft' = r * a1 + r * b1 + p1 + w1
  BY DEF StepsLeft, SchedulerSteps, Looping, Round
<1>3. \/ a1 = a /\ b1 = b /\ w1 = w /\ p1 < p
      \/ a1 = a - 1 /\ b1 = b - 1 /\ w1 = w /\ p1 = p
      \/ a1 = a - 1 /\ b1 = b /\ w1 = w + 2 /\ p1 + 2 < p + r
      \/ a1 = a /\ b1 = b - 1 /\ w1 = w /\ p1 < p + r
  OBVIOUS
<1> HIDE DEF a, b, a1, b1, r, p, p1, w, w1
<1>4. /\ r * a \in Nat /\ r * b \in Nat /\ r * a1 \in Nat /\ r * b1 \in Nat
      /\ a1 = a - 1 => r * a1 = r * a - r
      /\ b1 = b - 1 => r * b1 = r * b - r
  <2>1. \A x, y \in Nat : x = y - 1 => r * x = r * y - r
    <3> SUFFICES ASSUME NEW x \in Nat, NEW y \in Nat, x = y - 1 PROVE r * x = r * y - r
      OBVIOUS
    <3>1. y = x + 1 /\ r * (x + 1) = r * x + r /\ r * x \in Nat
      BY <1>1, Products
    <3> QED BY <1>1, <3>1
  <2> QED BY <1>1, <2>1, Products
<1>5. r * a1 + r * b1 + p1 + w1 < r * a + r * b + p + w
  BY <1>1, <1>3, <1>4
<1>6. r * a1 + r * b1 + p1 + w1 \in Nat
  BY <1>1, <1>3, <1>4
<1> QED BY <1>2, <1>5, <1>6 DEF Fewer

LEMMA WorkersRest == ASSUME UNCHANGED <<queue, wstate>> PROVE WorkerSteps' = WorkerSteps
  BY DEF WorkerSteps, LiveWorkers

LEMMA PositionFacts ==
  ASSUME Inv, Looping
  PROVE  /\ Position \in Nat /\ Position >= 3
         /\ pc = "dispatch" => Position = Round + 2
         /\ pc = "send" => Position = tries + 4 /\ tries \in 1 .. cfg.max_workers
         /\ pc = "wait" => Position = 3
<1>1. pc = "send" => tries \in 1 .. cfg.max_workers
  BY ConfigFacts DEF Inv, TypeInv, TypeOK, Control
<1> QED BY <1>1, RoundFacts DEF Position, Looping

\* The other ends of a step.
LEMMA LeaveSteps ==
  ASSUME VariantInv, Looping, pc' = "close", UNCHANGED <<queue, wstate>> PROVE Fewer
<1>1. WorkerSteps' = WorkerSteps /\ WorkerSteps \in Nat
  BY WorkersRest, WorkerFacts DEF VariantInv, AllInv
<1>2. /\ Round * ToDispatch \in Nat /\ Round * ToComplete \in Nat
      /\ Position \in Nat /\ Position >= 3
  BY LoopFacts, RoundFacts, PositionFacts, Products DEF LeftInv, VariantInv, AllInv
<1>3. SchedulerSteps = Round * ToDispatch + Round * ToComplete + Position /\ SchedulerSteps' = 2
  BY DEF SchedulerSteps, Looping
<1>4. SchedulerSteps \in Nat /\ SchedulerSteps >= 3
  BY <1>2, <1>3
<1> QED BY <1>1, <1>3, <1>4 DEF Fewer, StepsLeft

LEMMA StartSteps ==
  ASSUME VariantInv, Start PROVE Fewer
<1>1. Inv /\ GraphInv /\ KahnOK /\ needed = {} /\ Seed
  BY DEF VariantInv, AllInv, GraphInv, KahnInv, Start
<1>2. /\ pc = "start" /\ pc' = "dispatch" /\ cfg' = cfg /\ queue' = queue
      /\ wstate' = [w \in WorkerIds |-> IF w < cfg.max_workers THEN "idle" ELSE "unborn"]
      /\ in_flight' = in_flight /\ processed' = processed
  BY DEF Start, Seed, channels
<1>3. in_flight = 0 /\ processed = 0
  BY <1>1, <1>2, NothingAtStart, FS_EmptySet DEF GraphInv, KahnInv, Inv, SlotInv
<1>4. Cardinality(needed') \in Nat /\ Cardinality(needed') <= NodeCount
  BY <1>1, SeedCount
<1> DEFINE r == Round
           k == Cardinality(needed')
           m == cfg.max_workers
           w == 2 * Cardinality(QueuedIn(queue)) + Cardinality(RunningIn(wstate))
<1>5. ToDispatch' = k /\ ToComplete' = k
  BY <1>2, <1>3, <1>4 DEF ToDispatch, ToComplete
<1>6. SchedulerSteps = 2 * r * (NodeCount + 1) /\ SchedulerSteps' = r * k + r * k + (r + 2)
  BY <1>2, <1>5 DEF SchedulerSteps, Position, Round
<1>7. m \in Nat /\ r = m + 3 /\ r \in Nat /\ k \in Nat /\ k <= NodeCount /\ NodeCount \in Nat
  BY <1>1, <1>4, RoundFacts, ConfigFacts, DagAssumption DEF Inv, TypeInv
<1>8. WorkerSteps = w /\ WorkerSteps' = w + m /\ w \in Nat
  <2>1. LiveWorkers = {} /\ RunningIn(wstate) = {} /\ RunningIn(wstate') = {}
    BY <1>1, <1>2 DEF LiveWorkers, RunningIn, Inv, PoolInv
  <2>2. LiveWorkers' = 0 .. m - 1
    <3>1. 0 .. m - 1 \subseteq WorkerIds
      BY <1>1, ConfigFacts DEF Inv, TypeInv
    <3>2. WorkerIds \subseteq Nat
      BY ConfigAssumption DEF WorkerIds, Config
    <3>3. LiveWorkers' = {x \in WorkerIds : x < m}
      BY <1>2 DEF LiveWorkers
    <3>4. \A x \in Nat : x < m <=> x \in 0 .. m - 1
      BY <1>7
    <3> HIDE DEF m
    <3> QED BY <3>1, <3>2, <3>3, <3>4
  <2>3. Cardinality(0 .. m - 1) = m
    <3> HIDE DEF m
    <3>1. /\ 0 <= m - 1 => Cardinality(0 .. m - 1) = m - 1 - 0 + 1
          /\ 0 > m - 1 => Cardinality(0 .. m - 1) = 0
      <4>1. 0 \in Int /\ m - 1 \in Int
        BY <1>7
      <4>2. DEFINE b == m - 1
      <4>3. /\ 0 <= b => Cardinality(0 .. b) = b - 0 + 1
            /\ 0 > b => Cardinality(0 .. b) = 0
        <5> HIDE DEF b
        <5> QED BY <4>1, FS_Interval DEF b
      <4> QED BY <4>3
    <3> QED BY <1>7, <3>1
  <2>4. Cardinality(LiveWorkers) = 0 /\ Cardinality(LiveWorkers') = m
    BY <2>1, <2>2, <2>3, FS_EmptySet
  <2>5. QueuedIn(queue') = QueuedIn(queue) /\ RunningIn(wstate') = RunningIn(wstate)
    BY <1>2, <2>1
  <2>6. w \in Nat
    BY <1>1, WorkerFacts
  <2>7. WorkerSteps = w + Cardinality(LiveWorkers) /\ WorkerSteps' = w + Cardinality(LiveWorkers')
    BY <2>5 DEF WorkerSteps
  <2> HIDE DEF w, m
  <2> QED BY <2>4, <2>6, <2>7
<1>9. StepsLeft = 2 * r * (NodeCount + 1) + w /\ StepsLeft' = r * k + r * k + (r + 2) + (w + m)
  BY <1>6, <1>8 DEF StepsLeft
<1> HIDE DEF r, k, m, w
<1>10. /\ 2 * r * (NodeCount + 1) = r * NodeCount + r * NodeCount + r + r
       /\ r * k \in Nat /\ r * NodeCount \in Nat /\ r * k <= r * NodeCount
  <2>1. r * (NodeCount + 1) = r * NodeCount + r /\ r * NodeCount \in Nat
    BY <1>7, Products
  <2>2. 2 * r * (NodeCount + 1) = r * (NodeCount + 1) + r * (NodeCount + 1)
    BY <1>7
  <2> QED BY <1>7, <2>1, <2>2, Products
<1> QED BY <1>7, <1>8, <1>9, <1>10 DEF Fewer

LEMMA EndSteps ==
  ASSUME Inv, RejectCall \/ RejectOutput \/ ClosePool \/ Return PROVE Fewer
<1>1. WorkerSteps' = WorkerSteps /\ WorkerSteps \in Nat
  BY WorkersRest, WorkerFacts
     DEF RejectCall, RejectOutput, Rejected, ClosePool, Return, channels, workers
<1>2. CASE RejectCall \/ RejectOutput
  <2>1. SchedulerSteps = 2 * Round * (NodeCount + 1) /\ SchedulerSteps' = 0
    BY <1>2 DEF RejectCall, RejectOutput, Rejected, SchedulerSteps
  <2>2. 2 * Round * (NodeCount + 1) \in Nat \ {0}
    <3>1. NodeCount + 1 \in Nat \ {0} /\ 2 * Round \in Nat \ {0}
      BY RoundFacts, DagAssumption
    <3> QED BY <3>1, MulPositive
  <2> QED BY <1>1, <2>1, <2>2 DEF Fewer, StepsLeft
<1>3. CASE ClosePool
  <2>1. SchedulerSteps = 2 /\ SchedulerSteps' = 1
    BY <1>3 DEF ClosePool, SchedulerSteps
  <2> QED BY <1>1, <2>1 DEF Fewer, StepsLeft
<1>4. CASE Return
  <2>1. SchedulerSteps = 1 /\ SchedulerSteps' = 0
    BY <1>4 DEF Return, SchedulerSteps
  <2> QED BY <1>1, <2>1 DEF Fewer, StepsLeft
<1> QED BY <1>2, <1>3, <1>4

LEMMA BreakSteps ==
  ASSUME VariantInv, TryDisconnected \/ ReportCycle \/ ReceiveErr \/ ReceiveDisconnected PROVE Fewer
<1>1. Looping /\ pc' = "close" /\ UNCHANGED <<queue, wstate>>
  BY DEF TryDisconnected, ReportCycle, ReceiveErr, ReceiveDisconnected, TakeResult, Leave, Looping,
         channels, workers
<1> QED BY <1>1, LeaveSteps

\* A task is at hand, and the round of tries begins.
LEMMA SendSteps ==
  ASSUME VariantInv, LeftInv', pc = "dispatch", pc' = "send", tries' = cfg.max_workers,
         UNCHANGED <<cfg, needed, processed, in_flight, queue, wstate>>
  PROVE  Fewer
<1>1. Round \in Nat /\ Round = cfg.max_workers + 3 /\ cfg.max_workers \in Nat
  BY RoundFacts, ConfigFacts DEF VariantInv, AllInv, Inv, TypeInv
<1>2. ToDispatch' = ToDispatch /\ ToComplete' = ToComplete
  BY DEF ToDispatch, ToComplete
<1>3. Position = Round + 2 /\ Position' = cfg.max_workers + 4
  BY DEF Position
<1> QED BY <1>1, <1>2, <1>3, WorkersRest, LoopSteps DEF Looping

\* One more task is queued.
LEMMA SentSteps == ASSUME Inv, TrySend PROVE WorkerSteps' = WorkerSteps + 2
<1> DEFINE slot == <<"queue", TryWorker, Len(queue[TryWorker]) + 1>>
           q == Cardinality(QueuedIn(queue))
           q1 == Cardinality(QueuedIn(queue'))
           w == Cardinality(RunningIn(wstate)) + Cardinality(LiveWorkers)
<1>1. TryWorker \in WorkerIds
  BY TryWorkerFacts DEF TrySend, Inv, TypeInv, Control, Started
<1>2. sending[1] \in Task
  BY OptionProperties DEF TrySend, Inv, TypeInv, TypeOK, Control
<1>3. QueuedIn(queue') = QueuedIn(queue) \cup {slot} /\ slot \notin QueuedIn(queue)
  BY <1>1, <1>2, QueuedAppend DEF TrySend, Inv, TypeInv, TypeOK
<1>4. q1 = q + 1 /\ q \in Nat
  <2>1. IsFiniteSet(QueuedIn(queue)) /\ q \in Nat
    BY WorkerFacts
  <2>2. Cardinality(QueuedIn(queue) \cup {slot}) = Cardinality(QueuedIn(queue)) + 1
    BY <1>3, <2>1, FS_AddElement
  <2> QED BY <1>3, <2>1, <2>2
<1>5. w \in Nat
  BY WorkerFacts
<1>6. WorkerSteps = 2 * q + w /\ WorkerSteps' = 2 * q1 + w
  <2>1. wstate' = wstate
    BY DEF TrySend, workers
  <2>2. LiveWorkers' = LiveWorkers
    BY <2>1 DEF LiveWorkers
  <2>3. Cardinality(RunningIn(wstate)) \in Nat /\ Cardinality(LiveWorkers) \in Nat /\ q \in Nat /\ q1 \in Nat
    BY <1>4, WorkerFacts
  <2>4. WorkerSteps = 2 * q + Cardinality(RunningIn(wstate)) + Cardinality(LiveWorkers)
    BY DEF WorkerSteps
  <2>5. WorkerSteps' = 2 * q1 + Cardinality(RunningIn(wstate)) + Cardinality(LiveWorkers)
    BY <2>1, <2>2 DEF WorkerSteps
  <2> HIDE DEF q, q1
  <2> QED BY <2>3, <2>4, <2>5
<1> HIDE DEF q, q1, w
<1> QED BY <1>4, <1>5, <1>6

\* A worker leaves the scheduler's own steps alone.
LEMMA WorkersOnly ==
  ASSUME VariantInv, NEW w \in WorkerIds, Worker(w)
  PROVE  SchedulerSteps' = SchedulerSteps /\ SchedulerSteps \in Nat
<1>1. UNCHANGED <<pc, cfg, needed, processed, in_flight, tries>>
  BY DEF Worker, TakeTask, FinishTask, SendResult, PanicTask, ExitWorker, call, tables, dispatch
<1>2. SchedulerSteps' = SchedulerSteps
  BY <1>1 DEF SchedulerSteps, Position, Round, ToDispatch, ToComplete
<1>3. SchedulerSteps \in Nat
  <2>1. CASE Looping
    <3>1. /\ Round * ToDispatch \in Nat /\ Round * ToComplete \in Nat /\ Position \in Nat
      BY <2>1, LoopFacts, RoundFacts, PositionFacts, Products DEF LeftInv, VariantInv, AllInv
    <3>2. SchedulerSteps = Round * ToDispatch + Round * ToComplete + Position
      BY <2>1 DEF SchedulerSteps, Looping
    <3> QED BY <3>1, <3>2
  <2>2. CASE pc \in {"close", "join", "returned"}
    BY <2>2 DEF SchedulerSteps
  <2>3. pc # "start" /\ pc \in {"start", "dispatch", "send", "wait", "close", "join", "returned"}
    <3>1. wstate[w] # "unborn"
      BY DEF Worker, TakeTask, FinishTask, PanicTask, ExitWorker
    <3> QED BY <3>1 DEF VariantInv, AllInv, Inv, PoolInv, TypeInv, TypeOK
  <2> QED BY <2>1, <2>2, <2>3 DEF Looping
<1> QED BY <1>2, <1>3

\* Within the loop.
LEMMA RoundSteps ==
  ASSUME VariantInv, LeftInv',
         RetryPending \/ RunSource \/ PrepareTask \/ TrySend \/ TryFull \/ StopDispatching \/ ReceiveOk
  PROVE  Fewer
<1>1. /\ Inv /\ GraphInv /\ in_flight \in Nat /\ processed \in Nat /\ Cardinality(needed) \in Nat
      /\ WorkerSteps \in Nat
  BY CountFacts, WorkerFacts DEF VariantInv, AllInv, Total
<1>2. Round \in Nat /\ Round = cfg.max_workers + 3 /\ cfg.max_workers \in Nat
  BY <1>1, RoundFacts, ConfigFacts DEF Inv, TypeInv
<1>3. cfg' = cfg => Round' = Round
  BY DEF Round
<1>4. CASE RetryPending
  <2>1. /\ pc = "dispatch" /\ pc' = "send" /\ tries' = cfg.max_workers
        /\ UNCHANGED <<cfg, needed, processed, in_flight, queue, wstate>>
    BY <1>4 DEF RetryPending, call, tables, channels, workers
  <2> QED BY <1>1, <1>2, <2>1, SendSteps
<1>5. CASE PrepareTask
  <2>1. /\ pc = "dispatch" /\ UNCHANGED <<cfg, needed, processed, in_flight, queue, wstate>>
        /\ pc' = "close" \/ (pc' = "send" /\ tries' = cfg.max_workers)
    BY <1>5 DEF PrepareTask, PopReady, Leave, call, channels, workers
  <2> QED BY <1>1, <1>2, <2>1, SendSteps, LeaveSteps DEF Looping
<1>6. CASE RunSource
  <2>1. /\ pc = "dispatch" /\ pc' = "dispatch" /\ processed' = processed + 1
        /\ UNCHANGED <<cfg, needed, in_flight, queue, wstate>>
    BY <1>6 DEF RunSource, PopReady, Complete, call, channels, workers
  <2>2. ToDispatch' = ToDispatch - 1 /\ ToComplete' = ToComplete - 1
    BY <1>1, <2>1 DEF ToDispatch, ToComplete
  <2>3. Position = Round + 2 /\ Position' = Round + 2
    BY <1>3, <2>1 DEF Position
  <2> QED BY <1>2, <2>1, <2>2, <2>3, WorkersRest, LoopSteps DEF Looping
<1>7. CASE TrySend
  <2>1. /\ pc = "send" /\ pc' = "dispatch" /\ in_flight' = in_flight + 1
        /\ UNCHANGED <<cfg, needed, processed, wstate>>
    BY <1>7 DEF TrySend, call, tables, workers
  <2>2. ToDispatch' = ToDispatch - 1 /\ ToComplete' = ToComplete
    BY <1>1, <2>1 DEF ToDispatch, ToComplete
  <2>3. Position = tries + 4 /\ tries \in 1 .. cfg.max_workers /\ Position' = Round + 2
    BY <1>1, <1>3, <2>1, PositionFacts DEF Position, Looping
  <2>4. WorkerSteps' = WorkerSteps + 2
    BY <1>1, <1>7, SentSteps
  <2> QED BY <1>2, <2>1, <2>2, <2>3, <2>4, LoopSteps DEF Looping
<1>8. CASE TryFull
  <2>1. /\ pc = "send" /\ tries' = tries - 1
        /\ \/ tries = 1 /\ pc' = "wait"
           \/ tries # 1 /\ pc' = "send"
        /\ UNCHANGED <<cfg, needed, processed, in_flight, queue, wstate>>
    BY <1>8 DEF TryFull, call, tables, channels, workers
  <2>2. ToDispatch' = ToDispatch /\ ToComplete' = ToComplete
    BY <2>1 DEF ToDispatch, ToComplete
  <2>3. Position = tries + 4 /\ tries \in 1 .. cfg.max_workers
    BY <1>1, <2>1, PositionFacts DEF Looping
  <2>4. Position' = IF tries = 1 THEN 3 ELSE tries + 3
    BY <1>2, <2>1, <2>3 DEF Position
  <2> QED BY <1>2, <2>1, <2>2, <2>3, <2>4, WorkersRest, LoopSteps DEF Looping
<1>9. CASE StopDispatching
  <2>1. /\ pc = "dispatch" /\ pc' = "wait"
        /\ UNCHANGED <<cfg, needed, processed, in_flight, queue, wstate>>
    BY <1>9 DEF StopDispatching, call, tables, channels, workers
  <2>2. ToDispatch' = ToDispatch /\ ToComplete' = ToComplete
    BY <2>1 DEF ToDispatch, ToComplete
  <2>3. Position = Round + 2 /\ Position' = 3
    BY <2>1 DEF Position
  <2> QED BY <1>2, <2>1, <2>2, <2>3, RoundFacts, WorkersRest, LoopSteps DEF Looping
<1>10. CASE ReceiveOk
  <2>1. /\ pc = "wait" /\ in_flight' = in_flight - 1 /\ processed' = processed + 1
        /\ pc' \in {"dispatch", "close"}
        /\ UNCHANGED <<cfg, needed, queue, wstate>>
    BY <1>10 DEF ReceiveOk, TakeResult, Complete, Leave, call, workers
  <2>2. ToDispatch' = ToDispatch /\ ToComplete' = ToComplete - 1
    BY <1>1, <2>1 DEF ToDispatch, ToComplete
  <2>3. CASE pc' = "dispatch"
    <3>1. Position = 3 /\ Position' = Round + 2
      BY <1>3, <2>1, <2>3 DEF Position
    <3> QED BY <1>2, <2>1, <2>2, <2>3, <3>1, WorkersRest, LoopSteps DEF Looping
  <2>4. CASE pc' = "close"
    BY <2>1, <2>4, LeaveSteps DEF Looping
  <2> QED BY <2>1, <2>3, <2>4
<1> QED BY <1>4, <1>5, <1>6, <1>7, <1>8, <1>9, <1>10

(***************************************************************************)
(* A call takes at most 2 * (max_workers + 3) * (NodeCount + 1) steps, for *)
(* every schedule, with failing and panicking closures (parallel.rs:203).  *)
(* With NobodyWaitsInVain it follows that a call can end only by           *)
(* returning, or blocked in recv after a panic.                            *)
(***************************************************************************)
THEOREM BoundedCall ==
  /\ Init => StepsLeft = 2 * (cfg.max_workers + 3) * (NodeCount + 1)
  /\ Spec => EveryStepCounts
<1>1. Init => StepsLeft = 2 * (cfg.max_workers + 3) * (NodeCount + 1)
  <2> SUFFICES ASSUME Init PROVE StepsLeft = 2 * (cfg.max_workers + 3) * (NodeCount + 1)
    OBVIOUS
  <2>1. SchedulerSteps = 2 * Round * (NodeCount + 1) /\ Round = cfg.max_workers + 3
    BY DEF Init, SchedulerSteps, Round
  <2>2. QueuedIn(queue) = {} /\ RunningIn(wstate) = {} /\ LiveWorkers = {}
    BY DEF Init, QueuedIn, RunningIn, LiveWorkers
  <2>3. WorkerSteps = 0
    BY <2>2, FS_EmptySet DEF WorkerSteps
  <2>4. 2 * Round * (NodeCount + 1) \in Int
    <3>1. cfg.max_workers \in Nat /\ NodeCount \in Nat
      BY ConfigAssumption, DagAssumption DEF Init, Config
    <3> QED BY <2>1, <3>1
  <2> QED BY <2>1, <2>3, <2>4 DEF StepsLeft
<1>2. VariantInv /\ LeftInv' /\ [Next]_vars => [StepsLeft' \in Nat /\ StepsLeft' < StepsLeft]_vars
  <2> SUFFICES ASSUME VariantInv, LeftInv', Next, vars' # vars PROVE Fewer
    BY DEF Fewer
  <2>1. CASE Scheduler
    BY <2>1, EndSteps, StartSteps, RoundSteps, BreakSteps DEF Scheduler, VariantInv, AllInv
  <2>2. ASSUME NEW w \in WorkerIds, Worker(w) PROVE Fewer
    <3> DEFINE a == SchedulerSteps
               a1 == SchedulerSteps'
               b == WorkerSteps
               b1 == WorkerSteps'
    <3>1. b1 \in Nat /\ b1 < b /\ b \in Nat
      BY <2>2, WorkerStepsFall, WorkerFacts DEF VariantInv, AllInv
    <3>2. a1 = a /\ a \in Nat
      BY <2>2, WorkersOnly
    <3>3. StepsLeft = a + b /\ StepsLeft' = a1 + b1
      BY DEF StepsLeft
    <3>4. a1 + b1 \in Nat /\ a1 + b1 < a + b
      <4> HIDE DEF a, a1, b, b1
      <4> QED BY <3>1, <3>2
    <3> QED BY <3>3, <3>4 DEF Fewer
  <2> QED BY <2>1, <2>2 DEF Next, Finished
<1>3. VariantInv => LeftInv
  BY LoopFacts
<1>4. Spec => EveryStepCounts
  BY <1>2, <1>3, VariantInvariance, PTL DEF Spec, EveryStepCounts
<1> QED BY <1>1, <1>4

-----------------------------------------------------------------------------
(* Observed runs.                                                          *)

\* An observed step is a step of the call.
LEMMA TracedStep == ASSUME [TracedNext]_tracedVars PROVE [Next]_vars
<1>1. CASE MarkQueued \/ TimePasses \/ UNCHANGED tracedVars
  BY <1>1 DEF MarkQueued, TimePasses, tracedVars
<1>2. CASE TracedScheduler
  BY <1>2 DEF TracedScheduler, TracedStart, TracedSource, TracedTrySend, TracedReceiveOk,
              TracedReceiveErr, TracedReturn, SchedulerUnobserved, Scheduler, Next
<1>3. CASE \E w \in WorkerIds : TracedWorker(w)
  BY <1>3 DEF TracedWorker, Next
<1>4. CASE Finished /\ UNCHANGED <<observer, unmarked>>
  BY <1>4 DEF Next
<1> QED BY <1>1, <1>2, <1>3, <1>4 DEF TracedNext

LEMMA TracedIsParallel == TracedSpec => Spec
<1>1. TracedInit => Init
  BY DEF TracedInit
<1>2. [TracedNext]_tracedVars => [Next]_vars
  BY TracedStep
<1> QED BY <1>1, <1>2, PTL DEF TracedSpec, Spec

(***************************************************************************)
(* So is an observed run: the observer takes no part in the evaluation.    *)
(***************************************************************************)
THEOREM TracedParallelRefines ==
  ASSUME SourcesUsed, NobodyPanics
  PROVE  TracedSpec => Implements
BY ParallelRefines, TracedIsParallel, PTL

-----------------------------------------------------------------------------
(* The marks of an observed run.                                           *)

\* The nodes that the scheduler holds: none of them has been sent out.
WaitingIds == Range(ready) \cup IdsOf(pending) \cup IdsOf(sending)

\* The task just queued is on its way, or has been lost with its worker.
UnmarkedOK ==
  unmarked # None =>
    /\ pc = "dispatch"
    /\ unmarked = Some([id |-> unmarked[1].id, worker |-> unmarked[1].worker])
    /\ unmarked[1].worker \in WorkerIds
    /\ unmarked[1].id \in StartableNodes \ Sources
    /\ unmarked[1].id \notin WaitingIds

(***************************************************************************)
(* A started task has a worker and a source has none; what the scheduler   *)
(* holds is not marked as started, what a worker holds is marked with that *)
(* worker and a result's task is marked, but for the task just queued.     *)
(***************************************************************************)
HandMarks ==
  /\ \A n \in NodeId : obs.worker_id[n] # None <=> n \in StartedNodes(obs) \ Sources
  /\ \A n \in WaitingIds : n \notin StartedNodes(obs)
  /\ \A w \in WorkerIds : \A n \in HeldBy(w) :
       \/ obs.worker_id[n] = Some(w)
       \/ unmarked = Some([id |-> n, worker |-> w]) /\ obs.worker_id[n] = None
  /\ \A n \in IdsOf(res_rx) :
       n \in StartedNodes(obs) \/ (unmarked # None /\ unmarked[1].id = n)

ObservedInv ==
  /\ ObsOK(obs) /\ TraceOK
  /\ trace # None => pc = "returned"
  /\ Len(ready) <= obs.max_frontier_width
  /\ HandMarks /\ UnmarkedOK
LEMMA HeldIds == ASSUME NEW w PROVE HeldBy(w) = IdsOf(queue[w]) \cup IdsOf(wtask[w])
BY DEF HeldBy, IdsOf

\* The parts of the marks that no step of this module touches but through the observer.
LEMMA ObsFacts ==
  ASSUME NEW o, ObsOK(o)
  PROVE  /\ clock \in Nat /\ o.max_frontier_width \in Nat
         /\ o.worker_id \in [NodeId -> Option(Nat)]
         /\ \A n \in StartedNodes(o) : n \in NodeId /\ DepsDone(n)
BY DEF ObsOK, ObsTypes, StartMarks, ReadyMarks, StartedNodes

LEMMA TracedInitObserved == ASSUME TracedInit PROVE ObservedInv
<1>1. /\ TablesInit /\ ObserverInit /\ unmarked = None /\ res_rx = None
      /\ ready = None /\ pending = None /\ sending = None
      /\ \A w \in WorkerIds : queue[w] = None /\ wtask[w] = None
  BY DEF TracedInit, Init, TablesInit, None
<1>2. ObsOK(obs) /\ StartedNodes(obs) = {} /\ trace = None
      /\ \A n \in NodeId : obs.worker_id[n] = None
  BY <1>1, ObserverInitOK DEF ObserverInit, Unset
<1>3. Len(ready) <= obs.max_frontier_width
  BY <1>1 DEF ObserverInit, None
<1>4. WaitingIds = {} /\ IdsOf(res_rx) = {} /\ \A w \in WorkerIds : HeldBy(w) = {}
  BY <1>1, SlotIds, HeldIds DEF WaitingIds
<1> QED BY <1>1, <1>2, <1>3, <1>4 DEF ObservedInv, HandMarks, UnmarkedOK, TraceOK

\* Steps that mark nothing: tasks are dropped, or move on towards their results.
LEMMA MovesObserved ==
  ASSUME ObservedInv, UNCHANGED <<needed, vals, clock, obs, trace, unmarked>>,
         trace # None => pc' = "returned", unmarked # None => pc' = "dispatch",
         Len(ready') <= Len(ready), ready \in Seq(NodeId), ready' \in Seq(NodeId),
         WaitingIds' \subseteq WaitingIds,
         \A w \in WorkerIds : HeldBy(w)' \subseteq HeldBy(w),
         \A n \in IdsOf(res_rx') :
            n \in NodeId /\ (n \in IdsOf(res_rx) \/ \E w \in WorkerIds : n \in HeldBy(w))
  PROVE  ObservedInv'
<1>1. ObsOK(obs)' /\ TraceOK'
  BY ObserveOK, TraceKept DEF ObservedInv
<1>2. Len(ready') <= obs'.max_frontier_width
  <2>1. Len(ready) \in Nat /\ Len(ready') \in Nat /\ obs.max_frontier_width \in Nat
    BY ObsFacts, LenProperties DEF ObservedInv
  <2> QED BY <2>1 DEF ObservedInv
<1>3. StartableNodes' = StartableNodes /\ StartedNodes(obs)' = StartedNodes(obs)
  BY DEF StartableNodes, DepsDone, StartedNodes
<1>4. ASSUME NEW n \in NodeId, NEW w \in WorkerIds, n \in HeldBy(w), n \notin StartedNodes(obs)
      PROVE  unmarked # None /\ unmarked[1].id = n
  <2>1. unmarked = Some([id |-> n, worker |-> w])
    BY <1>4, OptionProperties DEF ObservedInv, HandMarks
  <2> QED BY <2>1 DEF Some, None
<1>5. HandMarks'
  BY <1>3, <1>4 DEF ObservedInv, HandMarks
<1>6. UnmarkedOK'
  BY <1>3 DEF ObservedInv, UnmarkedOK
<1> QED BY <1>1, <1>2, <1>5, <1>6 DEF ObservedInv
LEMMA WorkerObserved ==
  ASSUME AllInv, ObservedInv, NEW w \in WorkerIds, TracedWorker(w)
  PROVE  ObservedInv'
<1>1. /\ UNCHANGED <<needed, vals, ready, pending, sending, pc>>
      /\ UNCHANGED <<clock, obs, trace, unmarked>>
  BY DEF TracedWorker, Worker, TakeTask, FinishTask, SendResult, PanicTask, ExitWorker,
         tables, dispatch, observer
<1>2. /\ queue \in [WorkerIds -> Seq(Task)] /\ wtask \in [WorkerIds -> Option(Task)]
      /\ ready \in Seq(NodeId)
  BY TypesOfHands DEF AllInv, Inv
<1>3. /\ \A x \in WorkerIds : HeldBy(x)' \subseteq HeldBy(x)
      /\ \A n \in IdsOf(res_rx') :
           n \in NodeId /\ (n \in IdsOf(res_rx) \/ \E x \in WorkerIds : n \in HeldBy(x))
  <2>1. \A n \in IdsOf(res_rx) : n \in NodeId
    BY OutInHand DEF AllInv, IdsOf
  <2>2. CASE TakeTask(w)
    <3> DEFINE t == Head(queue[w])
    <3>1. /\ queue[w] # <<>> /\ queue'[w] = Tail(queue[w]) /\ wtask'[w] = Some(t)
          /\ \A x \in WorkerIds : x # w => queue'[x] = queue[x] /\ wtask'[x] = wtask[x]
          /\ res_rx' = res_rx
      BY <1>2, <2>2 DEF TakeTask
    <3>2. t.id \in IdsOf(queue[w]) /\ IdsOf(Tail(queue[w])) = IdsOf(queue[w]) \ {t.id}
      BY <1>2, <3>1, TailIds DEF AllInv, GraphInv, HandInv, OnceEach
    <3> HIDE DEF t
    <3>3. IdsOf(wtask'[w]) = {t.id}
      BY <3>1, SlotIds
    <3>4. \A x \in WorkerIds :
            IdsOf(queue'[x]) \cup IdsOf(wtask'[x]) \subseteq IdsOf(queue[x]) \cup IdsOf(wtask[x])
      BY <3>1, <3>2, <3>3
    <3> QED BY <2>1, <3>1, <3>4, HeldIds DEF HeldBy, IdsOf
  <2>3. CASE FinishTask(w)
    <3>1. /\ wtask[w] = Some(wtask[w][1]) /\ wtask[w][1] \in Task /\ res_rx_open
      BY <2>3, RunningWorker DEF FinishTask, AllInv
    <3>2. PICK out : SendResult(w, out)
      BY <2>3 DEF FinishTask
    <3>3. /\ queue' = queue /\ wtask'[w] = None
          /\ \A x \in WorkerIds : x # w => wtask'[x] = wtask[x]
          /\ res_rx' = Append(res_rx, [id |-> wtask[w][1].id, out |-> out])
      BY <1>2, <3>1, <3>2 DEF SendResult
    <3>4. \A x \in WorkerIds : Range(wtask'[x]) \subseteq Range(wtask[x])
      BY <3>3, SlotIds
    <3>5. ASSUME NEW n \in IdsOf(res_rx'), n \notin IdsOf(res_rx)
          PROVE  n \in NodeId /\ n \in HeldBy(w)
      <4>1. n = wtask[w][1].id
        <5>1. res_rx \in Seq(TaskResult)
          BY TypesOfHands DEF AllInv, Inv
        <5>2. PICK i \in DOMAIN res_rx' : res_rx'[i].id = n
          BY <3>5 DEF IdsOf, Range
        <5>3. \A j \in DOMAIN res_rx : res_rx[j].id # n
          BY <3>5 DEF IdsOf, Range
        <5> QED BY <3>3, <5>1, <5>2, <5>3
      <4>2. wtask[w][1].id \in IdsOf(wtask[w]) /\ wtask[w][1].id \in NodeId
        BY <3>1, SlotIds DEF Task
      <4> QED BY <4>1, <4>2, HeldIds
    <3> QED BY <2>1, <3>3, <3>4, <3>5 DEF HeldBy
  <2>4. CASE PanicTask(w)
    <3>1. /\ res_rx' = res_rx /\ queue'[w] = None /\ wtask'[w] = None
          /\ \A x \in WorkerIds : x # w => queue'[x] = queue[x] /\ wtask'[x] = wtask[x]
      BY <1>2, <2>4 DEF PanicTask, None
    <3>2. \A x \in WorkerIds : /\ Range(queue'[x]) \subseteq Range(queue[x])
                               /\ Range(wtask'[x]) \subseteq Range(wtask[x])
      BY <3>1, SlotIds
    <3> QED BY <2>1, <3>1, <3>2 DEF HeldBy
  <2>5. CASE ExitWorker(w)
    BY <2>1, <2>5 DEF ExitWorker, channels, HeldBy
  <2> QED BY <2>2, <2>3, <2>4, <2>5 DEF TracedWorker, Worker
<1>4. Len(ready') <= Len(ready)
  BY <1>1, <1>2, LenProperties
<1>5. WaitingIds' \subseteq WaitingIds
  BY <1>1 DEF WaitingIds
<1>6. (trace # None => pc' = "returned") /\ (unmarked # None => pc' = "dispatch")
  BY <1>1 DEF ObservedInv, UnmarkedOK
<1> QED BY <1>1, <1>2, <1>3, <1>4, <1>5, <1>6, MovesObserved

\* Steps of the scheduler that the observer is not told of.
LEMMA UnobservedObserved ==
  ASSUME AllInv, ObservedInv, unmarked = None, SchedulerUnobserved
  PROVE  ObservedInv'
<1>1. /\ UNCHANGED <<needed, vals, queue, wtask, res_rx>>
      /\ UNCHANGED <<clock, obs, trace, unmarked>> /\ pc # "returned"
  BY DEF SchedulerUnobserved, RejectCall, RejectOutput, Rejected, RetryPending, PopReady,
         PrepareTask, TryFull, TryDisconnected, StopDispatching, ReportCycle,
         ReceiveDisconnected, ClosePool, Leave, tables, dispatch, channels, workers, observer
<1>2. ready \in Seq(NodeId) /\ \A n \in IdsOf(res_rx) : n \in NodeId
  BY TypesOfHands, OutInHand DEF AllInv, Inv, IdsOf
<1>3. /\ ready' \in Seq(NodeId) /\ Len(ready') <= Len(ready)
      /\ WaitingIds' \subseteq WaitingIds
  <2>1. CASE PrepareTask
    <3>1. PICK n \in NodeId \ Sources :
            /\ PopReady(n)
            /\ ready' = Tail(ready)
            /\ IF DepsDone(n)
                 THEN /\ sending' = Some([id |-> n, args |-> Args(n)])
                      /\ tries' = cfg.max_workers
                      /\ pc' = "send"
                      /\ UNCHANGED result
                 ELSE /\ Leave([tag |-> "InternalInvariant", what |-> "dep missing"])
                      /\ UNCHANGED <<sending, tries>>
            /\ UNCHANGED pending
      BY <2>1 DEF PrepareTask
    <3>2. ready # <<>> /\ n = Head(ready)
      BY <3>1 DEF PopReady
    <3>3. /\ n \in Range(ready) /\ Range(Tail(ready)) = Range(ready) \ {n}
          /\ Tail(ready) \in Seq(NodeId)
      BY <1>2, <3>2, TailOnce DEF AllInv, GraphInv, HandInv, OnceEach
    <3>4. Len(Tail(ready)) <= Len(ready)
      BY <1>2, <3>2, LenProperties, HeadTailProperties
    <3>5. IdsOf(sending') \subseteq IdsOf(sending) \cup {n}
      BY <3>1, SlotIds
    <3> QED BY <3>1, <3>3, <3>4, <3>5 DEF WaitingIds
  <2>2. CASE RetryPending
    BY <1>2, <2>2, SlotIds, LenProperties DEF RetryPending, PendingTaken, tables, WaitingIds
  <2>3. CASE TryFull
    BY <1>2, <2>3, SlotIds, LenProperties DEF TryFull, tables, WaitingIds
  <2>4. CASE TryDisconnected
    <3>1. ready' = ready /\ pending' = pending /\ sending' = None
      BY <2>4 DEF TryDisconnected, tables, None
    <3> QED BY <1>2, <3>1, SlotIds, LenProperties DEF WaitingIds
  <2>5. CASE RejectCall \/ RejectOutput \/ StopDispatching \/ ReportCycle \/ ReceiveDisconnected
             \/ ClosePool
    <3>1. UNCHANGED <<ready, pending, sending>>
      BY <2>5 DEF RejectCall, RejectOutput, Rejected, StopDispatching, ReportCycle,
                  ReceiveDisconnected, ClosePool, tables, dispatch
    <3> QED BY <1>2, <3>1, LenProperties DEF WaitingIds
  <2> QED BY <2>1, <2>2, <2>3, <2>4, <2>5 DEF SchedulerUnobserved
<1>4. trace = None
  BY <1>1 DEF ObservedInv
<1>5. \A w \in WorkerIds : HeldBy(w)' = HeldBy(w)
  BY <1>1 DEF HeldBy
<1> QED BY <1>1, <1>2, <1>3, <1>4, <1>5, MovesObserved
\* The task handed over is not marked yet, whatever its worker does meanwhile.
LEMMA TrySendObserved ==
  ASSUME AllInv, ObservedInv, unmarked = None, TracedTrySend
  PROVE  ObservedInv'
<1> DEFINE w == TryWorker
           t == sending[1]
<1>1. w \in WorkerIds
  BY TryWorkerFacts DEF TracedTrySend, TrySend, AllInv, Inv, TypeInv, Control, Started
<1>2. t \in Task /\ sending = Some(t) /\ pending = None
  BY SlotIds, TypesOfHands
  DEF TracedTrySend, TrySend, AllInv, Inv, TypeInv, Control, GraphInv, HandInv, OnceEach
<1>3. /\ UNCHANGED <<needed, vals, ready, pending, res_rx, wtask>>
      /\ queue' = [queue EXCEPT ![w] = Append(@, t)]
      /\ sending' = None /\ pc' = "dispatch" /\ pc = "send"
      /\ UNCHANGED <<clock, obs, trace>>
      /\ unmarked' = Some([id |-> t.id, worker |-> w])
  BY DEF TracedTrySend, QueuedWorkerId, TrySend, tables, workers, observer, None
<1> HIDE DEF w, t
<1>4. /\ queue \in [WorkerIds -> Seq(Task)] /\ ready \in Seq(NodeId)
      /\ trace = None /\ ObsOK(obs) /\ TraceOK
  BY <1>3, TypesOfHands DEF AllInv, Inv, ObservedInv
<1>5. /\ t.id \in WaitingIds /\ t.id \in NodeId
      /\ t.id \in StartableNodes \ Sources /\ t.id \notin Range(ready)
  <2>1. t \in TasksOut /\ t.id \in IdsOf(sending)
    BY <1>2, SlotIds DEF TasksOut
  <2>2. t.id \in StartableNodes /\ t.id \in NodeId /\ t.id \notin Sources
    BY <2>1, OutInHand DEF AllInv, GraphInv, ArgInv
  <2>3. t.id \in Hands[HeldHand] /\ Hands[ReadyHand] = Range(ready) /\ DOMAIN Hands = HandId
    BY <2>1, HandFacts DEF Hands
  <2>4. t.id \notin Range(ready)
    BY <2>3, HandIds DEF AllInv, GraphInv, HandInv, Disjoint
  <2> QED BY <2>1, <2>2, <2>4 DEF WaitingIds
<1>6. t.id \notin StartedNodes(obs) /\ obs.worker_id[t.id] = None
  BY <1>5 DEF ObservedInv, HandMarks
<1>7. WaitingIds' = Range(ready)
  BY <1>2, <1>3, SlotIds DEF WaitingIds
<1>8. StartableNodes' = StartableNodes /\ StartedNodes(obs)' = StartedNodes(obs)
  BY <1>3 DEF StartableNodes, DepsDone, StartedNodes
<1>9. ASSUME NEW x \in WorkerIds
      PROVE  HeldBy(x)' = IF x = w THEN HeldBy(x) \cup {t.id} ELSE HeldBy(x)
  <2>1. CASE x = w
    <3>1. queue[x] \in Seq(Task) /\ queue'[x] = Append(queue[x], t)
      BY <1>1, <1>3, <1>4, <2>1
    <3>2. Range(queue'[x]) = Range(queue[x]) \cup {t}
      <4>1. t.id \notin IdsOf(queue[x]) /\ OncePerNode(queue[x])
        <5>1. t.id \in Hands[HeldHand] /\ Hands[QueueHand(x)] = IdsOf(queue[x]) /\ DOMAIN Hands = HandId
          BY <1>2, SlotIds, HandFacts DEF Hands
        <5> QED BY <5>1, HandIds DEF AllInv, GraphInv, HandInv, OnceEach, Disjoint
      <4> QED BY <1>2, <3>1, <4>1, AppendIds
    <3> QED BY <1>3, <2>1, <3>2 DEF HeldBy
  <2>2. CASE x # w
    BY <1>3, <1>4, <2>2 DEF HeldBy
  <2> QED BY <2>1, <2>2
<1>10. HandMarks'
  <2>1. \A n \in WaitingIds' : n \notin StartedNodes(obs)'
    BY <1>7, <1>8 DEF ObservedInv, HandMarks, WaitingIds
  <2>2. ASSUME NEW x \in WorkerIds, NEW n \in HeldBy(x)'
        PROVE  \/ obs'.worker_id[n] = Some(x)
               \/ unmarked' = Some([id |-> n, worker |-> x]) /\ obs'.worker_id[n] = None
    <3>1. CASE n \in HeldBy(x)
      <4>1. unmarked # Some([id |-> n, worker |-> x])
        BY DEF Some, None
      <4> QED BY <1>3, <3>1, <4>1 DEF ObservedInv, HandMarks
    <3>2. CASE n \notin HeldBy(x)
      BY <1>3, <1>6, <1>9, <2>2, <3>2
    <3> QED BY <3>1, <3>2
  <2> QED BY <1>3, <1>8, <2>1, <2>2 DEF ObservedInv, HandMarks
<1>11. UnmarkedOK'
  <2>1. unmarked'[1].id = t.id /\ unmarked'[1].worker = w
    BY <1>3, SlotIds
  <2> QED BY <1>1, <1>3, <1>5, <1>7, <1>8, <2>1 DEF UnmarkedOK
<1>12. ObsOK(obs)' /\ TraceOK'
  BY <1>3, <1>4, ObserveOK, TraceKept
<1>13. Len(ready') <= obs'.max_frontier_width
  BY <1>3 DEF ObservedInv
<1> QED BY <1>3, <1>4, <1>10, <1>11, <1>12, <1>13 DEF ObservedInv

\* mark_start comes after the hand-over: its task may be running or even done.
LEMMA MarkQueuedObserved == ASSUME AllInv, ObservedInv, MarkQueued PROVE ObservedInv'
<1> DEFINE n == unmarked[1].id
           w == unmarked[1].worker
           o == MarkStart(obs, n, Some(w))
<1>1. /\ unmarked # None /\ obs' = o /\ unmarked' = None /\ clock' = clock /\ trace' = trace
      /\ UNCHANGED <<needed, vals, ready, pending, sending, queue, wtask, res_rx, pc>>
  BY DEF MarkQueued, vars, tables, dispatch, channels, workers
<1>2. /\ pc = "dispatch" /\ unmarked = Some([id |-> n, worker |-> w])
      /\ w \in WorkerIds /\ n \in StartableNodes \ Sources /\ n \notin WaitingIds
  BY <1>1 DEF ObservedInv, UnmarkedOK
<1>3. KahnOK /\ ObsOK(obs) /\ TraceOK /\ n \in NodeId /\ trace = None
  BY <1>2 DEF AllInv, GraphInv, KahnInv, KahnOK, KahnTypes, StartableNodes, ObservedInv
<1>4. Some(w) \in Option(Nat)
  <2>1. w \in Nat
    BY <1>2, ConfigAssumption DEF WorkerIds, Config
  <2> QED BY <2>1, OptionProperties
<1>5. /\ ObsOK(o) /\ StartedNodes(o) = StartedNodes(obs) \cup {n}
      /\ o.worker_id = [obs.worker_id EXCEPT ![n] = FirstOf(@, Some(w))]
      /\ o.max_frontier_width = obs.max_frontier_width
  BY <1>2, <1>3, <1>4, MarkStartOK, MarkStartFields
<1> HIDE DEF n, w, o
<1>6. /\ obs.worker_id \in [NodeId -> Option(Nat)]
      /\ obs'.worker_id[n] = FirstOf(obs.worker_id[n], Some(w))
      /\ \A m \in NodeId : m # n => obs'.worker_id[m] = obs.worker_id[m]
  BY <1>1, <1>3, <1>5, ObsFacts
<1>7. ObsOK(obs)' /\ TraceOK' /\ StartedNodes(obs)' = StartedNodes(obs) \cup {n}
  <2>1. ObsOK(obs)'
    BY <1>1, <1>5, ObserveOK
  <2>2. TraceOK'
    BY <1>1, <1>3 DEF TraceOK
  <2> QED BY <1>1, <1>5, <2>1, <2>2 DEF StartedNodes
<1>8. WaitingIds' = WaitingIds /\ \A x \in WorkerIds : HeldBy(x)' = HeldBy(x)
  BY <1>1 DEF WaitingIds, HeldBy
<1>9. HandMarks'
  <2>1. ASSUME NEW m \in NodeId
        PROVE  obs'.worker_id[m] # None <=> m \in StartedNodes(obs)' \ Sources
    <3>1. CASE m = n
      <4>1. Some(w) # None
        BY DEF Some, None
      <4> QED BY <1>2, <1>6, <1>7, <3>1, <4>1 DEF FirstOf
    <3>2. CASE m # n
      BY <1>6, <1>7, <3>2 DEF ObservedInv, HandMarks
    <3> QED BY <3>1, <3>2
  <2>2. \A m \in WaitingIds' : m \notin StartedNodes(obs)'
    BY <1>2, <1>7, <1>8 DEF ObservedInv, HandMarks
  <2>3. ASSUME NEW x \in WorkerIds, NEW m \in HeldBy(x)
        PROVE  obs'.worker_id[m] = Some(x)
    <3>1. m \in NodeId
      <4>1. m \in IdsOf(queue[x]) \cup IdsOf(wtask[x])
        BY <2>3, HeldIds
      <4>2. PICK t \in TasksOut : t.id = m
        BY <4>1 DEF IdsOf, TasksOut
      <4> QED BY <4>2, OutInHand DEF AllInv
    <3>2. CASE obs.worker_id[m] = Some(x)
      <4>1. Some(x) # None
        BY DEF Some, None
      <4> QED BY <1>6, <3>1, <3>2, <4>1 DEF FirstOf
    <3>3. CASE unmarked = Some([id |-> m, worker |-> x]) /\ obs.worker_id[m] = None
      <4>1. m = n /\ x = w
        BY <3>3, SlotIds DEF n, w
      <4> QED BY <1>6, <3>3, <4>1 DEF FirstOf
    <3> QED BY <2>3, <3>2, <3>3 DEF ObservedInv, HandMarks
  <2>4. \A m \in IdsOf(res_rx') : m \in StartedNodes(obs)'
    BY <1>1, <1>7 DEF ObservedInv, HandMarks, n
  <2> QED BY <1>8, <2>1, <2>2, <2>3, <2>4 DEF HandMarks
<1>10. UnmarkedOK' /\ Len(ready') <= obs'.max_frontier_width
  BY <1>1, <1>5 DEF UnmarkedOK, ObservedInv
<1> QED BY <1>1, <1>3, <1>7, <1>9, <1>10 DEF ObservedInv
\* The queue after a completion is the widest yet, or no wider than before.
LEMMA FrontierObserved ==
  ASSUME NEW o, ObsOK(o), KahnOK, NEW d \in NodeId, NEW v,
         NEW q \in Seq(NodeId), Record(d, v, q), obs' = FinishAndRelease(o, d, q),
         Len(q) <= o.max_frontier_width
  PROVE  /\ obs'.max_frontier_width = Max({o.max_frontier_width, Len(ready')})
         /\ Len(ready') <= obs'.max_frontier_width
<1> DEFINE p == MarkFinish(o, d)
           r == Ascending(Released(d))
<1>1. ObsTypes(p) /\ p.max_frontier_width = o.max_frontier_width
  BY MarkFinishFields DEF ObsOK
<1>2. /\ SubSeq(ready', Len(q) + 1, Len(ready')) = r
      /\ r \in Seq(NodeId) /\ Len(ready') = Len(q) + Len(r)
  BY PushedIsReleased
<1>3. obs' = MarkReadyAll(p, r, Len(q))
  BY <1>2 DEF FinishAndRelease
<1> HIDE DEF p, r
<1>4. Len(q) \in Nat /\ o.max_frontier_width \in Nat
  BY ObsFacts, LenProperties
<1> DEFINE m == MarkReadyAll(p, r, Len(q))
           k == o.max_frontier_width
<1>5. m.max_frontier_width = Max({k} \cup Widths(r, Len(q)))
  <2> DEFINE w == Len(q)
  <2>1. w \in Nat /\ r \in Seq(NodeId) /\ ObsTypes(p)
    BY <1>1, <1>2, <1>4
  <2> HIDE DEF w, m, k
  <2>2. MarkReadyAll(p, r, w).max_frontier_width = Max({p.max_frontier_width} \cup Widths(r, w))
    BY <2>1, MarkReadyFields
  <2> QED BY <1>1, <2>2 DEF w, m, k
<1>6. obs' = m
  BY <1>3
<1> HIDE DEF m, k
<1>7. k \in Nat /\ Len(q) <= k
  BY <1>4 DEF k
<1>8. /\ Max({k} \cup Widths(r, Len(q))) = Max({k, Len(q) + Len(r)})
      /\ Len(q) + Len(r) <= Max({k} \cup Widths(r, Len(q)))
  BY <1>2, <1>4, <1>7, WidestIsLast
<1>9. obs'.max_frontier_width = Max({k, Len(ready')}) /\ Len(ready') <= obs'.max_frontier_width
  BY <1>2, <1>5, <1>6, <1>8
<1> QED BY <1>9 DEF k

\* A node that becomes ready has not been started: it lacked a dep until now.
LEMMA ReleasedUnmarked ==
  ASSUME NEW o, ObsOK(o), KahnOK, NEW d \in StartableNodes, NEW v \in Value,
         v = ValueOf(d, Args(d)), NEW q, Record(d, v, q), UNCHANGED <<outs, needed>>,
         NEW n \in Released(d)
  PROVE  n \notin StartedNodes(o)
<1>1. n \in needed /\ n \notin StartableNodes /\ n \in StartableNodes'
  BY RecordOK
<1>2. vals' = [vals EXCEPT ![d] = Some(v)] /\ vals \in [NodeId -> Option(Value)] /\ n \in NodeId
  BY <1>1 DEF Record, KahnOK, KahnTypes
<1>3. vals[n] = None
  <2>1. vals'[n] = None /\ Some(v) # None
    BY <1>1 DEF StartableNodes, Some, None
  <2> QED BY <1>2, <2>1
<1>4. ~ DepsDone(n)
  BY <1>1, <1>3 DEF StartableNodes
<1> QED BY <1>4, ObsFacts

\* A completion as the observer sees it; o is what it knew before mark_finish.
LEMMA CompletionObserved ==
  ASSUME KahnOK, NEW o, ObsOK(o), NEW d \in StartableNodes \cap StartedNodes(o), NEW v \in Value,
         v = ValueOf(d, Args(d)), NEW q \in Seq(NodeId), Record(d, v, q), UNCHANGED <<outs, needed>>,
         obs' = FinishAndRelease(o, d, q), UNCHANGED <<clock, trace>>,
         Len(q) <= o.max_frontier_width, trace = None, unmarked' = None,
         UNCHANGED <<pending, sending, queue, wtask>>,
         \A n \in NodeId : o.worker_id[n] # None <=> n \in StartedNodes(o) \ Sources,
         \A n \in Range(q) \cup IdsOf(pending) \cup IdsOf(sending) : n \notin StartedNodes(o),
         \A w \in WorkerIds : \A n \in HeldBy(w) : o.worker_id[n] = Some(w),
         \A n \in IdsOf(res_rx') : n \in StartedNodes(o)
  PROVE  ObservedInv'
<1>1. /\ ObsOK(obs)' /\ StartedNodes(obs)' = StartedNodes(o) /\ obs'.worker_id = o.worker_id
  BY FinishObserved
<1>2. Len(ready') <= obs'.max_frontier_width
  <2>1. d \in NodeId
    BY DEF StartedNodes
  <2> QED BY <2>1, FrontierObserved
<1>3. TraceOK'
  BY DEF TraceOK
<1>4. \A n \in WaitingIds' : n \notin StartedNodes(obs)'
  <2>1. Range(ready') \subseteq Range(q) \cup Released(d)
    <3>1. /\ Ascending(Released(d)) \in Seq(NodeId) /\ Range(Ascending(Released(d))) = Released(d)
          /\ ready' = q \o Ascending(Released(d))
      BY PushedIsReleased DEF Record
    <3> QED BY <3>1 DEF Range
  <2>2. \A n \in Released(d) : n \notin StartedNodes(o)
    BY ReleasedUnmarked
  <2> QED BY <1>1, <2>1, <2>2 DEF WaitingIds
<1>5. \A w \in WorkerIds : HeldBy(w)' = HeldBy(w)
  BY DEF HeldBy
<1>6. HandMarks'
  BY <1>1, <1>4, <1>5 DEF HandMarks
<1>7. UnmarkedOK'
  BY DEF UnmarkedOK
<1> QED BY <1>1, <1>2, <1>3, <1>6, <1>7 DEF ObservedInv
LEMMA StartObserved ==
  ASSUME AllInv, ObservedInv, unmarked = None, TracedStart
  PROVE  ObservedInv' /\ obs'.max_frontier_width = Max({obs.max_frontier_width, Len(ready')})
<1>1. /\ pc = "start" /\ Seed /\ needed = {} /\ UNCHANGED <<pending, sending, queue, wtask, res_rx>>
      /\ obs' = MarkReadyAll(obs, ready', 0) /\ UNCHANGED <<clock, trace>> /\ unmarked' = None
  BY DEF TracedStart, Observe, Start, dispatch, channels, AllInv, GraphInv, KahnInv
<1>2. KahnOK /\ ObsOK(obs) /\ trace = None /\ obs.max_frontier_width \in Nat
  BY <1>1, ObsFacts DEF AllInv, GraphInv, KahnInv, ObservedInv
<1>3. ready' \in Seq(NodeId) /\ ObsOK(obs)' /\ StartedNodes(obs)' = {}
  BY <1>1, <1>2, SeedOK, SeedObserved
<1>4. StartedNodes(obs) = {}
  BY <1>1, <1>2 DEF ObsOK, StartMarks, ReadyMarks, StartedNodes
<1>5. IdsOf(res_rx) = {} /\ \A w \in WorkerIds : HeldBy(w) = {}
  <2>1. InHand = {}
    BY <1>1 DEF AllInv, GraphInv, HandInv, StartableNodes
  <2> QED BY <2>1, OutInHand DEF AllInv, TasksOut, HeldBy, IdsOf
<1> DEFINE m == MarkReadyAll(obs, ready', 0)
           k == obs.max_frontier_width
<1>6. m.worker_id = obs.worker_id /\ m.max_frontier_width = Max({k} \cup Widths(ready', 0))
  BY <1>2, <1>3, MarkReadyFields DEF ObsOK
<1>7. obs' = m
  BY <1>1
<1> HIDE DEF m, k
<1>8. k \in Nat /\ 0 \in Nat /\ 0 <= k /\ 0 + Len(ready') = Len(ready')
  BY <1>2, <1>3, LenProperties DEF k
<1>9. obs'.max_frontier_width = Max({k, Len(ready')}) /\ Len(ready') <= obs'.max_frontier_width
  <2>1. Max({k} \cup Widths(ready', 0)) = Max({k, 0 + Len(ready')})
        /\ 0 + Len(ready') <= Max({k} \cup Widths(ready', 0))
    BY <1>3, <1>8, WidestIsLast, Zenon
  <2> QED BY <1>6, <1>7, <1>8, <2>1, Zenon
<1>10. \A n \in NodeId : obs'.worker_id[n] = None
  BY <1>4, <1>6, <1>7 DEF ObservedInv, HandMarks
<1>11. IdsOf(res_rx') = {} /\ \A w \in WorkerIds : HeldBy(w)' = {}
  BY <1>1, <1>5 DEF HeldBy
<1>12. HandMarks' /\ UnmarkedOK' /\ TraceOK' /\ trace' = None
  BY <1>1, <1>2, <1>3, <1>10, <1>11 DEF HandMarks, UnmarkedOK, TraceOK
<1> QED BY <1>3, <1>9, <1>12 DEF ObservedInv, k

\* The scheduler runs a source itself: marked, evaluated and finished in one step.
LEMMA SourceObserved ==
  ASSUME AllInv, ObservedInv, unmarked = None, TracedSource
  PROVE  ObservedInv' /\ obs'.max_frontier_width = Max({obs.max_frontier_width, Len(ready')})
<1>1. PICK n \in Sources :
        /\ PopReady(n)
        /\ Complete(n, ValueOf(n, <<>>), Tail(ready))
        /\ UNCHANGED <<call, pc, result, needed, in_flight, dispatch, channels, workers>>
  BY DEF TracedSource, RunSource
<1> DEFINE o == MarkStart(obs, n, None)
           q == Tail(ready)
<1>2. /\ pc = "dispatch" /\ ready # <<>> /\ n = Head(ready)
      /\ Record(n, ValueOf(n, <<>>), q)
      /\ UNCHANGED <<outs, needed, pending, sending, queue, wtask, res_rx>>
      /\ obs' = FinishAndRelease(o, n, q) /\ UNCHANGED <<clock, trace>> /\ unmarked' = None
  BY <1>1 DEF PopReady, Complete, call, dispatch, channels, workers, TracedSource, Observe
<1>3. KahnOK /\ ObsOK(obs) /\ trace = None /\ ready \in Seq(NodeId)
  BY <1>2, TypesOfHands DEF AllInv, Inv, GraphInv, KahnInv, ObservedInv
<1>4. /\ n \in Range(ready) /\ Range(q) = Range(ready) \ {n} /\ q \in Seq(NodeId)
      /\ Len(q) <= Len(ready)
  BY <1>2, <1>3, TailOnce, LenProperties, HeadTailProperties DEF AllInv, GraphInv, HandInv, OnceEach
<1>5. /\ n \in StartableNodes /\ n \in NodeId /\ ValueOf(n, <<>>) \in Value
      /\ ValueOf(n, <<>>) = ValueOf(n, Args(n))
  BY <1>3, <1>4, OutInHand, SourceYields DEF AllInv, KahnOK
<1>6. n \notin IdsOf(pending) \cup IdsOf(sending)
  <2>1. Hands[HeldHand] = IdsOf(pending) \cup IdsOf(sending) /\ Hands[ReadyHand] = Range(ready)
        /\ DOMAIN Hands = HandId
    BY HandFacts DEF Hands
  <2> QED BY <1>4, <2>1, HandIds DEF AllInv, GraphInv, HandInv, Disjoint
<1>7. /\ ObsOK(o) /\ StartedNodes(o) = StartedNodes(obs) \cup {n}
      /\ o.worker_id = [obs.worker_id EXCEPT ![n] = FirstOf(@, None)]
      /\ o.max_frontier_width = obs.max_frontier_width
  <2>1. None \in Option(Nat)
    BY OptionProperties
  <2> QED BY <1>3, <1>5, <2>1, MarkStartOK, MarkStartFields
<1>8. \A m \in NodeId : o.worker_id[m] = obs.worker_id[m]
  BY <1>3, <1>7, ObsFacts DEF FirstOf
<1> HIDE DEF o, q
<1>9. \A m \in NodeId : o.worker_id[m] # None <=> m \in StartedNodes(o) \ Sources
  BY <1>1, <1>7, <1>8 DEF ObservedInv, HandMarks
<1>10. \A m \in Range(q) \cup IdsOf(pending) \cup IdsOf(sending) : m \notin StartedNodes(o)
  BY <1>4, <1>6, <1>7 DEF ObservedInv, HandMarks, WaitingIds
<1>11. \A w \in WorkerIds : \A m \in HeldBy(w) : o.worker_id[m] = Some(w)
  <2> TAKE w \in WorkerIds
  <2> TAKE m \in HeldBy(w)
  <2>1. obs.worker_id[m] = Some(w)
    <3>1. Some([id |-> m, worker |-> w]) # None
      BY DEF Some, None
    <3> QED BY <3>1 DEF ObservedInv, HandMarks
  <2>2. m \in NodeId
    <3>1. PICK t \in TasksOut : t.id = m
      BY DEF HeldBy, TasksOut
    <3> QED BY <3>1, OutInHand DEF AllInv
  <2> QED BY <1>8, <2>1, <2>2
<1>12. \A m \in IdsOf(res_rx') : m \in StartedNodes(o)
  BY <1>2, <1>7 DEF ObservedInv, HandMarks
<1>13. Len(q) <= o.max_frontier_width
  <2>1. Len(q) \in Nat /\ Len(ready) \in Nat /\ obs.max_frontier_width \in Nat
    BY <1>3, <1>4, ObsFacts, LenProperties
  <2> QED BY <1>4, <1>7, <2>1 DEF ObservedInv
<1>14. ObservedInv'
  BY <1>2, <1>3, <1>4, <1>5, <1>7, <1>9, <1>10, <1>11, <1>12, <1>13, CompletionObserved
<1>15. obs'.max_frontier_width = Max({o.max_frontier_width, Len(ready')})
  BY <1>2, <1>3, <1>4, <1>5, <1>7, <1>13, FrontierObserved
<1> QED BY <1>7, <1>14, <1>15

\* A result is received only after its task has been marked as started.
LEMMA ReceiveOkObserved ==
  ASSUME AllInv, ObservedInv, unmarked = None, TracedReceiveOk
  PROVE  ObservedInv' /\ obs'.max_frontier_width = Max({obs.max_frontier_width, Len(ready')})
<1>1. PICK n \in NodeId, v \in Value :
        /\ TakeResult([id |-> n, out |-> Some(v)])
        /\ Complete(n, v, ready)
        /\ UNCHANGED <<call, needed, dispatch, task_txs_open, queue, res_rx_open, workers>>
  BY DEF TracedReceiveOk, ReceiveOk
<1> DEFINE r == [id |-> n, out |-> Some(v)]
<1>2. /\ pc = "wait" /\ res_rx # <<>> /\ Head(res_rx) = r /\ r.id = n
      /\ res_rx' = Tail(res_rx)
      /\ Record(n, v, ready)
      /\ UNCHANGED <<outs, needed, pending, sending, queue, wtask>>
      /\ obs' = FinishAndRelease(obs, n, ready) /\ UNCHANGED <<clock, trace>> /\ unmarked' = None
  BY <1>1 DEF TakeResult, Complete, call, dispatch, workers, TracedReceiveOk, Observe, Received
<1>3. KahnOK /\ ObsOK(obs) /\ trace = None /\ ready \in Seq(NodeId)
  BY <1>2, TypesOfHands DEF AllInv, Inv, GraphInv, KahnInv, ObservedInv
<1>4. n \in IdsOf(res_rx) /\ IdsOf(res_rx') \subseteq IdsOf(res_rx)
  <2>1. res_rx \in Seq(TaskResult) /\ OncePerNode(res_rx)
    BY TypesOfHands DEF AllInv, Inv, GraphInv, HandInv, OnceEach
  <2>2. Head(res_rx).id \in IdsOf(res_rx) /\ IdsOf(Tail(res_rx)) \subseteq IdsOf(res_rx)
    BY <1>2, <2>1, TailIds
  <2> QED BY <1>2, <2>2
<1>5. n \in StartableNodes \cap StartedNodes(obs)
  <2>1. n \in StartedNodes(obs)
    BY <1>4 DEF ObservedInv, HandMarks
  <2>2. n \in StartableNodes
    BY <1>4, OutInHand DEF AllInv, IdsOf
  <2> QED BY <2>1, <2>2
<1>6. \A w \in WorkerIds : \A m \in HeldBy(w) : obs.worker_id[m] = Some(w)
  <2>1. \A m, w : Some([id |-> m, worker |-> w]) # None
    BY DEF Some, None
  <2> QED BY <2>1 DEF ObservedInv, HandMarks
<1>7. /\ \A m \in NodeId : obs.worker_id[m] # None <=> m \in StartedNodes(obs) \ Sources
      /\ \A m \in Range(ready) \cup IdsOf(pending) \cup IdsOf(sending) : m \notin StartedNodes(obs)
      /\ \A m \in IdsOf(res_rx') : m \in StartedNodes(obs)
      /\ Len(ready) <= obs.max_frontier_width
  BY <1>4 DEF ObservedInv, HandMarks, WaitingIds
<1>8. v = ValueOf(n, Args(n))
  <2>1. Some(v) # None
    BY DEF Some, None
  <2>2. Some(v) = Some(ValueOf(n, Args(n)))
    BY <1>1, <2>1, ReceivedFacts DEF Ends
  <2> QED BY <2>2 DEF Some
<1> HIDE DEF r
<1>9. ObservedInv'
  BY <1>1, <1>2, <1>3, <1>5, <1>6, <1>7, <1>8, CompletionObserved
<1>10. obs'.max_frontier_width = Max({obs.max_frontier_width, Len(ready')})
  BY <1>1, <1>2, <1>3, <1>7, FrontierObserved
<1> QED BY <1>9, <1>10

LEMMA ReceiveErrObserved ==
  ASSUME AllInv, ObservedInv, unmarked = None, TracedReceiveErr
  PROVE  /\ ObservedInv' /\ obs'.max_frontier_width = obs.max_frontier_width
         /\ ready' = ready
<1>1. PICK n \in NodeId :
        /\ TakeResult([id |-> n, out |-> None])
        /\ UNCHANGED <<call, tables, dispatch, task_txs_open, queue, res_rx_open, workers>>
  BY DEF TracedReceiveErr, ReceiveErr
<1> DEFINE r == [id |-> n, out |-> None]
           o == MarkFinish(obs, n)
<1>2. /\ pc = "wait" /\ res_rx # <<>> /\ Head(res_rx) = r /\ r.id = n
      /\ res_rx' = Tail(res_rx)
      /\ UNCHANGED <<needed, vals, ready, pending, sending, queue, wtask>>
      /\ obs' = o /\ UNCHANGED <<clock, trace>> /\ unmarked' = None
  BY <1>1 DEF TakeResult, call, tables, dispatch, workers, TracedReceiveErr, Observe, Received
<1>3. KahnOK /\ ObsOK(obs) /\ trace = None
  BY <1>2 DEF AllInv, GraphInv, KahnInv, ObservedInv
<1>4. n \in IdsOf(res_rx) /\ IdsOf(res_rx') \subseteq IdsOf(res_rx)
  <2>1. res_rx \in Seq(TaskResult) /\ OncePerNode(res_rx)
    BY TypesOfHands DEF AllInv, Inv, GraphInv, HandInv, OnceEach
  <2>2. Head(res_rx).id \in IdsOf(res_rx) /\ IdsOf(Tail(res_rx)) \subseteq IdsOf(res_rx)
    BY <1>2, <2>1, TailIds
  <2> QED BY <1>2, <2>2
<1>5. n \in StartedNodes(obs)
  BY <1>4 DEF ObservedInv, HandMarks
<1>6. /\ ObsOK(o) /\ StartedNodes(o) = StartedNodes(obs) /\ o.worker_id = obs.worker_id
      /\ o.max_frontier_width = obs.max_frontier_width
  BY <1>3, <1>5, MarkFinishMarks, MarkFinishFields DEF ObsOK
<1> HIDE DEF o, r
<1>7. ObsOK(obs)' /\ StartedNodes(obs)' = StartedNodes(obs)
  BY <1>2, <1>6, ObserveOK DEF StartedNodes
<1>8. WaitingIds' = WaitingIds /\ \A w \in WorkerIds : HeldBy(w)' = HeldBy(w)
  BY <1>2 DEF WaitingIds, HeldBy
<1>9. HandMarks'
  <2>1. \A m, w : Some([id |-> m, worker |-> w]) # None
    BY DEF Some, None
  <2> QED BY <1>2, <1>4, <1>6, <1>7, <1>8, <2>1 DEF ObservedInv, HandMarks
<1>10. UnmarkedOK' /\ TraceOK'
  BY <1>2, <1>3 DEF UnmarkedOK, TraceOK
<1> QED BY <1>2, <1>3, <1>6, <1>7, <1>9, <1>10 DEF ObservedInv
\* The outputs are collected only at the very end.
OkAtEnd == result.tag = "Ok" => pc = "returned"

LEMMA OkStep == ASSUME OkAtEnd, [Next]_vars PROVE OkAtEnd'
<1>1. CASE RejectCall \/ RejectOutput \/ Return
  BY <1>1 DEF RejectCall, RejectOutput, Rejected, Return, OkAtEnd
<1>2. CASE Start \/ RetryPending \/ RunSource \/ TrySend \/ TryFull \/ StopDispatching \/ ClosePool
  <2>1. result' = result /\ pc # "returned"
    BY <1>2 DEF Start, RetryPending, RunSource, PopReady, TrySend, TryFull, StopDispatching, ClosePool
  <2> QED BY <2>1 DEF OkAtEnd
<1>3. CASE PrepareTask
  <2> DEFINE missing == [tag |-> "InternalInvariant", what |-> "dep missing"]
  <2>1. missing.tag # "Ok"
    OBVIOUS
  <2> HIDE DEF missing
  <2>2. (result' = result \/ result' = missing) /\ pc # "returned"
    BY <1>3 DEF PrepareTask, PopReady, Leave, missing
  <2> QED BY <2>1, <2>2 DEF OkAtEnd
<1>4. CASE TryDisconnected \/ ReceiveDisconnected \/ ReportCycle \/ ReceiveErr
  <2>1. CASE TryDisconnected
    BY <2>1 DEF TryDisconnected, Leave, OkAtEnd
  <2>2. CASE ReceiveDisconnected
    BY <2>2 DEF ReceiveDisconnected, Leave, OkAtEnd
  <2>3. CASE ReportCycle
    BY <2>3 DEF ReportCycle, Leave, OkAtEnd
  <2>4. CASE ReceiveErr
    BY <2>4 DEF ReceiveErr, Leave, OkAtEnd
  <2> QED BY <1>4, <2>1, <2>2, <2>3, <2>4
<1>5. CASE ReceiveOk
  <2>1. /\ result' = result \/ result'.tag = "Evaluated"
        /\ pc # "returned"
    BY <1>5 DEF ReceiveOk, TakeResult, Leave
  <2> QED BY <2>1 DEF OkAtEnd
<1>6. ASSUME NEW w \in WorkerIds, Worker(w) PROVE OkAtEnd'
  BY <1>6 DEF Worker, TakeTask, FinishTask, SendResult, PanicTask, ExitWorker, OkAtEnd
<1>7. CASE UNCHANGED vars
  BY <1>7 DEF vars, OkAtEnd
<1> QED BY <1>1, <1>2, <1>3, <1>4, <1>5, <1>6, <1>7 DEF Next, Scheduler, Finished

LEMMA ReturnObserved ==
  ASSUME AllInv, EndInv, OkAtEnd, ObservedInv, unmarked = None, TracedReturn
  PROVE  ObservedInv'
<1>1. /\ pc = "join" /\ pc' = "returned"
      /\ result' = IF result.tag = "Evaluated" THEN Collected ELSE result
      /\ UNCHANGED <<needed, vals, ready, pending, sending, queue, wtask>> /\ res_rx' = None
      /\ trace' = IF result'.tag = "Ok" THEN Some(Finalize) ELSE trace
      /\ UNCHANGED <<clock, obs, unmarked>>
  BY DEF TracedReturn, FinalizeIfOk, Return, tables, dispatch, workers, None
<1>2. KahnOK /\ ObsOK(obs) /\ trace = None
  BY <1>1 DEF AllInv, GraphInv, KahnInv, ObservedInv
<1>3. TraceOK'
  <2>1. CASE result'.tag = "Ok"
    <3>1. result.tag = "Evaluated"
      BY <1>1, <2>1 DEF OkAtEnd
    <3>2. /\ needed # {} /\ ~ (processed < Cardinality(needed))
          /\ processed = Cardinality(ValuedNodes)
      BY <3>1 DEF EndInv, LoopResult, MoreToDo, AllInv, GraphInv, KahnInv
    <3>3. \A n \in needed : vals[n] # None
      <4>1. IsFiniteSet(needed)
        BY <1>2, NodeSets DEF KahnOK, KahnTypes
      <4> QED BY <1>2, <3>2, <4>1, CountSaysAll, FS_CardinalityType
    <3> QED BY <1>1, <1>2, <2>1, <3>2, <3>3, FinalizeObserved DEF AllValued
  <2>2. CASE result'.tag # "Ok"
    BY <1>1, <1>2, <2>2 DEF TraceOK
  <2> QED BY <2>1, <2>2
<1>4. ObsOK(obs)'
  BY <1>1, <1>2, ObserveOK
<1>5. HandMarks' /\ UnmarkedOK' /\ Len(ready') <= obs'.max_frontier_width
  <2>1. WaitingIds' = WaitingIds /\ StartedNodes(obs)' = StartedNodes(obs)
        /\ \A w \in WorkerIds : HeldBy(w)' = HeldBy(w)
    BY <1>1 DEF WaitingIds, StartedNodes, HeldBy
  <2>2. IdsOf(res_rx') = {}
    BY <1>1, SlotIds
  <2>3. HandMarks'
    BY <1>1, <2>1, <2>2 DEF ObservedInv, HandMarks
  <2> QED BY <1>1, <2>3 DEF ObservedInv, UnmarkedOK
<1> QED BY <1>1, <1>3, <1>4, <1>5 DEF ObservedInv

LEMMA TimeObserved == ASSUME ObservedInv, TimePasses PROVE ObservedInv'
<1>1. /\ pc # "returned" /\ Tick /\ obs' = obs /\ trace' = trace /\ unmarked' = unmarked
      /\ UNCHANGED <<needed, vals, ready, pending, sending, queue, wtask, res_rx, pc>>
  BY DEF TimePasses, Tick, vars, tables, dispatch, channels, workers
<1>2. ObsOK(obs)' /\ trace = None
  BY <1>1, TickOK DEF ObservedInv
<1>3. /\ WaitingIds' = WaitingIds /\ StartedNodes(obs)' = StartedNodes(obs)
      /\ StartableNodes' = StartableNodes /\ \A w \in WorkerIds : HeldBy(w)' = HeldBy(w)
  BY <1>1 DEF WaitingIds, StartedNodes, StartableNodes, DepsDone, HeldBy
<1>4. HandMarks' /\ UnmarkedOK'
  BY <1>1, <1>3 DEF ObservedInv, HandMarks, UnmarkedOK
<1> QED BY <1>1, <1>2, <1>4 DEF ObservedInv, TraceOK

LEMMA StayObserved ==
  ASSUME AllInv, ObservedInv, UNCHANGED <<vars, observer, unmarked>> PROVE ObservedInv'
<1>1. /\ UNCHANGED <<needed, vals, clock, obs, trace, unmarked>>
      /\ UNCHANGED <<ready, pending, sending, queue, wtask, res_rx, pc>>
  BY DEF vars, tables, dispatch, channels, workers, observer
<1>2. ready \in Seq(NodeId) /\ \A n \in IdsOf(res_rx) : n \in NodeId
  BY TypesOfHands, OutInHand DEF AllInv, Inv, IdsOf
<1>3. WaitingIds' = WaitingIds /\ \A w \in WorkerIds : HeldBy(w)' = HeldBy(w)
  BY <1>1 DEF WaitingIds, HeldBy
<1>4. Len(ready') <= Len(ready)
  BY <1>1, <1>2, LenProperties
<1>5. (trace # None => pc' = "returned") /\ (unmarked # None => pc' = "dispatch")
  BY <1>1 DEF ObservedInv, UnmarkedOK
<1> QED BY <1>1, <1>2, <1>3, <1>4, <1>5, MovesObserved

LEMMA NextObserved ==
  AllInv /\ EndInv /\ OkAtEnd /\ ObservedInv /\ [TracedNext]_tracedVars => ObservedInv'
<1> SUFFICES ASSUME AllInv, EndInv, OkAtEnd, ObservedInv, [TracedNext]_tracedVars
             PROVE  ObservedInv'
  OBVIOUS
<1>1. CASE TracedScheduler
  BY <1>1, StartObserved, SourceObserved, TrySendObserved, ReceiveOkObserved, ReceiveErrObserved,
     ReturnObserved, UnobservedObserved DEF TracedScheduler
<1>2. CASE MarkQueued
  BY <1>2, MarkQueuedObserved
<1>3. ASSUME NEW w \in WorkerIds, TracedWorker(w) PROVE ObservedInv'
  BY <1>3, WorkerObserved
<1>4. CASE TimePasses
  BY <1>4, TimeObserved
<1>5. CASE UNCHANGED <<vars, observer, unmarked>>
  BY <1>5, StayObserved
<1> QED BY <1>1, <1>2, <1>3, <1>4, <1>5 DEF TracedNext, Finished, tracedVars

LEMMA ObservedInvariance == TracedSpec => [](AllInv /\ ObservedInv)
<1>1. TracedInit => ObservedInv
  BY TracedInitObserved
<1>2. TracedInit => OkAtEnd
  BY DEF TracedInit, Init, TablesInit, OkAtEnd
<1>3. [TracedNext]_tracedVars => [Next]_vars
  BY TracedStep
<1>4. OkAtEnd /\ [Next]_vars => OkAtEnd'
  BY OkStep
<1> QED
  BY <1>1, <1>2, <1>3, <1>4, NextObserved, TracedIsParallel, AllInvariance, PTL DEF TracedSpec

LEMMA ObservedFacts == AllInv /\ ObservedInv => TraceFacts
BY DEF AllInv, GraphInv, KahnInv, ObservedInv, TraceFacts

(***************************************************************************)
(* Also in a parallel run nodes are started, and reported, after all their *)
(* deps, whatever the schedule and the order of the results.               *)
(***************************************************************************)
THEOREM ParallelTopological == TracedSpec => []TraceTopological
<1>1. AllInv /\ ObservedInv => TraceTopological
  BY ObservedFacts, TopologicalFollows
<1> QED BY <1>1, ObservedInvariance, PTL

(***************************************************************************)
(* The trace of a parallel run reports each needed node once, with times   *)
(* that are in order although a task may end before it is marked.          *)
(***************************************************************************)
THEOREM ParallelTimes == TracedSpec => []TimesOrdered
<1>1. AllInv /\ ObservedInv => TimesOrdered
  BY ObservedFacts, TimesFollow
<1> QED BY <1>1, ObservedInvariance, PTL

(***************************************************************************)
(* critical_path_time of a parallel run is the weight of the heaviest      *)
(* chain of dependent nodes, and is no more than wall_time.                *)
(***************************************************************************)
THEOREM ParallelCriticalPath == TracedSpec => []CriticalPathIsLongest
<1>1. AllInv /\ ObservedInv => CriticalPathIsLongest
  BY ObservedFacts, CriticalFollows
<1> QED BY <1>1, ObservedInvariance, PTL

(***************************************************************************)
(* A task's worker_id is the worker that runs it, there by the time its    *)
(* result is received; in a trace every task has one and no source does.   *)
(***************************************************************************)
THEOREM WorkerIdsPresent == TracedSpec => []WorkerIdsTrue
<1>1. ASSUME AllInv, ObservedInv PROVE WorkerIdsTrue
  <2>1. ASSUME trace # None, NEW n \in needed PROVE obs.worker_id[n] = None <=> n \in Sources
    <3>1. vals[n] # None /\ n \in NodeId
      BY <1>1, <2>1 DEF ObservedInv, TraceOK, AllValued, AllInv, GraphInv, KahnInv, KahnOK, KahnTypes
    <3>2. n \in StartedNodes(obs)
      BY <1>1, <3>1 DEF ObservedInv, ObsOK, EvaluationMarked, FinishMarks, ValuedNodes, StartedNodes
    <3> QED BY <1>1, <3>1, <3>2 DEF ObservedInv, HandMarks
  <2> QED BY <1>1, <2>1 DEF WorkerIdsTrue, ObservedInv, HandMarks
<1> QED BY <1>1, ObservedInvariance, PTL

(***************************************************************************)
(* max_frontier_width is the longest the ready queue has ever been: the    *)
(* queue grows only where the observer is told, and by all that is pushed. *)
(***************************************************************************)
THEOREM FrontierWidth == TracedSpec => FrontierIsPeak
<1> DEFINE Peak == obs'.max_frontier_width = Max({obs.max_frontier_width, Len(ready')})
<1>1. ASSUME AllInv, ObservedInv, [TracedNext]_tracedVars PROVE Peak
  <2>1. CASE unmarked = None /\ (TracedStart \/ TracedSource \/ TracedReceiveOk)
    BY <1>1, <2>1, StartObserved, SourceObserved, ReceiveOkObserved
  <2>2. CASE /\ obs'.max_frontier_width = obs.max_frontier_width
             /\ Len(ready') <= Len(ready) /\ Len(ready') \in Nat /\ Len(ready) \in Nat
    <3> DEFINE k == obs.max_frontier_width
    <3>1. k \in Nat /\ Len(ready') <= k
      BY <1>1, <2>2, ObsFacts DEF ObservedInv
    <3> HIDE DEF k
    <3>2. Max({k, Len(ready')}) = k
      <4>1. {k, Len(ready')} \in SUBSET (0 .. k) /\ {k, Len(ready')} # {}
        BY <2>2, <3>1
      <4>2. Max({k, Len(ready')}) \in 0 .. k /\ k <= Max({k, Len(ready')})
        BY <3>1, <4>1, MaxOf
      <4> QED BY <3>1, <4>2
    <3> QED BY <2>2, <3>2 DEF k
  <2>3. ready \in Seq(NodeId) /\ Len(ready) \in Nat
    BY <1>1, TypesOfHands, LenProperties DEF AllInv, Inv
  <2>4. CASE UNCHANGED ready /\ obs'.max_frontier_width = obs.max_frontier_width
    BY <2>2, <2>3, <2>4
  <2>5. CASE unmarked = None /\ (TracedTrySend \/ TracedReturn)
    BY <2>4, <2>5 DEF TracedTrySend, TrySend, TracedReturn, Return, tables, observer
  <2>6. CASE unmarked = None /\ TracedReceiveErr
    BY <1>1, <2>4, <2>6, ReceiveErrObserved
  <2>7. CASE SchedulerUnobserved
    <3>1. obs' = obs
      BY <2>7 DEF SchedulerUnobserved, observer
    <3>2. CASE ready' = ready
      BY <2>4, <3>1, <3>2
    <3>3. CASE ready' # ready
      <4>1. ready # <<>> /\ ready' = Tail(ready)
        BY <2>7, <3>3
        DEF SchedulerUnobserved, RejectCall, RejectOutput, Rejected, RetryPending, PrepareTask,
            PopReady, TryFull, TryDisconnected, StopDispatching, ReportCycle,
            ReceiveDisconnected, ClosePool, tables
      <4>2. Len(ready') \in Nat /\ Len(ready') <= Len(ready)
        BY <2>3, <4>1, HeadTailProperties, LenProperties
      <4> QED BY <2>2, <2>3, <3>1, <4>2
    <3> QED BY <3>2, <3>3
  <2>8. CASE MarkQueued
    <3>1. /\ unmarked # None /\ ready' = ready
          /\ obs' = MarkStart(obs, unmarked[1].id, Some(unmarked[1].worker))
      BY <2>8 DEF MarkQueued, vars, tables
    <3>2. obs'.max_frontier_width = obs.max_frontier_width
      BY <1>1, <3>1, ObsFacts DEF MarkStart, ObservedInv, ObsOK, ObsTypes
    <3> QED BY <2>4, <3>1, <3>2
  <2>9. ASSUME NEW w \in WorkerIds, TracedWorker(w) PROVE Peak
    BY <2>4, <2>9 DEF TracedWorker, Worker, TakeTask, FinishTask, SendResult, PanicTask, ExitWorker,
                      tables, observer
  <2>10. CASE TimePasses \/ UNCHANGED <<vars, observer, unmarked>>
    BY <2>4, <2>10 DEF TimePasses, Tick, vars, tables, observer
  <2> HIDE DEF Peak
  <2> QED BY <1>1, <2>1, <2>5, <2>6, <2>7, <2>8, <2>9, <2>10
          DEF TracedNext, TracedScheduler, Finished, tracedVars
<1>2. AllInv /\ ObservedInv /\ [TracedNext]_tracedVars => [Peak]_tracedVars
  BY <1>1
<1> QED BY <1>2, ObservedInvariance, PTL DEF TracedSpec, FrontierIsPeak
=============================================================================
