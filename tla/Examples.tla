------------------------------ MODULE Examples ------------------------------
(***************************************************************************)
(* The programs under src/examples: each adds the nodes of a graph to a    *)
(* DagBuilder, builds it, and asks for some of its outputs, counting the   *)
(* closures that run. Keys are tuples for the strings format! makes (the   *)
(* numbers in them stand between slashes, so distinct tuples are distinct  *)
(* strings). Hashes are terms: they tell apart whatever was hashed, in the *)
(* order it was hashed.                                                    *)
(***************************************************************************)
EXTENDS DagBuilder, SequencesExt

CONSTANT Programs   \* the programs and their parameters

VARIABLES
  program,
  calls,      \* the calls to the builder still to come
  requests,   \* the outputs still to ask for, in the order main does
  answer      \* the last request, the nodes run for it, and its outputs

exampleVars == <<vars, program, calls, requests, answer>>

AddSource(key, value) == [key |-> key, deps |-> <<>>, kind |-> Source(value)]
AddTask(key, deps, f) == [key |-> key, deps |-> deps, kind |-> Task(f)]
Closure(name) == [fn |-> name]

\* one list from the lists of i = 0, 1, .. n - 1
For(n, Body(_)) == FlattenSeq([i \in 1 .. n |-> Body(i - 1)])

Halved(n, times) == n \div 2 ^ times
Bit(n, level) == Halved(n, level) % 2
FlipLowBit(n) == IF n % 2 = 0 THEN n + 1 ELSE n - 1
Log2(n) == CHOOSE h \in 0 .. n : 2 ^ h = n

TxKey(i) == <<"tx", i>>
LeafKey(i) == <<"leaf", i>>

\* tx/{i} and leaf/{i}
Leaves(n) ==
  LET Leaf(i) == <<AddSource(TxKey(i), <<"encoded", i>>),
                   AddTask(LeafKey(i), <<TxKey(i)>>, Closure("leaf"))>>
  IN For(n, Leaf)

\* one tree over width leaves: levels 1 .. height, each node over two children
Tree(width, height, Out(_, _), Child(_, _)) ==
  LET Level(l) ==
        LET Node(idx) == <<AddTask(Out(l + 1, idx),
                                   <<Child(l, 2 * idx), Child(l, 2 * idx + 1)>>, Closure("node"))>>
        IN For(Halved(width, l + 1), Node)
  IN For(height, Level)

-----------------------------------------------------------------------------
(* merkle.rs                                                               *)

MerkleKey(level, idx) == IF level = 0 THEN LeafKey(idx) ELSE <<"node", level, idx>>

MerkleCalls(p) ==
  Leaves(p.n_leaves) \o Tree(p.n_leaves, Log2(p.n_leaves), MerkleKey, MerkleKey)

MerkleRoot(p) == MerkleKey(Log2(p.n_leaves), 0)
MerkleSubtree(p) == MerkleKey(p.level, p.index)
MerkleRequests(p) == <<<<MerkleRoot(p)>>, <<MerkleSubtree(p)>>>>

-----------------------------------------------------------------------------
(* rollup.rs                                                               *)

ChunkHeight(p) == Log2(p.chunk_size)
Chunks(p) == p.batch_size \div p.chunk_size
TargetChunk(p) == p.target_tx \div p.chunk_size
Pos(p) == p.target_tx % p.chunk_size

ChunkNodeKey(c, lvl, idx) == <<"chunk", c, "node", lvl, idx>>
ChunkRootKey(c) == <<"chunk", c, "root">>
BatchNodeKey(lvl, idx) == <<"batch", "node", lvl, idx>>
BatchRootKey == <<"batch", "root">>
ProofKey(p) == <<"chunk", TargetChunk(p), "proof", "tx", Pos(p)>>

ChunkChildOfFirst(p, c, lvl, idx) ==
  IF lvl = 0 THEN LeafKey(idx) ELSE ChunkNodeKey(c, lvl, idx)
ChunkChildKey(p, c, lvl, idx) ==
  IF lvl = 0 THEN LeafKey(c * p.chunk_size + idx) ELSE ChunkNodeKey(c, lvl, idx)

ChunkSelfKey(p, lvl) == ChunkChildKey(p, TargetChunk(p), lvl, Halved(Pos(p), lvl))
ChunkSiblingKey(p, lvl) ==
  LET sib_idx == FlipLowBit(Halved(Pos(p), lvl)) IN
  IF lvl = 0 THEN LeafKey(TargetChunk(p) * p.chunk_size + sib_idx)
             ELSE ChunkNodeKey(TargetChunk(p), lvl, sib_idx)

BatchChildNode(lvl, idx) == BatchNodeKey(lvl, idx)
BatchChildKey(lvl, idx) == IF lvl = 0 THEN ChunkRootKey(idx) ELSE BatchNodeKey(lvl, idx)

RollupCalls(p) ==
  LET Chunk(c) ==
        LET Out(lvl, idx) == ChunkNodeKey(c, lvl, idx)
            Child(lvl, idx) == ChunkChildKey(p, c, lvl, idx)
        IN Append(Tree(p.chunk_size, ChunkHeight(p), Out, Child),
                  AddTask(ChunkRootKey(c), <<ChunkNodeKey(c, ChunkHeight(p), 0)>>, Closure("alias")))
      Sibling(lvl) == <<ChunkSiblingKey(p, lvl)>>
      batch_height == Log2(Chunks(p))
  IN Leaves(p.batch_size)
       \o For(Chunks(p), Chunk)
       \o Tree(Chunks(p), batch_height, BatchNodeKey, BatchChildKey)
       \o <<AddTask(BatchRootKey, <<BatchNodeKey(batch_height, 0)>>, Closure("alias")),
            AddTask(ProofKey(p), <<LeafKey(p.target_tx)>> \o For(ChunkHeight(p), Sibling),
                    [fn |-> "proof", index |-> Pos(p), height |-> ChunkHeight(p)])>>

RollupRequests(p) ==
  LET chunk_root == ChunkRootKey(TargetChunk(p)) IN
  <<<<BatchRootKey>>, <<BatchRootKey>>, <<chunk_root>>, <<chunk_root, ProofKey(p)>>>>

-----------------------------------------------------------------------------
(* pipeline.rs                                                             *)

PipelineCalls ==
  <<AddSource(<<"raw">>, <<"bytes">>),
    AddTask(<<"decoded">>, <<<<"raw">>>>, Closure("decode")),
    AddTask(<<"commitment">>, <<<<"decoded">>>>, Closure("leaf")),
    AddTask(<<"fee">>, <<<<"decoded">>>>, Closure("fee")),
    AddTask(<<"risk">>, <<<<"decoded">>>>, Closure("risk")),
    AddTask(<<"receipt_basic">>, <<<<"commitment">>, <<"fee">>>>, Closure("basic")),
    AddTask(<<"receipt_full">>, <<<<"receipt_basic">>, <<"risk">>>>, Closure("full"))>>

PipelineRequests == <<<<<<"commitment">>>>, <<<<"receipt_basic">>>>, <<<<"receipt_full">>>>>>

-----------------------------------------------------------------------------
(* The closures.                                                           *)

Failed == <<"failed">>   \* Err: it passes to all that depends on it, and so to the outputs
IsHash(x) == x[1] \in {"leaf", "node"}   \* ensure_32
IsU64(x) == x[1] = "fee"                 \* read_u64_le

EncodeProof(pos, height, leaf, siblings) ==
  [version |-> 1, height |-> height, index |-> pos, leaf |-> leaf,
   path |-> [l \in DOMAIN siblings |-> [side |-> Bit(pos, l - 1), sibling |-> siblings[l]]]]

Checked(f, xs) ==
  CASE f.fn \in {"node", "proof"} -> \A i \in DOMAIN xs : IsHash(xs[i])
    [] f.fn = "basic"             -> IsU64(xs[2])
    [] OTHER                      -> TRUE

Apply(f, xs) ==
  IF Failed \in Range(xs) \/ ~ Checked(f, xs) THEN Failed
  ELSE CASE f.fn = "alias" -> xs[1]
         [] f.fn = "proof" -> <<"proof", EncodeProof(f.index, f.height, xs[1], Tail(xs))>>
         [] OTHER          -> <<f.fn>> \o xs

-----------------------------------------------------------------------------
(* verify_merkle_proof: the first level that is wrong ends it.             *)

Folded(proof) ==
  LET cur[l \in 0 .. proof.height] ==
        IF l = 0 THEN proof.leaf
        ELSE IF proof.path[l].side = 0 THEN <<"node", cur[l - 1], proof.path[l].sibling>>
        ELSE <<"node", proof.path[l].sibling, cur[l - 1]>>
  IN cur[proof.height]

Verify(root, proof) ==
  /\ proof.version = 1
  /\ proof.height <= Len(proof.path)
  /\ \A l \in 1 .. proof.height : proof.path[l].side = Bit(proof.index, l - 1)
  /\ Folded(proof) = root

-----------------------------------------------------------------------------
(* naive_merkle_root: level by level, pairs of neighbours.                 *)

NaiveLevel(level) ==
  [i \in 1 .. Len(level) \div 2 |-> <<"node", level[2 * i - 1], level[2 * i]>>]

NaiveRoot(leaves) ==
  LET levels[k \in Nat] == IF k = 0 THEN leaves ELSE NaiveLevel(levels[k - 1])
  IN levels[Log2(Len(leaves))][1]

TxLeaf(i) == <<"leaf", <<"encoded", i>>>>

NaiveChunkRoot(p, c) == NaiveRoot([i \in 1 .. p.chunk_size |-> TxLeaf(c * p.chunk_size + i - 1)])
NaiveBatchRoot(p) == NaiveRoot([c \in 1 .. Chunks(p) |-> NaiveChunkRoot(p, c - 1)])

-----------------------------------------------------------------------------
(* main                                                                    *)

ExamplesInit ==
  /\ Init
  /\ program \in Programs
  /\ calls = CASE program.name = "merkle"   -> MerkleCalls(program)
               [] program.name = "rollup"   -> RollupCalls(program)
               [] program.name = "pipeline" -> PipelineCalls
  /\ requests = CASE program.name = "merkle"   -> MerkleRequests(program)
                  [] program.name = "rollup"   -> RollupRequests(program)
                  [] program.name = "pipeline" -> PipelineRequests
  /\ answer = [tag |-> "None"]

\* b.add_source(..)?; and b.add_task(..)?;
CallBuilder ==
  /\ result.tag = "Ok"
  /\ calls # <<>>
  /\ insert_node(calls[1].key, calls[1].deps, calls[1].kind)
  /\ calls' = Tail(calls)
  /\ UNCHANGED <<program, requests, answer>>

CallBuild ==
  /\ result.tag = "Ok"
  /\ calls = <<>>
  /\ build
  /\ UNCHANGED <<program, calls, requests, answer>>

(***************************************************************************)
(* A run over the built graph, by what DagEval says of it: the nodes of    *)
(* the cone run once each, and get their values from those of their deps.  *)
(* Nodes are added after their deps, so both recursions end.               *)
(***************************************************************************)
NodeOf(id) == result.nodes[id + 1]
Ids == 0 .. Len(result.nodes) - 1

ConeOf[id \in Ids] == {id} \cup UNION {ConeOf[d] : d \in Range(NodeOf(id).deps)}

ValueAt[id \in Ids] ==
  LET kind == NodeOf(id).kind IN
  IF kind.tag = "Source" THEN kind.value
  ELSE Apply(kind.f, [j \in DOMAIN NodeOf(id).deps |-> ValueAt[NodeOf(id).deps[j]]])

RunDag ==
  /\ result.tag = "Dag"
  /\ requests # <<>>
  /\ LET keys == requests[1] IN
       answer' = [tag |-> "Out", keys |-> keys,
                  ran |-> UNION {ConeOf[result.index[keys[i]]] : i \in DOMAIN keys},
                  out |-> [i \in DOMAIN keys |-> ValueAt[result.index[keys[i]]]]]
  /\ requests' = Tail(requests)
  /\ UNCHANGED <<vars, program, calls>>

Exit ==
  /\ result.tag \notin {"Ok", "Dag"} \/ (result.tag = "Dag" /\ requests = <<>>)
  /\ UNCHANGED exampleVars

ExamplesNext == CallBuilder \/ CallBuild \/ RunDag \/ Exit

ExamplesSpec == ExamplesInit /\ [][ExamplesNext]_exampleVars

-----------------------------------------------------------------------------
(***************************************************************************)
(* The index arithmetic names only nodes that exist, each once, and every  *)
(* task gets what its closure expects ("these checks catch wiring mistakes *)
(* early", merkle.rs:153): no call of the builder is refused, build gives  *)
(* a graph, and no closure fails.                                          *)
(***************************************************************************)
NoWiringMistake ==
  /\ result.tag \in {"Ok", "Dag"}
  /\ answer.tag = "Out" => Failed \notin Range(answer.out)

(***************************************************************************)
(* Only what a request needs runs: the counts the programs print as        *)
(* expected (merkle.rs:77 and 101, rollup.rs:187, 210), and the closures   *)
(* pipeline.rs:25 says are skipped.                                        *)
(***************************************************************************)
Ran(fn) == Cardinality({n \in answer.ran : NodeOf(n).kind.tag = "Task" /\ NodeOf(n).kind.f.fn = fn})
Asked(key) == answer.tag = "Out" /\ key \in Range(answer.keys)

RanTree(leaves) == Ran("leaf") = leaves /\ Ran("node") = leaves - 1

PrunedWork ==
  CASE program.name = "merkle" ->
         /\ Asked(MerkleRoot(program)) => RanTree(program.n_leaves)
         /\ Asked(MerkleSubtree(program)) => RanTree(2 ^ program.level)
    [] program.name = "rollup" ->
         /\ Asked(BatchRootKey) => RanTree(program.batch_size) /\ Ran("proof") = 0
         /\ Asked(ChunkRootKey(TargetChunk(program))) => RanTree(program.chunk_size)
         /\ Asked(ProofKey(program)) => Ran("proof") = 1
    [] program.name = "pipeline" ->
         /\ Asked(<<"commitment">>) =>
              \A fn \in {"fee", "risk", "basic", "full"} : Ran(fn) = 0
         /\ Asked(<<"receipt_basic">>) => Ran("risk") = 0 /\ Ran("full") = 0
         /\ Asked(<<"receipt_full">>) =>
              \A fn \in {"decode", "leaf", "fee", "risk", "basic", "full"} : Ran(fn) = 1

(***************************************************************************)
(* The graphs compute the commitment that the sequential baseline of       *)
(* rollup.rs computes: the batch root over all chunk roots, and a chunk    *)
(* root over the txs of that chunk only, in order; a Merkle (sub)tree root *)
(* likewise.                                                               *)
(***************************************************************************)
RootMatchesNaive ==
  answer.tag = "Out" =>
    CASE program.name = "rollup" ->
           answer.out[1] = IF Asked(BatchRootKey) THEN NaiveBatchRoot(program)
                           ELSE NaiveChunkRoot(program, TargetChunk(program))
      [] program.name = "merkle" /\ requests = <<>> ->
           LET width == 2 ^ program.level IN
           answer.out[1] = NaiveRoot([i \in 1 .. width |-> TxLeaf(program.index * width + i - 1)])
      [] OTHER -> TRUE

(***************************************************************************)
(* The inclusion proof made for any position of any chunk is about that    *)
(* position's tx and verifies against that chunk's root, so that sibling   *)
(* keys, side bits and the folding of the path agree (rollup.rs:42         *)
(* "verification against the computed chunk root").                        *)
(***************************************************************************)
ProofVerifies ==
  program.name = "rollup" /\ Asked(ProofKey(program)) =>
    LET proof == answer.out[2][2] IN
    /\ proof.leaf = TxLeaf(program.target_tx)
    /\ proof.index = Pos(program)
    /\ Verify(answer.out[1], proof)
=============================================================================
