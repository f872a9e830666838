---------------------------- MODULE SparseLayers ----------------------------
(***************************************************************************)
(* One step of sparse attention through the layers of a rank: the host     *)
(* enqueues each layer's work on three GPU streams joined by events        *)
(* (files/attention.py, _run_parallel_input_projections, _prepare_and_attn,*)
(* DeepseekV4Indexer), the indexer publishes its selection in buffers all  *)
(* layers share (files/sparse_attn_indexer.py, sparse_attn_indexer), and   *)
(* attention reads the caches and the selection                            *)
(* (files/flashinfer_sparse.py, _forward_prefill, _forward_decode).        *)
(*                                                                         *)
(* Data are tags <<step, layer>>: who wrote it last, and for which step.   *)
(* A selection says what it was computed from, not which positions it has. *)
(* Every activation has one cell, as if the allocator handed the block a   *)
(* layer frees to the next layer at once.                                  *)
(***************************************************************************)
EXTENDS Integers, Sequences, FiniteSets, FiniteSetsExt

CONSTANTS
  Setups,     \* the deployments to consider
  Batches,    \* the batches a step may have
  TopK,       \* index_topk
  Threshold,  \* VLLM_MULTI_STREAM_GEMM_TOKEN_THRESHOLD
  MaxRows,    \* max_num_batched_tokens: rows of the shared buffers
  MaxSteps    \* bound: steps

Setup == [ratio : Seq(0..2),       \* compress_ratio per layer
          kvSources : SUBSET (Nat \ {0}),
          indexSources : SUBSET (Nat \ {0}),
          candidateSource : Nat,   \* 0: no two-level selection
          auxStreams : BOOLEAN,
          v2 : BOOLEAN]            \* use_v2_model_runner

\* Queries per request, decodes first; graph padding; the longest sequence;
\* and the indexer's chunks of the prefill tokens.
Chunk == [first : Nat, last : Nat, group : Nat, skipGather : BOOLEAN]
Batch == [decodes : Seq(Nat \ {0}), prefill : Nat, padding : Nat,
          maxSeqLen : Nat, graph : BOOLEAN, chunks : Seq(Chunk)]

SumOf(s) == LET sum[i \in 0..Len(s)] == IF i = 0 THEN 0 ELSE sum[i - 1] + s[i]
            IN  sum[Len(s)]
DecodeTokens(b) == SumOf(b.decodes)
NumTokens(b)    == DecodeTokens(b) + b.prefill
HiddenRows(b)   == NumTokens(b) + b.padding

\* The decodes as rows of a [batch, next_n] tensor, packed unless all alike.
RequiresPadding(b) == \E i, j \in DOMAIN b.decodes : b.decodes[i] # b.decodes[j]
NextN(b)   == Max({b.decodes[i] : i \in DOMAIN b.decodes})
Slots(b)   == IF RequiresPadding(b) THEN Len(b.decodes) * NextN(b)
                                    ELSE DecodeTokens(b)
SlotOf(b, i, j)   == (i - 1) * NextN(b) + j
PackedRow(b, i, j) == SumOf(SubSeq(b.decodes, 1, i - 1)) + j
\* The token in a slot, 0 in the slots pack_seq_triton pads.
InSlot(b, slot) ==
  IF ~RequiresPadding(b) THEN slot
  ELSE LET i == (slot - 1) \div NextN(b) + 1
           j == ((slot - 1) % NextN(b)) + 1
       IN  IF j <= b.decodes[i] THEN PackedRow(b, i, j) ELSE 0
\* unpack_seq_triton: the slot of a decode token.
Unpacked(b, t) == CHOOSE slot \in 1..Slots(b) : InSlot(b, slot) = t

\* The most recent source at or below a layer.
Latest(sources, l) == Max({s \in sources : s <= l})

ASSUME SetupAssumption ==
  /\ Setups \subseteq Setup /\ Batches \subseteq Batch /\ MaxRows \in Nat
  /\ \A b \in Batches : /\ NumTokens(b) > 0
                         /\ HiddenRows(b) <= MaxRows /\ Slots(b) <= MaxRows
\* The chunks make up the prefill; a chunk that does not gather continues the
\* requests of the one before.
ASSUME ChunkAssumption ==
  \A b \in Batches :
    /\ UNION {c.first..c.last : c \in {b.chunks[i] : i \in DOMAIN b.chunks}}
         = (DecodeTokens(b) + 1)..NumTokens(b)
    /\ \A i \in DOMAIN b.chunks :
         b.chunks[i].skipGather => i > 1 /\ b.chunks[i].group = b.chunks[i - 1].group
\* A layer reads caches and selections of the ratio it has itself, and a
\* candidate source is an index source (the configuration of the model).
ASSUME TopologyAssumption ==
  \A s \in Setups :
    /\ s.kvSources \subseteq s.indexSources
    /\ s.candidateSource \in s.indexSources \cup {0}
    /\ \A l \in DOMAIN s.ratio :
         s.ratio[l] > 0 =>
           /\ \E k \in s.kvSources : k <= l
           /\ s.ratio[Latest(s.kvSources, l)] = s.ratio[l]
           /\ s.ratio[Latest(s.indexSources, l)] = s.ratio[l]
           /\ s.candidateSource \in 1..l
                => s.ratio[s.candidateSource] = s.ratio[l]

VARIABLES
  setup,     \* the deployment
  batches,   \* the batches of the steps begun
  layer,     \* the next layer the host enqueues
  queue,     \* per stream: work enqueued and not yet executed
  recorded,  \* per layer and event: how often the host has recorded it
  fired,     \* per layer and event: how many of these have executed
  act,       \* activations: qkv, kvScore, weights, latent, indexQ
  swa,       \* per layer: the sliding-window cache
  comp,      \* per layer: the compressed cache
  indexK,    \* per layer: the index keys
  ws,        \* the indexer's gather workspace
  topk,      \* topk_indices_buffer
  cand,      \* candidate_block_buffer
  out        \* per layer: what its attention read last

host == <<setup, batches, layer>>
shared == <<swa, comp, indexK, ws, topk, cand>>
vars == <<host, queue, recorded, fired, act, shared, out>>

Streams == {"main", "aux0", "aux1"}
Events  == 0..2                       \* ln_events
Layers  == DOMAIN setup.ratio
None    == << >>

CompressRatio(l) == setup.ratio[l]
KVSource(l)    == Latest(setup.kvSources, l)
IndexSource(l) == Latest(setup.indexSources, l)
IsKVSource(l)    == l \in setup.kvSources
IsIndexSource(l) == l \in setup.indexSources
UsesCandidates(l) == setup.candidateSource \in 1..(l - 1)

Step == Len(batches)
Now  == batches[Step]
\* All compressed positions fit: no scores are needed.  A graph was captured on
\* the other path; MRV1 leaves the whole of _prepare_and_attn out of the graph.
ShortContext(l, b) == /\ b.maxSeqLen \div CompressRatio(l) <= TopK
                      /\ ~(b.graph /\ setup.v2)

-----------------------------------------------------------------------------
(* What the host enqueues for a layer: operations with their stream *)

\* i: the number of a chunk or event; fork: which of the layer's three joins a
\* record or wait belongs to; at: which record of its event it is or waits for.
On(s, op, l) ==
  [on |-> s, op |-> op, n |-> Step, l |-> l, i |-> 0, fork |-> 0, at |-> 0]
Nth(s, op, l, i)   == [On(s, op, l) EXCEPT !.i = i]
Record(s, l, f, e) == [Nth(s, "record", l, e) EXCEPT !.fork = f]
Wait(s, l, f, e)   == [Nth(s, "wait", l, e) EXCEPT !.fork = f]
OnlyIf(c, ops)     == IF c THEN ops ELSE << >>

\* Defect, not part of Next: the second auxiliary stream is not joined.
ProjectionsUnjoined(l) ==
  IF setup.auxStreams /\ HiddenRows(Now) <= Threshold
  THEN <<Record("main", l, 1, 0)>>
       \o OnlyIf(IsKVSource(l), <<Wait("aux0", l, 1, 0), On("aux0", "kvScore", l),
                                 Record("aux0", l, 1, 1)>>)
       \o OnlyIf(IsIndexSource(l), <<Wait("aux1", l, 1, 0), On("aux1", "weights", l)>>)
       \o <<On("main", "qkv", l)>>
       \o OnlyIf(IsKVSource(l), <<Wait("main", l, 1, 1)>>)
  ELSE <<On("main", "qkv", l)>>
       \o OnlyIf(IsKVSource(l), <<On("main", "kvScore", l)>>)
       \o OnlyIf(IsIndexSource(l), <<On("main", "weights", l)>>)

\* execute_in_parallel: the projections of the hidden states.
Projections(l) ==
  LET gemm == On("main", "qkv", l)
      fork(s, op, e) == <<Wait(s, l, 1, 0), On(s, op, l), Record(s, l, 1, e)>>
  IN  IF setup.auxStreams /\ HiddenRows(Now) <= Threshold
      THEN <<Record("main", l, 1, 0)>>
           \o OnlyIf(IsKVSource(l), fork("aux0", "kvScore", 1))
           \o OnlyIf(IsIndexSource(l), fork("aux1", "weights", 2))
           \o <<gemm>>
           \o OnlyIf(IsKVSource(l), <<Wait("main", l, 1, 1)>>)
           \o OnlyIf(IsIndexSource(l), <<Wait("main", l, 1, 2)>>)
      ELSE <<gemm>>
           \o OnlyIf(IsKVSource(l), <<On("main", "kvScore", l)>>)
           \o OnlyIf(IsIndexSource(l), <<On("main", "weights", l)>>)

\* Defect, not part of Next: the main stream goes on without the auxiliary one.
ParallelUnjoined(l, f, ops, op) ==
  IF setup.auxStreams
  THEN <<Record("main", l, f, 0)>> \o ops
       \o <<Wait("aux0", l, f, 0), On("aux0", op, l), Record("aux0", l, f, 1)>>
  ELSE ops \o <<On("main", op, l)>>

\* maybe_execute_in_parallel: `ops` on the main stream, `op` on aux stream 0.
Parallel(l, f, ops, op) ==
  IF setup.auxStreams
  THEN <<Record("main", l, f, 0)>> \o ops
       \o <<Wait("aux0", l, f, 0), On("aux0", op, l), Record("aux0", l, f, 1),
            Wait("main", l, f, 1)>>
  ELSE ops \o <<On("main", op, l)>>

\* DeepseekV4Indexer.forward.
PrepareIndexer(l) ==
  OnlyIf(IsIndexSource(l),
    OnlyIf(IsKVSource(l), <<On("main", "produceK", l)>>)
    \o <<On("main", IF ShortContext(l, Now) THEN "fill" ELSE "indexQ", l)>>)

\* sparse_attn_indexer: clear, the prefill chunks, the decodes.
IndexerOp(l) ==
  OnlyIf(IsIndexSource(l) /\ ~ShortContext(l, Now),
    <<On("main", "clear", l)>>
    \o [i \in DOMAIN Now.chunks |-> Nth("main", "chunk", l, i)]
    \o OnlyIf(Now.decodes # << >>, <<On("main", "decode", l)>>)
    \o OnlyIf(RequiresPadding(Now), <<On("main", "unpack", l)>>))

Program(l) ==
  Projections(l)
  \o (IF IsKVSource(l) THEN Parallel(l, 2, <<On("main", "insert", l)>>, "compress")
                       ELSE <<On("main", "insert", l)>>)
  \o (IF IsKVSource(l) THEN Parallel(l, 3, PrepareIndexer(l), "insertCache")
                       ELSE PrepareIndexer(l))
  \o IndexerOp(l)
  \o <<On("main", "attend", l)>>

Records(ops, e) == Cardinality({p \in DOMAIN ops : ops[p].op = "record"
                                                  /\ ops[p].i = e})
\* A wait is for the last record of its event before it.
Target(ops, p) == recorded[ops[p].l][ops[p].i]
                  + Records(SubSeq(ops, 1, p), ops[p].i)
Resolved(ops) == [p \in DOMAIN ops |->
                   IF ops[p].op \in {"record", "wait"}
                   THEN [ops[p] EXCEPT !.at = Target(ops, p)] ELSE ops[p]]

\* SelectSeq, as the provers can expand it.
OnStream(ops, s) ==
  LET kept[p \in 0..Len(ops)] == IF p = 0 THEN << >>
                                 ELSE IF ops[p].on = s THEN Append(kept[p - 1], ops[p])
                                                       ELSE kept[p - 1]
  IN  kept[Len(ops)]
Fill(s, ops) == queue[s] \o OnStream(Resolved(ops), s)

-----------------------------------------------------------------------------
(* Selections *)

\* tok: the token it is for; q: the index query's inputs; w: the row of the
\* head weights; k: the index keys; m: the token whose candidate blocks mask it.
Selection(tok, q, w, k, m) == [tok |-> tok, q |-> q, w |-> w, k |-> k, m |-> m]
NoSelection == Selection(None, None, 0, None, None)
\* Every position, for a context no longer than TopK.
Everything(tok, l) == Selection(tok, <<0, CompressRatio(l)>>, 0, None, None)

\* Row r of the scores, for token t; t = 0 in a slot without a token.
Scored(o, t, r, k) ==
  Selection(IF t = 0 THEN None ELSE <<o.n, t>>, act.indexQ, r, k,
            IF UsesCandidates(o.l) THEN cand[r] ELSE None)
\* Rows of a buffer overwritten by f.
Over(buffer, f) == [r \in DOMAIN buffer |-> IF r \in DOMAIN f THEN f[r]
                                                               ELSE buffer[r]]
\* select_candidate_blocks, at the candidate source only.
Published(o, rows) ==
  IF o.l = setup.candidateSource
  THEN Over(cand, [r \in DOMAIN rows |-> rows[r].tok]) ELSE cand

-----------------------------------------------------------------------------
(* The host *)

Init ==
  /\ setup \in Setups /\ batches = << >> /\ layer = Len(setup.ratio) + 1
  /\ queue = [s \in Streams |-> << >>]
  /\ recorded = [l \in Layers |-> [e \in Events |-> 0]]
  /\ fired = recorded
  /\ act = [qkv |-> None, kvScore |-> None, weights |-> None,
            latent |-> None, indexQ |-> None]
  /\ swa = [l \in Layers |-> None] /\ comp = swa /\ indexK = swa
  /\ ws = [k |-> None, group |-> 0]
  /\ topk = [r \in 1..MaxRows |-> NoSelection]
  /\ cand = [r \in 1..MaxRows |-> None]
  /\ out = [l \in Layers |-> [n |-> 0, swa |-> None, comp |-> None, rows |-> None]]

BeginStep(b) ==
  /\ layer = Len(setup.ratio) + 1 /\ Step < MaxSteps
  /\ batches' = Append(batches, b) /\ layer' = 1
  /\ UNCHANGED <<setup, queue, recorded, fired, act, shared, out>>

\* DeepseekV4Attention.forward.
EnqueueLayer ==
  /\ layer \in Layers
  /\ \E ops \in {Program(layer)} :
       /\ queue' = [s \in Streams |-> Fill(s, ops)]
       /\ recorded' = [recorded EXCEPT ![layer] =
                         [e \in Events |-> @[e] + Records(ops, e)]]
  /\ layer' = layer + 1
  /\ UNCHANGED <<setup, batches, fired, act, shared, out>>

-----------------------------------------------------------------------------
(* The GPU: each stream runs its work in order *)

Cur(s) == Head(queue[s])
Runs(s, op) ==
  /\ queue[s] # << >> /\ Cur(s).op = op
  /\ queue' = [queue EXCEPT ![s] = Tail(@)]
  /\ UNCHANGED <<host, recorded>>
CurBatch(s) == batches[Cur(s).n]
Tag(o)  == <<o.n, o.l>>

RecordEvent(s) ==
  /\ Runs(s, "record")
  /\ fired' = [fired EXCEPT ![Cur(s).l][Cur(s).i] = @ + 1]
  /\ UNCHANGED <<act, shared, out>>

WaitEvent(s) ==
  /\ Runs(s, "wait")
  /\ fired[Cur(s).l][Cur(s).i] >= Cur(s).at
  /\ UNCHANGED <<fired, act, shared, out>>

Project(s) ==
  /\ \E x \in {"qkv", "kvScore", "weights"} :
       Runs(s, x) /\ act' = [act EXCEPT ![x] = Tag(Cur(s))]
  /\ UNCHANGED <<fired, shared, out>>

Compress(s) ==
  /\ Runs(s, "compress")
  /\ act' = [act EXCEPT !.latent = act.kvScore]
  /\ UNCHANGED <<fired, shared, out>>

\* The per-token scale of the query is folded into the weights.
IndexQuery(s) ==
  /\ Runs(s, "indexQ")
  /\ act' = [act EXCEPT !.indexQ = act.weights]
  /\ UNCHANGED <<fired, shared, out>>

Insert(s) ==
  /\ Runs(s, "insert")
  /\ swa' = [swa EXCEPT ![Cur(s).l] = act.qkv]
  /\ UNCHANGED <<fired, act, comp, indexK, ws, topk, cand, out>>

InsertCache(s) ==
  /\ Runs(s, "insertCache")
  /\ comp' = [comp EXCEPT ![Cur(s).l] = act.latent]
  /\ UNCHANGED <<fired, act, swa, indexK, ws, topk, cand, out>>

ProduceK(s) ==
  /\ Runs(s, "produceK")
  /\ indexK' = [indexK EXCEPT ![Cur(s).l] = act.latent]
  /\ UNCHANGED <<fired, act, swa, comp, ws, topk, cand, out>>

FillShortContext(s) ==
  /\ Runs(s, "fill")
  /\ topk' = Over(topk, [t \in 1..NumTokens(CurBatch(s)) |->
                          Everything(<<Cur(s).n, t>>, Cur(s).l)])
  /\ UNCHANGED <<fired, act, swa, comp, indexK, ws, cand, out>>

ClearRows(s) ==
  /\ Runs(s, "clear")
  /\ topk' = Over(topk, [r \in 1..HiddenRows(CurBatch(s)) |-> NoSelection])
  /\ UNCHANGED <<fired, act, swa, comp, indexK, ws, cand, out>>

SelectPrefill(s) ==
  /\ Runs(s, "chunk")
  /\ LET o == Cur(s)
         c == CurBatch(s).chunks[o.i]
         gathered == IF c.skipGather THEN ws
                     ELSE [k |-> indexK[KVSource(o.l)], group |-> c.group]
         k == IF gathered.group = c.group THEN gathered.k ELSE None
         rows == [t \in c.first..c.last |-> Scored(o, t, t, k)]
     IN  /\ ws' = gathered
         /\ topk' = Over(topk, rows)
         /\ cand' = Published(o, rows)
  /\ UNCHANGED <<fired, act, swa, comp, indexK, out>>

\* Defect, not part of Next: decodes never publish candidate blocks.
SelectDecodeUnpublished(s) ==
  /\ Runs(s, "decode")
  /\ topk' = Over(topk, [r \in 1..Slots(CurBatch(s)) |->
                Scored(Cur(s), InSlot(CurBatch(s), r), r, indexK[KVSource(Cur(s).l)])])
  /\ UNCHANGED <<fired, act, swa, comp, indexK, ws, cand, out>>

SelectDecode(s) ==
  /\ Runs(s, "decode")
  /\ LET o == Cur(s)
         rows == [r \in 1..Slots(CurBatch(s)) |->
                    Scored(o, InSlot(CurBatch(s), r), r, indexK[KVSource(o.l)])]
     IN  /\ topk' = Over(topk, rows)
         /\ cand' = Published(o, rows)
  /\ UNCHANGED <<fired, act, swa, comp, indexK, ws, out>>

\* Defect, not part of Next: the selections stay in their slots.
KeepPacked(s) == Runs(s, "unpack") /\ UNCHANGED <<fired, act, shared, out>>

Unpack(s) ==
  /\ Runs(s, "unpack")
  /\ topk' = Over(topk, [t \in 1..DecodeTokens(CurBatch(s)) |->
                          topk[Unpacked(CurBatch(s), t)]])
  /\ UNCHANGED <<fired, act, swa, comp, indexK, ws, cand, out>>

Attend(s) ==
  /\ Runs(s, "attend")
  /\ LET o == Cur(s)
         compressed == CompressRatio(o.l) > 0
     IN  out' = [out EXCEPT ![o.l] =
           [n |-> o.n, swa |-> swa[o.l],
            comp |-> IF compressed THEN comp[KVSource(o.l)] ELSE None,
            rows |-> IF compressed
                     THEN [t \in 1..NumTokens(CurBatch(s)) |-> topk[t]]
                     ELSE None]]
  /\ UNCHANGED <<fired, act, shared>>

GpuStep(s) ==
  \/ RecordEvent(s) \/ WaitEvent(s) \/ Project(s) \/ Compress(s) \/ IndexQuery(s)
  \/ Insert(s) \/ InsertCache(s) \/ ProduceK(s) \/ FillShortContext(s)
  \/ ClearRows(s) \/ SelectPrefill(s) \/ SelectDecode(s) \/ Unpack(s) \/ Attend(s)

Next == \/ \E b \in Batches : BeginStep(b)
        \/ EnqueueLayer
        \/ \E s \in Streams : GpuStep(s)

\* The host enqueues a step to its end and the GPU runs what it is given.
Spec == /\ Init /\ [][Next]_vars
        /\ WF_vars(EnqueueLayer)
        /\ \A s \in Streams : WF_vars(GpuStep(s))

-----------------------------------------------------------------------------
(* Properties *)

Attended(l) == out[l].n > 0
Selected(l) == Attended(l) /\ CompressRatio(l) > 0
Rows(l)     == {<<t, out[l].rows[t]>> : t \in DOMAIN out[l].rows}
Short(l)    == ShortContext(IndexSource(l), batches[out[l].n])

\* Attention reads its own window and its source's compressed cache after this
\* step wrote them, though another stream writes the latter.
CachesWritten ==
  \A l \in Layers : Attended(l) =>
    /\ out[l].swa = <<out[l].n, l>>
    /\ CompressRatio(l) > 0 => out[l].comp = <<out[l].n, KVSource(l)>>

\* What a layer reads of the shared buffer is its index source's selection of
\* this step for the same token: everything in a short context, else the best
\* of the keys this step has already extended.
RowsOwn ==
  \A l \in Layers : Selected(l) =>
    \A r \in Rows(l) :
      /\ r[2].tok = <<out[l].n, r[1]>>
      /\ IF Short(l) THEN r[2] = Everything(r[2].tok, l)
         ELSE r[2].k = <<out[l].n, KVSource(IndexSource(l))>>

\* A selection is masked by the blocks the candidate source chose for the same
\* token in the same step, and by none without one.
MasksOwn ==
  \A l \in Layers : Selected(l) /\ ~Short(l) =>
    \A r \in Rows(l) :
      r[2].m = IF UsesCandidates(IndexSource(l)) THEN <<out[l].n, r[1]>> ELSE None

\* Scores use the index query and the head weights of the token itself.
ScoredAlike(l) ==
  \A r \in Rows(l) : r[2].q = <<out[l].n, IndexSource(l)>> /\ r[2].w = r[1]
\* Decodes of one length are scored in place.
ScoresOwn ==
  \A l \in Layers :
    Selected(l) /\ ~Short(l) /\ ~RequiresPadding(batches[out[l].n])
      => ScoredAlike(l)
\* attention.py, indexer: whatever the lengths, each token's selection is made
\* from its own query, weights and keys.
SelectionOwn ==
  \A l \in Layers : Selected(l) /\ ~Short(l) =>
    ScoredAlike(l) /\ \A r \in Rows(l) : r[2].tok = <<out[l].n, r[1]>>

\* No stream waits for ever: each step begun is attended in every layer.
StepsEnd ==
  \A n \in 1..MaxSteps : (Step = n) ~> (\A l \in Layers : out[l].n >= n)
=============================================================================
