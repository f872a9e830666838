# Verification of the DeepSeek-V4.1 overlay ("overlay5") in TLA+

The repository ships eight patched vLLM files (`src/dsv41-overlay5-patch/files/`) that let DeepSeek V4.1
run on clusters of DGX Spark machines, the scripts that install them, and operators' guides. This
directory holds TLA+ models of the parts of those files where order, sharing and failure matter, the TLC
configurations that check them, and TLAPS proofs. In what follows `engram.py:N` and so on are lines of the
files in that directory.

## 1. Inventory

### Components, their state and operations

| Component | State it keeps | Operations | Correct when |
|---|---|---|---|
| **Disk stager** `EngramDiskStager` (engram.py:1461), `DeepseekV41ModelState` (model_state.py:49) | lookback window, pinned `hash_host` and `rows_host`, event `hashes_ready`, each layer's `staged_rows` | `prepare_inputs`, `stage`, `prepare_dummy_inputs` | the forward of step *s* reads the rows of step *s*; pinned memory is never raced |
| **N-gram history** `NgramHashState` (engram.py:393) and its two Triton kernels | `_cache` (one id per KV slot, V1 runner only), `_kv_cache_ref` | `ensure_cache`, `forward`, `dummy_hashes` | every hash is taken over the request's own text |
| **Request search** in `_hash_ids_kernel` (engram.py:300) | per lane `lo`, `hi` | one binary search per token | a token gets the row that holds it |
| **Head shards and exchange** `ParallelEngramEmbedding`, `Engram.embed`, `gather_engram_hashes`, `_gather_engram_rows` | shard of the table, staging buffer per micro-batch | hash gather, lookup, DP trade, TP gather or SP selection | every token gets every head's row, whatever peers do |
| **Disk tables and pool** `DiskEngramTable`, `gather_dequant_many`, `_kai_parallel_read` | file descriptors and offsets, process-wide thread pool | open (with local sparse copy), gather rows | complete rows or an exception; no hole is read |
| **Numpy weight cache** `np_cache_weights_iterator`, `get_lock` (weight_utils.py:641, 91) | lock file, one file per tensor, `weight_names.json` | dump once, read many | one process dumps, all others find the whole dump |
| **Attention layers** `DeepseekV4Attention`, `DeepseekV4Indexer` (attention.py:547-831, 1154-1244) | sliding-window, compressed and index-key caches, four events, up to three CUDA streams | enqueue projections, cache inserts, compression, indexing and attention of a layer | attention reads what its own step wrote, in every order the streams may run |
| **Sparse indexer** `sparse_attn_indexer` (sparse_attn_indexer.py:447-763) | shared `topk_indices_buffer`, `candidate_block_buffer`, gather workspace | clear, select for prefill chunks and decodes, publish or apply candidate blocks | a token's selection is made from its own query, weights, keys and blocks |
| **Sliding-window metadata** `DeepseekSparseSWAMetadataBuilder` (sparse_swa.py:398) and its kernels; FlashInfer backends (flashinfer_sparse.py) | index, length and validity buffers kept across steps, sparse-index cache of a step | `build`, `update_draft_decode_metadata`, `get_prefill_chunk_plan`, `forward_mqa` | a token reads its own window (and image), whole and once, though blocks behind it are freed and reused |
| **Engram layout** `find_next_prime`, `EngramLayout`, `compute_hash_multipliers` (engram.py:73-103, 156-221), the ids of `_hash_ids_kernel`, the shards of `ParallelEngramEmbedding` | primes handed out, sizes and offsets of buckets | hand out primes, multiply and fold an n-gram, look a row up | bucket ranges are disjoint, no product overflows, an id leads to the row of its head on the rank that has it |
| **Weight iterators** (weight_utils.py:571-640, 784-1105) | thread pool, prefetch thread, loaders | choose files, prefetch, hand out tensors, fall back without GDS | each tensor once; nothing runs on after the end |
| **`atomic_writer`** (weight_utils.py:134) | target, temporary file | write, replace, clean up | whole file or the old one, no litter |
| **DCP merge** `_merge_dcp_topk_global` (sparse_attn_indexer.py:80) and its callers | candidates of each rank | select own, all-gather, select again | the merged selection is a best selection of all tokens |
| Other weight loading (weight_utils.py) | none kept | download, runai, instanttensor, dummy and sharded loaders, renaming, quantization config | not modelled |
| Compressed token map (engram.py:106) | none (pure) | `build_compressed_token_map` | a table made by the tokenizer, not modelled |
| Engram gate (engram.py:1102, 1397) | none | gate kernel | numeric, not modelled |
| `apply.sh`, `verify5.py`, `prewarm5.py`, the patch, guides, reports | none | copying, checksums, prose | deployment only, not modelled |

### How they interact

The **model runner** (external) writes a step's ids, positions and `query_start_loc` on the current CUDA
stream and calls `prepare_inputs`. That gathers the lookback window and, with disk tables on the V2 runner,
calls the **stager**, which runs the **hash** on the GPU, copies the ids of its own heads to pinned memory,
waits for one event, asks the **disk tables** of all layers for rows in one batch, and enqueues copies into
`staged_rows`. The forward then only **exchanges** rows: DP replicas trade tokens for heads, TP ranks gather
the rest. Without the stager, `prepare_embeddings` looks the rows up inside the forward. The **scheduler and
block manager** (external) decide which KV slots exist, are shared, freed or loaded by a connector; the V1
slot cache is keyed by those slots. In a layer, the host enqueues work on up to three streams and never waits;
events order it. The **window metadata** is built once per step and shared by all layers; **index source**
layers fill the selection that the layers above them read, **kv source** layers the compressed caches. A
**drafter** (external) then runs the builder again, or updates its metadata in place. The **loaders** run
before all this, in every worker process of a node.

### What is hard

* one event orders three asynchronous copies and two CPU loops over the same pinned memory (engram.py:1546);
* slot history lives beside a KV cache whose blocks are shared, evicted, loaded from elsewhere, rebound, and
  rewritten after rejected drafts (engram.py:19-33);
* collectives need every replica, also an idle one, with buffers sized for all (engram.py:475, 594, 1325);
* micro-batches interleave on one rank (engram.py:1340);
* three streams share four events that are recorded again in every layer and for every join (attention.py:431);
* the selection, candidate blocks and gather workspace are single buffers written by many layers and, in one
  layer, by prefill chunks and decodes with different row numberings (sparse_attn_indexer.py:452-762);
* blocks are evicted at the very edge of the window, and drafts, images and DSpark blocks each move that edge
  (sparse_swa.py:1011, 1199);
* reads come back short or fail while their siblings run, and a call that raised leaves tasks behind;
* processes die with a lock and half a dump (weight_utils.py:659-675).

* generators of tensors are dropped, raise, or fall back while their threads and loaders still work
  (weight_utils.py:991-1103), and a write may fail or be killed at any line of `atomic_writer`;
* the search for primes starts over for every n-gram size, and the multipliers stop just short of overflow
  (engram.py:165, 203);
* each rank of decode context parallelism selects without seeing the others' tokens
  (sparse_attn_indexer.py:105).

`PROJECT.json` lists each hazard at its line, with the properties that watch it, or why none does.

## 2. Modules

| Module | Models | State and actions, against the code |
|---|---|---|
| `EngramRows` | the promise: steps are served in order, once, with their own rows | `Prepare`, `Serve`, `Fail` |
| `EngramStager` | host thread and CUDA stream | host: `BeginStep`, `GatherLookback`, `StageHash`, `StageCopyHashes`, `Synchronize`, `ReadRows`/`ReadError`, `StageLayer`, `LoopEnd`, `Launch` are the statements of `prepare_inputs` and `stage` in order, one action per statement that touches shared memory; stream: `Runs` executes `ops[done+1]`. A token's hash is tagged with the step its id and its window came from |
| `EngramStager_proofs` | its theorems | |
| `NgramHash`, `MCNgramHash`, `NgramHash_proofs` | slot cache and hash inside the engine | `Forward` is `NgramHashState.forward` with both kernels, `DummyRun` and `EnsuredCache` are `dummy_hashes`/`ensure_cache`; `Start`, `Allocate`, `Load`, `AddRow`, `CommitRow`, `Finish`, `Preempt`, `BindKV` are the external scheduler, block manager, connectors and runner. A hash is the tuple of compressed ids it is taken over |
| `RequestSearch`, `EngramHash_proofs` | the search, lock-step over lanes | `Halve` is one turn of the `while` |
| `EngramLayout`, `EngramHash_proofs` | buckets of the hash tables | `NextCandidate` is a turn of the loop of `find_next_prime`, `TakePrime` its return and the append to the layout; `IsPrime` is the Miller-Rabin test as it stands |
| `EngramIds`, `MCEngramIds`, `EngramHash_proofs` | from a token to its rows; extends the layout and the request search | `Hash` is one token through `_hash_ids_kernel`, in integers of `LongBits` and `IdBits`; `Multipliers`, `HashIds`, `VocabStart`, `Shard`, `Lookup` are the functions they are named after |
| `EngramShards`, `MCEngramShards`, `EngramShards_proofs` | ranks, collectives, staging buffers | a thread is one micro-batch on one rank: `Begin`, `GatherIds`, `PrepareEmbeddings`, `TakeRows`, `TakeHeads`; `Stage` is the disk stager's effect; the index arithmetic of `_engram_select_rows_kernel` is kept as it is |
| `EngramDisk`, `MCEngramDisk`, `EngramDisk_proofs` | tables and read pool | caller: `Gather`, `Submit`, `AwaitNext`, `Raise`, `Return`; pool: `Take`, `Preadv` (returns any part of what is missing), `ReadFails`. A byte is its file offset |
| `NpWeightCache`, `MCNpWeightCache` | processes around one lock | one action per file operation, `Crash` and `Restart` |
| `WeightIterators` | the generators of a worker | `SelectFiles`, then per kind: `LazyStart`, `LazyOpen`, `LazyTensor` with `PrefetchBegin`, `PrefetchEnd`; `Submit`, `Begin`, `End`, `Take`, `ThreadTensor`, `Shutdown`; `FastStart`, `Construct` and the fallback. The caller may drop the generator at any tensor |
| `AtomicWriter` | writers of one file | `MakeTemp`, `WriteTemp`, `Replace`, `CleanUp` are the statements of `atomic_writer`, each of which may fail; `Kill` comes anywhere |
| `MCWeightLoading`, `WeightLoading_proofs` | a node that loads in one of the formats above; theorems about the three | |
| `DcpMerge`, `SparseIndexer_proofs` | one row's selection on every rank | `SelectOwn` is a rank's `top_k_per_row` and the packing of global ids, `Merge` the all-gather and `stable_topk_from_gathered_candidates` |
| `MCSparseIndexer` | the two deployments of the indexer: `SparseLayers` on a rank of its own, or `DcpMerge` | |
| `SparseLayers`, `MCSparseLayers`, `SparseIndexer_proofs` | one rank's layers over two steps | host: `BeginStep` (external), `EnqueueLayer` appends a layer's `Program` to the stream queues, with `Projections`, `Parallel`, `PrepareIndexer`, `IndexerOp` for the functions it calls; GPU: each stream executes the head of its queue, `RecordEvent` and `WaitEvent` with the semantics of CUDA events (a wait is for the last record the host had enqueued), `Project`, `Compress`, `Insert`, `InsertCache`, `ProduceK`, `IndexQuery`, `FillShortContext`, `ClearRows`, `SelectPrefill`, `SelectDecode`, `Unpack`, `Attend`. A datum is the step and layer it was computed in |
| `SwaWindow`, `MCSwaWindow`, `SwaWindow_proofs` | block tables, cache and window metadata | `Build` is `build` with its kernels (`WindowRow`, `BlockRow`, `Left`, `Right`, `GatherLen`), `UpdateDraft` and `ChunkPlan` are the methods of those names, `Forward` inserts and reads (flashinfer_sparse.py); `Admit`, `Finish`, `StartDraft`, `AdvanceDraft`, `EndStep` are the external scheduler, block manager and drafter. A slot holds the request, position and kind of pass that wrote it last |

Definitions marked "Defect, not part of Next" are wrong variants of the definition that follows them. They
stand for plausible bugs; replacing the right one by its defect makes a named property fail
(`PROJECT.json`, "mutants"), which is how each property is known to say something.

`EngramStager` takes the disk read as one step that succeeds or raises; `EngramDisk` shows that this is what
`gather_dequant_many` does. `EngramStager` takes the hash as a tag; `NgramHash` shows what it is taken over,
`RequestSearch` how a token finds its request, and `EngramIds` which row its hash names. `EngramShards` takes the rows of a lookup as given by token
and head, and shows where they go. `SparseLayers` takes the window a layer reads as one tag; `SwaWindow` shows,
position by position, what it holds.

## 3. Runs

All passing runs are exhaustive for their bounds. `Setups` in a module lists the deployments a
run covers: the initial state picks one and no step changes it.

| Run | Instance | Shows |
|---|---|---|
| `stager` | 2 layers, 2 tokens, 3 steps, 1 dummy | the forward reads its own step's rows, hashes are settled when read, pinned rows are idle when rewritten, and `EngramStager` implements `EngramRows` |
| `ngram` | 2 requests, 3 blocks of 2, window 3, depth 2, drafts, rebinding; deployments: V1 with a preemption, V1 with connector loads, V2 with both | n-grams match the text; on V1 the slots of lookbacks and of cached blocks hold it, and shared slots never change; on V2 the token history alone is enough |
| `ngram_reload` (violation) | V1, loads and preemption together | see finding 2 |
| `engram_ids` | 2 layers, 2 n-gram sizes, 4 heads, sizes from 1672 on; 16-bit arithmetic with 15-bit ids; 3 ranks; 5 rows, 5 tokens, every boundary array | every token gets its row; the primes are the smallest, without gap; ranges are disjoint; ids lie in their head's bucket and are found by its rank; both searches end |
| `shards` | deployments: DP 2 x TP 2, 7 heads, uneven and dummy batches; TP 2, 2 micro-batches, sequence parallelism; TP 2, rows staged before. 2 steps | every token gets every head, dummies nothing; buffers large enough and kept apart; no collective waits for ever |
| `shards_prestage_dp` (violation) | DP 2 | finding 1 |
| `disk` | 2 tables, each with any local copy or none, 2 calls for one table or both, 2 threads, chunk 2, short reads, 1 error | rows complete or raise, tables kept apart, tasks disjoint, calls end, a copy that does not cover the rank is not used |
| `weights` | the numpy cache with 3 processes, 2 tensors, 2 kills; a generator over 4 files, of which 3 may fail, with 4 index files, 1 or 2 ranks and 2 threads; 3 writers with 2 kills | one dump at a time, readers find all of it; a generator gives each tensor at most once, and all if it ends well, and leaves no job, no open loader; a written file is whole; everybody loads, every generator ends |
| `np_cache_crash` (violation) | kill anywhere | finding 3 |
| `sparse_layers` | 4 layers in three models (one group, on three streams and on one; two groups of ratio 2 and 1, candidates in the second), 2 steps of mixed, short, long, graph-padded and unequal decode batches; or 2 merges of 2 ranks with pieces of 2 tokens, every score of 3 | every cache and selection attention reads is this step's and its own; what the ranks merge is a best selection of all tokens, the same on each; no stream and no rank waits for ever |
| `sparse_uneven` (violation) | decodes of 1 and 2 tokens before a prefill of 2 | finding 4 |
| `swa` | 2 requests up to 8 positions, window 3, blocks of 2, an image of 5; no drafts, MTP with 3, DSpark with 2 | window, image, draft and block reads exact, padding reads nothing, the chunk plan fits |


**Why the bounds suffice for what they show.** Three steps are the fewest in which a buffer is written, reused
and reused again while an older copy is pending; two layers make the per-layer loop interleave with the stream;
two tokens allow a step smaller than the one before (stale tail). Lookback depth 2 with blocks of 2 crosses a
block boundary from every position; a window of depth + 1 is the tightest that satisfies the documented
assumption `Depth < WindowSize`, so eviction bites where it would with 128 and 3. Three blocks for two requests
force reuse of freed blocks and sharing of cached ones. Seven heads over four shards give the last shard a
padded head. A layer of each kind (window only, kv source, index source, consumer) and
two steps are the fewest in which a stale cache, selection or event can be met; `Threshold` 3 puts batches on
both sides of the multi-stream limit, `TopK` 2 contexts on both sides of the short path. Window 3 with blocks of
2 puts the edge of the window inside and at the end of a block; 8 blocks for two requests make evicted ones
reused at once (evicting one position earlier makes `WindowExact` and `BlocksWhole` fail); an image longer than
the window needs the widening to the left; three drafts are the fewest with an update in place. A search from 1672 on meets, within
`Reach`, numbers that a Miller-Rabin test with one squaring less takes for primes; 16 bits overflow if the
multiplier bound is not halved; eight columns over three ranks leave the last one short of a head. Three
shards and two threads keep a job queued, running and done at once; a failing file before and behind a good
one covers a raise with and without tensors handed out. Lengths of 1 to 5 over two ranks and pieces of two
give a rank no token, a part of a piece, and two pieces.
Chunk 2 with three distinct rows gives a full and a partial task. Two kills cover one in the dump
and one in the process that takes it over. Bounds are constants named in each module (`MaxSteps`, `MaxDummies`,
`MaxLen`, `MaxChunk`, `MaxDrafts`, `MaxBinds`, `preempts` of a setup, `MaxCalls`, `MaxErrors`, `MaxCrashes`, `MaxKills`, `MaxRows`, `MaxModelLen`, `MaxSeqLen`, `Reach`).
Requests are interchangeable, which is the symmetry used in the `ngram` runs (which check no liveness).
`CHECK_DEADLOCK FALSE` stands where a behaviour may end because a bound is reached or the work is done; that
nothing waits for ever is checked by the liveness properties instead.

**Fairness.** `EngramStager`: the stream executes what is enqueued and the host thread runs (weak fairness on
each actor, none on the runner preparing more). `EngramShards`: ranks make progress, none on steps being
planned. `EngramDisk`: caller and every pool thread run; a read need not fail. `EngramIds`: the loop of
`find_next_prime` and the binary search run. `WeightIterators`: the generator, its caller (who takes a tensor or
drops the generator), the pool's threads and the prefetch thread run. `DcpMerge`: every rank goes on; an
all-gather returns once all have come.
`SparseLayers`: the host enqueues a step to its end and every stream executes what it is given. `NpWeightCache` uses
strong fairness per process: a file lock polled by several processes is got eventually if it is free again and
again, and the launcher starts a killed worker again. `NgramHash` and `SwaWindow` state safety only and have no
fairness.

## 4. Findings

The runs marked "violation" check one documented sentence each that the code does not keep.

1. `shards_prestage_dp`: engram.py:1325 says a table shared by DP replicas "stages every replica's tokens at
   once". `EngramDiskStager.stage` stages its own replica's tokens in slots 0..n-1, whereas `embed` trades
   slots ordered by replica. Nothing rejects a disk table with an Engram DP group.
2. `ngram_reload`: engram.py:19-24 argues that slots always read back what the owning request wrote. On the
   V1 runner, a preempted request that resumes on a cached block loaded by a connector for another request
   looks back at generated positions whose slots nobody wrote. It takes a connector, preemption and a text
   shared between one request's prompt and another one's output.
3. `np_cache_crash`: weight_utils.py:650 promises a dump if there is none. A kill between opening and writing
   `weight_names.json` leaves an empty file that passes for a dump (`atomic_writer`, in the same file, is not
   used for it).
4. `sparse_uneven`: when decodes of different lengths are packed into `[batch, next_n]`
   (sparse_attn_indexer.py:586-607), their weights are not (line 650), although they carry each token's scale
   (line 907); and the packed rows, more than there are decode tokens, overwrite the first rows the prefill part
   has just written (line 687), which attention then takes for the prefill tokens' selection
   (flashinfer_sparse.py:867). It takes decodes of unequal length in one batch, which the comment at line 587
   says short prefill chunks under speculative decoding produce.

More divergences were met while reading and have no run of their own. engram.py:1472 says that with rows
staged before the forward it "only reads ``staged_rows``"; with two micro-batches the second one reads an extra
buffer nobody fills, because `prepare_embeddings` returns early (the passing `shards` run therefore stages
before the forward with one micro-batch only). And weight_utils.py:989 says a generator of futures keeps files
from being in memory all at once, whereas `as_completed` makes a set of its argument first. `_is_prime` divides
by its small primes and then takes 2, 7 and 61 as bases, of which 61 shows itself composite: 61 is never handed
out, so "smallest prime" (engram.py:99) holds for vocabularies above 61 only, as all real ones are. The kernel
stores ids as int32 (engram.py:507) and nothing checks that a layer's table has fewer than 2^31 rows.
`DSV41_ENGRAM_DISK` skips the tables' tensors in the lazy iterator's default branch only (weight_utils.py:971).

## 5. Proofs

Checked by TLAPS for every value of the constants.

* **`EngramStager_proofs`**: `TypeCorrect`, `Inductive`, `ForwardCorrect`, `HashesSettled`, `RewritesIdle`,
  `Implements`.
  What a pass reads depends on what the stream will have executed by then, so none of the properties is
  inductive alone. `IInv` adds: where each kind of operation stands in the stream (`StreamOrder`); which
  operation is last for each position of the host thread (`HostOrder`); what the operation executed last has
  left in its buffer (`GpuOrder`); and that pinned rows of pending copies are those of the copy's step
  (`RowsInFlight`). One case per action; only the conjuncts an action can disturb have a step. `Implements`
  (the safety part of the refinement) adds `ForwardsInOrder`: every launched step has one forward pass in the
  stream, in the order of the steps, and those the GPU has passed are the ones served. Hence the next forward
  is that of step `Len(served) + 1` (`NextServed`), and it maps to `Rows!Serve`.
* **`NgramHash_proofs`**: `TypeCorrect`, `NgramsCorrect`, `SlotsCorrect` and the action property
  `SharedSlotsKept`, all from one `IInv` (end of `NgramHash`, where TLC has checked it on the instance of `ngram`).
  None is inductive alone: that a hash is right says nothing about what the next step finds in the slots. `IInv`
  adds, of the engine, that a block with two holders is cached (`Alone`), that what is cached is full and is the
  holder's prefix, that a table entry is the null block only where the window has passed (`RequestInv`), and that
  a row continues its request inside its blocks (`RowInv`); of the slot cache, that every computed token that has
  a block is in its slot (`Held`), so are the tokens of a row once hashed (`RowHeld`) and those of cached prefixes
  (`KeptHeld`) -- all but prompt tokens where a connector may have loaded their KV, which V1's window supplies.
  `Depth < WindowSize` is what keeps the lookback off null blocks. The kernel's writes do not disturb any of this
  because two cells of a batch with one slot are the same cell, and a cell of a cached block is never written:
  rows write past what is computed, cached blocks end before it. The hypothesis `LoadOrPreempt` (a deployment
  with slot cache and connectors has no preemption) leaves out exactly the deployment in which finding 2 shows
  the property to fail; V2 with both, and V1 with either, are covered.
* **`EngramDisk_proofs`**: `Complete` (what a call returns are the table's rows, every byte), `Disjoint` and
  `FailuresRaise`, all from `DiskInv`. `TasksApart` and `RowsCovered` show that the chunks of a call partition
  its rows. The invariant adds that a thread is at a row of a task of its own (`InFlight`), that tasks of one
  call share no row (`FutsApart`), that every task is submitted or still to be (`CallTasks`), that what was
  waited for is done (`Awaited`), and which bytes of the buffers are the file's already (`Filled`): all rows of
  a done task, and of a running one the rows and bytes behind its thread. Without it `RowsComplete` is not
  inductive, since it speaks of the result alone. Of `torch.unique` only `UniqueAssumption` is used: it lists
  every row asked for and no other (that it sorts and lists none twice is not needed).
* **`EngramHash_proofs`**: what the hash kernels rely on. `HeadsApart`, that bucket ranges of a layer are disjoint
  and no prime serves two heads: `LayoutInv` adds that what was handed out has been seen. `NoneLeftOut`, that the
  search hands out what `_is_prime` accepts in order and skips none, though it starts over for every n-gram size:
  all accepted numbers below `candidate`, and below any number handed out, are in `seen` (`SweepInv`). With a right
  test that is `PrimesWithoutGap` (`PrimesInOrder`, under `TestRight`: `IsPrime` tells the primes from
  `VocabSize` to `Reach = 2 * VocabSize`; the three bases leave that to sizes above 61 and below half of
  4,759,123,141). Of the search, `Bracketed` (rows below `lo` end at or before the token, rows from `hi` on
  after it) is inductive because boundaries do not decrease; `RowFound` follows when `lo = hi`. `RowsInBucket` is
  about the arithmetic: `MultiplierBound` keeps a product of id and multiplier at or below `MaxLong`
  (`ProductInside`), the xor of two such numbers is one (`XorInside`, bit by bit), so the remainder is a row of the
  bucket (`HashInBucket`); tables have no gap (`ColumnsInv`), so a rank's rows are the ranges of its heads
  (`RowsEnd`) and `Lookup` finds the id. It holds while the rows of a table can be numbered in the ids' width
  (`TablesFit`), which the code does not check. `TwoTo`, `XorLong`, `RowsUpTo` and the rolling hash are recursive
  functions; that they have the values they define is shown once (`RecursionExists`). The invariants were checked
  by TLC on the instance of `engram_ids`.
* **`EngramShards_proofs`**: `DataFollowsPhase`, `OutputCorrect` and `BuffersFit`. `OutputComplete` speaks of finished
  micro-batches only and is not inductive. `IInv` adds where a thread's data come from, by the collective it
  stands at: after the exchange of ids it has those of all replicas, each in its replica's slot; from its lookup
  on its staging buffer begins with the rows of its TP rank's heads for what it looked up; after the trade it has
  its own replica's tokens for the heads of its rank (`Phase`). With staged rows, the stager is at most one step
  ahead of the forward and does not write what a forward still reads (`Prestaged`). Every planned step has work on
  some replica, so a slot's width is never taken of nothing (`Planned`). That a collective's peers are at the same
  step and phase follows from `Meet`. The layout is then arithmetic: the heads of the shards are all heads once
  (`AllIdsAre`, `CeilDivCovers`), slots of replicas do not overlap and cover a batch (`SlotCovers`), and
  `_engram_select_rows_kernel`'s flat offset reads for row and column what stands abreast in the gathered buffer
  (`SelectedRows`, from `Digits`). The hypothesis `PrestageAlone` (rows are staged before the forward only with one
  replica and one micro-batch) leaves out the deployment in which finding 1 shows the property to fail and the
  one of two micro-batches described with it. The final `IInv` was checked by TLC on four small deployments first.
* **`WeightLoading_proofs`**: of the numpy cache, `OneDumpsAtATime` from `LockInv` alone (whoever is between acquire
  and release is in the lock, the lock has one member), whatever crashes. `ReadersFindAll` and `DumpFollowsHolder`
  also need `DumpInv` and `NamesInv` (the holder's place tells what is on disk) and the hypothesis `NamesWritten`,
  that nobody is killed while `weight_names.json` is open; finding 3 shows that it cannot be dropped. Of the
  generators, `NothingLeft` from `LoadInv` (a pool has jobs only while its generator may wait for
  them; the loader left open is the one the `finally` closes), and `TensorsOnce` from `OnceInv`: every file of the index is at one place (queue, thread,
  done, or begun), and what was handed out together with what is left of the current file are the names of the files
  begun, without repetition (`Handed`); that a fallback comes only before the first tensor is `Before`. It uses that
  the index maps a tensor to one file (`IndexAssumption`), and lemmas of what `Keep`, `SetToSeqs` and `FlattenSeq`
  return for every sequence, by induction over a set of numbers (`Counting`). Of the writers, `FileWhole` and `NoLitter` from `WriterInv` (how
  far a writer is tells what it left).
* **`SparseIndexer_proofs`**, of `SparseLayers`: `CachesCorrect`, `ScoresCorrect`, `RowsCorrect` and
  `MasksCorrect`, all from `LayersInvariant`. The properties speak of what attention has read, which no buffer
  shows any more, so none is inductive. `IInv` describes the work still queued. A layer's operations have places
  on a plan (`Planned`, `Place`); a stream always holds exactly the rest of the enqueued layers' plans, in the
  plan's order (`Ordered`, `OnPlan`, `Complete`), a fork whose record is still to come has yet to be entered and
  a branch whose record is still to come yet to be joined (`Forked`, `Joined`), and events are counted so that a
  wait is for the record of its own fork (`Counted`, `Matched`), although the forks of a layer record the same
  three events in every step. Hence `PendingFrom` (once the main stream has left a layer, no stream has work of
  it), `Where` (an auxiliary stream runs work of the main stream's layer only) and `WriterDone` (a reader that
  runs comes after its writer, in its stream or by a join). On that rest the data: a reader whose writer is no
  longer pending finds what it wrote (`ActInv`, `CacheInv`), the gather workspace belongs to the chunk's group
  (`GatherInv`), rows and candidate blocks are complete once the operations that write them are gone and stay so
  until the last consumer has read them (`RowsInv`, `CandInv`), and what attention read was that (`OutInv`). One
  lemma per kind of step and part of `IInv`. `ProgramExact` is the part about the host: what `EnqueueLayer` puts
  on the streams, with or without auxiliary streams, with the projections forked or not, for every kind of layer
  and batch, is exactly the plan, once and in order. `CachesCorrect` and `ScoresCorrect` have no hypothesis.
  `RowsCorrect` and `MasksCorrect` assume `UnevenAlone`, that decodes of different lengths do not share a batch
  with a prefill; finding 4 shows that it cannot be dropped, and decodes of different lengths alone, or of one
  length with a prefill, are covered.
* **`SparseIndexer_proofs`**, of `DcpMerge`: `MergedIsExact`. `GlobalIdOfLocal` shows that a packed id is the
  position the token was dealt out from, `BestOfBest` that a best selection of best selections is one of the
  whole; the invariant says what each rank sent and that a merge follows from it.
* **`SwaWindow_proofs`**: `WindowsRead`, `ImagesRead`, `DraftsRead`, `BlocksRead`, `PaddingIdle` and `ChunksPlanned`,
  all from `Invariant`. What a token read is right only after the pass, so none is inductive; `IInv` says what makes
  it come true. Of the block manager: a block is in one table, once (`Owned`), and a running request has blocks for
  what it has accepted of its window (`Tables`) -- and, while a pass is under way, for all the pass inserts and the
  drafts after it (`TargetPass`, `DraftPass`). Of the cache: an accepted position that has a block holds its own KV
  (`Held`), a drafted one the drafter's (`Drafting`). Of the builder: every row of slots is that of the interval
  its token is to read and rows of padding are empty (`Built`), and the metadata counts the batch's own rows
  (`Meta`). `SeenIs` is the heart of the argument: the interval of a token, widened by an image or not, lies in
  blocks not yet given back and fits the row's width -- a query that cuts no image span is needed for the right
  side, spans longer than a decode for the left, and for a DSpark block that the target's pass accepted a token
  since blocks were given back. `ForwardReads` then needs only that no two positions share a slot. The plan of
  chunks is shown well founded and chained (`PlanIs`): a chunk that is not the last was stopped by the workspace,
  which has room for `ChunkSize` requests of any width (`WidthIs`), so it has that many. The conjuncts of `IInv` and
  the properties were first checked together by TLC on the instance of `swa`.

Assumptions are those declared in the modules: positive sizes, a non-empty list of tensors, distinct files.
Liveness under fairness, `ENABLED` and the liveness half of `RowsSpec` are only model-checked, as is that the
Miller-Rabin test is right where the layout uses it (number theory: `PrimesWithoutGap` of run `engram_ids`).

## 6. Abstractions and assumptions

* Connectors load the KV of prompt positions only, before a request's first step (`NgramHash!Load`).
* A block's slots keep their values when it is freed; a newly allocated one loses its prefix, not its slots.
* The CUDA stream executes in order and arbitrarily late; the runner writes its inputs on the same stream.
* The V1 window holds prompt positions, as engram.py:31-34 says of the runner, which is outside `src/`.
* Hash collisions, quantisation, kernels' numerics and tensor layouts other than the rank-major ones the
  exchange depends on are left out; ids lie in the bucket range of their head.
* The one-row and zero-row shortcuts of `_kai_parallel_read` are not reached through `gather_dequant_many`
  with at least one table and one id (each table has two jobs with equal rows).
* `SparseLayers` gives each activation one cell, as if the allocator reused a block at once: a read that is late
  or early is always seen. A selection is known by what it was computed from (token, query, weight row, keys,
  candidate mask), not by the positions it has. The host enqueues a layer in one step, since it never waits in it.
  Sources have the ratio of their consumers and key sources are index sources (`TopologyAssumption`). The chunks of a
  prefill are its tokens, and a chunk that skips the gather continues the group before it (`ChunkAssumption`). The
  field `fork` of an operation only says which of the layer's forks it belongs to; no action reads it.
* `SwaWindow`'s block manager frees the blocks behind the next query's window when a request is scheduled, and
  hands out the lowest free block; target and draft passes share one cache, as a draft layer sees it. Image spans
  are scheduled whole, do not overlap and are longer than a decode (`SpanAssumption`, the comment at
  sparse_swa.py:632), and a batch of DSpark decodes leaves room for all blocks of drafts. Prefix
  caching, which could start a query inside a span, is left out, as are drafts past the model's length.
* Run `engram_ids` takes the least, a middle and the greatest multiplier and id for the random ones (`Draw`), and
  widths of 16 and 15 bits for 64 and 32; the theorems hold for all. `XorAgrees` compares the xor of `EngramIds`
  with the bitwise one of the community modules, on small numbers of both signs. Which values make up an n-gram is `NgramHash`'s part.
* `WeightIterators` follows one worker; a file is the list of its tensors. The pool of the prefetch thread is
  bounded by `max_workers`. Temporary names are never given twice (`tempfile.mkstemp`).
* `DcpMerge` takes one row for the rows of a chunk, which do not depend on each other; equal scores may come in
  any order from a rank's selection and are decided alike by the stable merge.
* A killed process releases its file lock (the operating system's lock, not the file's existence, is the lock).

## 7. Not modelled, and what is left

* **Compressed token map**: a function of the tokenizer's vocabulary, with no state.
* **Other weight loading**: downloads and third-party loaders (runai, instanttensor) are calls of libraries;
  renaming and quantization configs are string handling.
* **Engram gate**, kernels' numerics, the wider mixed-index kernels of the FlashInfer backend: floating point, or
  layouts that only the external attention kernel reads.
* **Scripts, patch, guides and reports**: copying, checksums and prose.
* Parts of components marked "partly" in `PROJECT.json` have the reason in their notes.
