-------------------------- MODULE MCSparseLayers ----------------------------
(* Small models and batches for SparseLayers; TopK = 2, Threshold = 3.       *)
EXTENDS SparseLayers

Deployment(ratio, kv, index, candidate, aux, v2) ==
  [ratio |-> ratio, kvSources |-> kv, indexSources |-> index,
   candidateSource |-> candidate, auxStreams |-> aux, v2 |-> v2]

\* A window layer, a source of keys and candidates, an index source that masks
\* and a consumer; two groups of different ratio, the last with candidates.
OneGroup(aux, v2) == Deployment(<<0, 1, 1, 1>>, {2}, {2, 3}, 2, aux, v2)
TwoGroups == Deployment(<<2, 2, 1, 1>>, {1, 3}, {1, 3, 4}, 3, TRUE, TRUE)
Models == {OneGroup(TRUE, TRUE), OneGroup(FALSE, FALSE), TwoGroups}

Chunks(first, last, group, skip) ==
  [first |-> first, last |-> last, group |-> group, skipGather |-> skip]
ABatch(decodes, prefill, padding, maxSeqLen, graph, chunks) ==
  [decodes |-> decodes, prefill |-> prefill, padding |-> padding,
   maxSeqLen |-> maxSeqLen, graph |-> graph, chunks |-> chunks]

\* Mixed, short for both ratios or for one; a graph with padding; decodes of
\* different lengths alone.
Usual == {ABatch(<<1>>, 3, 0, 2, FALSE, <<Chunks(2, 4, 1, FALSE)>>),
          ABatch(<<1>>, 3, 0, 4, FALSE, <<Chunks(2, 3, 1, FALSE), Chunks(4, 4, 1, TRUE)>>),
          ABatch(<<1, 1>>, 0, 1, 2, TRUE, << >>),
          ABatch(<<1, 2>>, 0, 0, 6, FALSE, << >>)}
\* Decodes of different lengths before a prefill.
Uneven == {ABatch(<<1, 2>>, 2, 0, 6, FALSE, <<Chunks(4, 5, 1, FALSE)>>)}
=============================================================================
