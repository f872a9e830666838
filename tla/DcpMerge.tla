------------------------------ MODULE DcpMerge ------------------------------
(***************************************************************************)
(* The indexer's selection under decode context parallelism                *)
(* (files/sparse_attn_indexer.py, _merge_dcp_topk_global and its callers). *)
(*                                                                         *)
(* The KV of a sequence is dealt out to the ranks in pieces of             *)
(* cp_kv_cache_interleave_size tokens.  Every rank selects the best of its *)
(* own tokens; an all-gather for each prefill chunk and one for the        *)
(* decodes brings the ranks' candidates together, of which every rank      *)
(* selects again.  One row stands for the rows of a chunk, which are       *)
(* independent of each other.                                              *)
(***************************************************************************)
EXTENDS Integers, Sequences, FiniteSets

CONSTANTS dcp_world_size,
          cp_interleave,
          topk_tokens,
          SeqLens,       \* what rows may see: sequences of lengths, by merge
          MaxSeqLen,     \* bound on the lengths
          Scores         \* logits

ASSUME DcpAssumption ==
  /\ dcp_world_size \in Nat \ {0} /\ cp_interleave \in Nat \ {0}
  /\ topk_tokens \in Nat \ {0}    /\ MaxSeqLen \in Nat
  /\ SeqLens \subseteq Seq(0..MaxSeqLen) /\ Scores \subseteq Int

VARIABLES seqLens,  \* per merge: the positions its row sees are 0..length - 1
          logit,    \* per position: its score
          sent,     \* per rank: candidates it put into the all-gathers, in order
          merged    \* per rank: its selections, in order

dcpVars == <<seqLens, logit, sent, merged>>

DcpRanks  == 0..(dcp_world_size - 1)
Positions == 0..(MaxSeqLen - 1)

\* How KV is dealt out: the rank that holds a position, and its number there.
RankOf(p)     == (p \div cp_interleave) % dcp_world_size
LocalIndex(p) == ((p \div cp_interleave) \div dcp_world_size) * cp_interleave
                 + (p % cp_interleave)

\* The tokens rank r holds, for a row of length n.
Owned(r, n) == {p \in 0..(n - 1) : RankOf(p) = r}

\* Defect, not part of GlobalId: as if tokens were dealt out one by one.
GlobalIdSingly(r, i) == i * dcp_world_size + r

\* pack_dcp_topk_candidates_cutedsl: the position of local token i of rank r.
GlobalId(r, i) ==
  ((i \div cp_interleave) * dcp_world_size + r) * cp_interleave + (i % cp_interleave)

Least(a, b) == IF a < b THEN a ELSE b

\* T: the best of S, all of it if it has no more than topk_tokens.
IsTopK(T, S) ==
  /\ T \subseteq S /\ Cardinality(T) = Least(topk_tokens, Cardinality(S))
  /\ \A t \in T, s \in S \ T : logit[s] <= logit[t]

DcpInit ==
  /\ seqLens \in SeqLens /\ logit \in [Positions -> Scores]
  /\ sent = [r \in DcpRanks |-> << >>] /\ merged = sent

\* The merge rank r is at, if any is left.
At(r) == Len(merged[r]) + 1

\* What rank r sends for its local selection of the positions T.
Packed(r, T) == {GlobalId(r, LocalIndex(p)) : p \in T}

\* Defect, not part of DcpNext: a rank without tokens takes no part.
SelectOwnNonempty(r) ==
  /\ At(r) <= Len(seqLens) /\ Len(sent[r]) < At(r)
  /\ LET own == Owned(r, seqLens[At(r)])
     IN  /\ own # {}
         /\ \E T \in SUBSET own :
              IsTopK(T, own) /\ sent' = [sent EXCEPT ![r] = Append(@, Packed(r, T))]
  /\ UNCHANGED <<seqLens, logit, merged>>

\* top_k_per_row over the rank's shard, in whatever order ties come; a rank
\* that holds none of the tokens (local_total_seq_lens = 0) fills in -1 and goes
\* to the all-gather like the others.
SelectOwn(r) ==
  /\ At(r) <= Len(seqLens) /\ Len(sent[r]) < At(r)
  /\ LET own == Owned(r, seqLens[At(r)])
     IN  \E T \in SUBSET own :
           IsTopK(T, own) /\ sent' = [sent EXCEPT ![r] = Append(@, Packed(r, T))]
  /\ UNCHANGED <<seqLens, logit, merged>>

Gathered(n) == UNION {sent[q][n] : q \in DcpRanks}

\* stable_topk_from_gathered_candidates: ties are decided alike on every rank.
Stable(S) == CHOOSE T \in SUBSET S : IsTopK(T, S)

\* The all-gather returns when all ranks have come to it.
Merge(r) ==
  /\ Len(sent[r]) = At(r) /\ \A q \in DcpRanks : Len(sent[q]) >= At(r)
  /\ \E T \in SUBSET Gathered(At(r)) :
       /\ IsTopK(T, Gathered(At(r))) /\ T = Stable(Gathered(At(r)))
       /\ merged' = [merged EXCEPT ![r] = Append(@, T)]
  /\ UNCHANGED <<seqLens, logit, sent>>

DcpNext == \E r \in DcpRanks : SelectOwn(r) \/ Merge(r)
DcpFair == \A r \in DcpRanks : WF_dcpVars(SelectOwn(r) \/ Merge(r))
DcpSpec == DcpInit /\ [][DcpNext]_dcpVars /\ DcpFair

-----------------------------------------------------------------------------

\* "Exchanging only the per-rank local candidates is exact -- equivalent to
\* all-gathering the full logit matrix": what a rank selects of the candidates
\* is a best selection of all positions the row sees, the same on every rank.
MergeExact ==
  \A r \in DcpRanks : \A n \in 1..Len(merged[r]) :
    /\ IsTopK(merged[r][n], 0..(seqLens[n] - 1))
    /\ \A q \in DcpRanks : n <= Len(merged[q]) => merged[q][n] = merged[r][n]

\* No rank waits for another for ever, whatever shards are empty.
MergesEnd == <>(\A r \in DcpRanks : Len(merged[r]) = Len(seqLens))

-----------------------------------------------------------------------------
(* The strengthening behind MergeExact *)

DcpTypes ==
  /\ seqLens \in Seq(0..MaxSeqLen) /\ logit \in [Positions -> Int]
  /\ sent \in [DcpRanks -> Seq(SUBSET Positions)]
  /\ merged \in [DcpRanks -> Seq(SUBSET Positions)]

SentBest ==
  \A r \in DcpRanks :
    /\ Len(sent[r]) <= Len(seqLens) /\ Len(merged[r]) <= Len(sent[r])
    /\ \A n \in 1..Len(sent[r]) : IsTopK(sent[r][n], Owned(r, seqLens[n]))

\* A merge comes after every rank's candidates, which determine it.
MergedOfSent ==
  \A r \in DcpRanks : \A n \in 1..Len(merged[r]) :
    /\ \A q \in DcpRanks : n <= Len(sent[q])
    /\ merged[r][n] = Stable(Gathered(n)) /\ IsTopK(merged[r][n], Gathered(n))

DcpInv == DcpTypes /\ SentBest /\ MergedOfSent
=============================================================================
