-------------------------- MODULE MCSparseIndexer --------------------------
(* The indexer's two deployments.  Candidate blocks are not supported with   *)
(* decode context parallelism (sparse_attn_indexer asserts it), so a model   *)
(* either runs the layers of SparseLayers on a rank of its own, or merges    *)
(* the selections of the ranks as DcpMerge says.                             *)
EXTENDS MCSparseLayers, DcpMerge

VARIABLE dcp

allVars == <<vars, dcpVars, dcp>>

\* The part that does not run has one state.
MCInit ==
  /\ dcp \in BOOLEAN /\ Init /\ DcpInit
  /\ dcp  => setup = TwoGroups
  /\ ~dcp => seqLens = <<1, 4>> /\ \A p \in Positions : logit[p] = 1

MCNext == \/ ~dcp /\ Next    /\ UNCHANGED <<dcpVars, dcp>>
          \/ dcp  /\ DcpNext /\ UNCHANGED <<vars, dcp>>

MCSpec ==
  /\ MCInit /\ [][MCNext]_allVars
  /\ ~dcp => WF_vars(EnqueueLayer) /\ \A s \in Streams : WF_vars(GpuStep(s))
  /\ dcp  => DcpFair

\* No stream waits for another, and no rank, for ever.
IndexerEnds == (~dcp => StepsEnd) /\ (dcp => MergesEnd)

\* Rows of two merges; the second rank may hold none of their tokens.
RowLengths == {<<5, 2>>, <<1, 4>>, <<3, 5>>}
=============================================================================
