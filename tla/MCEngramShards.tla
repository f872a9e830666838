--------------------------- MODULE MCEngramShards ---------------------------
(* Small deployments for EngramShards.                                       *)
EXTENDS EngramShards

Deployment(dp, tp, ubatches, cols, tokens, sp, prestage) ==
  [dp |-> dp, tp |-> tp, ubatches |-> ubatches, cols |-> cols,
   tokens |-> tokens, sp |-> sp, prestage |-> prestage]

\* Replicas sharing a table whose last shard has a padded head; micro-batches
\* under sequence parallelism; rows staged before the forward.
Sound == {Deployment(2, 2, 1, 7, 2, FALSE, FALSE),
          Deployment(1, 2, 2, 3, 3, TRUE, FALSE),
          Deployment(1, 2, 1, 3, 3, FALSE, TRUE)}

PrestageDP == {Deployment(2, 1, 1, 2, 2, FALSE, TRUE)}
=============================================================================
