----------------------------- MODULE EngramRows -----------------------------
(***************************************************************************)
(* What the disk stager promises a model runner, apart from how it is      *)
(* kept: the steps the runner prepares are served in the order they were   *)
(* prepared, each exactly once, and the forward pass of step s reads the   *)
(* table rows of the tokens of step s -- never those of another step,      *)
(* never another layer's, never a half-written buffer.  A step prepared    *)
(* while the KV cache is unbound (profiling) is served without rows.       *)
(***************************************************************************)
EXTENDS Naturals, Sequences

CONSTANTS Layers,     \* the engram layers, 1..n in the order of layer_hash_index
          MaxTokens,  \* rows of one staging buffer
          MaxSteps    \* bound: steps the runner prepares

VARIABLES batches,    \* batches[s]: tokens of step s, and whether KV was bound
          served,     \* served[i]: the rows the i-th forward pass read
          failed      \* a disk read raised: the worker prepares no more steps

avars == <<batches, served, failed>>

\* The hash of a token, named by the step whose token id and whose lookback
\* window it was computed from, and the row one layer's table holds for it.
HashOf(ids, window) == [ids |-> ids, win |-> window]
RowOf(layer, hash)  == [layer |-> layer, hash |-> hash]

\* The rows step s asks for: one per layer and token.
RowsOf(s, n) == [l \in Layers |-> [t \in 1..n |-> RowOf(l, HashOf(s, s))]]

\* The rows of a batch that was prepared as step s.
Due(s, b) == [step |-> s, rows |-> RowsOf(s, IF b.bound THEN b.n ELSE 0)]

Init == batches = << >> /\ served = << >> /\ failed = FALSE

Prepare == /\ ~failed
           /\ Len(batches) < MaxSteps
           /\ \E n \in 1..MaxTokens, bound \in BOOLEAN :
                batches' = Append(batches, [n |-> n, bound |-> bound])
           /\ UNCHANGED <<served, failed>>

Serve == /\ Len(served) < Len(batches)
         /\ LET s == Len(served) + 1
            IN  served' = Append(served, Due(s, batches[s]))
         /\ UNCHANGED <<batches, failed>>

Fail == /\ ~failed
        /\ failed' = TRUE
        /\ UNCHANGED <<batches, served>>

Next == Prepare \/ Serve \/ Fail

Spec == Init /\ [][Next]_avars /\ WF_avars(Serve /\ ~failed)
=============================================================================
