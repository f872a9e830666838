---------------------------- MODULE EngramStager ----------------------------
(***************************************************************************)
(* Disk-backed Engram rows staged outside the forward pass                 *)
(* (files/engram.py, EngramDiskStager; files/model_state.py).              *)
(*                                                                         *)
(* Two actors.  The HOST thread of one worker prepares steps: it enqueues  *)
(* GPU work, waits on one event, reads rows from disk, and enqueues copies *)
(* out of pinned buffers it will write again for the next step.  The GPU   *)
(* executes one CUDA stream in order, arbitrarily late.  Nothing but the   *)
(* event orders the host's reads and writes of pinned memory with the      *)
(* asynchronous copies that use the same memory.                           *)
(*                                                                         *)
(* Data are tags: a hash is the step its token id came from and the step   *)
(* its lookback window came from; a row is a layer and a hash.             *)
(***************************************************************************)
EXTENDS Naturals, Sequences

CONSTANTS NumLayers,   \* engram layers
          MaxTokens,   \* rows of a staging buffer (max_num_batched_tokens)
          MaxSteps,    \* bound: steps the runner prepares
          MaxDummies   \* bound: dummy batches (warm-up, capture, idle replica)

ASSUME NumLayersAssumption == NumLayers \in Nat \ {0}
ASSUME BoundsAssumption ==
  MaxTokens \in Nat \ {0} /\ MaxSteps \in Nat /\ MaxDummies \in Nat

VARIABLES
  (* host *)
  pc,            \* where the host thread is in prepare_inputs / stage
  batches,       \* batches[s]: what the runner prepared as step s
  dummies,       \* dummy batches so far
  kvBound,       \* swa_cache_module.kv_cache.numel() # 0
  event,         \* hashes_ready: the stream position it was recorded at
  fetched,       \* rows_per_layer, in ordinary host memory
  nextLayer,     \* the layer whose rows the host copies next
  numStaged,     \* EngramDiskStager.num_staged
  (* pinned host memory, shared by host and GPU *)
  hashHost, rowsHost,
  (* the stream and GPU memory *)
  ops,           \* everything ever enqueued, in order
  done,          \* how many of ops the GPU has executed
  inputIds, window, hashes, stagedRows,
  (* history *)
  served         \* the rows each forward pass of a prepared step read

host    == <<pc, batches, dummies, kvBound, event, fetched, nextLayer, numStaged>>
pinned  == <<hashHost, rowsHost>>
gpu     == <<inputIds, window, hashes, stagedRows>>
vars    == <<host, pinned, gpu, ops, done, served>>

Layers == 1..NumLayers
Tokens == 1..MaxTokens

HashOf(ids, win)   == [ids |-> ids, win |-> win]
RowOf(layer, hash) == [layer |-> layer, hash |-> hash]

\* Contents no step wrote: torch.empty memory and the -1 fill of the window.
NoStep == 0
NoHash == HashOf(NoStep, NoStep)
NoRow  == RowOf(0, NoHash)

Kinds == {"inputs", "lookback", "hash", "d2h", "h2d", "forward",
          "fill", "dummy_forward"}

\* One piece of GPU work: of which step, over how many tokens, for which layer.
Op(kind, step, n, layer) ==
  [kind |-> kind, step |-> step, n |-> n, layer |-> layer]

step == Len(batches)
num  == batches[step].n

Pending    == (done + 1) .. Len(ops)
Enqueue(o) == ops' = Append(ops, o)

Init ==
  /\ pc = "idle" /\ batches = << >> /\ dummies = 0 /\ kvBound = FALSE
  /\ event = 0 /\ nextLayer = 1 /\ numStaged = 0
  /\ fetched  = [l \in Layers |-> [t \in Tokens |-> NoRow]]
  /\ hashHost = [t \in Tokens |-> NoHash]
  /\ rowsHost = [l \in Layers |-> [t \in Tokens |-> NoRow]]
  /\ ops = << >> /\ done = 0
  /\ inputIds = [t \in Tokens |-> NoStep] /\ window = NoStep
  /\ hashes = [t \in Tokens |-> NoHash]
  /\ stagedRows = [l \in Layers |-> [t \in Tokens |-> NoRow]]
  /\ served = << >>

\* buf with its first n slots replaced by val(_), as `buf[:n].copy_(...)`.
Overwrite(buf, n, val) == [t \in Tokens |-> IF t <= n THEN val[t] ELSE buf[t]]

-----------------------------------------------------------------------------
(* Deliberate defects of the host's steps, none of them part of Next: each    *)
(* property below is known to fail when one of them takes the place of the    *)
(* step it corrupts.                                                          *)

\* Staging without gathering this step's lookback window first.
SkipLookback ==
  /\ pc = "begun"
  /\ pc' = "gathered"
  /\ UNCHANGED <<batches, dummies, kvBound, event, fetched, nextLayer,
                 numStaged, pinned, gpu, ops, done, served>>

\* Recording the event in front of the copy it is to wait for.
RecordThenCopy ==
  /\ pc = "hashed"
  /\ Enqueue(Op("d2h", step, num, 0))
  /\ event' = Len(ops)
  /\ pc' = "sync"
  /\ UNCHANGED <<batches, dummies, kvBound, fetched, nextLayer, numStaged,
                 pinned, gpu, done, served>>

\* Not waiting for the event.
NoWait ==
  /\ pc = "sync"
  /\ pc' = "read"
  /\ UNCHANGED <<batches, dummies, kvBound, event, fetched, nextLayer,
                 numStaged, pinned, gpu, ops, done, served>>

\* Launching the step although its rows could not be read.
ReadErrorSwallowed ==
  /\ pc = "read"
  /\ pc' = "staged"
  /\ UNCHANGED <<batches, dummies, kvBound, event, fetched, nextLayer,
                 numStaged, pinned, gpu, ops, done, served>>

-----------------------------------------------------------------------------
(* HOST *)

\* KV cache (un)bound between steps: profiling binds a temporary cache first.
BindKV == /\ pc = "idle"
          /\ kvBound' = ~kvBound
          /\ UNCHANGED <<pc, batches, dummies, event, fetched, nextLayer,
                         numStaged, pinned, gpu, ops, done, served>>

\* The runner starts a step: it enqueues the writes of this step's input ids,
\* positions and query_start_loc into its persistent buffers.
BeginStep(n) ==
  /\ pc = "idle"
  /\ Len(batches) < MaxSteps
  /\ batches' = Append(batches, [n |-> n, bound |-> kvBound])
  /\ Enqueue(Op("inputs", Len(batches) + 1, n, 0))
  /\ pc' = "begun"
  /\ UNCHANGED <<dummies, kvBound, event, fetched, nextLayer, numStaged,
                 pinned, gpu, done, served>>

\* prepare_inputs gathers the lookback window of every request ...
GatherLookback ==
  /\ pc = "begun"
  /\ Enqueue(Op("lookback", step, num, 0))
  /\ pc' = "gathered"
  /\ UNCHANGED <<batches, dummies, kvBound, event, fetched, nextLayer,
                 numStaged, pinned, gpu, done, served>>

\* ... and stage() returns 0 at once when the KV cache is unbound ...
StageUnbound ==
  /\ pc = "gathered"
  /\ ~kvBound
  /\ pc' = "staged"
  /\ UNCHANGED <<batches, dummies, kvBound, event, fetched, nextLayer,
                 numStaged, pinned, gpu, ops, done, served>>

\* ... else enqueues the hash kernel,
StageHash ==
  /\ pc = "gathered"
  /\ kvBound
  /\ Enqueue(Op("hash", step, num, 0))
  /\ pc' = "hashed"
  /\ UNCHANGED <<batches, dummies, kvBound, event, fetched, nextLayer,
                 numStaged, pinned, gpu, done, served>>

\* the copy of this rank's hash columns to pinned memory, and the event.
StageCopyHashes ==
  /\ pc = "hashed"
  /\ Enqueue(Op("d2h", step, num, 0))
  /\ event' = Len(ops) + 1
  /\ pc' = "sync"
  /\ UNCHANGED <<batches, dummies, kvBound, fetched, nextLayer, numStaged,
                 pinned, gpu, done, served>>

\* hashes_ready.synchronize(): returns once the stream has passed the event.
Synchronize ==
  /\ pc = "sync"
  /\ done >= event
  /\ pc' = "read"
  /\ UNCHANGED <<batches, dummies, kvBound, event, fetched, nextLayer,
                 numStaged, pinned, gpu, ops, done, served>>

\* disk_rel_owned of every layer, then one gather_dequant_many over all.
ReadRows ==
  /\ pc = "read"
  /\ fetched' = [l \in Layers |->
                   Overwrite(fetched[l], num,
                             [t \in Tokens |-> RowOf(l, hashHost[t])])]
  /\ nextLayer' = 1
  /\ pc' = "copy"
  /\ UNCHANGED <<batches, dummies, kvBound, event, numStaged, pinned, gpu,
                 ops, done, served>>

\* A short read or I/O error raises out of stage(); the step never launches.
ReadError ==
  /\ pc = "read"
  /\ pc' = "failed"
  /\ UNCHANGED <<batches, dummies, kvBound, event, fetched, nextLayer,
                 numStaged, pinned, gpu, ops, done, served>>

\* One turn of the per-layer loop: rewrite this layer's pinned buffer, enqueue
\* its copy to the device; after the last layer stage() returns.
LoopEnd(k) == IF k = NumLayers THEN "staged" ELSE "copy"

StageLayer ==
  /\ pc = "copy"
  /\ rowsHost' = [rowsHost EXCEPT ![nextLayer] =
                    Overwrite(@, num, fetched[nextLayer])]
  /\ Enqueue(Op("h2d", step, num, nextLayer))
  /\ nextLayer' = nextLayer + 1
  /\ pc' = LoopEnd(nextLayer)
  /\ numStaged' = IF LoopEnd(nextLayer) = "staged" THEN num ELSE numStaged
  /\ UNCHANGED <<batches, dummies, kvBound, event, fetched, hashHost, gpu,
                 done, served>>

\* The runner launches the forward pass, eager or as a graph replay; engram
\* layers are skipped while the KV cache is unbound.
Launch ==
  /\ pc = "staged"
  /\ Enqueue(Op("forward", step, IF kvBound THEN num ELSE 0, 0))
  /\ pc' = "idle"
  /\ UNCHANGED <<batches, dummies, kvBound, event, fetched, nextLayer,
                 numStaged, pinned, gpu, done, served>>

\* prepare_dummy_inputs fills the window with -1 and stages nothing; its
\* forward reads whatever staged_rows holds and its output is discarded.
PrepareDummy ==
  /\ pc = "idle"
  /\ dummies < MaxDummies
  /\ dummies' = dummies + 1
  /\ Enqueue(Op("fill", NoStep, 0, 0))
  /\ pc' = "dummy"
  /\ UNCHANGED <<batches, kvBound, event, fetched, nextLayer, numStaged,
                 pinned, gpu, done, served>>

LaunchDummy ==
  /\ pc = "dummy"
  /\ Enqueue(Op("dummy_forward", NoStep, 0, 0))
  /\ pc' = "idle"
  /\ UNCHANGED <<batches, dummies, kvBound, event, fetched, nextLayer,
                 numStaged, pinned, gpu, done, served>>

-----------------------------------------------------------------------------
(* GPU: the op at the head of the stream *)

Cur == ops[done + 1]

Runs(kind) == /\ done < Len(ops)
              /\ Cur.kind = kind
              /\ done' = done + 1
              /\ UNCHANGED <<host, ops>>

RunInputs ==
  /\ Runs("inputs")
  /\ inputIds' = Overwrite(inputIds, Cur.n, [t \in Tokens |-> Cur.step])
  /\ UNCHANGED <<pinned, window, hashes, stagedRows, served>>

RunLookback ==
  /\ Runs("lookback")
  /\ window' = Cur.step
  /\ UNCHANGED <<pinned, inputIds, hashes, stagedRows, served>>

RunFill ==
  /\ Runs("fill")
  /\ window' = NoStep
  /\ UNCHANGED <<pinned, inputIds, hashes, stagedRows, served>>

RunHash ==
  /\ Runs("hash")
  /\ hashes' = Overwrite(hashes, Cur.n,
                         [t \in Tokens |-> HashOf(inputIds[t], window)])
  /\ UNCHANGED <<pinned, inputIds, window, stagedRows, served>>

RunD2H ==
  /\ Runs("d2h")
  /\ hashHost' = Overwrite(hashHost, Cur.n, hashes)
  /\ UNCHANGED <<rowsHost, gpu, served>>

RunH2D ==
  /\ Runs("h2d")
  /\ stagedRows' = [stagedRows EXCEPT ![Cur.layer] =
                      Overwrite(@, Cur.n, rowsHost[Cur.layer])]
  /\ UNCHANGED <<pinned, inputIds, window, hashes, served>>

RunForward ==
  /\ Runs("forward")
  /\ served' = Append(served,
                 [step |-> Cur.step,
                  rows |-> [l \in Layers |->
                              [t \in 1..Cur.n |-> stagedRows[l][t]]]])
  /\ UNCHANGED <<pinned, gpu>>

RunDummyForward ==
  /\ Runs("dummy_forward")
  /\ UNCHANGED <<pinned, gpu, served>>

-----------------------------------------------------------------------------

StageStep == \/ GatherLookback \/ StageUnbound \/ StageHash \/ StageCopyHashes
             \/ Synchronize \/ ReadRows \/ StageLayer
HostStep  == StageStep \/ Launch \/ LaunchDummy
GpuStep   == \/ RunInputs \/ RunLookback \/ RunFill \/ RunHash \/ RunD2H
             \/ RunH2D \/ RunForward \/ RunDummyForward

Next == \/ BindKV
        \/ \E n \in Tokens : BeginStep(n)
        \/ PrepareDummy
        \/ HostStep
        \/ ReadError
        \/ GpuStep

\* The GPU drains its stream, and a host thread inside prepare_inputs goes on
\* whenever it can.  Nothing makes the runner begin another step.
Fairness == WF_vars(GpuStep) /\ WF_vars(HostStep)

Spec == Init /\ [][Next]_vars /\ Fairness

-----------------------------------------------------------------------------

Steps0  == Nat
HashSet == [ids : Steps0, win : Steps0]
RowSet  == [layer : Nat, hash : HashSet]
OpSet   == [kind : Kinds, step : Nat, n : 0..MaxTokens, layer : 0..NumLayers]
Batches == [n : Tokens, bound : BOOLEAN]
Phases  == {"idle", "begun", "gathered", "hashed", "sync", "read", "copy",
            "staged", "failed", "dummy"}

\* Every variable stays in its domain; nothing but the loop over the layers
\* and the slicing by num_tokens keeps the buffer accesses in bounds.
TypeOK ==
  /\ pc \in Phases
  /\ batches \in Seq(Batches)
  /\ dummies \in Nat /\ kvBound \in BOOLEAN
  /\ event \in Nat /\ nextLayer \in 1..(NumLayers + 1)
  /\ numStaged \in 0..MaxTokens
  /\ fetched \in [Layers -> [Tokens -> RowSet]]
  /\ hashHost \in [Tokens -> HashSet]
  /\ rowsHost \in [Layers -> [Tokens -> RowSet]]
  /\ ops \in Seq(OpSet) /\ done \in 0..Len(ops)
  /\ inputIds \in [Tokens -> Steps0] /\ window \in Steps0
  /\ hashes \in [Tokens -> HashSet]
  /\ stagedRows \in [Layers -> [Tokens -> RowSet]]
  /\ served \in Seq([step : Nat, rows : [Layers -> Seq(RowSet)]])

\* Every forward pass of a prepared step read, for every layer and token, the
\* row of that layer for that step's own token and lookback window.
ForwardReadsOwnStep ==
  \A i \in 1..Len(served) : \A l \in Layers :
    \A t \in DOMAIN served[i].rows[l] :
      served[i].rows[l][t] =
        RowOf(l, HashOf(served[i].step, served[i].step))

\* When the host reads the pinned hashes, no copy into them is outstanding.
HostReadsSettledHashes ==
  pc = "read" => \A i \in Pending : ops[i].kind # "d2h"

\* When the host rewrites the pinned rows of a layer, every earlier copy out
\* of that buffer has finished: "It also orders this step's rewrite of the
\* pinned buffers after the previous step's async H2D copies from them."
HostRewritesIdleRows ==
  pc = "copy" => \A i \in Pending :
                   ops[i].kind = "h2d" => ops[i].layer < nextLayer

-----------------------------------------------------------------------------
(* The inductive invariant behind the three safety properties. *)

\* Each piece of GPU work sits right behind the one whose result it uses.
Justified(q, i) ==
  LET o == q[i]
      After(kind, layer) == i > 1 /\ q[i-1] = Op(kind, o.step, o.n, layer)
  IN  /\ o.kind = "lookback" => After("inputs", 0)
      /\ o.kind = "hash"     => After("lookback", 0)
      /\ o.kind = "d2h"      => After("hash", 0)
      /\ o.kind = "h2d" => /\ o.layer \in Layers
                           /\ o.layer = 1 => After("d2h", 0)
                           /\ o.layer # 1 => After("h2d", o.layer - 1)
      /\ o.kind = "forward" /\ o.n > 0 => After("h2d", NumLayers)

StreamOrder == \A i \in 1..Len(ops) : Justified(ops, i)

LastOp(kind, layer) ==
  /\ Len(batches) > 0
  /\ Len(ops) > 0 /\ ops[Len(ops)] = Op(kind, step, num, layer)

\* Where the host is says what it enqueued last and, past the event, that the
\* stream has nothing left but this step's own row copies.
HostOrder ==
  /\ pc = "begun"    => LastOp("inputs", 0)
  /\ pc = "gathered" => LastOp("lookback", 0)
  /\ pc = "hashed"   => LastOp("hash", 0) /\ kvBound
  /\ pc = "sync"     => LastOp("d2h", 0) /\ kvBound /\ event = Len(ops)
  /\ pc = "read"     => LastOp("d2h", 0) /\ kvBound /\ done = Len(ops)
  /\ pc = "copy"     => /\ kvBound
                        /\ nextLayer \in Layers
                        /\ nextLayer = 1 => LastOp("d2h", 0)
                        /\ nextLayer # 1 => LastOp("h2d", nextLayer - 1)
                        /\ \A i \in Pending :
                             ops[i].kind = "h2d" /\ ops[i].layer < nextLayer
  /\ pc = "staged"   => /\ Len(batches) > 0
                        /\ kvBound => LastOp("h2d", NumLayers)

\* What the op the GPU executed last has left in the buffer it writes.
GpuOrder ==
  done > 0 =>
    LET o == ops[done]
        own == HashOf(o.step, o.step)
    IN  /\ o.kind \in {"inputs", "lookback"} =>
             \A t \in 1..o.n : inputIds[t] = o.step
        /\ o.kind = "lookback" => window = o.step
        /\ o.kind = "hash" => \A t \in 1..o.n : hashes[t] = own
        /\ o.kind = "d2h"  => \A t \in 1..o.n : hashHost[t] = own
        /\ o.kind = "h2d"  => \A l \in 1..o.layer, t \in 1..o.n :
                                 stagedRows[l][t] = RowOf(l, own)

\* The rows on the host while their copies are still to be enqueued or to run.
RowsInFlight ==
  /\ pc = "copy" => \A l \in Layers, t \in 1..num :
                      fetched[l][t] = RowOf(l, HashOf(step, step))
  /\ \A i \in Pending : ops[i].kind = "h2d" =>
       \A t \in 1..ops[i].n :
         rowsHost[ops[i].layer][t] =
           RowOf(ops[i].layer, HashOf(ops[i].step, ops[i].step))

\* The stream and the pinned buffers agree at every moment: whatever is still
\* to run will find the data of the step it belongs to.
IInv == /\ StreamOrder /\ HostOrder /\ GpuOrder /\ RowsInFlight
        /\ ForwardReadsOwnStep

\* Steps whose forward pass has been launched.
Launched == IF pc \in {"idle", "dummy"} THEN Len(batches) ELSE Len(batches) - 1

\* Each launched step has one forward pass in the stream, in the order of the
\* steps; those the GPU has executed are the ones served.
ForwardsInOrder ==
  /\ pc \notin {"idle", "dummy"} => Len(batches) > 0
  /\ pc \notin {"idle", "dummy"} => kvBound = batches[step].bound
  /\ Len(served) <= Launched
  /\ \A i \in 1..Len(ops) : ops[i].kind = "forward" =>
       /\ ops[i].step \in 1..Launched
       /\ ops[i].n = IF batches[ops[i].step].bound THEN batches[ops[i].step].n ELSE 0
       /\ i <= done <=> ops[i].step <= Len(served)
       /\ \A j \in 1..(i - 1) : ops[j].kind = "forward" => ops[j].step < ops[i].step
  /\ \A s \in 1..Launched :
       \E i \in 1..Len(ops) : ops[i].kind = "forward" /\ ops[i].step = s

\* The promise of the runner-facing module, under the same fairness.
Rows == INSTANCE EngramRows WITH failed <- (pc = "failed")
RowsSpec == Rows!Spec

\* What a step may do to it, fairness aside.
RowsSafe == Rows!Init /\ [][Rows!Next]_(Rows!avars)
=============================================================================
