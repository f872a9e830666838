------------------------- MODULE EngramStager_proofs -------------------------
(***************************************************************************)
(* Theorems about EngramStager for every number of layers, tokens and      *)
(* steps: type correctness, the inductive invariant IInv, and from it the  *)
(* three safety properties of the stager.                                  *)
(***************************************************************************)
EXTENDS EngramStager, SequenceTheorems, TLAPS

USE NumLayersAssumption, BoundsAssumption

-----------------------------------------------------------------------------
(* Typing *)

\* The tags are what their sets say, so a step's number can be put in one.
LEMMA TagTypes ==
  /\ NoHash \in HashSet /\ NoRow \in RowSet
  /\ \A s, w \in Nat : HashOf(s, w) \in HashSet
  /\ \A l \in Nat, h \in HashSet : RowOf(l, h) \in RowSet
  BY DEF NoHash, NoRow, NoStep, HashOf, RowOf, HashSet, RowSet, Steps0

\* An op built from a kind, a step, a token count and a layer is an op.
LEMMA OpType ==
  ASSUME NEW kind \in Kinds, NEW s \in Nat, NEW n \in 0..MaxTokens,
         NEW l \in 0..NumLayers
  PROVE  Op(kind, s, n, l) \in OpSet
  BY DEF Op, OpSet

\* Enqueueing keeps the stream well typed and `done` within it.
LEMMA EnqueueType ==
  ASSUME ops \in Seq(OpSet), done \in 0..Len(ops), NEW o \in OpSet,
         Enqueue(o), done' = done
  PROVE  ops' \in Seq(OpSet) /\ done' \in 0..Len(ops')
<1>1. ops' \in Seq(OpSet) /\ Len(ops') = Len(ops) + 1
  BY AppendProperties DEF Enqueue
<1>. QED
  BY <1>1, LenProperties

\* A step in progress has a number and a count of tokens.
LEMMA BatchType ==
  ASSUME batches \in Seq(Batches), Len(batches) > 0
  PROVE  step \in Nat \ {0} /\ num \in Tokens
<1>1. Len(batches) \in Nat
  BY LenProperties
<1>2. step \in 1..Len(batches)
  BY <1>1 DEF step
<1>3. batches[step] \in Batches
  BY <1>2, ElementOfSeq
<1>. QED
  BY <1>1, <1>2, <1>3 DEF num, Batches

\* The op the GPU runs next is an op of the stream.
LEMMA CurType ==
  ASSUME TypeOK, done < Len(ops)
  PROVE  /\ Cur \in OpSet
         /\ Cur.n \in 0..MaxTokens /\ Cur.step \in Nat
         /\ Cur.layer \in 0..NumLayers
         /\ done + 1 \in 0..Len(ops)
         /\ done + 1 \in 1..Len(ops)
<1>1. done \in Nat /\ Len(ops) \in Nat
  BY LenProperties DEF TypeOK
<1>2. done + 1 \in 1..Len(ops)
  BY <1>1
<1>3. Cur \in OpSet
  BY <1>2, ElementOfSeq DEF Cur, TypeOK
<1>. QED
  BY <1>1, <1>2, <1>3 DEF OpSet

\* Every action keeps every variable in its domain.
LEMMA TypeStep ==
  ASSUME TypeOK, HostOrder, [Next]_vars
  PROVE  TypeOK'
<1>1. CASE UNCHANGED vars
  BY <1>1 DEF TypeOK, vars, host, pinned, gpu
<1>2. CASE BindKV
  BY <1>2 DEF BindKV, TypeOK, pinned, gpu
<1>3. ASSUME NEW n \in Tokens, BeginStep(n)
      PROVE  TypeOK'
  <2>1. Op("inputs", Len(batches) + 1, n, 0) \in OpSet
    BY OpType, LenProperties DEF TypeOK, Kinds, Tokens
  <2>2. batches' \in Seq(Batches)
    BY <1>3, AppendProperties DEF BeginStep, TypeOK, Batches
  <2>. QED
    BY <1>3, <2>1, <2>2, EnqueueType DEF BeginStep, TypeOK, Phases, pinned, gpu
<1>4. CASE GatherLookback
  <2>1. Op("lookback", step, num, 0) \in OpSet
    BY <1>4, BatchType, OpType
       DEF TypeOK, HostOrder, LastOp, GatherLookback, Kinds, Tokens
  <2>. QED
    BY <1>4, <2>1, EnqueueType DEF GatherLookback, TypeOK, Phases, pinned, gpu
<1>5. CASE StageUnbound
  BY <1>5 DEF StageUnbound, TypeOK, Phases, pinned, gpu
<1>6. CASE StageHash
  <2>1. Op("hash", step, num, 0) \in OpSet
    BY <1>6, BatchType, OpType
       DEF TypeOK, HostOrder, LastOp, StageHash, Kinds, Tokens
  <2>. QED
    BY <1>6, <2>1, EnqueueType DEF StageHash, TypeOK, Phases, pinned, gpu
<1>7. CASE StageCopyHashes
  <2>1. Op("d2h", step, num, 0) \in OpSet
    BY <1>7, BatchType, OpType
       DEF TypeOK, HostOrder, LastOp, StageCopyHashes, Kinds, Tokens
  <2>2. Len(ops) \in Nat
    BY LenProperties DEF TypeOK
  <2>. QED
    BY <1>7, <2>1, <2>2, EnqueueType
       DEF StageCopyHashes, TypeOK, Phases, pinned, gpu
<1>8. CASE Synchronize
  BY <1>8 DEF Synchronize, TypeOK, Phases, pinned, gpu
<1>9. CASE ReadRows
  <2>1. num \in Nat
    BY <1>9, BatchType DEF TypeOK, HostOrder, LastOp, ReadRows, Tokens
  <2>2. ASSUME NEW l \in Layers, NEW t \in Tokens
        PROVE  fetched[l][t] \in RowSet /\ RowOf(l, hashHost[t]) \in RowSet
    BY TagTypes DEF TypeOK, Layers
  <2>3. fetched' \in [Layers -> [Tokens -> RowSet]]
    BY <1>9, <2>2 DEF ReadRows, Overwrite
  <2>4. pc' \in Phases /\ nextLayer' \in 1..(NumLayers + 1)
    BY <1>9 DEF ReadRows, Phases
  <2>. QED
    BY <1>9, <2>3, <2>4 DEF ReadRows, TypeOK, pinned, gpu
<1>10. CASE ReadError
  BY <1>10 DEF ReadError, TypeOK, Phases, pinned, gpu
<1>11. CASE StageLayer
  <2>1. num \in Tokens /\ num \in Nat /\ num \in 0..MaxTokens
    BY <1>11, BatchType DEF TypeOK, HostOrder, LastOp, StageLayer, Tokens
  <2>2. Op("h2d", step, num, nextLayer) \in OpSet
    BY <1>11, <2>1, BatchType, OpType
       DEF TypeOK, HostOrder, LastOp, StageLayer, Kinds, Layers
  <2>3. rowsHost' \in [Layers -> [Tokens -> RowSet]]
    BY <1>11 DEF StageLayer, HostOrder, TypeOK, Overwrite
  <2>4. nextLayer' \in 1..(NumLayers + 1) /\ pc' \in Phases
    BY <1>11 DEF StageLayer, HostOrder, TypeOK, Layers, LoopEnd, Phases
  <2>5. numStaged' \in 0..MaxTokens
    BY <1>11, <2>1 DEF StageLayer, TypeOK
  <2>. QED
    BY <1>11, <2>2, <2>3, <2>4, <2>5, EnqueueType DEF StageLayer, TypeOK, gpu
<1>12. CASE Launch
  <2>1. Op("forward", step, IF kvBound THEN num ELSE 0, 0) \in OpSet
    BY <1>12, BatchType, OpType DEF TypeOK, HostOrder, Launch, Kinds, Tokens
  <2>. QED
    BY <1>12, <2>1, EnqueueType DEF Launch, TypeOK, Phases, pinned, gpu
<1>13. CASE PrepareDummy
  <2>1. Op("fill", NoStep, 0, 0) \in OpSet
    BY OpType DEF NoStep, Kinds
  <2>. QED
    BY <1>13, <2>1, EnqueueType DEF PrepareDummy, TypeOK, Phases, pinned, gpu
<1>14. CASE LaunchDummy
  <2>1. Op("dummy_forward", NoStep, 0, 0) \in OpSet
    BY OpType DEF NoStep, Kinds
  <2>. QED
    BY <1>14, <2>1, EnqueueType DEF LaunchDummy, TypeOK, Phases, pinned, gpu
<1>15. CASE RunInputs
  <2>0. /\ Cur.n \in 0..MaxTokens /\ Cur.step \in Nat
        /\ Cur.layer \in 0..NumLayers /\ done + 1 \in 0..Len(ops)
    BY <1>15, CurType DEF RunInputs, Runs
  <2>1. inputIds' \in [Tokens -> Steps0]
    BY <1>15, <2>0 DEF RunInputs, TypeOK, Steps0, Overwrite
  <2>. QED
    BY <1>15, <2>0, <2>1 DEF RunInputs, Runs, TypeOK, host, pinned
<1>16. CASE RunLookback
  <2>0. /\ Cur.n \in 0..MaxTokens /\ Cur.step \in Nat
        /\ Cur.layer \in 0..NumLayers /\ done + 1 \in 0..Len(ops)
    BY <1>16, CurType DEF RunLookback, Runs
  <2>. QED
    BY <1>16, <2>0 DEF RunLookback, Runs, TypeOK, host, pinned, Steps0
<1>17. CASE RunFill
  <2>0. /\ Cur.n \in 0..MaxTokens /\ Cur.step \in Nat
        /\ Cur.layer \in 0..NumLayers /\ done + 1 \in 0..Len(ops)
    BY <1>17, CurType DEF RunFill, Runs
  <2>. QED
    BY <1>17, <2>0 DEF RunFill, Runs, TypeOK, host, pinned, Steps0, NoStep
<1>18. CASE RunHash
  <2>0. /\ Cur.n \in 0..MaxTokens /\ Cur.step \in Nat
        /\ Cur.layer \in 0..NumLayers /\ done + 1 \in 0..Len(ops)
    BY <1>18, CurType DEF RunHash, Runs
  <2>1. [t \in Tokens |-> HashOf(inputIds[t], window)] \in [Tokens -> HashSet]
    BY TagTypes DEF TypeOK, Steps0
  <2>2. hashes' \in [Tokens -> HashSet]
    BY <1>18, <2>0, <2>1 DEF RunHash, TypeOK, Overwrite
  <2>. QED
    BY <1>18, <2>0, <2>2 DEF RunHash, Runs, TypeOK, host, pinned
<1>19. CASE RunD2H
  <2>0. /\ Cur.n \in 0..MaxTokens /\ Cur.step \in Nat
        /\ Cur.layer \in 0..NumLayers /\ done + 1 \in 0..Len(ops)
    BY <1>19, CurType DEF RunD2H, Runs
  <2>1. hashHost' \in [Tokens -> HashSet]
    BY <1>19, <2>0 DEF RunD2H, TypeOK, Overwrite
  <2>. QED
    BY <1>19, <2>0, <2>1 DEF RunD2H, Runs, TypeOK, host, gpu
<1>20. CASE RunH2D
  <2>0. /\ Cur.n \in 0..MaxTokens /\ Cur.step \in Nat
        /\ Cur.layer \in 0..NumLayers /\ done + 1 \in 0..Len(ops)
    BY <1>20, CurType DEF RunH2D, Runs
  <2>1. ASSUME Cur.layer \in Layers
        PROVE  Overwrite(stagedRows[Cur.layer], Cur.n, rowsHost[Cur.layer])
                 \in [Tokens -> RowSet]
    BY <2>0, <2>1 DEF TypeOK, Overwrite
  <2>2. stagedRows' \in [Layers -> [Tokens -> RowSet]]
    BY <1>20, <2>1 DEF RunH2D, TypeOK
  <2>. QED
    BY <1>20, <2>0, <2>2 DEF RunH2D, Runs, TypeOK, host, pinned
<1>21. CASE RunForward
  <2>0. /\ Cur.n \in 0..MaxTokens /\ Cur.step \in Nat
        /\ Cur.layer \in 0..NumLayers /\ done + 1 \in 0..Len(ops)
    BY <1>21, CurType DEF RunForward, Runs
  <2>1. ASSUME NEW l \in Layers
        PROVE  [t \in 1..Cur.n |-> stagedRows[l][t]] \in Seq(RowSet)
    <3>1. \A t \in 1..Cur.n : stagedRows[l][t] \in RowSet
      BY <2>0 DEF TypeOK, Tokens
    <3>. QED
      BY <2>0, <3>1, IsASeq
  <2>2. [step |-> Cur.step,
         rows |-> [l \in Layers |-> [t \in 1..Cur.n |-> stagedRows[l][t]]]]
          \in [step : Nat, rows : [Layers -> Seq(RowSet)]]
    BY <2>0, <2>1
  <2>3. served' \in Seq([step : Nat, rows : [Layers -> Seq(RowSet)]])
    BY <1>21, <2>2, AppendProperties DEF RunForward, TypeOK
  <2>. QED
    BY <1>21, <2>0, <2>3 DEF RunForward, Runs, TypeOK, host, pinned, gpu
<1>22. CASE RunDummyForward
  <2>0. /\ Cur.n \in 0..MaxTokens /\ Cur.step \in Nat
        /\ Cur.layer \in 0..NumLayers /\ done + 1 \in 0..Len(ops)
    BY <1>22, CurType DEF RunDummyForward, Runs
  <2>. QED
    BY <1>22, <2>0 DEF RunDummyForward, Runs, TypeOK, host, pinned, gpu
<1>. QED
  BY <1>1, <1>2, <1>3, <1>4, <1>5, <1>6, <1>7, <1>8, <1>9, <1>10, <1>11,
     <1>12, <1>13, <1>14, <1>15, <1>16, <1>17, <1>18, <1>19, <1>20, <1>21,
     <1>22 DEF Next, HostStep, StageStep, GpuStep

-----------------------------------------------------------------------------
(* The order of the host's steps and of the stream *)

\* What enqueueing does to the stream: one more op, all others in place.
LEMMA Enqueued ==
  ASSUME ops \in Seq(OpSet), NEW o \in OpSet, Enqueue(o)
  PROVE  /\ Len(ops) \in Nat /\ Len(ops') = Len(ops) + 1
         /\ \A i \in 1..Len(ops) : ops'[i] = ops[i]
         /\ ops'[Len(ops) + 1] = o
  BY AppendProperties, LenProperties DEF Enqueue

\* The step in progress keeps its number and size while `batches` is unchanged.
LEMMA SameBatch ==
  ASSUME UNCHANGED batches PROVE step' = step /\ num' = num
  BY DEF step, num

\* A host step enqueues what the next phase says it enqueued.
LEMMA HostOrderHost ==
  ASSUME TypeOK, HostOrder, TypeOK',
         \/ BindKV \/ PrepareDummy \/ HostStep \/ ReadError
         \/ \E n \in Tokens : BeginStep(n)
  PROVE  HostOrder'
<1>0. Len(ops) \in Nat /\ done \in Nat /\ done <= Len(ops) /\ Len(batches) \in Nat
  BY LenProperties DEF TypeOK
<1>1. CASE BindKV
  BY <1>1 DEF BindKV, HostOrder
<1>2. ASSUME NEW n \in Tokens, BeginStep(n)
      PROVE  HostOrder'
  <2>1. Len(batches') = Len(batches) + 1 /\ batches'[Len(batches) + 1].n = n
    BY <1>2, <1>0, AppendProperties DEF BeginStep, TypeOK
  <2>2. Op("inputs", Len(batches) + 1, n, 0) \in OpSet
    BY <1>0, OpType DEF Kinds, Tokens
  <2>3. Len(ops') = Len(ops) + 1
        /\ ops'[Len(ops) + 1] = Op("inputs", Len(batches) + 1, n, 0)
    BY <1>2, <2>2, Enqueued DEF BeginStep, TypeOK
  <2>4. LastOp("inputs", 0)'
    BY <1>0, <2>1, <2>3 DEF LastOp, step, num
  <2>. QED
    BY <1>2, <2>4 DEF BeginStep, HostOrder
<1>3. CASE GatherLookback
  <2>1. Op("lookback", step, num, 0) \in OpSet
    BY <1>3, BatchType, OpType
       DEF TypeOK, HostOrder, LastOp, GatherLookback, Kinds, Tokens
  <2>2. Len(ops') = Len(ops) + 1
        /\ ops'[Len(ops) + 1] = Op("lookback", step, num, 0)
    BY <1>3, <2>1, Enqueued DEF GatherLookback, TypeOK
  <2>3. LastOp("lookback", 0)'
    BY <1>0, <1>3, <2>2, SameBatch DEF GatherLookback, LastOp, HostOrder
  <2>. QED
    BY <1>3, <2>3 DEF GatherLookback, HostOrder
<1>4. CASE StageUnbound
  BY <1>4 DEF StageUnbound, HostOrder, LastOp
<1>5. CASE StageHash
  <2>1. Op("hash", step, num, 0) \in OpSet
    BY <1>5, BatchType, OpType
       DEF TypeOK, HostOrder, LastOp, StageHash, Kinds, Tokens
  <2>2. Len(ops') = Len(ops) + 1
        /\ ops'[Len(ops) + 1] = Op("hash", step, num, 0)
    BY <1>5, <2>1, Enqueued DEF StageHash, TypeOK
  <2>3. LastOp("hash", 0)'
    BY <1>0, <1>5, <2>2, SameBatch DEF StageHash, LastOp, HostOrder
  <2>. QED
    BY <1>5, <2>3 DEF StageHash, HostOrder
<1>6. CASE StageCopyHashes
  <2>1. Op("d2h", step, num, 0) \in OpSet
    BY <1>6, BatchType, OpType
       DEF TypeOK, HostOrder, LastOp, StageCopyHashes, Kinds, Tokens
  <2>2. Len(ops') = Len(ops) + 1
        /\ ops'[Len(ops) + 1] = Op("d2h", step, num, 0)
    BY <1>6, <2>1, Enqueued DEF StageCopyHashes, TypeOK
  <2>3. LastOp("d2h", 0)'
    BY <1>0, <1>6, <2>2, SameBatch DEF StageCopyHashes, LastOp, HostOrder
  <2>. QED
    BY <1>6, <2>2, <2>3 DEF StageCopyHashes, HostOrder
<1>7. CASE Synchronize
  <2>1. done = Len(ops)
    BY <1>0, <1>7 DEF Synchronize, HostOrder
  <2>2. LastOp("d2h", 0)'
    BY <1>7, SameBatch DEF Synchronize, HostOrder, LastOp
  <2>. QED
    BY <1>7, <2>1, <2>2 DEF Synchronize, HostOrder
<1>8. CASE ReadRows
  <2>1. Pending' = {}
    BY <1>0, <1>8 DEF ReadRows, HostOrder, Pending
  <2>2. LastOp("d2h", 0)'
    BY <1>8, SameBatch DEF ReadRows, HostOrder, LastOp
  <2>3. 1 \in Layers
    BY DEF Layers
  <2>. QED
    BY <1>8, <2>1, <2>2, <2>3 DEF ReadRows, HostOrder
<1>9. CASE ReadError
  BY <1>9 DEF ReadError, HostOrder
<1>10. CASE StageLayer
  <2>1. /\ Op("h2d", step, num, nextLayer) \in OpSet
        /\ nextLayer \in Nat /\ nextLayer >= 1 /\ nextLayer <= NumLayers
    BY <1>10, BatchType, OpType
       DEF TypeOK, HostOrder, LastOp, StageLayer, Kinds, Tokens, Layers
  <2>2. /\ Len(ops') = Len(ops) + 1
        /\ ops'[Len(ops) + 1] = Op("h2d", step, num, nextLayer)
        /\ \A i \in 1..Len(ops) : ops'[i] = ops[i]
    BY <1>10, <2>1, Enqueued DEF StageLayer, TypeOK
  <2>3. nextLayer' = nextLayer + 1 /\ LastOp("h2d", nextLayer - 1)'
    <3>1. nextLayer' = nextLayer + 1 /\ nextLayer' - 1 = nextLayer
      BY <1>10, <2>1 DEF StageLayer
    <3>. QED
      BY <1>0, <1>10, <2>2, <3>1, SameBatch DEF StageLayer, LastOp, HostOrder
  <2>4. ASSUME nextLayer # NumLayers
        PROVE  HostOrder'
    <3>1. /\ nextLayer' \in Layers /\ nextLayer' # 1
          /\ nextLayer' - 1 = nextLayer
          /\ pc' = "copy" /\ kvBound'
      BY <1>10, <2>1, <2>4 DEF StageLayer, LoopEnd, HostOrder, Layers
    <3>2. ASSUME NEW i \in Pending'
          PROVE  ops'[i].kind = "h2d" /\ ops'[i].layer < nextLayer'
      <4>1. CASE i \in Pending
        <5>1. i \in 1..Len(ops) /\ ops[i] \in OpSet
          BY <1>0, <4>1, ElementOfSeq DEF Pending, TypeOK
        <5>2. ops[i].kind = "h2d" /\ ops[i].layer < nextLayer
          BY <1>10, <4>1 DEF StageLayer, HostOrder
        <5>. QED
          BY <2>1, <2>2, <2>3, <5>1, <5>2 DEF OpSet
      <4>2. CASE i = Len(ops) + 1
        BY <1>10, <2>1, <2>2, <4>2 DEF StageLayer, Op
      <4>. QED
        BY <1>0, <1>10, <2>2, <4>1, <4>2 DEF StageLayer, Pending
    <3>. QED
      BY <2>3, <3>1, <3>2 DEF HostOrder
  <2>5. ASSUME nextLayer = NumLayers
        PROVE  HostOrder'
    <3>1. LastOp("h2d", NumLayers)'
      <4>1. nextLayer' - 1 = NumLayers
        BY <2>1, <2>3, <2>5
      <4>. QED
        BY <2>3, <4>1 DEF LastOp
    <3>. QED
      BY <1>10, <2>5, <3>1 DEF StageLayer, LoopEnd, HostOrder, LastOp
  <2>. QED
    BY <2>4, <2>5
<1>11. CASE Launch
  BY <1>11 DEF Launch, HostOrder
<1>12. CASE PrepareDummy
  BY <1>12 DEF PrepareDummy, HostOrder
<1>13. CASE LaunchDummy
  BY <1>13 DEF LaunchDummy, HostOrder
<1>. QED
  BY <1>1, <1>2, <1>3, <1>4, <1>5, <1>6, <1>7, <1>8, <1>9, <1>10, <1>11,
     <1>12, <1>13 DEF HostStep, StageStep

\* The GPU only shortens what is pending.
LEMMA HostOrderGpu ==
  ASSUME TypeOK, HostOrder, GpuStep
  PROVE  HostOrder'
<1>0. Len(ops) \in Nat /\ done \in Nat
  BY LenProperties DEF TypeOK
<1>1. done < Len(ops) /\ done' = done + 1 /\ UNCHANGED <<host, ops>>
  BY DEF GpuStep, RunInputs, RunLookback, RunFill, RunHash, RunD2H, RunH2D,
         RunForward, RunDummyForward, Runs
<1>2. Pending' \subseteq Pending
  BY <1>0, <1>1 DEF Pending
<1>3. pc # "read"
  BY <1>0, <1>1 DEF HostOrder
<1>. QED
  BY <1>0, <1>1, <1>2, <1>3, SameBatch DEF host, HostOrder, LastOp

\* An op keeps its place in the stream, and with it what it comes after.
LEMMA StreamGrows ==
  ASSUME ops \in Seq(OpSet), StreamOrder, NEW o \in OpSet, Enqueue(o),
         Justified(ops', Len(ops) + 1)
  PROVE  StreamOrder'
<1>1. /\ Len(ops) \in Nat /\ Len(ops') = Len(ops) + 1
      /\ \A i \in 1..Len(ops) : ops'[i] = ops[i]
  BY Enqueued
<1>2. ASSUME NEW i \in 1..Len(ops)
      PROVE  Justified(ops', i)
  <2>1. ops'[i] = ops[i] /\ (i > 1 => ops'[i-1] = ops[i-1])
    BY <1>1
  <2>2. Justified(ops, i)
    BY DEF StreamOrder
  <2>. QED
    BY <2>1, <2>2 DEF Justified
<1>3. \A i \in 1..Len(ops') : i \in 1..Len(ops) \/ i = Len(ops) + 1
  BY <1>1
<1>. QED
  BY <1>2, <1>3 DEF StreamOrder

\* What the host enqueues comes right after what it is computed from.
LEMMA StreamOrderHost ==
  ASSUME TypeOK, HostOrder, StreamOrder,
         \/ BindKV \/ PrepareDummy \/ HostStep \/ ReadError
         \/ \E n \in Tokens : BeginStep(n)
  PROVE  StreamOrder'
<1>0. Len(ops) \in Nat /\ Len(batches) \in Nat
  BY LenProperties DEF TypeOK
<1>1. ASSUME NEW kind \in Kinds, NEW s \in Nat, NEW n \in 0..MaxTokens,
             NEW l \in 0..NumLayers, Enqueue(Op(kind, s, n, l)),
             \/ kind \in {"inputs", "fill", "dummy_forward"}
             \/ kind = "forward" /\ n = 0
             \/ /\ Len(ops) > 0
                /\ \/ /\ kind = "lookback"
                      /\ ops[Len(ops)] = Op("inputs", s, n, 0)
                   \/ /\ kind = "hash"
                      /\ ops[Len(ops)] = Op("lookback", s, n, 0)
                   \/ /\ kind = "d2h"
                      /\ ops[Len(ops)] = Op("hash", s, n, 0)
                   \/ /\ kind = "h2d" /\ l = 1
                      /\ ops[Len(ops)] = Op("d2h", s, n, 0)
                   \/ /\ kind = "h2d" /\ l \in Layers /\ l # 1
                      /\ ops[Len(ops)] = Op("h2d", s, n, l - 1)
                   \/ /\ kind = "forward"
                      /\ ops[Len(ops)] = Op("h2d", s, n, NumLayers)
      PROVE  StreamOrder'
  <2>1. Op(kind, s, n, l) \in OpSet
    BY OpType
  <2>2. /\ ops'[Len(ops) + 1] = Op(kind, s, n, l)
        /\ Len(ops) > 0 => ops'[Len(ops)] = ops[Len(ops)]
    BY <1>0, <1>1, <2>1, Enqueued DEF TypeOK
  <2>3. Justified(ops', Len(ops) + 1)
    <3>1. 1 \in Layers
      BY DEF Layers
    <3>. QED
      BY <1>0, <1>1, <2>2, <3>1 DEF Justified, Op
  <2>. QED
    BY <1>1, <2>1, <2>3, StreamGrows DEF TypeOK
<1>2. ASSUME UNCHANGED ops
      PROVE  StreamOrder'
  BY <1>2 DEF StreamOrder, Justified
<1>3. pc \notin {"idle", "dummy", "failed"} => step \in Nat /\ num \in 0..MaxTokens
  BY BatchType DEF TypeOK, HostOrder, LastOp, Tokens, Phases
<1>4. CASE BindKV
  BY <1>2, <1>4 DEF BindKV
<1>5. ASSUME NEW n \in Tokens, BeginStep(n)
      PROVE  StreamOrder'
  BY <1>0, <1>1, <1>5 DEF BeginStep, Tokens, Kinds
<1>6. CASE GatherLookback
  BY <1>1, <1>3, <1>6 DEF GatherLookback, HostOrder, LastOp, Kinds
<1>7. CASE StageUnbound
  BY <1>2, <1>7 DEF StageUnbound
<1>8. CASE StageHash
  BY <1>1, <1>3, <1>8 DEF StageHash, HostOrder, LastOp, Kinds
<1>9. CASE StageCopyHashes
  BY <1>1, <1>3, <1>9 DEF StageCopyHashes, HostOrder, LastOp, Kinds
<1>10. CASE Synchronize
  BY <1>2, <1>10 DEF Synchronize
<1>11. CASE ReadRows
  BY <1>2, <1>11 DEF ReadRows
<1>12. CASE ReadError
  BY <1>2, <1>12 DEF ReadError
<1>13. CASE StageLayer
  <2>1. nextLayer \in Layers /\ nextLayer \in 0..NumLayers
    BY <1>13 DEF StageLayer, HostOrder, Layers
  <2>. QED
    BY <1>1, <1>3, <1>13, <2>1 DEF StageLayer, HostOrder, LastOp, Kinds
<1>14. CASE Launch
  <2>1. CASE kvBound
    BY <1>1, <1>3, <1>14, <2>1 DEF Launch, HostOrder, LastOp, Kinds
  <2>2. CASE ~kvBound
    BY <1>1, <1>3, <1>14, <2>2 DEF Launch, Kinds
  <2>. QED
    BY <2>1, <2>2
<1>15. CASE PrepareDummy
  BY <1>1, <1>15 DEF PrepareDummy, Kinds, NoStep
<1>16. CASE LaunchDummy
  BY <1>1, <1>16 DEF LaunchDummy, Kinds, NoStep
<1>. QED
  BY <1>4, <1>5, <1>6, <1>7, <1>8, <1>9, <1>10, <1>11, <1>12, <1>13, <1>14,
     <1>15, <1>16 DEF HostStep, StageStep

-----------------------------------------------------------------------------
(* The data in the buffers *)

\* The host writes no GPU memory and never the pinned hashes, so what the last
\* executed op left behind stays.
LEMMA GpuOrderHost ==
  ASSUME TypeOK, GpuOrder, UNCHANGED <<done, gpu, hashHost>>,
         \/ UNCHANGED ops
         \/ \E o \in OpSet : Enqueue(o)
  PROVE  GpuOrder'
<1>0. Len(ops) \in Nat /\ done \in Nat /\ done <= Len(ops)
  BY LenProperties DEF TypeOK
<1>1. done > 0 => ops'[done] = ops[done]
  BY <1>0, Enqueued DEF TypeOK
<1>. QED
  BY <1>1 DEF GpuOrder, gpu

\* A host step enqueues at most one op and leaves GPU memory alone.
LEMMA HostFrame ==
  ASSUME TypeOK, HostOrder,
         \/ BindKV \/ PrepareDummy \/ HostStep \/ ReadError
         \/ \E n \in Tokens : BeginStep(n)
  PROVE  /\ UNCHANGED <<done, gpu, hashHost, served>>
         /\ UNCHANGED ops \/ \E o \in OpSet : Enqueue(o)
<1>1. pc \notin {"idle", "dummy", "failed"} => step \in Nat /\ num \in 0..MaxTokens
  BY BatchType DEF TypeOK, HostOrder, LastOp, Tokens, Phases
<1>2. Len(batches) \in Nat
  BY LenProperties DEF TypeOK
<1>3. UNCHANGED <<done, gpu, hashHost, served>>
  BY DEF BindKV, PrepareDummy, HostStep, StageStep, ReadError, BeginStep,
         GatherLookback, StageUnbound, StageHash, StageCopyHashes, Synchronize,
         ReadRows, StageLayer, Launch, LaunchDummy, pinned, gpu
<1>4. CASE \/ BindKV \/ ReadError \/ StageUnbound \/ Synchronize \/ ReadRows
  BY <1>3, <1>4 DEF BindKV, ReadError, StageUnbound, Synchronize, ReadRows
<1>5. CASE PrepareDummy \/ LaunchDummy
  BY <1>3, <1>5, OpType DEF PrepareDummy, LaunchDummy, Kinds, NoStep
<1>6. ASSUME NEW n \in Tokens, BeginStep(n)
      PROVE  \E o \in OpSet : Enqueue(o)
  BY <1>2, <1>6, OpType DEF BeginStep, Kinds, Tokens
<1>7. CASE GatherLookback \/ StageHash \/ StageCopyHashes
  BY <1>1, <1>3, <1>7, OpType
     DEF GatherLookback, StageHash, StageCopyHashes, Kinds
<1>8. CASE StageLayer
  <2>1. nextLayer \in 0..NumLayers
    BY <1>8 DEF StageLayer, HostOrder, Layers
  <2>2. Op("h2d", step, num, nextLayer) \in OpSet
    BY <1>1, <1>8, <2>1, OpType DEF StageLayer, Kinds
  <2>. QED
    BY <1>3, <1>8, <2>2 DEF StageLayer
<1>9. CASE Launch
  BY <1>1, <1>3, <1>9, OpType DEF Launch, Kinds
<1>. QED
  BY <1>3, <1>4, <1>5, <1>6, <1>7, <1>8, <1>9 DEF HostStep, StageStep

\* Each op leaves in its buffer the data of its own step, because the op before
\* it did the same for the buffer it reads.
LEMMA GpuOrderGpu ==
  ASSUME TypeOK, StreamOrder, GpuOrder, RowsInFlight, GpuStep
  PROVE  GpuOrder'
<1>0. /\ Len(ops) \in Nat /\ done \in Nat
      /\ done < Len(ops) /\ done' = done + 1 /\ ops' = ops
  BY LenProperties DEF TypeOK, GpuStep, RunInputs, RunLookback, RunFill,
     RunHash, RunD2H, RunH2D, RunForward, RunDummyForward, Runs
<1>1. /\ done + 1 \in 1..Len(ops) /\ done + 1 \in Pending
      /\ Cur = ops[done + 1] /\ Cur \in OpSet
      /\ Cur.n \in 0..MaxTokens /\ Cur.layer \in 0..NumLayers
  BY <1>0, CurType DEF Cur, Pending
<1>2. Justified(ops, done + 1)
  BY <1>1 DEF StreamOrder
<1>3. (done + 1) - 1 = done
  BY <1>0
<1>4. \A t \in 1..Cur.n : t \in Tokens /\ t <= Cur.n
  BY <1>1 DEF Tokens
<1>5. CASE RunInputs
  BY <1>0, <1>1, <1>4, <1>5 DEF RunInputs, Runs, GpuOrder, Overwrite, TypeOK
<1>6. CASE RunLookback
  <2>1. done > 0 /\ ops[done] = Op("inputs", Cur.step, Cur.n, 0)
    BY <1>0, <1>1, <1>2, <1>3, <1>6 DEF Justified, RunLookback, Runs
  <2>2. \A t \in 1..Cur.n : inputIds[t] = Cur.step
    BY <2>1 DEF GpuOrder, Op
  <2>. QED
    BY <1>0, <1>1, <1>6, <2>2 DEF RunLookback, Runs, GpuOrder
<1>7. CASE RunHash
  <2>1. done > 0 /\ ops[done] = Op("lookback", Cur.step, Cur.n, 0)
    BY <1>0, <1>1, <1>2, <1>3, <1>7 DEF Justified, RunHash, Runs
  <2>2. window = Cur.step /\ \A t \in 1..Cur.n : inputIds[t] = Cur.step
    BY <2>1 DEF GpuOrder, Op
  <2>3. \A t \in 1..Cur.n : hashes'[t] = HashOf(Cur.step, Cur.step)
    BY <1>4, <1>7, <2>2 DEF RunHash, Overwrite
  <2>. QED
    BY <1>0, <1>1, <1>7, <2>3 DEF RunHash, Runs, GpuOrder
<1>8. CASE RunD2H
  <2>1. done > 0 /\ ops[done] = Op("hash", Cur.step, Cur.n, 0)
    BY <1>0, <1>1, <1>2, <1>3, <1>8 DEF Justified, RunD2H, Runs
  <2>2. \A t \in 1..Cur.n : hashes[t] = HashOf(Cur.step, Cur.step)
    BY <2>1 DEF GpuOrder, Op
  <2>3. \A t \in 1..Cur.n : hashHost'[t] = HashOf(Cur.step, Cur.step)
    BY <1>4, <1>8, <2>2 DEF RunD2H, Overwrite
  <2>. QED
    BY <1>0, <1>1, <1>8, <2>3 DEF RunD2H, Runs, GpuOrder
<1>9. CASE RunH2D
  <2>1. Cur.kind = "h2d" /\ Cur.layer \in Layers
    BY <1>1, <1>2, <1>9 DEF Justified, RunH2D, Runs
  <2>2. \A t \in 1..Cur.n : rowsHost[Cur.layer][t] =
                             RowOf(Cur.layer, HashOf(Cur.step, Cur.step))
    BY <1>1, <2>1 DEF RowsInFlight
  <2>3. \A t \in 1..Cur.n : stagedRows'[Cur.layer][t] =
                             RowOf(Cur.layer, HashOf(Cur.step, Cur.step))
    BY <1>4, <1>9, <2>1, <2>2 DEF RunH2D, Overwrite, TypeOK
  <2>4. ASSUME NEW l \in 1..Cur.layer, l # Cur.layer, NEW t \in 1..Cur.n
        PROVE  stagedRows'[l][t] = RowOf(l, HashOf(Cur.step, Cur.step))
    <3>1. Cur.layer # 1 /\ l \in 1..(Cur.layer - 1) /\ l \in Layers
      BY <1>1, <2>1, <2>4 DEF Layers
    <3>2. done > 0 /\ ops[done] = Op("h2d", Cur.step, Cur.n, Cur.layer - 1)
      BY <1>0, <1>1, <1>2, <1>3, <2>1, <3>1 DEF Justified
    <3>3. stagedRows[l][t] = RowOf(l, HashOf(Cur.step, Cur.step))
      BY <3>1, <3>2 DEF GpuOrder, Op
    <3>. QED
      BY <1>9, <2>1, <2>4, <3>1, <3>3 DEF RunH2D, TypeOK
  <2>5. \A l \in 1..Cur.layer, t \in 1..Cur.n :
          stagedRows'[l][t] = RowOf(l, HashOf(Cur.step, Cur.step))
    BY <2>3, <2>4
  <2>. QED
    BY <1>0, <1>1, <2>1, <2>5 DEF GpuOrder
<1>10. CASE RunFill
  BY <1>0, <1>1, <1>10 DEF RunFill, Runs, GpuOrder
<1>11. CASE RunForward
  BY <1>0, <1>1, <1>11 DEF RunForward, Runs, GpuOrder
<1>12. CASE RunDummyForward
  BY <1>0, <1>1, <1>12 DEF RunDummyForward, Runs, GpuOrder
<1>. QED
  BY <1>5, <1>6, <1>7, <1>8, <1>9, <1>10, <1>11, <1>12 DEF GpuStep

\* A pending op is an op of the stream; enqueueing adds the new one to them.
LEMMA PendingGrows ==
  ASSUME TypeOK, NEW o \in OpSet, Enqueue(o), done' = done, NEW i \in Pending'
  PROVE  \/ i \in Pending /\ ops'[i] = ops[i]
         \/ i = Len(ops) + 1 /\ ops'[i] = o
<1>1. ops \in Seq(OpSet) /\ Len(ops) \in Nat
  BY LenProperties DEF TypeOK
<1>2. done \in Nat
  BY <1>1 DEF TypeOK
<1>3. /\ Len(ops') = Len(ops) + 1
      /\ \A j \in 1..Len(ops) : ops'[j] = ops[j]
      /\ ops'[Len(ops) + 1] = o
  BY <1>1, Enqueued
<1>. QED
  BY <1>1, <1>2, <1>3 DEF Pending

\* The host fetches the rows of the step in progress, copies them to a pinned
\* buffer no outstanding copy reads, and only then enqueues their copy.
LEMMA RowsInFlightHost ==
  ASSUME TypeOK, HostOrder, GpuOrder, RowsInFlight,
         \/ BindKV \/ PrepareDummy \/ HostStep \/ ReadError
         \/ \E n \in Tokens : BeginStep(n)
  PROVE  RowsInFlight'
<1>0. Len(ops) \in Nat /\ done \in Nat /\ Len(batches) \in Nat
  BY LenProperties DEF TypeOK
<1>1. UNCHANGED done
  BY HostFrame
<1>2. pc \notin {"idle", "dummy", "failed"} => step \in Nat /\ num \in 0..MaxTokens
  BY BatchType DEF TypeOK, HostOrder, LastOp, Tokens, Phases
<1>3. ASSUME UNCHANGED <<ops, rowsHost>>, pc' # "copy"
      PROVE  RowsInFlight'
  BY <1>1, <1>3 DEF RowsInFlight, Pending
<1>4. ASSUME UNCHANGED rowsHost, pc' # "copy",
             NEW o \in OpSet, Enqueue(o), o.kind # "h2d"
      PROVE  RowsInFlight'
  BY <1>1, <1>4, PendingGrows DEF RowsInFlight
<1>5. CASE BindKV
  BY <1>3, <1>5 DEF BindKV, pinned
<1>6. ASSUME NEW n \in Tokens, BeginStep(n)
      PROVE  RowsInFlight'
  <2>1. /\ Op("inputs", Len(batches) + 1, n, 0) \in OpSet
        /\ Op("inputs", Len(batches) + 1, n, 0).kind # "h2d"
    BY <1>0, OpType DEF Kinds, Tokens, Op
  <2>. QED
    BY <1>4, <1>6, <2>1 DEF BeginStep, pinned
<1>7. CASE GatherLookback
  <2>1. /\ Op("lookback", step, num, 0) \in OpSet
        /\ Op("lookback", step, num, 0).kind # "h2d"
    BY <1>2, <1>7, OpType DEF GatherLookback, Kinds, Op
  <2>. QED
    BY <1>4, <1>7, <2>1 DEF GatherLookback, pinned
<1>8. CASE StageUnbound
  BY <1>3, <1>8 DEF StageUnbound, pinned
<1>9. CASE StageHash
  <2>1. /\ Op("hash", step, num, 0) \in OpSet
        /\ Op("hash", step, num, 0).kind # "h2d"
    BY <1>2, <1>9, OpType DEF StageHash, Kinds, Op
  <2>. QED
    BY <1>4, <1>9, <2>1 DEF StageHash, pinned
<1>10. CASE StageCopyHashes
  <2>1. /\ Op("d2h", step, num, 0) \in OpSet
        /\ Op("d2h", step, num, 0).kind # "h2d"
    BY <1>2, <1>10, OpType DEF StageCopyHashes, Kinds, Op
  <2>. QED
    BY <1>4, <1>10, <2>1 DEF StageCopyHashes, pinned
<1>11. CASE Synchronize
  BY <1>3, <1>11 DEF Synchronize, pinned
<1>12. CASE ReadRows
  <2>1. /\ Len(ops) > 0 /\ ops[Len(ops)] = Op("d2h", step, num, 0)
        /\ done = Len(ops) /\ num \in 0..MaxTokens
    BY <1>2, <1>12 DEF ReadRows, HostOrder, LastOp
  <2>2. \A t \in 1..num : hashHost[t] = HashOf(step, step)
    BY <2>1 DEF GpuOrder, Op
  <2>3. \A l \in Layers, t \in 1..num :
          fetched'[l][t] = RowOf(l, HashOf(step, step))
    BY <1>12, <2>1, <2>2 DEF ReadRows, Overwrite, Tokens
  <2>4. Pending' = {} /\ step' = step /\ num' = num
    BY <1>0, <1>12, <2>1, SameBatch DEF ReadRows, Pending
  <2>. QED
    BY <2>3, <2>4 DEF RowsInFlight
<1>13. CASE ReadError
  BY <1>3, <1>13 DEF ReadError, pinned
<1>14. CASE StageLayer
  <2>1. /\ nextLayer \in Layers /\ nextLayer \in 0..NumLayers
        /\ step' = step /\ num' = num /\ UNCHANGED fetched
    BY <1>14, SameBatch DEF StageLayer, HostOrder, Layers
  <2>2. Op("h2d", step, num, nextLayer) \in OpSet
    BY <1>2, <1>14, <2>1, OpType DEF StageLayer, Kinds
  <2>3. \A l \in Layers, t \in 1..num :
          fetched[l][t] = RowOf(l, HashOf(step, step))
    BY <1>14 DEF StageLayer, RowsInFlight
  <2>4. \A t \in 1..num :
          rowsHost'[nextLayer][t] = RowOf(nextLayer, HashOf(step, step))
    BY <1>2, <1>14, <2>1, <2>3 DEF StageLayer, Overwrite, TypeOK, Tokens
  <2>5. ASSUME NEW i \in Pending', ops'[i].kind = "h2d",
               NEW t \in 1..ops'[i].n
        PROVE  rowsHost'[ops'[i].layer][t] =
                 RowOf(ops'[i].layer, HashOf(ops'[i].step, ops'[i].step))
    <3>1. CASE i \in Pending /\ ops'[i] = ops[i]
      <4>1. ops[i].layer < nextLayer /\ nextLayer \in Nat
        BY <1>14, <2>1, <3>1 DEF StageLayer, HostOrder
      <4>2. i \in 1..Len(ops)
        BY <1>0, <3>1 DEF Pending
      <4>3. ops[i].layer # nextLayer
        BY <4>1, <4>2, ElementOfSeq DEF TypeOK, OpSet
      <4>4. rowsHost'[ops[i].layer] = rowsHost[ops[i].layer]
        BY <1>14, <4>3 DEF StageLayer, TypeOK
      <4>. QED
        BY <2>5, <3>1, <4>4 DEF RowsInFlight
    <3>2. CASE i = Len(ops) + 1 /\ ops'[i] = Op("h2d", step, num, nextLayer)
      BY <2>4, <2>5, <3>2 DEF Op
    <3>. QED
      BY <1>1, <1>14, <2>2, <3>1, <3>2, PendingGrows DEF StageLayer
  <2>. QED
    BY <2>1, <2>3, <2>5 DEF RowsInFlight
<1>15. CASE Launch
  <2>1. /\ Op("forward", step, IF kvBound THEN num ELSE 0, 0) \in OpSet
        /\ Op("forward", step, IF kvBound THEN num ELSE 0, 0).kind # "h2d"
    BY <1>2, <1>15, OpType DEF Launch, Kinds, Op
  <2>. QED
    BY <1>4, <1>15, <2>1 DEF Launch, pinned
<1>16. CASE PrepareDummy
  <2>1. /\ Op("fill", NoStep, 0, 0) \in OpSet
        /\ Op("fill", NoStep, 0, 0).kind # "h2d"
    BY OpType DEF Kinds, Op, NoStep
  <2>. QED
    BY <1>4, <1>16, <2>1 DEF PrepareDummy, pinned
<1>17. CASE LaunchDummy
  <2>1. /\ Op("dummy_forward", NoStep, 0, 0) \in OpSet
        /\ Op("dummy_forward", NoStep, 0, 0).kind # "h2d"
    BY OpType DEF Kinds, Op, NoStep
  <2>. QED
    BY <1>4, <1>17, <2>1 DEF LaunchDummy, pinned
<1>. QED
  BY <1>5, <1>6, <1>7, <1>8, <1>9, <1>10, <1>11, <1>12, <1>13, <1>14, <1>15,
     <1>16, <1>17 DEF HostStep, StageStep

\* The GPU writes neither the host's rows nor the pinned rows.
LEMMA RowsInFlightGpu ==
  ASSUME TypeOK, RowsInFlight, GpuStep
  PROVE  RowsInFlight'
<1>1. /\ Len(ops) \in Nat /\ done \in Nat /\ done' = done + 1
      /\ UNCHANGED <<host, ops, rowsHost>>
  BY LenProperties DEF TypeOK, GpuStep, RunInputs, RunLookback, RunFill,
     RunHash, RunD2H, RunH2D, RunForward, RunDummyForward, Runs, pinned
<1>2. Pending' \subseteq Pending
  BY <1>1 DEF Pending
<1>. QED
  BY <1>1, <1>2, SameBatch DEF RowsInFlight, host

\* A forward pass finds the rows its step's last copy has just completed.
LEMMA ForwardStep ==
  ASSUME TypeOK, StreamOrder, GpuOrder, ForwardReadsOwnStep, GpuStep
  PROVE  ForwardReadsOwnStep'
<1>1. CASE UNCHANGED served
  BY <1>1 DEF ForwardReadsOwnStep
<1>2. CASE RunForward
  <2>0. /\ Len(ops) \in Nat /\ done \in Nat
        /\ done + 1 \in 1..Len(ops) /\ (done + 1) - 1 = done
        /\ Cur = ops[done + 1] /\ Cur.n \in 0..MaxTokens
        /\ Cur.kind = "forward"
    BY <1>2, CurType, LenProperties DEF TypeOK, Cur, RunForward, Runs
  <2>1. Justified(ops, done + 1)
    BY <2>0 DEF StreamOrder
  <2>2. ASSUME NEW l \in Layers, NEW t \in 1..Cur.n
        PROVE  stagedRows[l][t] = RowOf(l, HashOf(Cur.step, Cur.step))
    <3>1. done > 0 /\ ops[done] = Op("h2d", Cur.step, Cur.n, NumLayers)
      BY <2>0, <2>1 DEF Justified
    <3>. QED
      BY <3>1 DEF GpuOrder, Op, Layers
  <2> DEFINE new == [step |-> Cur.step,
                     rows |-> [l \in Layers |->
                                 [t \in 1..Cur.n |-> stagedRows[l][t]]]]
  <2>3. served' = Append(served, new)
    BY <1>2 DEF RunForward
  <2>4. \A l \in Layers : \A t \in DOMAIN new.rows[l] :
          new.rows[l][t] = RowOf(l, HashOf(new.step, new.step))
    BY <2>2
  <2> HIDE DEF new
  <2>5. /\ Len(served) \in Nat /\ Len(served') = Len(served) + 1
        /\ \A i \in 1..Len(served) : served'[i] = served[i]
        /\ served'[Len(served) + 1] = new
    BY <2>3, AppendProperties, LenProperties DEF TypeOK
  <2>6. ASSUME NEW i \in 1..Len(served'), NEW l \in Layers,
               NEW t \in DOMAIN served'[i].rows[l]
        PROVE  served'[i].rows[l][t] =
                 RowOf(l, HashOf(served'[i].step, served'[i].step))
    <3>1. CASE i \in 1..Len(served)
      BY <2>5, <3>1 DEF ForwardReadsOwnStep
    <3>2. CASE i = Len(served) + 1
      BY <2>4, <2>5, <3>2
    <3>. QED
      BY <2>5, <3>1, <3>2
  <2>. QED
    BY <2>6 DEF ForwardReadsOwnStep
<1>. QED
  BY <1>1, <1>2 DEF GpuStep, RunInputs, RunLookback, RunFill, RunHash, RunD2H,
     RunH2D, RunDummyForward, gpu

-----------------------------------------------------------------------------
(* The theorems *)

LEMMA InitInv == Init => TypeOK /\ IInv
<1> SUFFICES ASSUME Init PROVE TypeOK /\ IInv
  OBVIOUS
<1>1. TypeOK
  <2>1. /\ batches \in Seq(Batches) /\ ops \in Seq(OpSet)
        /\ served \in Seq([step : Nat, rows : [Layers -> Seq(RowSet)]])
        /\ done \in 0..Len(ops)
    BY EmptySeq DEF Init
  <2>2. /\ fetched \in [Layers -> [Tokens -> RowSet]]
        /\ hashHost \in [Tokens -> HashSet]
        /\ rowsHost \in [Layers -> [Tokens -> RowSet]]
        /\ hashes \in [Tokens -> HashSet]
        /\ stagedRows \in [Layers -> [Tokens -> RowSet]]
    BY TagTypes DEF Init
  <2>3. inputIds \in [Tokens -> Steps0] /\ window \in Steps0
    BY DEF Init, Steps0, NoStep
  <2>4. kvBound \in BOOLEAN
    BY Zenon DEF Init
  <2>5. /\ pc \in Phases /\ dummies \in Nat
        /\ event \in Nat /\ nextLayer \in 1..(NumLayers + 1)
        /\ numStaged \in 0..MaxTokens
    BY DEF Init, Phases
  <2>. QED
    BY <2>1, <2>2, <2>3, <2>4, <2>5 DEF TypeOK
<1>2. IInv
  BY EmptySeq DEF Init, IInv, StreamOrder, HostOrder, GpuOrder, RowsInFlight,
                  ForwardReadsOwnStep, Pending
<1>. QED
  BY <1>1, <1>2

LEMMA NextInv == TypeOK /\ IInv /\ [Next]_vars => TypeOK' /\ IInv'
<1> SUFFICES ASSUME TypeOK, IInv, [Next]_vars
             PROVE  TypeOK' /\ IInv'
  OBVIOUS
<1> USE DEF IInv
<1>1. TypeOK'
  BY TypeStep
<1>2. CASE \/ BindKV \/ PrepareDummy \/ HostStep \/ ReadError
           \/ \E n \in Tokens : BeginStep(n)
  <2>1. HostOrder' /\ StreamOrder' /\ RowsInFlight'
    BY <1>1, <1>2, HostOrderHost, StreamOrderHost, RowsInFlightHost
  <2>2. GpuOrder'
    BY <1>2, HostFrame, GpuOrderHost
  <2>3. ForwardReadsOwnStep'
    BY <1>2, HostFrame DEF ForwardReadsOwnStep
  <2>. QED
    BY <1>1, <2>1, <2>2, <2>3
<1>3. CASE GpuStep
  <2>1. UNCHANGED ops
    BY <1>3 DEF GpuStep, RunInputs, RunLookback, RunFill, RunHash, RunD2H,
         RunH2D, RunForward, RunDummyForward, Runs
  <2>2. StreamOrder'
    BY <2>1 DEF StreamOrder, Justified
  <2>. QED
    BY <1>1, <1>3, <2>2, HostOrderGpu, GpuOrderGpu, RowsInFlightGpu, ForwardStep
<1>4. CASE UNCHANGED vars
  BY <1>1, <1>4, SameBatch
     DEF vars, host, pinned, gpu, StreamOrder, Justified, HostOrder, LastOp,
         GpuOrder, RowsInFlight, Pending, ForwardReadsOwnStep
<1>. QED
  BY <1>2, <1>3, <1>4 DEF Next

\* Every variable stays in its domain, through every interleaving of the host
\* thread with the stream: the slices stay within the buffers and the loop over
\* the layers within the layers.
THEOREM TypeCorrect == Spec => []TypeOK
  BY InitInv, NextInv, PTL DEF Spec

\* The stream, the host thread and the buffers agree at every moment.
THEOREM Inductive == Spec => []IInv
  BY InitInv, NextInv, PTL DEF Spec

\* Every forward pass reads, for each layer and token, exactly the rows of its
\* own step, however far the GPU lags behind the host.
THEOREM ForwardCorrect == Spec => []ForwardReadsOwnStep
<1>1. IInv => ForwardReadsOwnStep
  BY DEF IInv
<1>. QED
  BY <1>1, Inductive, PTL

\* EngramDiskStager.stage reads the pinned hashes only once the one copy into
\* them has landed.
THEOREM HashesSettled == Spec => []HostReadsSettledHashes
<1>1. TypeOK /\ IInv => HostReadsSettledHashes
  BY LenProperties DEF TypeOK, IInv, HostOrder, HostReadsSettledHashes, Pending
<1>. QED
  BY <1>1, TypeCorrect, Inductive, PTL

\* The single event wait of a step also protects the pinned rows: no copy of an
\* earlier step out of a buffer is outstanding when the host rewrites it.
THEOREM RewritesIdle == Spec => []HostRewritesIdleRows
<1>1. IInv => HostRewritesIdleRows
  BY DEF IInv, HostOrder, HostRewritesIdleRows
<1>. QED
  BY <1>1, Inductive, PTL

-----------------------------------------------------------------------------
(* The stager implements EngramRows *)

\* Steps that launch nothing: the stream gets no forward pass and none runs.
LEMMA Quiet ==
  ASSUME TypeOK, ForwardsInOrder,
         Launched' = Launched, served' = served, done' = done,
         \A s \in 1..Launched : batches'[s] = batches[s],
         pc' \notin {"idle", "dummy"} => Len(batches') > 0 /\ kvBound' = batches'[step'].bound,
         ops' = ops \/ \E o \in OpSet : o.kind # "forward" /\ Enqueue(o)
  PROVE  ForwardsInOrder'
<1> DEFINE Kept == /\ Len(ops) \in Nat /\ Len(ops') \in Nat /\ Len(ops) <= Len(ops')
                   /\ \A i \in 1..Len(ops) : ops'[i] = ops[i]
                   /\ \A i \in 1..Len(ops') : ops'[i].kind = "forward" => i \in 1..Len(ops)
<1>0. Kept
  <2>1. CASE ops' = ops
    BY <2>1, LenProperties DEF TypeOK
  <2>2. ASSUME NEW o \in OpSet, o.kind # "forward", Enqueue(o)
        PROVE  Kept
    BY <2>2, Enqueued DEF TypeOK
  <2>. QED
    BY <2>1, <2>2
<1>1. ASSUME NEW i \in 1..Len(ops'), ops'[i].kind = "forward"
      PROVE  /\ ops'[i].step \in 1..Launched'
             /\ ops'[i].n = IF batches'[ops'[i].step].bound THEN batches'[ops'[i].step].n ELSE 0
             /\ i <= done' <=> ops'[i].step <= Len(served')
             /\ \A j \in 1..(i - 1) : ops'[j].kind = "forward" => ops'[j].step < ops'[i].step
  <2>1. i \in 1..Len(ops) /\ ops'[i] = ops[i] /\ \A j \in 1..(i - 1) : ops'[j] = ops[j]
    BY <1>0, <1>1
  <2>. QED
    BY <1>1, <2>1 DEF ForwardsInOrder
<1>2. ASSUME NEW s \in 1..Launched'
      PROVE  \E i \in 1..Len(ops') : ops'[i].kind = "forward" /\ ops'[i].step = s
  <2>1. PICK i \in 1..Len(ops) : ops[i].kind = "forward" /\ ops[i].step = s
    BY DEF ForwardsInOrder
  <2>2. i \in 1..Len(ops') /\ ops'[i] = ops[i]
    BY <1>0
  <2>. QED
    BY <2>1, <2>2
<1>. QED
  BY <1>1, <1>2 DEF ForwardsInOrder

\* A step begins: its number is new, and nothing of it is launched yet.
LEMMA BeginsInOrder ==
  ASSUME TypeOK, ForwardsInOrder, NEW n \in Tokens, BeginStep(n)
  PROVE  ForwardsInOrder'
<1>1. /\ Len(batches) \in Nat /\ Len(batches') = Len(batches) + 1
      /\ \A s \in 1..Len(batches) : batches'[s] = batches[s]
      /\ batches'[Len(batches) + 1] = [n |-> n, bound |-> kvBound]
  BY AppendProperties, LenProperties DEF BeginStep, TypeOK
<1>2. Launched = Len(batches) /\ Launched' = Launched
  BY <1>1 DEF BeginStep, Launched
<1>3. Op("inputs", Len(batches) + 1, n, 0) \in OpSet
  BY <1>1, OpType DEF Kinds, Tokens
<1>4. kvBound' = batches'[step'].bound
  BY <1>1 DEF BeginStep, step
<1>5. Enqueue(Op("inputs", Len(batches) + 1, n, 0)) /\ UNCHANGED <<served, done>>
  BY DEF BeginStep
<1>6. Op("inputs", Len(batches) + 1, n, 0).kind # "forward"
  BY DEF Op
<1>. QED
  BY <1>1, <1>2, <1>3, <1>4, <1>5, <1>6, Quiet

\* Between the beginning of a step and its launch the host only enqueues work
\* for it.
LEMMA StagesInOrder ==
  ASSUME TypeOK, HostOrder, ForwardsInOrder,
         BindKV \/ PrepareDummy \/ LaunchDummy \/ StageStep \/ ReadError
  PROVE  ForwardsInOrder'
<1>1. UNCHANGED <<batches, served, done>>
  BY DEF BindKV, PrepareDummy, LaunchDummy, StageStep, ReadError, GatherLookback,
     StageUnbound, StageHash, StageCopyHashes, Synchronize, ReadRows, StageLayer
<1>2. (pc \in {"idle", "dummy"} <=> pc' \in {"idle", "dummy"})
      /\ (pc' \notin {"idle", "dummy"} => UNCHANGED kvBound)
  BY DEF BindKV, PrepareDummy, LaunchDummy, StageStep, ReadError, GatherLookback,
     StageUnbound, StageHash, StageCopyHashes, Synchronize, ReadRows, StageLayer, LoopEnd
<1>3. Launched' = Launched
  BY <1>1, <1>2 DEF Launched
<1>4. pc' \notin {"idle", "dummy"} => Len(batches') > 0 /\ kvBound' = batches'[step'].bound
  BY <1>1, <1>2, SameBatch DEF ForwardsInOrder
<1>5. pc \notin {"idle", "dummy"} => step \in Nat /\ num \in 0..MaxTokens
  BY BatchType DEF ForwardsInOrder, TypeOK, Tokens
<1>6. ops' = ops \/ \E o \in OpSet : o.kind # "forward" /\ Enqueue(o)
  <2>1. CASE BindKV \/ StageUnbound \/ Synchronize \/ ReadRows \/ ReadError
    BY <2>1 DEF BindKV, StageUnbound, Synchronize, ReadRows, ReadError
  <2>2. CASE PrepareDummy \/ LaunchDummy
    <3>1. \A k \in {"fill", "dummy_forward"} :
            Op(k, NoStep, 0, 0) \in OpSet /\ Op(k, NoStep, 0, 0).kind # "forward"
      BY OpType DEF Kinds, NoStep, Op
    <3>. QED
      BY <2>2, <3>1 DEF PrepareDummy, LaunchDummy
  <2>3. CASE GatherLookback \/ StageHash \/ StageCopyHashes
    <3>1. pc \notin {"idle", "dummy"}
      BY <2>3 DEF GatherLookback, StageHash, StageCopyHashes
    <3>2. \A k \in {"lookback", "hash", "d2h"} :
            Op(k, step, num, 0) \in OpSet /\ Op(k, step, num, 0).kind # "forward"
      BY <1>5, <3>1, OpType DEF Kinds, Op
    <3>. QED
      BY <2>3, <3>2 DEF GatherLookback, StageHash, StageCopyHashes
  <2>4. CASE StageLayer
    <3>1. pc = "copy" /\ nextLayer \in 0..NumLayers /\ Enqueue(Op("h2d", step, num, nextLayer))
      BY <2>4 DEF StageLayer, HostOrder, Layers
    <3>2. Op("h2d", step, num, nextLayer) \in OpSet /\ Op("h2d", step, num, nextLayer).kind # "forward"
      BY <1>5, <3>1, OpType DEF Kinds, Op
    <3>. QED
      BY <3>1, <3>2
  <2>. QED
    BY <2>1, <2>2, <2>3, <2>4 DEF StageStep
<1>. QED
  BY <1>1, <1>3, <1>4, <1>6, Quiet

\* The forward pass of the step in progress comes last in the stream.
LEMMA LaunchesInOrder ==
  ASSUME TypeOK, ForwardsInOrder, Launch
  PROVE  ForwardsInOrder'
<1> DEFINE o == Op("forward", step, IF kvBound THEN num ELSE 0, 0)
<1>1. step \in Nat \ {0} /\ num \in Tokens /\ pc = "staged" /\ pc' = "idle"
      /\ step = Len(batches) /\ kvBound = batches[step].bound
      /\ UNCHANGED <<batches, served, done>>
  BY BatchType DEF Launch, ForwardsInOrder, TypeOK, step
<1>2. Launched = step - 1 /\ Launched' = step /\ step' = step
  BY <1>1, SameBatch DEF Launched
<1>3. o \in OpSet /\ o.kind = "forward" /\ o.step = step
      /\ o.n = IF batches[step].bound THEN batches[step].n ELSE 0
  <2>1. (IF kvBound THEN num ELSE 0) \in 0..MaxTokens
    BY <1>1 DEF Tokens
  <2>. QED
    BY <1>1, <2>1, OpType DEF Kinds, Op, num
<1>4. Enqueue(o)
  BY DEF Launch
<1> HIDE DEF o
<1>5. /\ Len(ops) \in Nat /\ Len(ops') = Len(ops) + 1
      /\ \A i \in 1..Len(ops) : ops'[i] = ops[i]
      /\ ops'[Len(ops) + 1] = o
  BY <1>3, <1>4, Enqueued DEF TypeOK
<1>6. Len(served) \in Nat /\ Len(served) <= step - 1 /\ done \in Nat /\ done <= Len(ops)
  BY <1>2, LenProperties DEF ForwardsInOrder, TypeOK
<1>7. ASSUME NEW i \in 1..Len(ops'), ops'[i].kind = "forward"
      PROVE  /\ ops'[i].step \in 1..Launched'
             /\ ops'[i].n = IF batches'[ops'[i].step].bound THEN batches'[ops'[i].step].n ELSE 0
             /\ i <= done' <=> ops'[i].step <= Len(served')
             /\ \A j \in 1..(i - 1) : ops'[j].kind = "forward" => ops'[j].step < ops'[i].step
  <2>1. CASE i \in 1..Len(ops)
    <3>1. ops'[i] = ops[i] /\ \A j \in 1..(i - 1) : ops'[j] = ops[j]
      BY <1>5, <2>1
    <3>2. ops[i].step \in 1..(step - 1)
      BY <1>2, <1>7, <2>1, <3>1 DEF ForwardsInOrder
    <3>3. /\ ops[i].n = IF batches[ops[i].step].bound THEN batches[ops[i].step].n ELSE 0
          /\ i <= done <=> ops[i].step <= Len(served)
          /\ \A j \in 1..(i - 1) : ops[j].kind = "forward" => ops[j].step < ops[i].step
      BY <1>7, <2>1, <3>1 DEF ForwardsInOrder
    <3>4. \A j \in 1..(i - 1) : ops'[j].kind = "forward" => ops'[j].step < ops'[i].step
      BY <3>1, <3>3
    <3>5. ops'[i].step \in 1..Launched'
      BY <1>1, <1>2, <3>1, <3>2
    <3>. QED
      BY <1>1, <3>1, <3>3, <3>4, <3>5
  <2>2. CASE i = Len(ops) + 1
    <3>1. ops'[i] = o /\ \A j \in 1..(i - 1) : j \in 1..Len(ops) /\ ops'[j] = ops[j]
      BY <1>5, <2>2
    <3>2. \A j \in 1..Len(ops) : ops[j].kind = "forward" => ops[j].step \in 1..(step - 1)
      BY <1>2 DEF ForwardsInOrder
    <3>3. \A j \in 1..(i - 1) : ops'[j].kind = "forward" => ops'[j].step < step
      BY <1>1, <3>1, <3>2
    <3>4. ~(i <= done') /\ ~(o.step <= Len(served'))
      BY <1>1, <1>3, <1>5, <1>6, <2>2
    <3>. QED
      BY <1>1, <1>2, <1>3, <3>1, <3>3, <3>4
  <2>. QED
    BY <1>5, <2>1, <2>2
<1>8. ASSUME NEW s \in 1..Launched'
      PROVE  \E i \in 1..Len(ops') : ops'[i].kind = "forward" /\ ops'[i].step = s
  <2>1. CASE s = step
    <3>1. Len(ops) + 1 \in 1..Len(ops')
      BY <1>5
    <3>. QED
      BY <1>3, <1>5, <2>1, <3>1
  <2>2. CASE s # step
    <3>1. s \in 1..Launched
      BY <1>1, <1>2, <2>2
    <3>2. PICK i \in 1..Len(ops) : ops[i].kind = "forward" /\ ops[i].step = s
      BY <3>1 DEF ForwardsInOrder
    <3>3. i \in 1..Len(ops') /\ ops'[i] = ops[i]
      BY <1>5
    <3>. QED
      BY <3>2, <3>3
  <2>. QED
    BY <2>1, <2>2
<1>9. Len(served') <= Launched' /\ pc' \in {"idle", "dummy"}
  BY <1>1, <1>2, <1>6
<1>. QED
  BY <1>7, <1>8, <1>9 DEF ForwardsInOrder

\* The forward pass the GPU runs next is the next step to serve.
LEMMA NextServed ==
  ASSUME TypeOK, ForwardsInOrder, RunForward
  PROVE  /\ Cur.step = Len(served) + 1 /\ Cur.step \in 1..Launched
         /\ Cur.n = IF batches[Cur.step].bound THEN batches[Cur.step].n ELSE 0
<1>1. /\ Len(ops) \in Nat /\ done \in Nat /\ done + 1 \in 1..Len(ops)
      /\ Len(served) \in Nat /\ Launched \in Int
      /\ Cur = ops[done + 1] /\ Cur.kind = "forward"
  BY LenProperties DEF TypeOK, RunForward, Runs, Cur, Launched
<1>2. /\ Cur.step \in 1..Launched /\ Cur.step > Len(served)
      /\ Cur.n = IF batches[Cur.step].bound THEN batches[Cur.step].n ELSE 0
  BY <1>1 DEF ForwardsInOrder
<1>3. ASSUME Cur.step # Len(served) + 1 PROVE FALSE
  <2>1. Len(served) + 1 \in 1..Launched /\ Len(served) + 1 < Cur.step
    BY <1>1, <1>2, <1>3
  <2>2. PICK i \in 1..Len(ops) : ops[i].kind = "forward" /\ ops[i].step = Len(served) + 1
    BY <2>1 DEF ForwardsInOrder
  <2>3. ~(i <= done)
    BY <1>1, <2>2 DEF ForwardsInOrder
  <2>4. i # done + 1
    BY <1>1, <2>1, <2>2
  <2>5. done + 1 \in 1..(i - 1)
    BY <1>1, <2>3, <2>4
  <2>6. Cur.step < Len(served) + 1
    BY <1>1, <2>2, <2>5 DEF ForwardsInOrder
  <2>. QED
    BY <1>1, <1>2, <2>1, <2>6
<1>. QED
  BY <1>2, <1>3

\* Running the stream serves the steps in their order.
LEMMA RunsInOrder ==
  ASSUME TypeOK, ForwardsInOrder, GpuStep
  PROVE  ForwardsInOrder'
<1>1. /\ Len(ops) \in Nat /\ done \in Nat /\ Len(served) \in Nat
      /\ done + 1 \in 1..Len(ops) /\ done' = done + 1
      /\ UNCHANGED <<pc, batches, kvBound, ops>>
      /\ Cur = ops[done + 1] /\ Cur \in OpSet
  BY CurType, LenProperties DEF TypeOK, GpuStep, RunInputs, RunLookback, RunFill, RunHash,
     RunD2H, RunH2D, RunForward, RunDummyForward, Runs, Cur, host
<1>2. Launched' = Launched /\ step' = step /\ Launched \in Int
  BY <1>1, SameBatch, LenProperties DEF Launched, TypeOK
<1>3. /\ Len(served') \in Nat /\ Len(served') <= Launched
      /\ \A i \in 1..Len(ops) : ops[i].kind = "forward" =>
           (i <= done + 1 <=> ops[i].step <= Len(served'))
  <2>1. CASE RunForward
    <3>1. Cur.step = Len(served) + 1 /\ Cur.step \in 1..Launched
      BY <2>1, NextServed
    <3>2. Len(served') = Len(served) + 1
      BY <2>1, AppendProperties DEF RunForward, TypeOK
    <3>3. ASSUME NEW i \in 1..Len(ops), ops[i].kind = "forward"
          PROVE  i <= done + 1 <=> ops[i].step <= Len(served')
      <4>1. ops[i].step \in 1..Launched /\ (i <= done <=> ops[i].step <= Len(served))
        BY <3>3 DEF ForwardsInOrder
      <4>2. CASE i <= done
        BY <1>1, <1>2, <3>2, <4>1, <4>2
      <4>3. CASE i = done + 1
        BY <1>1, <3>1, <3>2, <4>3
      <4>4. CASE i > done + 1
        <5>1. done + 1 \in 1..(i - 1) /\ Cur.kind = "forward"
          BY <1>1, <2>1, <4>4 DEF RunForward, Runs
        <5>2. Cur.step < ops[i].step
          BY <1>1, <3>3, <5>1 DEF ForwardsInOrder
        <5>. QED
          BY <1>1, <1>2, <3>1, <3>2, <4>1, <4>4, <5>2
      <4>. QED
        BY <1>1, <4>2, <4>3, <4>4
    <3>. QED
      BY <1>1, <3>1, <3>2, <3>3
  <2>2. CASE UNCHANGED served /\ Cur.kind # "forward"
    <3>1. ASSUME NEW i \in 1..Len(ops), ops[i].kind = "forward"
          PROVE  i <= done + 1 <=> ops[i].step <= Len(served)
      <4>1. (i <= done <=> ops[i].step <= Len(served)) /\ i # done + 1
        BY <1>1, <2>2, <3>1 DEF ForwardsInOrder
      <4>. QED
        BY <1>1, <4>1
    <3>. QED
      BY <1>1, <2>2, <3>1 DEF ForwardsInOrder
  <2>3. RunForward \/ (UNCHANGED served /\ Cur.kind # "forward")
    BY DEF GpuStep, RunInputs, RunLookback, RunFill, RunHash, RunD2H, RunH2D,
       RunDummyForward, Runs, gpu
  <2>. QED
    BY <2>1, <2>2, <2>3
<1>. QED
  BY <1>1, <1>2, <1>3 DEF ForwardsInOrder

\* Every step keeps the launched steps and their forward passes in order.
LEMMA OrderStep ==
  ASSUME TypeOK, IInv, ForwardsInOrder, [Next]_vars
  PROVE  ForwardsInOrder'
<1>1. CASE UNCHANGED vars
  BY <1>1, SameBatch DEF vars, host, ForwardsInOrder, Launched
<1>2. HostOrder
  BY DEF IInv
<1>. QED
  BY <1>1, <1>2, BeginsInOrder, StagesInOrder, LaunchesInOrder, RunsInOrder
     DEF Next, HostStep

\* A forward pass of the stream serves the rows EngramRows promises.
LEMMA ServesNext ==
  ASSUME TypeOK, IInv, ForwardsInOrder, RunForward
  PROVE  Rows!Serve
<1>0. /\ done \in Nat /\ done + 1 \in 1..Len(ops) /\ (done + 1) - 1 = done
      /\ Cur = ops[done + 1] /\ Cur.kind = "forward" /\ Cur.n \in 0..MaxTokens
  <2>1. done < Len(ops) /\ Cur.kind = "forward"
    BY DEF RunForward, Runs
  <2>2. /\ done + 1 \in 1..Len(ops) /\ Cur.n \in 0..MaxTokens
        /\ Len(ops) \in Nat /\ done \in Nat
    BY <2>1, CurType, LenProperties DEF TypeOK
  <2>. QED
    BY <2>1, <2>2 DEF Cur
<1>1. ASSUME NEW l \in Layers, NEW t \in 1..Cur.n
      PROVE  stagedRows[l][t] = RowOf(l, HashOf(Cur.step, Cur.step))
  <2>1. Justified(ops, done + 1)
    BY <1>0 DEF IInv, StreamOrder
  <2>2. done > 0 /\ ops[done] = Op("h2d", Cur.step, Cur.n, NumLayers)
    BY <1>0, <2>1 DEF Justified
  <2>. QED
    BY <2>2 DEF IInv, GpuOrder, Op, Layers
<1>2. /\ Cur.step = Len(served) + 1 /\ Cur.step \in 1..Launched
      /\ Cur.n = IF batches[Cur.step].bound THEN batches[Cur.step].n ELSE 0
  BY NextServed
<1>3. Len(served) < Len(batches)
  BY <1>2, LenProperties DEF TypeOK, Launched
<1>4. [l \in Layers |-> [t \in 1..Cur.n |-> stagedRows[l][t]]] = Rows!RowsOf(Cur.step, Cur.n)
  BY <1>1 DEF Rows!RowsOf, Rows!RowOf, Rows!HashOf, RowOf, HashOf
<1>5. served' = Append(served, Rows!Due(Len(served) + 1, batches[Len(served) + 1]))
  BY <1>2, <1>4 DEF RunForward, Rows!Due
<1>6. UNCHANGED <<batches, pc>>
  BY DEF RunForward, Runs, host
<1>. QED
  BY <1>3, <1>5, <1>6 DEF Rows!Serve

\* Every step of the stager is a step of EngramRows or a stutter.
LEMMA StepImplements ==
  ASSUME TypeOK, IInv, ForwardsInOrder, [Next]_vars
  PROVE  [Rows!Next]_(Rows!avars)
<1>1. ASSUME NEW n \in Tokens, BeginStep(n)
      PROVE  Rows!Prepare
  <2>1. /\ batches' = Append(batches, [n |-> n, bound |-> kvBound])
        /\ n \in 1..MaxTokens /\ kvBound \in BOOLEAN /\ Len(batches) < MaxSteps
    BY <1>1 DEF BeginStep, TypeOK, Tokens
  <2>2. pc # "failed" /\ pc' # "failed" /\ served' = served
    BY <1>1 DEF BeginStep
  <2>3. (pc = "failed")' = (pc = "failed")
    BY <2>2
  <2>. QED
    BY <2>1, <2>2, <2>3 DEF Rows!Prepare
<1>2. CASE ReadError
  BY <1>2 DEF ReadError, Rows!Next, Rows!Fail
<1>3. CASE RunForward
  BY <1>3, ServesNext DEF Rows!Next
<1>4. ASSUME UNCHANGED <<batches, served>>, pc = "failed" <=> pc' = "failed"
      PROVE  UNCHANGED Rows!avars
  BY <1>4 DEF Rows!avars
<1>5. CASE GpuStep /\ ~RunForward
  <2>1. UNCHANGED <<pc, batches, served>>
    BY <1>5 DEF GpuStep, RunInputs, RunLookback, RunFill, RunHash, RunD2H,
       RunH2D, RunDummyForward, Runs, host, gpu
  <2>. QED
    BY <1>4, <2>1
<1>6. CASE BindKV \/ PrepareDummy \/ HostStep
  <2>1. UNCHANGED <<batches, served>> /\ pc # "failed" /\ pc' # "failed"
    BY <1>6 DEF BindKV, PrepareDummy, HostStep, Launch, LaunchDummy, StageStep,
       GatherLookback, StageUnbound, StageHash, StageCopyHashes, Synchronize,
       ReadRows, StageLayer, LoopEnd
  <2>. QED
    BY <1>4, <2>1
<1>7. CASE UNCHANGED vars
  BY <1>4, <1>7 DEF vars, host
<1>. QED
  BY <1>1, <1>2, <1>3, <1>5, <1>6, <1>7 DEF Next, Rows!Next

\* EngramDiskStager keeps the promise of EngramRows: the steps the runner
\* prepares are served in their order, each once, each with its own rows.
THEOREM Implements == Spec => RowsSafe
<1>1. Init => ForwardsInOrder /\ Rows!Init
  BY DEF Init, ForwardsInOrder, Launched, Rows!Init
<1>2. TypeOK /\ IInv /\ ForwardsInOrder /\ [Next]_vars =>
        ForwardsInOrder' /\ [Rows!Next]_(Rows!avars)
  BY OrderStep, StepImplements
<1>. QED
  BY <1>1, <1>2, TypeCorrect, Inductive, PTL DEF Spec, RowsSafe
=============================================================================
