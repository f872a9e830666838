---------------------------- MODULE EngramShards ----------------------------
(***************************************************************************)
(* Engram lookup over ranks: hash heads sharded TP-major over TP x DP      *)
(* ranks, tokens of the DP replicas traded for the heads their peers own,  *)
(* micro-batches with staging buffers of their own (files/engram.py,       *)
(* ParallelEngramEmbedding, gather_engram_hashes, _gather_engram_rows,     *)
(* _engram_select_rows, Engram; EngramDiskStager when rows are prestaged). *)
(*                                                                         *)
(* A thread is one micro-batch of one rank.  Threads meet in collectives   *)
(* only: the all-gather of hash ids and the trade of rows inside a DP      *)
(* group, the all-gather of heads inside a TP group.  Each waits for all   *)
(* its members, so an idle replica must take part as well.                 *)
(*                                                                         *)
(* One token stands for its row of hash ids, one value for a table row; a  *)
(* head's ids lie in the bucket range of that head, so that the range test *)
(* of the lookup is a test on the head.                                    *)
(***************************************************************************)
EXTENDS Integers, Sequences

CONSTANTS Setups,    \* the deployments to consider
          MaxSteps   \* bound: steps planned

CeilDiv(a, b) == (a + b - 1) \div b

Setup == [dp : Nat \ {0},          \* replicas sharing one table
          tp : Nat \ {0},          \* ranks of a replica
          ubatches : Nat \ {0},    \* micro-batches a step is split into
          cols : Nat \ {0},        \* n_hash_cols: heads over all n-gram sizes
          tokens : Nat \ {0},      \* tokens of a micro-batch at most
          sp : BOOLEAN,            \* sequence parallelism: a rank keeps a chunk
          prestage : BOOLEAN]      \* disk rows staged before the forward (V2)

\* part_n_hash_cols.
PartColsOf(s) == CeilDiv(s.cols, s.tp * s.dp)

ASSUME SetupAssumption == Setups \subseteq Setup /\ MaxSteps \in Nat
\* "Engram sharding leaves ranks without hash heads" otherwise.
ASSUME ShardsAssumption ==
  \A s \in Setups : (s.tp * s.dp - 1) * PartColsOf(s) < s.cols

VARIABLES
  setup,     \* the deployment
  plan,      \* plan[s][d]: replica d's micro-batches in step s
  pc, step,  \* per thread: where it is, and in which step
  ids,       \* per thread: hash ids, one entry per token
  staged,    \* per rank and micro-batch: the staging buffer
  ready,     \* per rank: the last step the stager has staged
  rows,      \* per thread: rows between the two exchanges
  out        \* per thread: what embed() returned last

vars == <<setup, plan, pc, step, ids, staged, ready, rows, out>>

DPSize      == setup.dp
TPSize      == setup.tp
NumUbatches == setup.ubatches
NumCols     == setup.cols
MaxTokens   == setup.tokens
UseSP       == setup.sp
Prestage    == setup.prestage
PartCols    == PartColsOf(setup)

Replicas == 0..(DPSize - 1)
TPRanks  == 0..(TPSize - 1)
Ubatches == 0..(NumUbatches - 1)
Cols     == 0..(NumCols - 1)
Ranks    == Replicas \X TPRanks
Threads  == Replicas \X TPRanks \X Ubatches

RankOf(th) == <<th[1], th[2]>>
DPGroup(th) == [d \in Replicas |-> <<d, th[2], th[3]>>]
TPGroup(th) == [t \in TPRanks  |-> <<th[1], t, th[3]>>]

\* A token by step, replica, micro-batch and index; one without a valid hash.
Token(s, d, u, i) == <<s, d, u, i>>
Dead == << >>

\* The table row of a token's id for one head; the zeros of a masked load.
Row(token, col) == <<token, col>>
Zero == << >>

\* torch.empty memory of the micro-batch buffers after the first.
Garbage == <<"garbage">>

\* A replica's step: a batch, or a dummy run while its peers have work.
Batches == [real : BOOLEAN, n : [Ubatches -> 1..MaxTokens]]
Batch(th)     == plan[step[th]][th[1]]
NumTokens(th) == Batch(th).n[th[3]]

\* Defect, not part of Next: shards numbered DP-major.
ShardRankDPMajor(rank) == rank[1] * TPSize + rank[2]

\* engram_head_shard_rank, head_start: the heads a rank looks up.
ShardRank(rank) == rank[2] * DPSize + rank[1]
HeadStart(rank) == ShardRank(rank) * PartCols

\* Defect, not part of Next: a buffer for one replica's tokens.
CapacityOwn == MaxTokens * NumUbatches

\* Rows of a staging buffer: "A table shared by DP replicas stages every
\* replica's tokens at once."
Capacity == MaxTokens * NumUbatches * DPSize
Buffer(fill) == [i \in 0..(Capacity - 1) |-> [c \in 0..(PartCols - 1) |-> fill]]

\* _staged_rows_for_ubatch: which buffer a micro-batch uses.
BufferOf(u) == u

Init ==
  /\ setup \in Setups
  /\ plan = << >>
  /\ pc = [th \in Threads |-> "idle"] /\ step = [th \in Threads |-> 0]
  /\ ids = [th \in Threads |-> << >>]
  /\ staged = [r \in Ranks |->
                 [u \in Ubatches |-> Buffer(IF u = 0 THEN Zero ELSE Garbage)]]
  /\ ready = [r \in Ranks |-> 0]
  /\ rows = [th \in Threads |-> << >>]
  /\ out = [th \in Threads |-> << >>]

-----------------------------------------------------------------------------
(* Data movement; buffers are functions from 0 *)

\* One rank's lookup of a list of tokens: its own heads, zero for heads beyond
\* the last one and for tokens without a valid hash.
Lookup(rank, tokens) ==
  [i \in DOMAIN tokens |->
     [c \in 0..(PartCols - 1) |->
        IF HeadStart(rank) + c < NumCols /\ tokens[i] # Dead
        THEN Row(tokens[i], HeadStart(rank) + c) ELSE Zero]]

Write(buf, new) == [i \in DOMAIN buf |-> IF i \in DOMAIN new THEN new[i] ELSE buf[i]]
Slice(buf, n)   == [i \in 0..(n - 1) |-> buf[i]]

\* Element k of a rank-major gathered buffer [rank][token][width].
Flat(parts, tokens, width, k) ==
  parts[k \div (tokens * width)][(k \div width) % tokens][k % width]

\* _engram_select_rows: the tokens from `first` on, their ranks side by side.
SelectRows(parts, tokens, first, n, local, width) ==
  [i \in 0..(n - 1) |->
     [c \in 0..(width - 1) |->
        IF first + i < tokens
        THEN Flat(parts, tokens, local,
                  ((c \div local) * tokens + first + i) * local + (c % local))
        ELSE Zero]]

\* all_gather along the head dimension, cut to the real heads.
GatherHeads(parts, n, local) ==
  [i \in 0..(n - 1) |-> [c \in Cols |-> parts[c \div local][i][c % local]]]

\* gather_engram_hashes: every replica's tokens padded to the common slot.
GatherHashes(parts, slot) ==
  [k \in 0..(DPSize * slot - 1) |->
     LET part == parts[k \div slot]
     IN  IF k % slot \in DOMAIN part THEN part[k % slot] ELSE Dead]

\* engram_gathered_num_tokens: the common slot of a micro-batch.
Slot(th) ==
  LET n == {plan[step[th]][d].n[th[3]] : d \in Replicas}
  IN  CHOOSE m \in n : \A k \in n : k <= m

\* Rows a thread has for its own tokens once heads are traded (DP), and what
\* embed() makes of them inside the TP group: all tokens, or the rank's chunk.
TradedRows(th) ==
  LET slot  == Slot(th)
      parts == [d \in Replicas |->
                  Slice(staged[<<d, th[2]>>][BufferOf(th[3])], slot * DPSize)]
  IN  SelectRows(parts, slot * DPSize, th[1] * slot, NumTokens(th),
                 PartCols, DPSize * PartCols)

OwnRows(th) == Slice(staged[RankOf(th)][BufferOf(th[3])], NumTokens(th))

Embedded(th) ==
  LET n     == NumTokens(th)
      parts == [t \in TPRanks |-> rows[TPGroup(th)[t]]]
      chunk == CeilDiv(n, TPSize)
  IN  IF UseSP
      THEN SelectRows(parts, n, th[2] * chunk, chunk, DPSize * PartCols, NumCols)
      ELSE GatherHeads(parts, n, DPSize * PartCols)

-----------------------------------------------------------------------------

PlanStep(p) ==
  /\ Len(plan) < MaxSteps
  /\ \E d \in Replicas : p[d].real
  /\ plan' = Append(plan, p)
  /\ UNCHANGED <<setup, pc, step, ids, staged, ready, rows, out>>

\* The disk stager fills the first micro-batch's buffer with the rows of the
\* whole batch of its own replica, before the forward; nothing for dummies.
BatchTokens(d, s) ==
  LET n == plan[s][d].n
      offset[u \in 0..NumUbatches] ==
        IF u = 0 THEN 0 ELSE offset[u - 1] + n[u - 1]
  IN  [k \in 0..(offset[NumUbatches] - 1) |->
         LET u == CHOOSE v \in Ubatches : offset[v] <= k /\ k < offset[v + 1]
         IN  Token(s, d, u, k - offset[u])]

Stage(rank) ==
  LET s == ready[rank] + 1
  IN
  /\ Prestage /\ s <= Len(plan)
  /\ \A u \in Ubatches : /\ pc[<<rank[1], rank[2], u>>] = "idle"
                         /\ step[<<rank[1], rank[2], u>>] = s - 1
  /\ ready' = [ready EXCEPT ![rank] = s]
  /\ staged' = IF plan[s][rank[1]].real
               THEN [staged EXCEPT ![rank][0] =
                       Write(@, Lookup(rank, BatchTokens(rank[1], s)))]
               ELSE staged
  /\ UNCHANGED <<setup, plan, pc, step, ids, rows, out>>

\* Entering step s with the given hash ids.
Enter(th, s, tokens, next) ==
  /\ step' = [step EXCEPT ![th] = s]
  /\ ids' = [ids EXCEPT ![th] = tokens]
  /\ pc' = [pc EXCEPT ![th] = next]
  /\ out' = [out EXCEPT ![th] = << >>]
  /\ UNCHANGED <<setup, plan, staged, ready, rows>>

Tokens(th, s) ==
  [i \in 0..(plan[s][th[1]].n[th[3]] - 1) |-> Token(s, th[1], th[3], i)]
DummyTokens(th, s) == [i \in 0..(plan[s][th[1]].n[th[3]] - 1) |-> Dead]
FirstStop == IF DPSize > 1 THEN "ids" ELSE "lookup"

\* Defect, not part of Next: a replica without work sits the step out.
IdleStaysOut(th) ==
  /\ pc[th] = "idle" /\ step[th] < Len(plan)
  /\ LET s == step[th] + 1
     IN  Enter(th, s, Tokens(th, s),
               IF plan[s][th[1]].real THEN FirstStop ELSE "idle")

\* A micro-batch hashes its tokens; a dummy run's are dead (dummy_hashes).
Begin(th) ==
  /\ pc[th] = "idle" /\ step[th] < Len(plan)
  /\ Prestage => ready[RankOf(th)] > step[th]
  /\ LET s == step[th] + 1
     IN  Enter(th, s, IF plan[s][th[1]].real THEN Tokens(th, s)
                      ELSE DummyTokens(th, s), FirstStop)

\* A collective runs once every member of its group has come to it.
Members(group)  == {group[k] : k \in DOMAIN group}
Meet(group, at) ==
  \A m \in Members(group) : pc[m] = at /\ step[m] = step[group[0]]

GatherIds(th) ==
  LET group == DPGroup(th)
      all   == GatherHashes([d \in Replicas |-> ids[group[d]]], Slot(th))
  IN
  /\ Meet(group, "ids")
  /\ ids' = [m \in Threads |-> IF m \in Members(group) THEN all ELSE ids[m]]
  /\ pc'  = [m \in Threads |-> IF m \in Members(group) THEN "lookup" ELSE pc[m]]
  /\ UNCHANGED <<setup, plan, step, staged, ready, rows, out>>

\* prepare_embeddings: nothing is looked up where rows were staged before.
PrepareEmbeddings(th) ==
  /\ pc[th] = "lookup"
  /\ staged' = IF Prestage THEN staged
               ELSE [staged EXCEPT ![RankOf(th)][BufferOf(th[3])] =
                       Write(@, Lookup(RankOf(th), ids[th]))]
  /\ pc' = [pc EXCEPT ![th] = "embed"]
  /\ UNCHANGED <<setup, plan, step, ids, ready, rows, out>>

\* _trade_dp_tokens_for_heads, or the plain slice without DP.
TakeRows(th) ==
  LET group == Members(DPGroup(th))
  IN
  /\ Meet(DPGroup(th), "embed")
  /\ rows' = [m \in Threads |->
                IF m \notin group THEN rows[m]
                ELSE IF DPSize > 1 THEN TradedRows(m) ELSE OwnRows(m)]
  /\ pc' = [m \in Threads |-> IF m \in group THEN "heads" ELSE pc[m]]
  /\ UNCHANGED <<setup, plan, step, ids, staged, ready, out>>

\* The TP exchange; a lone rank only drops the padded heads.
TakeHeads(th) ==
  LET group == Members(TPGroup(th))
  IN
  /\ Meet(TPGroup(th), "heads")
  /\ out' = [m \in Threads |-> IF m \in group THEN Embedded(m) ELSE out[m]]
  /\ pc'  = [m \in Threads |-> IF m \in group THEN "idle" ELSE pc[m]]
  /\ UNCHANGED <<setup, plan, step, ids, staged, ready, rows>>

-----------------------------------------------------------------------------

Work == \/ \E rank \in Ranks : Stage(rank)
        \/ \E th \in Threads :
             \/ Begin(th) \/ GatherIds(th) \/ PrepareEmbeddings(th)
             \/ TakeRows(th) \/ TakeHeads(th)

Next == Work \/ \E p \in [Replicas -> Batches] : PlanStep(p)

\* GPUs go on with the work they are given; no step is ever due.
Spec == Init /\ [][Next]_vars /\ WF_vars(Work)

-----------------------------------------------------------------------------

\* The rows a micro-batch is owed: one per token and head, of its own tokens,
\* in order; under SP the chunk of the rank, zero past the last token.
Owed(th) ==
  LET n == NumTokens(th)
      chunk == CeilDiv(n, TPSize)
      first == IF UseSP /\ TPSize > 1 THEN th[2] * chunk ELSE 0
      size  == IF UseSP /\ TPSize > 1 THEN chunk ELSE n
  IN  [i \in 0..(size - 1) |-> [c \in Cols |->
         IF first + i < n /\ Batch(th).real
         THEN Row(Token(step[th], th[1], th[3], first + i), c) ELSE Zero]]

\* Every forward of a real batch gets its own tokens' rows of every head,
\* whatever the replicas' batch sizes, however the ranks interleave and
\* whatever an earlier step left in the staging buffers; a dummy run, which is
\* to "participate in DP lookups without valid rows", reads none.
OutputComplete == \A th \in Threads : out[th] # << >> => out[th] = Owed(th)

\* The staging buffer holds the tokens of every replica ("engram staging
\* buffer too small" never fires).
BufferFits ==
  \A th \in Threads : pc[th] = "lookup" => DOMAIN ids[th] \subseteq 0..(Capacity - 1)

\* No collective waits for ever: every planned step ends on every thread, also
\* when some replicas have nothing to do in it.
StepsEnd == \A s \in 1..MaxSteps :
              Len(plan) >= s ~>
                \A th \in Threads : step[th] >= s /\ (step[th] = s => pc[th] = "idle")
=============================================================================
