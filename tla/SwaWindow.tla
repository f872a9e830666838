----------------------------- MODULE SwaWindow ------------------------------
(***************************************************************************)
(* The sliding-window cache and its metadata (files/sparse_swa.py,         *)
(* DeepseekSparseSWAMetadataBuilder, its kernels and                       *)
(* get_prefill_chunk_plan; files/flashinfer_sparse.py, which reads them).  *)
(*                                                                         *)
(* The scheduler frees blocks behind the window and gives them away; the   *)
(* builder turns positions into slots, in buffers it keeps across steps;   *)
(* attention reads what the slots hold.  Draft models rerun the builder,   *)
(* or update its metadata in place, for positions past the accepted ones.  *)
(* Heads, values and kernels' tiling are left out; positions are exact.    *)
(***************************************************************************)
EXTENDS Integers, Sequences, FiniteSets, SequencesExt

CONSTANTS
  Requests,
  Setups,          \* the deployments to consider
  Prompt,          \* request -> length of its prompt
  Spans,           \* request -> image spans <<first, last>> in the prompt
  Window,          \* sliding_window
  MaxImageTokens,  \* vision_max_n_token
  BlockSize, NumBlocks, MaxModelLen,
  MaxTokens,       \* max_num_batched_tokens: rows of the buffers
  CaptureSizes,    \* batch sizes graphs were captured for
  ChunkSize        \* prefill_chunk_size, as callers of the chunk plan pass it

Drafters == {"none", "mtp", "dspark"}
NullBlock == 0
None == << >>

VARIABLES
  setup,
  computed,  \* request -> positions computed and accepted
  table,     \* request -> its blocks, NullBlock behind the window
  kv,        \* slot -> <<request, position, drafted>> it holds
  pass,      \* target, or the drafter whose pass this is
  phase,     \* batch, built, done or advanced
  batch,     \* the requests of the pass, decodes first: [r, from, q]
  buf,       \* the builder's buffers
  meta,      \* the step's metadata
  seen       \* per token: what attention read

engine == <<setup, computed, table>>
vars == <<engine, kv, pass, phase, batch, buf, meta, seen>>

Running == {r \in Requests : computed[r] >= 0}
\* Parallel drafting, as DSpark does, doubles the drafts of a decode.
ThresholdOf(d) == 1 + (IF d.drafter = "dspark" THEN 2 ELSE 1) * d.drafts
DecodeThreshold == ThresholdOf(setup)
IndexWidth      == Window + (IF setup.images THEN MaxImageTokens ELSE 0)
\* get_dspark_swa_index_width pads to a width the kernel supports.
NoncausalWidth  == Window + setup.drafts + 1
ImagesOf(r)     == IF setup.images THEN Spans[r] ELSE {}
Larger(a, b)    == IF a > b THEN a ELSE b
Smaller(a, b)   == IF a < b THEN a ELSE b
Ceil(a, b)      == (a + b - 1) \div b

ASSUME SwaAssumption ==
  /\ {Window, BlockSize, NumBlocks, MaxModelLen, MaxTokens, ChunkSize}
       \subseteq Nat \ {0}
  /\ MaxImageTokens \in Nat /\ CaptureSizes \subseteq 1..MaxTokens
  /\ Setups \subseteq [drafter : Drafters, drafts : Nat, images : BOOLEAN,
                       chunks : SUBSET (Nat \ {0})]   \* a prefill is cut to
  /\ \A d \in Setups : d.drafter = "dspark" => d.drafts > 0
  /\ \A r \in Requests : Prompt[r] \in 1..MaxModelLen
\* "Decode tokens are always past the image spans": a span is scheduled whole
\* and is longer than what passes for a decode.
ASSUME SpanAssumption ==
  \A r \in Requests : Spans[r] \subseteq Nat \X Nat /\ \A s \in Spans[r] :
    /\ s[1] <= s[2] /\ s[2] < Prompt[r]
    /\ s[2] - s[1] < MaxImageTokens
    /\ \A d \in Setups : d.images => s[2] - s[1] >= ThresholdOf(d)
    /\ \A u \in Spans[r] : u # s => (u[2] < s[1] \/ s[2] < u[1])

-----------------------------------------------------------------------------
(* The batch and its tokens *)

SeqLen(i)     == batch[i].from + batch[i].q
PrefixLen(i)  == batch[i].from
IsDecode(b)   == b.q <= DecodeThreshold
\* split_decodes_and_prefills.
NumDecodes    == Cardinality({i \in DOMAIN batch : IsDecode(batch[i])})
NumPrefills   == Len(batch) - NumDecodes

\* query_start_loc: how many tokens the first i requests have.
StartsOf(b) == LET start[i \in 0..Len(b)] == IF i = 0 THEN 0
                                             ELSE start[i - 1] + b[i].q
               IN  start
QueryStart == StartsOf(batch)
NumTokens  == QueryStart[Len(batch)]
\* Tokens in batch order, then graph padding.
ReqOf(t) == CHOOSE i \in DOMAIN batch : t \in (QueryStart[i - 1] + 1)..QueryStart[i]
Tokens ==
  [t \in 1..NumTokens |->
    [req |-> ReqOf(t), offset |-> t - QueryStart[ReqOf(t) - 1] - 1, padding |-> FALSE]]
Padding == [req |-> 1, offset |-> 0, padding |-> TRUE]
\* A batch of decodes is padded to the next captured graph, if there is one.
GraphPadding ==
  LET sizes == {n \in CaptureSizes : n >= NumTokens}
  IN  IF NumPrefills > 0 \/ sizes = {} THEN 0 ELSE Min(sizes) - NumTokens
WithPadding(n) == Tokens \o [k \in 1..n |-> Padding]
Position(t) == PrefixLen(t.req) + t.offset

BlockOf(r, p) == LET i == p \div BlockSize + 1
                 IN  IF i \in DOMAIN table[r] THEN table[r][i] ELSE NullBlock
Slot(r, p)    == BlockOf(r, p) * BlockSize + (p % BlockSize)
NoSlot == -1

-----------------------------------------------------------------------------
(* Kernels: one row of slots per token *)

EmptyRow(width) == [len |-> 0, slots |-> [k \in 1..width |-> NoSlot]]
SlotRow(t, start, end, width) ==
  [len   |-> end - start,
   slots |-> [k \in 1..width |->
               IF start + k - 1 < end THEN Slot(batch[t.req].r, start + k - 1)
                                      ELSE NoSlot]]

\* Defect, not part of Next: the end of a span is not looked at.
SpansBefore(t) == {s \in ImagesOf(batch[t.req].r) : Position(t) >= s[1]}
\* _compute_image_visibility_kernel.
SpansAt(t) == {s \in ImagesOf(batch[t.req].r) : Position(t) \in s[1]..s[2]}
Left(t) ==
  Max({0} \cup {Smaller(Position(t) - s[1], MaxImageTokens - 1) : s \in SpansAt(t)})
Right(t) ==
  Max({0} \cup {Smaller(s[2] - Position(t), MaxImageTokens) : s \in SpansAt(t)})

\* Defect, not part of Next: images do not widen the window to the left.
WindowRowCausal(t, valid, window, width, hasImage) ==
  IF ~valid THEN EmptyRow(width)
  ELSE SlotRow(t, Larger(Position(t) - (window - 1), 0),
               Position(t) + (IF hasImage THEN Right(t) ELSE 0) + 1, width)

\* _compute_swa_indices_and_lens_kernel.
WindowRow(t, valid, window, width, hasImage) ==
  LET left    == IF hasImage THEN Left(t) ELSE 0
      right   == IF hasImage THEN Right(t) ELSE 0
      leftAdd == Larger(left - (window - 1), 0)
  IN  IF ~valid THEN EmptyRow(width)
      ELSE SlotRow(t, Larger(Position(t) - (window - 1) - leftAdd, 0),
                   Position(t) + right + 1, width)

\* Defect, not part of Next: the window follows the token.
BlockRowSliding(t, valid) ==
  IF ~valid THEN EmptyRow(NoncausalWidth)
  ELSE SlotRow(t, Larger(Position(t) - Window, 0), SeqLen(t.req), NoncausalWidth)

\* ComputeDSparkNoncausalSWAIndicesKernel: one window for the whole block.
BlockRow(t, valid) ==
  IF ~valid THEN EmptyRow(NoncausalWidth)
  ELSE SlotRow(t, Larger(PrefixLen(t.req) - Window, 0), SeqLen(t.req),
               NoncausalWidth)

-----------------------------------------------------------------------------
(* The prefill chunk plan, for a layer [ratio : Nat, compressed : BOOLEAN] *)

\* Prefill request k = 0, 1, ... of the batch; lengths on the host are bounds.
Prefill(k)       == NumDecodes + k + 1
QueryLen(k)      == batch[Prefill(k)].q
SeqLenBound(k)   == Smaller(SeqLen(Prefill(k)) + meta.slack, MaxModelLen)
GatherBound(k)   == QueryLen(k) + Smaller(SeqLenBound(k) - QueryLen(k), Window - 1)
CompressedBound(l, k) == IF l.compressed THEN SeqLenBound(k) \div l.ratio ELSE 0
\* ComputePrefillMetadataKernel: what is really gathered.
GatherLen(k)     == QueryLen(k) + Smaller(PrefixLen(Prefill(k)), Window - 1)

WorkspaceArea(l) ==
  ChunkSize * ((IF l.compressed THEN Ceil(MaxModelLen, l.ratio) ELSE 0)
               + Window + MaxTokens)
MaxCompressed(l, s, e) == Max({CompressedBound(l, k) : k \in s..(e - 1)})
Width(l, s, e) == MaxCompressed(l, s, e) + Max({GatherBound(k) : k \in s..(e - 1)})

\* Defect, not part of Next: the area leaves the candidate out.
ChunkEndShort(l, s) ==
  Min({e \in (s + 1)..NumPrefills :
        e = NumPrefills \/ (e - s) * Width(l, s, e + 1) > WorkspaceArea(l)})
\* The chunk grows as long as it fits.
ChunkEnd(l, s) ==
  Min({e \in (s + 1)..NumPrefills :
        e = NumPrefills \/ (e - s + 1) * Width(l, s, e + 1) > WorkspaceArea(l)})
ChunkPlan(l) ==
  LET from[s \in 0..NumPrefills] ==
        IF s = NumPrefills THEN << >>
        ELSE LET e == ChunkEnd(l, s)
             IN  <<[start |-> s, end |-> e, compressed |-> MaxCompressed(l, s, e),
                    width |-> Width(l, s, e)]>> \o from[e]
  IN  from[0]

-----------------------------------------------------------------------------
(* The scheduler and the block manager, which are not in this repository *)

Init ==
  /\ setup \in Setups
  /\ computed = [r \in Requests |-> 0]
  /\ table = [r \in Requests |-> << >>]
  /\ kv = [s \in 0..((NumBlocks + 1) * BlockSize - 1) |-> None]
  /\ pass = "target" /\ phase = "batch" /\ batch = << >>
  /\ LET rows(width) == [t \in 1..MaxTokens |-> [k \in 1..width |-> 0]]
         zero        == [t \in 1..MaxTokens |-> 0]
     IN  buf = [valid |-> [t \in 1..MaxTokens |-> FALSE],
                decode |-> rows(Window), wide |-> rows(NoncausalWidth),
                decodeLens |-> zero,
                prefill |-> rows(IndexWidth), prefillLens |-> zero]
  /\ meta = None /\ seen = << >>

\* A prefill is cut anywhere but inside an image span; a decode verifies the
\* drafts of the step before, if there were any.
Queries(r) ==
  IF computed[r] < Prompt[r]
  THEN {q \in setup.chunks \cup {Prompt[r] - computed[r]} :
         LET end == computed[r] + q
         IN  /\ end <= Prompt[r]
             /\ \A s \in ImagesOf(r) : \/ s[2] < computed[r] \/ end <= s[1]
                                       \/ computed[r] <= s[1] /\ s[2] < end}
  ELSE {q \in {1, 1 + setup.drafts} : computed[r] + q <= MaxModelLen}

\* Blocks whose positions no later window reaches are given back.
Trimmed(r) == [i \in DOMAIN table[r] |->
                IF i * BlockSize <= computed[r] - Window + 1 THEN NullBlock
                                                             ELSE table[r][i]]
\* Free blocks are handed out lowest first, so that they are soon used again.
Lowest(free, n) ==
  LET taken[k \in 0..n] ==
        IF k = 0 THEN << >>
        ELSE Append(taken[k - 1], Min(free \ Range(taken[k - 1])))
  IN  taken[n]
Admit(r, q) ==
  /\ phase = "batch" /\ pass = "target"
  /\ r \in Running /\ \A i \in DOMAIN batch : batch[i].r # r
  /\ NumTokens + q <= MaxTokens
  \* The scheduler leaves room for the drafts of a block.
  /\ setup.drafter = "dspark" => (Len(batch) + 1) * setup.drafts <= MaxTokens
  /\ LET trimmed == [table EXCEPT ![r] = Trimmed(r)]
         free == (1..NumBlocks) \ UNION {Range(trimmed[x]) : x \in Requests}
         end  == Smaller(computed[r] + q + setup.drafts, MaxModelLen)
         need == Larger(Ceil(end, BlockSize) - Len(table[r]), 0)
         new  == [r |-> r, from |-> computed[r], q |-> q]
     IN  /\ need <= Cardinality(free)
         /\ table' = [trimmed EXCEPT ![r] = @ \o Lowest(free, need)]
         /\ batch' = InsertAt(batch, 1 + (IF IsDecode(new) THEN NumDecodes
                                                          ELSE Len(batch)), new)
  /\ UNCHANGED <<setup, computed, kv, pass, phase, buf, meta, seen>>

Finish(r) ==
  /\ phase = "batch" /\ pass = "target" /\ batch = << >>
  /\ computed[r] >= Prompt[r]
  /\ computed' = [computed EXCEPT ![r] = -1]
  /\ table' = [table EXCEPT ![r] = << >>]
  /\ UNCHANGED <<setup, kv, pass, phase, batch, buf, meta, seen>>

-----------------------------------------------------------------------------
(* The builder *)

\* Rows 1..Len(s) of a buffer overwritten.
Over(buffer, s) == [t \in DOMAIN buffer |->
                     IF t \in DOMAIN s THEN s[t] ELSE buffer[t]]
Lens(rows)  == [t \in DOMAIN rows |-> rows[t].len]
Slots(rows) == [t \in DOMAIN rows |-> rows[t].slots]

\* Defect, not part of Next: padding counts as a token.
ValidTokensAll(toks) == [t \in DOMAIN toks |-> TRUE]
\* slot_mapping >= 0: padding has no slot.
ValidTokens(toks) == [t \in DOMAIN toks |-> ~toks[t].padding]

Build(slack) ==
  /\ phase = "batch" /\ batch # << >>
  /\ slack > 0 => NumPrefills > 0
  /\ LET padding == GraphPadding
         toks  == WithPadding(padding)
         valid == ValidTokens(toks)
         n     == QueryStart[NumDecodes] + padding
         hasImage == \E i \in DOMAIN batch : ImagesOf(batch[i].r) # {}
         decodes  == [t \in 1..n |->
                       IF pass = "dspark" THEN BlockRow(toks[t], valid[t])
                       ELSE WindowRow(toks[t], valid[t], Window, Window, FALSE)]
         prefills == [t \in 1..(Len(toks) - n) |->
                       WindowRow(toks[n + t], valid[n + t], Window, IndexWidth,
                                 hasImage)]
         rows(x, used) == IF used THEN Over(buf[x], Slots(decodes)) ELSE buf[x]
     IN  /\ buf' = [valid |-> Over(buf.valid, valid),
                    decode |-> rows("decode", pass # "dspark"),
                    wide   |-> rows("wide", pass = "dspark"),
                    decodeLens |-> [t \in 1..MaxTokens |->
                                     IF t \in 1..n THEN decodes[t].len
                                     ELSE IF n > 0 THEN 0 ELSE buf.decodeLens[t]],
                    prefill |-> Over(buf.prefill, Slots(prefills)),
                    prefillLens |-> Over(buf.prefillLens, Lens(prefills))]
         /\ meta' = [decodeTokens |-> n, padding |-> padding, slack |-> slack,
                     sparseIndexCache |-> None]
  /\ phase' = "built"
  /\ UNCHANGED <<engine, kv, pass, batch, seen>>

-----------------------------------------------------------------------------
(* The layers of a pass, and what follows *)

\* build_flashinfer_mixed_sparse_indices, or the buffers themselves.
MixedRows(toks) ==
  [t \in DOMAIN toks |->
    IF t <= meta.decodeTokens
    THEN [len |-> buf.decodeLens[t],
          slots |-> IF pass = "dspark" THEN buf.wide[t] ELSE buf.decode[t]]
    ELSE [len |-> buf.prefillLens[t - meta.decodeTokens],
          slots |-> buf.prefill[t - meta.decodeTokens]]]

\* KV is inserted at valid tokens' slots before attention reads.
Inserted(toks) ==
  LET written == {t \in DOMAIN toks : ~toks[t].padding}
      slotOf(t) == Slot(batch[toks[t].req].r, Position(toks[t]))
  IN  [s \in DOMAIN kv |->
        IF \E t \in written : slotOf(t) = s
        THEN LET t == CHOOSE t \in written : slotOf(t) = s
             IN  <<batch[toks[t].req].r, Position(toks[t]), pass # "target">>
        ELSE kv[s]]

Forward ==
  /\ phase = "built"
  /\ LET toks == WithPadding(meta.padding)
         rows == IF meta.sparseIndexCache # None THEN meta.sparseIndexCache
                                                 ELSE MixedRows(toks)
         width(t) == Smaller(rows[t].len, Len(rows[t].slots))
     IN  /\ kv' = Inserted(toks)
         /\ meta' = [meta EXCEPT !.sparseIndexCache = rows]
         /\ seen' = [t \in DOMAIN toks |->
                      [len |-> rows[t].len,
                       reads |-> {kv'[rows[t].slots[k]] : k \in 1..width(t)}]]
  /\ IF pass = "target"
     THEN \E accepted \in [DOMAIN batch -> 1..MaxTokens] :
            /\ \A i \in DOMAIN batch :
                 /\ accepted[i] <= batch[i].q
                 /\ batch[i].from < Prompt[batch[i].r] => accepted[i] = batch[i].q
            /\ computed' = [r \in Requests |->
                 IF \E i \in DOMAIN batch : batch[i].r = r
                 THEN LET i == CHOOSE i \in DOMAIN batch : batch[i].r = r
                      IN  batch[i].from + accepted[i]
                 ELSE computed[r]]
     ELSE UNCHANGED computed
  /\ phase' = "done"
  /\ UNCHANGED <<setup, table, pass, batch, buf>>

\* Drafting is left out where it would pass the end of the model's length.
\* The first token of an MTP draft comes from the target's pass.
Drafted == batch[1].from - computed[batch[1].r] + 1
MoreDrafts ==
  CASE pass = "target" ->
         /\ setup.drafter = "dspark" \/ (setup.drafter = "mtp" /\ setup.drafts > 1)
         /\ \A i \in DOMAIN batch :
              computed[batch[i].r] + setup.drafts <= MaxModelLen
    [] pass = "mtp" -> Drafted < setup.drafts - 1
    [] OTHER -> FALSE

StartDraft ==
  /\ phase = "done" /\ pass = "target" /\ MoreDrafts
  /\ pass' = setup.drafter /\ phase' = "batch"
  /\ batch' = [i \in DOMAIN batch |->
                [r |-> batch[i].r, from |-> computed[batch[i].r],
                 q |-> IF setup.drafter = "mtp" THEN 1 ELSE setup.drafts]]
  /\ seen' = << >>
  /\ UNCHANGED <<engine, kv, buf, meta>>

\* The runner advances the sequence lengths the metadata refers to.
AdvanceDraft ==
  /\ phase = "done" /\ pass = "mtp" /\ MoreDrafts
  /\ batch' = [i \in DOMAIN batch |-> [batch[i] EXCEPT !.from = @ + 1]]
  /\ phase' = "advanced" /\ seen' = << >>
  /\ UNCHANGED <<engine, kv, pass, buf, meta>>

\* Defect, not part of Next: what is derived from the indices is kept.
UpdateKeepsCache ==
  /\ phase = "advanced"
  /\ LET toks  == WithPadding(meta.padding)
         width == Len(buf.decode[1])
         rows  == [t \in 1..meta.decodeTokens |->
                    WindowRow(toks[t], buf.valid[t], width, width, FALSE)]
     IN  buf' = [buf EXCEPT !.decode = Over(@, Slots(rows)),
                            !.decodeLens = Over(@, Lens(rows))]
  /\ phase' = "built"
  /\ UNCHANGED <<engine, kv, pass, batch, meta, seen>>

\* update_draft_decode_metadata takes the window from the width of the indices.
UpdateDraft ==
  /\ phase = "advanced"
  /\ LET toks  == WithPadding(meta.padding)
         width == Len(buf.decode[1])
         rows  == [t \in 1..meta.decodeTokens |->
                    WindowRow(toks[t], buf.valid[t], width, width, FALSE)]
     IN  buf' = [buf EXCEPT !.decode = Over(@, Slots(rows)),
                            !.decodeLens = Over(@, Lens(rows))]
  /\ meta' = [meta EXCEPT !.sparseIndexCache = None]
  /\ phase' = "built"
  /\ UNCHANGED <<engine, kv, pass, batch, seen>>

EndStep ==
  /\ phase = "done" /\ ~MoreDrafts
  /\ pass' = "target" /\ phase' = "batch" /\ batch' = << >>
  /\ meta' = None /\ seen' = << >>
  /\ UNCHANGED <<engine, kv, buf>>

Next ==
  \/ \E r \in Requests : \/ \E q \in Queries(r) : Admit(r, q)
                         \/ Finish(r)
  \/ \E slack \in 0..1 : Build(slack)
  \/ Forward \/ StartDraft \/ AdvanceDraft \/ UpdateDraft \/ EndStep

Spec == Init /\ [][Next]_vars

-----------------------------------------------------------------------------
(* Properties *)

Read(p)    == phase = "done" /\ pass = p
WindowAt(p) == Larger(p - Window + 1, 0)..p
\* A token reads these positions of its request once each: what the target's
\* pass left up to the accepted ones, what this draft left after them.
ReadsExactly(t, positions) ==
  LET r == batch[Tokens[t].req].r
  IN  /\ seen[t].len = Cardinality(positions)
      /\ seen[t].reads =
           {<<r, p, pass # "target" /\ p >= computed[r]>> : p \in positions}

\* The positions of the image a token is part of.
ImageAround(t) ==
  UNION {span \in {s[1]..s[2] : s \in ImagesOf(batch[Tokens[t].req].r)} :
           Position(Tokens[t]) \in span}

\* Outside images a token reads its own window, wherever its blocks are and
\* whoever had them before.
WindowExact ==
  Read("target") => \A t \in DOMAIN Tokens :
    ImageAround(t) = {} => ReadsExactly(t, WindowAt(Position(Tokens[t])))

\* "image spans [...] are visible bidirectionally": inside one a token reads
\* all of it besides its window.
ImagesWhole ==
  Read("target") => \A t \in DOMAIN Tokens :
    ImageAround(t) # {} =>
      ReadsExactly(t, WindowAt(Position(Tokens[t])) \cup ImageAround(t))

\* A draft token reads its window also after the metadata was updated in place.
DraftsExact ==
  Read("mtp") => \A t \in DOMAIN Tokens :
    ReadsExactly(t, WindowAt(Position(Tokens[t])))

\* A DSpark block reads the window of context before it, one position more than
\* the scheduler's window keeps, and all of itself.
BlocksWhole ==
  Read("dspark") => \A t \in DOMAIN Tokens :
    LET b == batch[Tokens[t].req]
    IN  ReadsExactly(t, Larger(b.from - Window, 0)..(b.from + b.q - 1))

\* A padded token reads nothing, whatever its row held before.
PaddingReadsNothing ==
  phase = "done" => \A t \in DOMAIN seen : t > NumTokens => seen[t].reads = {}

\* The plan takes every prefill once and in order, within the workspace and in
\* no more chunks than of ChunkSize requests each; what a request gathers, by
\* its exact length, fits the width of its chunk.
Layers == {[ratio |-> n, compressed |-> n > 0] : n \in 0..2}
PlanFits ==
  phase = "built" => \A l \in Layers :
    LET plan == ChunkPlan(l)
        ends == [c \in 0..Len(plan) |-> IF c = 0 THEN 0 ELSE plan[c].end]
    IN  /\ ends[Len(plan)] = NumPrefills
        /\ Len(plan) <= Ceil(NumPrefills, ChunkSize)
        /\ \A c \in DOMAIN plan :
             /\ plan[c].start = ends[c - 1]
             /\ (plan[c].end - plan[c].start) * plan[c].width <= WorkspaceArea(l)
             /\ \A k \in plan[c].start..(plan[c].end - 1) :
                  /\ l.compressed =>
                       SeqLen(Prefill(k)) \div l.ratio <= plan[c].compressed
                  /\ plan[c].compressed + GatherLen(k) <= plan[c].width
=============================================================================
