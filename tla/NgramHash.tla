----------------------------- MODULE NgramHash -----------------------------
(***************************************************************************)
(* N-gram history across forward passes (files/engram.py, NgramHashState,  *)
(* _write_hash_cache_kernel, _hash_ids_kernel; files/model_state.py,       *)
(* _gather_lookback_kernel).                                               *)
(*                                                                         *)
(* A request's tokens arrive chunk by chunk.  The hash of position p needs *)
(* the tokens at p-1 .. p-Depth, taken from the chunk itself, then from    *)
(* the runner's lookback window, then (V1 runner only) from a cache with   *)
(* one entry per KV slot.  Around the hash stand the parts of the engine   *)
(* that decide what those sources hold: block allocation, prefix-cache     *)
(* hits, KV loaded from elsewhere, preemption, sliding-window eviction,    *)
(* speculative drafts and KV rebinding.                                    *)
(***************************************************************************)
EXTENDS Integers, Sequences, FiniteSets

CONSTANTS Requests,
          Prompts,       \* prompts a request may come with
          Sampled,       \* token ids sampling and drafting may produce
          TokenMap,      \* token id -> compressed id
          ImageToken,    \* the token id that takes no part in an n-gram
          PadId,         \* compressed id of the padding token
          Depth,         \* lookback depth, max_ngram_size - 1
          BlockSize,
          WindowSize,    \* sliding window of the cache whose slots are keyed
          NumBlocks,     \* blocks of the real KV cache; block 0 is the null block
          ProfileBlocks, \* blocks of the temporary one profiling binds
          Setups,        \* deployments: [slotCache, load : BOOLEAN, preempts : Nat]
          MaxLen, MaxChunk, MaxDrafts, MaxBinds   \* bounds

TokenIds == DOMAIN TokenMap
Blocks   == 1..NumBlocks
NullBlock == 0
DeadId   == -1     \* cache value of a token that takes no part in an n-gram
NoToken  == -1     \* window entry of a position the runner cannot supply

ASSUME TokenAssumption ==
  /\ TokenMap \in [TokenIds -> Nat] /\ TokenIds \subseteq Nat /\ PadId \in Nat
  /\ Prompts \subseteq Seq(TokenIds) \ {<< >>} /\ Sampled \subseteq TokenIds
ASSUME SizeAssumption ==
  /\ Depth \in Nat \ {0} /\ BlockSize \in Nat \ {0} /\ NumBlocks \in Nat
  /\ ProfileBlocks \in Nat /\ WindowSize \in Nat
  /\ {MaxLen, MaxChunk, MaxDrafts, MaxBinds} \subseteq Nat
ASSUME SetupAssumption ==
  Setups \subseteq [slotCache : BOOLEAN, load : BOOLEAN, preempts : Nat]

\* "Lookback depth (3) is far inside the sliding window (128)."
ASSUME WindowAssumption == Depth < WindowSize

VARIABLES
  setup,     \* the deployment: V1 runner, KV connectors, bound on preemptions
  reqs,      \* reqs[r]: the request as scheduler and runner know it
  kept,      \* kept[b]: the token prefix block b is cached for, or << >>
  kv,        \* the bound KV cache: its identity and its number of blocks
  cacheOf,   \* identity of the KV cache the slot cache was made for
  slots,     \* hash_cache: slot -> compressed id or DeadId
  batch,     \* rows of the step being prepared or run
  ngrams,    \* what the hash kernel produced for batch, << >> before
  preempts   \* preemptions so far, to bound them

vars == <<setup, reqs, kept, kv, cacheOf, slots, batch, ngrams, preempts>>

UseSlotCache == setup.slotCache
AllowLoad    == setup.load
MaxPreempts  == setup.preempts

\* phase: waiting -> fresh -> running -> done, back to waiting on preemption
NoRequest == [phase |-> "waiting", ids |-> << >>, prompt |-> 0,
              computed |-> 0, table |-> << >>]

Init ==
  /\ setup \in Setups
  /\ reqs = [r \in Requests |-> NoRequest]
  /\ kept = [b \in Blocks |-> << >>]
  /\ kv = [id |-> 0, blocks |-> 0] /\ cacheOf = 0
  /\ slots = << >> /\ batch = << >> /\ ngrams = << >> /\ preempts = 0

Live(r)    == reqs[r].phase \in {"fresh", "running"}
InTable(r) == {reqs[r].table[i] : i \in DOMAIN reqs[r].table}
FreeBlocks == {b \in Blocks : \A r \in Requests : b \notin InTable(r)}
InBatch(r) == \E i \in DOMAIN batch : batch[i].req = r
Idle       == batch = << >>

Value(token) == IF token = ImageToken THEN DeadId ELSE TokenMap[token]

\* The token prefix that ends with block i, and whether position pos (from 0)
\* still counts for a request with `computed` tokens computed.
PrefixTo(ids, i)        == SubSeq(ids, 1, i * BlockSize)
InWindow(pos, computed) == pos > computed - WindowSize
BlockOut(i, computed)   == ~InWindow(i * BlockSize - 1, computed)

\* Blocks are cached for the prefix they complete once they are full.
Keep(k, ids, table, computed) ==
  [b \in Blocks |->
     LET full == {i \in DOMAIN table : table[i] = b /\ i * BlockSize <= computed}
     IN  IF full = {} THEN k[b] ELSE PrefixTo(ids, CHOOSE i \in full : TRUE)]

-----------------------------------------------------------------------------
(* ENGINE: scheduler, block manager and KV connectors around the hash *)

\* Profiling binds a temporary, smaller KV cache before any request comes.
BindKV(n) ==
  /\ \A r \in Requests : reqs[r] = NoRequest
  /\ kv.id < MaxBinds
  /\ kv' = [id |-> kv.id + 1, blocks |-> n]
  /\ kept' = [b \in Blocks |-> << >>]
  /\ UNCHANGED <<setup, reqs, cacheOf, slots, batch, ngrams, preempts>>

\* Admission, or readmission after preemption.  Cached blocks for the first k
\* blocks are reused, all but those wholly before the window of position
\* k * BlockSize; at least one token is left to compute.
Start(r, prompt, k) ==
  LET ids == IF reqs[r].ids = << >> THEN prompt ELSE reqs[r].ids
  IN
  /\ Idle /\ kv.blocks = NumBlocks + 1
  /\ reqs[r].phase = "waiting"
  /\ k * BlockSize < Len(ids)
  /\ \E table \in [1..k -> Blocks \cup {NullBlock}] :
       /\ \A i \in 1..k :
            IF BlockOut(i, k * BlockSize) THEN table[i] = NullBlock
            ELSE table[i] # NullBlock /\ kept[table[i]] = PrefixTo(ids, i)
       /\ reqs' = [reqs EXCEPT ![r] =
            [phase |-> "fresh", ids |-> ids,
             prompt |-> IF @.ids = << >> THEN Len(prompt) ELSE @.prompt,
             computed |-> k * BlockSize, table |-> table]]
  /\ UNCHANGED <<setup, kept, kv, cacheOf, slots, batch, ngrams, preempts>>

\* A free block, an uncached one first, is appended to a request's table and
\* loses what it was cached for; its slots keep what they hold.
Allocate(r, b) ==
  /\ Idle /\ Live(r) /\ b \in FreeBlocks
  /\ \A c \in FreeBlocks : kept[c] = << >> => kept[b] = << >> /\ b <= c
  /\ Len(reqs[r].table) * BlockSize < Len(reqs[r].ids) + MaxDrafts
  /\ reqs' = [reqs EXCEPT ![r].table = Append(@, b)]
  /\ kept' = [kept EXCEPT ![b] = << >>]
  /\ UNCHANGED <<setup, kv, cacheOf, slots, batch, ngrams, preempts>>

\* A connector (P/D, offload) loads the KV of prompt tokens up to n into the
\* request's own blocks: "Slots are not part of the KV cache", none is written.
Load(r, n) ==
  LET q == reqs[r]
  IN
  /\ AllowLoad /\ Idle /\ q.phase = "fresh"
  /\ q.computed < n /\ n <= q.prompt /\ n < Len(q.ids)
  /\ n <= Len(q.table) * BlockSize
  /\ reqs' = [reqs EXCEPT ![r].phase = "running", ![r].computed = n]
  /\ kept' = Keep(kept, q.ids, q.table, n)
  /\ UNCHANGED <<setup, kv, cacheOf, slots, batch, ngrams, preempts>>

\* A request joins the step with its next n known tokens, and with drafts
\* when those are all it has.
AddRow(r, n, drafts) ==
  LET q == reqs[r]
      chunk == SubSeq(q.ids, q.computed + 1, q.computed + n) \o drafts
  IN
  /\ ngrams = << >> /\ Live(r) /\ ~InBatch(r)
  /\ q.computed + n <= Len(q.ids)
  /\ drafts # << >> => q.computed + n = Len(q.ids)
  /\ q.computed + Len(chunk) <= Len(q.table) * BlockSize
  /\ q.computed + Len(chunk) < MaxLen
  /\ batch' = Append(batch, [req |-> r, start |-> q.computed, ids |-> chunk])
  /\ UNCHANGED <<setup, reqs, kept, kv, cacheOf, slots, ngrams, preempts>>

\* After the step: of the head row's drafts the first `accepted` were right,
\* and a step that reached the end of the known tokens sampled another one.
\* Blocks the window has passed go back, and full blocks become cached.
CommitRow(accepted, token) ==
  LET row == Head(batch)
      q   == reqs[row.req]
      new == row.start + Len(row.ids) - Len(q.ids)       \* drafts in the row
      ends == row.start + Len(row.ids) >= Len(q.ids)
      ids == IF ends
             THEN Append(q.ids \o SubSeq(row.ids, Len(q.ids) - row.start + 1,
                                    Len(q.ids) - row.start + accepted), token)
             ELSE q.ids
      computed == IF ends THEN Len(ids) - 1 ELSE row.start + Len(row.ids)
      table == [i \in DOMAIN q.table |->
                  IF BlockOut(i, computed) THEN NullBlock ELSE q.table[i]]
  IN
  /\ ~Idle /\ (ngrams # << >>)
  /\ accepted <= IF new > 0 THEN new ELSE 0
  /\ reqs' = [reqs EXCEPT ![row.req] =
                [@ EXCEPT !.phase = "running", !.ids = ids,
                          !.computed = computed, !.table = table]]
  /\ kept' = Keep(kept, ids, table, computed)
  /\ batch' = Tail(batch)
  /\ ngrams' = IF Len(batch) = 1 THEN << >> ELSE Tail(ngrams)
  /\ UNCHANGED <<setup, kv, cacheOf, slots, preempts>>

\* Finished and preempted requests return their blocks, still cached.
Finish(r) ==
  /\ Idle /\ reqs[r].phase = "running"
  /\ reqs' = [reqs EXCEPT ![r] = [NoRequest EXCEPT !.phase = "done"]]
  /\ UNCHANGED <<setup, kept, kv, cacheOf, slots, batch, ngrams, preempts>>

Preempt(r) ==
  /\ preempts < MaxPreempts /\ Idle /\ reqs[r].phase = "running"
  /\ preempts' = preempts + 1
  /\ reqs' = [reqs EXCEPT ![r] = [@ EXCEPT !.phase = "waiting",
                                           !.computed = 0, !.table = << >>]]
  /\ UNCHANGED <<setup, kept, kv, cacheOf, slots, batch, ngrams>>

-----------------------------------------------------------------------------
(* NgramHashState *)

SlotsOf(n) == 0 .. (n * BlockSize - 1)

\* Defect, not part of Next: a rebound KV cache is noticed, but the history
\* kept for the one before is not discarded.
CacheNotResized ==
  IF kv.blocks = 0 THEN [of |-> 0, slots |-> << >>]
  ELSE IF ~UseSlotCache THEN [of |-> cacheOf, slots |-> slots]
  ELSE IF cacheOf # 0 THEN [of |-> kv.id, slots |-> slots]
  ELSE [of |-> kv.id, slots |-> [s \in SlotsOf(kv.blocks) |-> 0]]

\* ensure_cache(): the slot cache as the hash is about to find it -- gone while
\* KV is unbound, kept while the same KV stays bound, else made anew of zeros.
EnsuredCache ==
  IF kv.blocks = 0 THEN [of |-> 0, slots |-> << >>]
  ELSE IF ~UseSlotCache \/ cacheOf = kv.id THEN [of |-> cacheOf, slots |-> slots]
  ELSE [of |-> kv.id, slots |-> [s \in SlotsOf(kv.blocks) |-> 0]]

\* A dummy run sizes the cache and writes no slot (slot_mapping is -1).
DummyRun ==
  /\ Idle
  /\ cacheOf' = EnsuredCache.of /\ slots' = EnsuredCache.slots
  /\ UNCHANGED <<setup, reqs, kept, kv, batch, ngrams, preempts>>

\* The slot of a position in a request's block table.
SlotOf(table, pos) ==
  table[pos \div BlockSize + 1] * BlockSize + (pos % BlockSize)

RowPositions(row) == row.start .. (row.start + Len(row.ids) - 1)
TokenAt(row, pos) == row.ids[pos - row.start + 1]
TableOf(row)      == reqs[row.req].table

\* _write_hash_cache_kernel: every token of the batch goes to its slot.
Cells == {c \in (1..Len(batch)) \X (0..MaxLen) : c[2] \in RowPositions(batch[c[1]])}
CellSlot(c) == SlotOf(TableOf(batch[c[1]]), c[2])
CellValue(c) == Value(TokenAt(batch[c[1]], c[2]))

Stored(cache, cells, At(_)) ==
  [s \in DOMAIN cache |->
     LET hits == {c \in cells : At(c) = s}
     IN  IF hits = {} THEN cache[s] ELSE CellValue(CHOOSE c \in hits : TRUE)]

\* Defects, not part of Next: the first token of a chunk is taken for known
\* already; every token is stored one slot early.
FirstNotWritten(cache) ==
  Stored(cache, {c \in Cells : c[2] > batch[c[1]].start}, CellSlot)
WrittenEarly(cache) ==
  LET Early(c) == CellSlot(<<c[1], IF c[2] = 0 THEN 0 ELSE c[2] - 1>>)
  IN  Stored(cache, Cells, Early)

WrittenSlots(cache) == Stored(cache, Cells, CellSlot)

\* Defect, not part of Next: the window is filled from the prompt alone.
PromptWindow(row, col) ==
  LET pos == reqs[row.req].computed - 1 - col
  IN  IF col < Depth /\ pos >= 0 /\ pos < reqs[row.req].prompt
      THEN reqs[row.req].ids[pos + 1] ELSE NoToken

\* The window entry at distance col+1 before the chunk.  V2 gathers it from
\* the device token history; V1 supplies prompt positions only.
WindowToken(row, col) ==
  LET q   == reqs[row.req]
      pos == q.computed - 1 - col
  IN  IF col < Depth /\ pos >= 0 /\ (UseSlotCache => pos < q.prompt)
      THEN q.ids[pos + 1] ELSE NoToken

\* Where the kernel takes the token at `pos` from: chunk, window, slot cache.
Source(row, pos, cache) ==
  LET window == WindowToken(row, row.start - 1 - pos)
      slot   == SlotOf(TableOf(row), IF pos < 0 THEN 0 ELSE pos)
  IN  IF pos >= row.start THEN Value(TokenAt(row, pos))
      ELSE IF window # NoToken THEN Value(window)
      ELSE IF ~UseSlotCache THEN PadId
      ELSE cache[IF slot \in DOMAIN cache THEN slot ELSE Cardinality(DOMAIN cache) - 1]

\* The n-gram values of a position: shift s contributes its source unless a
\* dead token or the start of the text lies between.
NgramValues(row, pos, cache) ==
  [s \in 0..Depth |->
     IF \E j \in 0..s : pos - j < 0 \/ Source(row, pos - j, cache) = DeadId
     THEN PadId ELSE Source(row, pos - s, cache)]

\* NgramHashState.forward: write the slots (V1), then hash.
Forward ==
  LET cache   == EnsuredCache
      written == IF UseSlotCache THEN WrittenSlots(cache.slots) ELSE cache.slots
  IN
  /\ ~Idle /\ ngrams = << >>
  /\ cacheOf' = cache.of
  /\ slots' = written
  /\ ngrams' = [i \in 1..Len(batch) |->
                  [p \in RowPositions(batch[i]) |->
                     NgramValues(batch[i], p, written)]]
  /\ UNCHANGED <<setup, reqs, kept, kv, batch, preempts>>

-----------------------------------------------------------------------------

DraftSeqs == UNION {[1..d -> Sampled] : d \in 0..MaxDrafts}

EngineStep ==
  \/ \E n \in {0, ProfileBlocks, NumBlocks + 1} : BindKV(n)
  \/ \E token \in Sampled, accepted \in 0..MaxDrafts : CommitRow(accepted, token)
  \/ \E r \in Requests :
       \/ \E prompt \in Prompts, k \in 0..NumBlocks : Start(r, prompt, k)
       \/ \E b \in Blocks : Allocate(r, b)
       \/ \E n \in 1..MaxLen : Load(r, n)
       \/ \E n \in 1..MaxChunk, drafts \in DraftSeqs : AddRow(r, n, drafts)
       \/ Finish(r)
       \/ Preempt(r)

Next == EngineStep \/ DummyRun \/ Forward

Spec == Init /\ [][Next]_vars
-----------------------------------------------------------------------------

Values == {TokenMap[t] : t \in TokenIds} \cup {DeadId, 0}
Request == [phase : {"waiting", "fresh", "running", "done"},
            ids : Seq(TokenIds), prompt : Nat, computed : Nat,
            table : Seq(Blocks \cup {NullBlock})]

\* Requests, cache and batch keep their shape: no more is computed than there
\* are tokens, and the slot cache is as large as the KV cache it was made for.
TypeOK ==
  /\ setup \in Setups
  /\ reqs \in [Requests -> Request]
  /\ \A r \in Requests : reqs[r].computed <= Len(reqs[r].ids)
  /\ kept \in [Blocks -> Seq(TokenIds)]
  /\ kv.id \in 0..MaxBinds /\ kv.blocks \in {0, ProfileBlocks, NumBlocks + 1}
  /\ cacheOf \in 0..kv.id
  /\ DOMAIN slots \in {SlotsOf(n) : n \in {0, ProfileBlocks, NumBlocks + 1}}
  /\ \A s \in DOMAIN slots : slots[s] \in Values
  /\ UseSlotCache /\ cacheOf = kv.id => DOMAIN slots = SlotsOf(kv.blocks)
  /\ batch \in Seq([req : Requests, start : Nat, ids : Seq(TokenIds)])
  /\ Len(ngrams) \in {0, Len(batch)} /\ preempts \in 0..MaxPreempts

\* What the hash of a position is defined over, read off the whole text.
Text(row) == SubSeq(reqs[row.req].ids, 1, row.start) \o row.ids
Due(row, pos) ==
  [s \in 0..Depth |->
     IF \E j \in 0..s : pos - j < 0 \/ Text(row)[pos - j + 1] = ImageToken
     THEN PadId ELSE TokenMap[Text(row)[pos - s + 1]]]

\* Every n-gram hashed is the one of the request's own text, whichever of the
\* three sources supplied it: "lookbacks read back exactly what the owning
\* request wrote" (engram.py:19-27), across chunks, rejected drafts, cached,
\* loaded and evicted blocks, preemption and a rebound KV cache.
NgramsMatchHistory ==
  ngrams # << >> =>
    \A i \in 1..Len(batch) : \A p \in RowPositions(batch[i]) :
      ngrams[i][p] = Due(batch[i], p)

\* V1: what lies in the slots somebody will look back at.  Between steps the
\* slots of the generated tokens a request can still look back at are its own
\* blocks' and hold those tokens -- also where rejected drafts of an earlier
\* step were written; and, without connectors, the slots of a block cached for
\* a prefix hold its tokens, so a prefix-cache hit brings its history with it.
SlotsHold ==
  UseSlotCache =>
    /\ Idle => \A r \in Requests : reqs[r].phase = "running" =>
         \A pos \in reqs[r].prompt .. (reqs[r].computed - 1) :
           pos >= reqs[r].computed - Depth =>
             /\ SlotOf(reqs[r].table, pos) >= BlockSize
             /\ slots[SlotOf(reqs[r].table, pos)] = Value(reqs[r].ids[pos + 1])
    /\ ~AllowLoad => \A b \in Blocks : kept[b] # << >> =>
         \A j \in 1..BlockSize :
           slots[b * BlockSize + j - 1] =
             Value(kept[b][Len(kept[b]) - BlockSize + j])

\* V1: a step never changes a slot of a block other requests may share.
SharedSlotsStable ==
  [][UseSlotCache /\ cacheOf' = cacheOf =>
       \A b \in Blocks : kept[b] # << >> /\ kept'[b] = kept[b] =>
         \A s \in DOMAIN slots :
           s \div BlockSize = b => slots'[s] = slots[s]]_vars
-----------------------------------------------------------------------------
(* The strengthening behind NgramsMatchHistory and SlotsHold *)

BlockAt(table, pos) == table[pos \div BlockSize + 1]

\* What scheduler and block manager keep of a request: room for what it has
\* computed, no block given back that its window still reaches, and none
\* cached before it is full.
RequestInv(r) ==
  LET q == reqs[r]
  IN
  /\ Live(r) => /\ kv.blocks = NumBlocks + 1
                /\ q.computed < Len(q.ids) /\ q.computed <= Len(q.table) * BlockSize
  /\ ~Live(r) => q.table = << >> /\ q.computed = 0
  /\ q.phase = "waiting" /\ UseSlotCache /\ AllowLoad => q.ids = << >>
  /\ \A i \in DOMAIN q.table :
       IF q.table[i] = NullBlock THEN BlockOut(i, q.computed)
       ELSE kept[q.table[i]] # << >> =>
              kept[q.table[i]] = PrefixTo(q.ids, i) /\ i * BlockSize <= q.computed

\* A block with two holders is cached.
Alone ==
  \A r, x \in Requests : \A i \in DOMAIN reqs[r].table, j \in DOMAIN reqs[x].table :
    /\ reqs[r].table[i] = reqs[x].table[j] /\ reqs[r].table[i] # NullBlock
    /\ kept[reqs[r].table[i]] = << >>
    => r = x /\ i = j

RowInv(row) ==
  LET q == reqs[row.req]
      end == row.start + Len(row.ids)
  IN
  /\ Live(row.req) /\ row.start = q.computed /\ row.ids # << >>
  /\ end <= Len(q.table) * BlockSize /\ end <= MaxLen
  /\ \A k \in 1..Len(row.ids) :
       row.start + k <= Len(q.ids) => row.ids[k] = q.ids[row.start + k]

RowsApart == \A i, j \in DOMAIN batch : batch[i].req = batch[j].req => i = j

KeptInv == \A b \in Blocks : kept[b] # << >> => kv.blocks = NumBlocks + 1

\* The cache in use holds a token in a slot.
Holds(slot, token) == cacheOf = kv.id /\ slots[slot] = Value(token)

\* The tokens a V1 request has computed and still has blocks for are in their
\* slots, but for prompt tokens where connectors may have brought their KV.
Held(r) ==
  \A pos \in 0..(reqs[r].computed - 1) :
    (~AllowLoad \/ pos >= reqs[r].prompt) /\ BlockAt(reqs[r].table, pos) # NullBlock
      => Holds(SlotOf(reqs[r].table, pos), reqs[r].ids[pos + 1])
RowHeld(row) ==
  \A pos \in RowPositions(row) : Holds(SlotOf(TableOf(row), pos), TokenAt(row, pos))
KeptHeld ==
  \A b \in Blocks : kept[b] # << >> =>
    \A j \in 1..BlockSize :
      Holds(b * BlockSize + j - 1, kept[b][Len(kept[b]) - BlockSize + j])

SlotInv ==
  UseSlotCache =>
    /\ \A r \in Requests : Held(r)
    /\ ngrams # << >> => \A i \in DOMAIN batch : RowHeld(batch[i])
    /\ ~AllowLoad => KeptHeld

\* What the hash kernel produced has one entry for every row.
NgramsInv == ngrams # << >> => ngrams = [i \in DOMAIN batch |-> ngrams[i]]

IInv == /\ TypeOK /\ KeptInv /\ Alone /\ RowsApart /\ SlotInv
        /\ NgramsInv /\ NgramsMatchHistory
        /\ \A r \in Requests : RequestInv(r)
        /\ \A i \in DOMAIN batch : RowInv(batch[i])
=============================================================================
