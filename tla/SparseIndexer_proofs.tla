------------------------ MODULE SparseIndexer_proofs ------------------------
(* Proofs about the sparse attention layers and the merge of selections      *)
(* under decode context parallelism.                                         *)
(*                                                                           *)
(* SparseLayers: at every moment the streams' work is the rest of each       *)
(* layer's plan, in the plan's order (StreamInv).  So a join that the main   *)
(* stream has passed means that the other stream has done all the plan has   *)
(* before it, and what an operation reads is what its own step and layer     *)
(* wrote (ActInv, CacheInv, GatherInv, RowsInv, CandInv), up to what         *)
(* attention has read (OutInv), which is what the properties speak of.       *)
(*                                                                           *)
(* DcpMerge: the heart is BestOfBest: a position that was not sent was       *)
(* beaten by topk_tokens of its own rank, so the merged set is full without  *)
(* it and no worse.  That the ids sent are positions of the sequence is      *)
(* arithmetic (GlobalIdOfLocal).                                             *)
EXTENDS SparseLayers, DcpMerge, FiniteSetTheorems, NaturalsInduction, WellFoundedInduction, TLAPS

OpNames == {"record", "wait", "qkv", "kvScore", "weights", "insert", "compress",
            "produceK", "fill", "indexQ", "insertCache", "clear", "chunk",
            "decode", "unpack", "attend"}
Op == [on : Streams, op : OpNames, n : Nat, l : Nat, i : Nat, fork : 0..3, at : Nat]

Aux == {"aux0", "aux1"}
EventOf(s) == IF s = "main" THEN 0 ELSE IF s = "aux0" THEN 1 ELSE 2

\* A step small enough for the projections to fork.
Small(n)     == setup.auxStreams /\ HiddenRows(batches[n]) <= Threshold
\* A layer that scores rather than takes everything.
Scoring(n, l) == IsIndexSource(l) /\ ~ShortContext(l, batches[n])

\* Stream s takes part in fork f of layer l, step n; "main" opens it.
Takes(s, n, l, f) ==
  IF f = 1
  THEN /\ Small(n)
       /\ s = "aux0" => IsKVSource(l)
       /\ s = "aux1" => IsIndexSource(l)
  ELSE s # "aux1" /\ IsKVSource(l) /\ setup.auxStreams

\* The operations of a layer in a step.
PlannedSync(o) ==
  /\ o.fork \in 1..3
  /\ \/ o.op = "record" /\ o.i = EventOf(o.on) /\ Takes(o.on, o.n, o.l, o.fork)
     \/ o.op = "wait" /\ o.on \in Aux /\ o.i = 0 /\ Takes(o.on, o.n, o.l, o.fork)
     \/ o.op = "wait" /\ o.on = "main"
        /\ \E s \in Aux : o.i = EventOf(s) /\ Takes(s, o.n, o.l, o.fork)
PlannedWork(o) ==
  /\ o.fork = 0
  /\ o.op = "chunk" \/ o.i = 0
  /\ \/ o.op \in {"qkv", "insert", "attend"} /\ o.on = "main"
     \/ /\ o.op = "kvScore" /\ IsKVSource(o.l)
        /\ o.on = IF Small(o.n) THEN "aux0" ELSE "main"
     \/ /\ o.op = "weights" /\ IsIndexSource(o.l)
        /\ o.on = IF Small(o.n) THEN "aux1" ELSE "main"
     \/ /\ o.op \in {"compress", "insertCache"} /\ IsKVSource(o.l)
        /\ o.on = IF setup.auxStreams THEN "aux0" ELSE "main"
     \/ /\ o.op = "produceK" /\ IsKVSource(o.l) /\ IsIndexSource(o.l) /\ o.on = "main"
     \/ /\ o.op = "fill" /\ o.on = "main"
        /\ IsIndexSource(o.l) /\ ShortContext(o.l, batches[o.n])
     \/ o.op \in {"indexQ", "clear"} /\ o.on = "main" /\ Scoring(o.n, o.l)
     \/ /\ o.op = "chunk" /\ o.on = "main" /\ Scoring(o.n, o.l)
        /\ o.i \in DOMAIN batches[o.n].chunks
     \/ /\ o.op = "decode" /\ o.on = "main" /\ Scoring(o.n, o.l)
        /\ batches[o.n].decodes # << >>
     \/ /\ o.op = "unpack" /\ o.on = "main" /\ Scoring(o.n, o.l)
        /\ RequiresPadding(batches[o.n])
Planned(o) == PlannedSync(o) \/ PlannedWork(o)

\* Its place in the layer's program.
Place(o) ==
  CASE o.op = "record" ->
         20 * o.fork + (IF o.on = "main" THEN 1 ELSE IF o.on = "aux0" THEN 6 ELSE 9)
    [] o.op = "wait"   ->
         20 * o.fork + (IF o.on = "main" THEN 12 + o.i ELSE IF o.on = "aux0" THEN 4 ELSE 7)
    [] o.op = "kvScore" -> IF o.on = "main" THEN 31 ELSE 25
    [] o.op = "weights" -> IF o.on = "main" THEN 32 ELSE 28
    [] o.op = "qkv"         -> 30
    [] o.op = "insert"      -> 42
    [] o.op = "compress"    -> 45
    [] o.op = "produceK"    -> 62
    [] o.op = "fill"        -> 63
    [] o.op = "indexQ"      -> 63
    [] o.op = "insertCache" -> 65
    [] o.op = "clear"       -> 80
    [] o.op = "chunk"       -> 81
    [] o.op = "decode"      -> 82
    [] o.op = "unpack"      -> 83
    [] OTHER                -> 84

LayerBefore(n, l, m, k) == n < m \/ (n = m /\ l < k)
Before(x, y) ==
  \/ LayerBefore(x.n, x.l, y.n, y.l)
  \/ /\ x.n = y.n /\ x.l = y.l
     /\ Place(x) < Place(y) \/ (Place(x) = Place(y) /\ x.i < y.i)
Same(x, y) == /\ x.op = y.op /\ x.n = y.n /\ x.l = y.l
              /\ x.i = y.i /\ x.fork = y.fork

Pend(s) == {queue[s][p] : p \in DOMAIN queue[s]}
Pending(op, n, l) == \E s \in Streams : \E o \in Pend(s) : o.op = op /\ o.n = n /\ o.l = l
PendingAt(op, n, l, i) == \E o \in Pend("main") : o.op = op /\ o.n = n /\ o.l = l /\ o.i = i
Enqueued(n, l) == n \in 1..Step /\ l \in Layers /\ (n < Step \/ l < layer)

\* The layer the main stream is in; the next one when it has run dry.
AtN == IF queue["main"] = << >> THEN Step  ELSE Head(queue["main"]).n
AtL == IF queue["main"] = << >> THEN layer ELSE Head(queue["main"]).l

-----------------------------------------------------------------------------
\* Types of the state; what the host has and the buffers' extents.
Types ==
  /\ setup \in Setups /\ batches \in Seq(Batches) /\ Step \in Nat
  /\ layer \in 1..(Len(setup.ratio) + 1)
  /\ batches = << >> => layer = Len(setup.ratio) + 1
  /\ queue \in [Streams -> Seq(Op)]
  /\ recorded \in [Layers -> [Events -> Nat]] /\ fired \in [Layers -> [Events -> Nat]]
  /\ DOMAIN act = {"qkv", "kvScore", "weights", "latent", "indexQ"}
  /\ DOMAIN swa = Layers /\ DOMAIN comp = Layers /\ DOMAIN indexK = Layers
  /\ DOMAIN topk = 1..MaxRows /\ DOMAIN cand = 1..MaxRows /\ DOMAIN out = Layers

\* Each stream is in the order of the plan,
Ordered ==
  \A s \in Streams : \A p, q \in DOMAIN queue[s] :
    p < q => Before(queue[s][p], queue[s][q])
\* has nothing but what is planned for it,
OnPlan ==
  \A s \in Streams : \A o \in Pend(s) :
    o.on = s /\ Planned(o) /\ Enqueued(o.n, o.l)
\* and has all that is planned from its head on.
Complete ==
  \A s \in Streams : \A x \in Pend(s) : \A y \in Op :
    y.on = s /\ Planned(y) /\ Enqueued(y.n, y.l) /\ Before(x, y)
      => \E z \in Pend(s) : Same(y, z)
\* A fork the main stream has yet to open has yet to be entered,
Forked ==
  \A r \in Pend("main") : r.op = "record" =>
    \A s \in Aux : Takes(s, r.n, r.l, r.fork) =>
      \E w \in Pend(s) : w.op = "wait" /\ w.n = r.n /\ w.l = r.l /\ w.fork = r.fork
\* and one that a stream has yet to leave has yet to be joined.
Joined ==
  \A s \in Aux : \A r \in Pend(s) : r.op = "record" =>
    \E w \in Pend("main") : /\ w.op = "wait" /\ w.n = r.n /\ w.l = r.l
                            /\ w.fork = r.fork /\ w.i = r.i
\* Records still to come are counted above those that have fired, in order,
Counted ==
  /\ \A l \in Layers : \A e \in Events : fired[l][e] <= recorded[l][e]
  /\ \A s \in Streams : \A r \in Pend(s) :
       r.op = "record" => fired[r.l][r.i] < r.at /\ r.at <= recorded[r.l][r.i]
  /\ \A s \in Streams : \A x, y \in Pend(s) :
       /\ x.op = "record" /\ y.op = "record" /\ x.l = y.l /\ x.i = y.i /\ Before(x, y)
       => x.at < y.at
\* and a wait has the count of the record of its own fork.
Matched ==
  \A s, t \in Streams : \A r \in Pend(s) : \A w \in Pend(t) :
    /\ r.op = "record" /\ w.op = "wait"
    /\ r.n = w.n /\ r.l = w.l /\ r.fork = w.fork /\ r.i = w.i
    => r.at = w.at
StreamInv == /\ Ordered /\ OnPlan /\ Complete /\ Forked /\ Joined /\ Counted /\ Matched

\* Once the writer of its layer has run, a reader finds what it wrote.
Fed(readers, writer, cell) ==
  \A s \in Streams : \A c \in Pend(s) :
    c.op \in readers /\ ~Pending(writer, c.n, c.l) => act[cell] = <<c.n, c.l>>
ActInv ==
  /\ Fed({"insert"}, "qkv", "qkv")
  /\ Fed({"compress"}, "kvScore", "kvScore")
  /\ Fed({"insertCache", "produceK"}, "compress", "latent")
  /\ Fed({"indexQ"}, "weights", "weights")
  /\ Fed({"chunk", "decode"}, "indexQ", "indexQ")

\* So does what comes after a cache's writer in the main stream's layer.
Written(cache, writer, l) ==
  Enqueued(AtN, l) /\ ~Pending(writer, AtN, l) => cache[l] = <<AtN, l>>
CacheInv ==
  \A l \in Layers :
    /\ Written(swa, "insert", l)
    /\ IsKVSource(l) => Written(indexK, "produceK", l) /\ Written(comp, "insertCache", l)

\* Between the chunks of a layer the workspace is that of the last one's group.
GatherInv ==
  \A c \in Pend("main") :
    /\ c.op = "chunk" /\ c.i > 1 /\ ~PendingAt("chunk", c.n, c.l, c.i - 1)
    /\ CompressRatio(c.l) > 0
    => ws = [k |-> <<c.n, KVSource(c.l)>>, group |-> batches[c.n].chunks[c.i - 1].group]

\* Decodes of different lengths come without a prefill.
Whole(b) == RequiresPadding(b) => b.prefill = 0
UnevenAlone == \A b \in Batches : Whole(b)

\* The selection layer x makes in step n for token t.
GoodRow(row, n, x, t) ==
  IF ShortContext(x, batches[n]) THEN row = Everything(<<n, t>>, x)
  ELSE /\ row.tok = <<n, t>> /\ row.k = <<n, KVSource(x)>>
       /\ row.m = IF UsesCandidates(x) THEN <<n, t>> ELSE None
       /\ ~RequiresPadding(batches[n]) => row.q = <<n, x>> /\ row.w = t
InChunk(b, i) == b.chunks[i].first..b.chunks[i].last

\* x: the source of the layer the main stream is in.
RowsOf(n, x) ==
  LET b == batches[n] IN
  /\ ShortContext(x, b) /\ ~PendingAt("fill", n, x, 0) =>
       \A t \in 1..NumTokens(b) : GoodRow(topk[t], n, x, t)
  /\ ~ShortContext(x, b) =>
     /\ \A i \in DOMAIN b.chunks : ~PendingAt("chunk", n, x, i) =>
          \A t \in InChunk(b, i) : GoodRow(topk[t], n, x, t)
     /\ ~RequiresPadding(b) /\ ~PendingAt("decode", n, x, 0) =>
          \A t \in 1..DecodeTokens(b) : GoodRow(topk[t], n, x, t)
     /\ RequiresPadding(b) /\ ~PendingAt("decode", n, x, 0) /\ PendingAt("unpack", n, x, 0) =>
          \A r \in 1..Slots(b) : InSlot(b, r) # 0 => GoodRow(topk[r], n, x, InSlot(b, r))
     /\ RequiresPadding(b) /\ ~PendingAt("unpack", n, x, 0) =>
          \A t \in 1..DecodeTokens(b) : GoodRow(topk[t], n, x, t)
IsSourceOf(x, l) == x \in setup.indexSources /\ x <= l /\ \A y \in setup.indexSources : y <= l => y <= x
\* Rows selected by the source of the layer the main stream is in stay.
RowsInv ==
  \A n \in 1..Step : \A x \in Layers :
    /\ n = AtN /\ IsSourceOf(x, AtL) /\ CompressRatio(x) > 0
    /\ Enqueued(n, x) /\ Whole(batches[n])
    => RowsOf(n, x)

\* Candidate blocks of the rows that layer x has scored in step n.
CandsOf(n, x) ==
  LET b == batches[n] IN
  /\ \A i \in DOMAIN b.chunks : ~PendingAt("chunk", n, x, i) =>
       \A t \in InChunk(b, i) : cand[t] = <<n, t>>
  /\ ~PendingAt("decode", n, x, 0) =>
       \A r \in 1..Slots(b) : InSlot(b, r) # 0 => cand[r] = <<n, InSlot(b, r)>>
\* So do the candidate blocks, in every layer after their source.
CandInv ==
  \A n \in 1..Step : \A x \in Layers :
    /\ n = AtN /\ x = setup.candidateSource /\ CompressRatio(x) > 0
    /\ Enqueued(n, x) /\ Whole(batches[n]) /\ ~ShortContext(x, batches[n])
    => CandsOf(n, x)

\* What attention has read, for the properties to speak of.
OutInv ==
  \A l \in Layers : Attended(l) =>
    /\ out[l].n \in 1..Step
    /\ out[l].swa = <<out[l].n, l>>
    /\ CompressRatio(l) > 0 =>
         /\ out[l].comp = <<out[l].n, KVSource(l)>>
         /\ DOMAIN out[l].rows = 1..NumTokens(batches[out[l].n])
         /\ Whole(batches[out[l].n]) =>
              \A t \in 1..NumTokens(batches[out[l].n]) :
                GoodRow(out[l].rows[t], out[l].n, IndexSource(l), t)

\* The inductive invariant.
IInv == /\ Types /\ StreamInv
        /\ ActInv /\ CacheInv /\ GatherInv /\ RowsInv /\ CandInv /\ OutInv
-----------------------------------------------------------------------------
(* Orders *)

LEMMA PlaceNat ==
  ASSUME NEW o \in Op
  PROVE  Place(o) \in Nat /\ o.n \in Nat /\ o.l \in Nat /\ o.i \in Nat
  BY DEF Place, Op

\* Before is a strict order.
LEMMA BeforeOrder ==
  ASSUME NEW x \in Op, NEW y \in Op, NEW z \in Op
  PROVE  /\ ~Before(x, x)
         /\ Before(x, y) => ~Before(y, x) /\ x # y
         /\ Before(x, y) /\ Before(y, z) => Before(x, z)
<1>1. /\ Place(x) \in Nat /\ x.n \in Nat /\ x.l \in Nat /\ x.i \in Nat
      /\ Place(y) \in Nat /\ y.n \in Nat /\ y.l \in Nat /\ y.i \in Nat
      /\ Place(z) \in Nat /\ z.n \in Nat /\ z.l \in Nat /\ z.i \in Nat
  BY PlaceNat
<1>. QED
  BY <1>1 DEF Before, LayerBefore

\* What a stream runs is the first of what it has.
Pops(s) ==
  /\ queue[s] # << >> /\ queue' = [queue EXCEPT ![s] = Tail(@)]
  /\ UNCHANGED <<host, recorded>>
  /\ fired' = IF Cur(s).op = "record"
              THEN [fired EXCEPT ![Cur(s).l][Cur(s).i] = @ + 1] ELSE fired
  /\ Cur(s).op = "wait" => fired[Cur(s).l][Cur(s).i] >= Cur(s).at

\* What is at the head of a stream comes before all else it has.
LEMMA HeadFirst ==
  ASSUME NEW s \in Streams, Types, Ordered, queue[s] # << >>
  PROVE  /\ Cur(s) \in Pend(s) /\ Cur(s) \in Op
         /\ \A x \in Pend(s) : x \in Op /\ (x = Cur(s) \/ Before(Cur(s), x))
<1>1. queue[s] \in Seq(Op)
  BY DEF Types
<1>2. Len(queue[s]) >= 1 /\ Cur(s) = queue[s][1] /\ 1 \in DOMAIN queue[s]
  BY <1>1 DEF Cur
<1>3. \A p \in DOMAIN queue[s] : queue[s][p] \in Op /\ (p = 1 \/ 1 < p)
  BY <1>1
<1>. QED
  BY <1>2, <1>3 DEF Pend, Ordered

\* Taking the head leaves the rest as it was, still in order.
LEMMA PopQueue ==
  ASSUME NEW s \in Streams, Types, Ordered, queue[s] # << >>,
         queue' = [queue EXCEPT ![s] = Tail(@)]
  PROVE  /\ Pend(s)' = Pend(s) \ {Cur(s)}
         /\ \A t \in Streams : t # s => Pend(t)' = Pend(t)
         /\ \A t \in Streams : Pend(t)' \subseteq Pend(t)
         /\ Ordered' /\ queue' \in [Streams -> Seq(Op)]
         /\ queue'[s] = Tail(queue[s]) /\ \A t \in Streams : t # s => queue'[t] = queue[t]
<1>1. queue \in [Streams -> Seq(Op)] /\ queue[s] \in Seq(Op)
  BY DEF Types
<1>2. /\ queue'[s] = Tail(queue[s]) /\ \A t \in Streams : t # s => queue'[t] = queue[t]
      /\ queue' \in [Streams -> Seq(Op)]
  BY <1>1
<1>3. /\ Len(queue[s]) \in Nat /\ Len(queue[s]) >= 1 /\ DOMAIN queue[s] = 1..Len(queue[s])
      /\ Cur(s) = queue[s][1]
      /\ DOMAIN Tail(queue[s]) = 1..(Len(queue[s]) - 1)
      /\ \A p \in 1..(Len(queue[s]) - 1) : Tail(queue[s])[p] = queue[s][p + 1]
  BY <1>1 DEF Cur
<1>4. Pend(s)' = {queue[s][p + 1] : p \in 1..(Len(queue[s]) - 1)}
  <2>1. Pend(s)' = {Tail(queue[s])[p] : p \in 1..(Len(queue[s]) - 1)}
    BY <1>2, <1>3, Zenon DEF Pend
  <2>. QED
    BY <1>3, <2>1
<1>5. \A p \in 1..Len(queue[s]) : queue[s][p] = Cur(s) => p = 1
  <2>1. \A p \in 1..Len(queue[s]) : p # 1 => Before(Cur(s), queue[s][p]) /\ queue[s][p] \in Op
    BY <1>1, <1>3 DEF Ordered
  <2>2. Cur(s) \in Op
    BY HeadFirst
  <2>. QED
    BY <2>1, <2>2, BeforeOrder
<1>6. Pend(s)' = Pend(s) \ {Cur(s)}
  <2>1. ASSUME NEW x \in Pend(s)' PROVE x \in Pend(s) \ {Cur(s)}
    <3>1. PICK p \in 1..(Len(queue[s]) - 1) : x = queue[s][p + 1]
      BY <1>4, <2>1
    <3>2. p + 1 \in 1..Len(queue[s]) /\ p + 1 # 1
      BY <1>3
    <3>. QED
      BY <1>3, <1>5, <3>1, <3>2 DEF Pend
  <2>2. ASSUME NEW x \in Pend(s) \ {Cur(s)} PROVE x \in Pend(s)'
    <3>1. PICK p \in 1..Len(queue[s]) : x = queue[s][p]
      BY <1>3 DEF Pend
    <3>2. p # 1
      BY <1>3, <2>2, <3>1
    <3>3. p - 1 \in 1..(Len(queue[s]) - 1) /\ (p - 1) + 1 = p
      BY <1>3, <3>2
    <3>. QED
      BY <1>4, <3>1, <3>3
  <2>. QED
    BY <2>1, <2>2
<1>7. \A t \in Streams : t # s => Pend(t)' = Pend(t)
  BY <1>2 DEF Pend
<1>8. Ordered'
  <2>. SUFFICES ASSUME NEW t \in Streams, NEW p \in DOMAIN queue'[t], NEW q \in DOMAIN queue'[t],
                       p < q
                PROVE  Before(queue'[t][p], queue'[t][q])
    BY DEF Ordered, Before, LayerBefore, Place
  <2>1. CASE t # s
    BY <1>2, <2>1 DEF Ordered
  <2>2. CASE t = s
    <3>1. /\ p + 1 \in DOMAIN queue[s] /\ q + 1 \in DOMAIN queue[s] /\ p + 1 < q + 1
          /\ queue'[t][p] = queue[s][p + 1] /\ queue'[t][q] = queue[s][q + 1]
      BY <1>2, <1>3, <2>2
    <3>. QED
      BY <3>1 DEF Ordered
  <2>. QED
    BY <2>1, <2>2
<1>. QED
  BY <1>2, <1>6, <1>7, <1>8

-----------------------------------------------------------------------------
(* Where the streams are *)

\* The fork an operation of an auxiliary stream belongs to.
ForkOf(o) == IF o.op \in {"record", "wait"} THEN o.fork
             ELSE IF o.op \in {"kvScore", "weights"} THEN 1
             ELSE IF o.op = "compress" THEN 2 ELSE 3

\* An auxiliary stream works inside a fork it takes part in.
LEMMA AuxFork ==
  ASSUME NEW o \in Op, o.on \in Aux, Planned(o)
  PROVE  /\ ForkOf(o) \in 1..3 /\ Takes(o.on, o.n, o.l, ForkOf(o))
         /\ Takes("main", o.n, o.l, ForkOf(o))
  BY DEF Op, Aux, Planned, PlannedSync, PlannedWork, Takes, ForkOf, Small

\* Records and waits, as planned.
Rec(s, n, l, f) == [on |-> s, op |-> "record", n |-> n, l |-> l, i |-> EventOf(s),
                    fork |-> f, at |-> 0]

\* A stream that takes part in a fork ends it with a record.
LEMMA RecPlanned ==
  ASSUME NEW s \in Streams, NEW n \in Nat, NEW l \in Nat, NEW f \in 1..3, Takes(s, n, l, f)
  PROVE  /\ Rec(s, n, l, f) \in Op /\ Planned(Rec(s, n, l, f))
         /\ Rec(s, n, l, f).on = s /\ Rec(s, n, l, f).n = n /\ Rec(s, n, l, f).l = l
         /\ Rec(s, n, l, f).op = "record" /\ Rec(s, n, l, f).fork = f
         /\ Rec(s, n, l, f).i = EventOf(s)
  BY DEF Rec, Op, OpNames, Streams, EventOf, Planned, PlannedSync

\* What an auxiliary stream has left of a fork ends in its record, and the main
\* stream still has to wait for that.
LEMMA AuxJoin ==
  ASSUME Types, StreamInv, NEW s \in Aux, NEW o \in Pend(s)
  PROVE  /\ \E z \in Pend(s) : z.op = "record" /\ z.n = o.n /\ z.l = o.l
                               /\ z.fork = ForkOf(o) /\ z.i = EventOf(s)
         /\ \E w \in Pend("main") : w.op = "wait" /\ w.n = o.n /\ w.l = o.l
                               /\ w.fork = ForkOf(o) /\ w.i = EventOf(s)
<1>1. s \in Streams /\ queue[s] # << >> /\ o \in Op
  BY DEF Pend, Aux, Streams, Types
<1>2. o.on = s /\ Planned(o) /\ Enqueued(o.n, o.l)
  BY <1>1 DEF StreamInv, OnPlan
<1> DEFINE f == ForkOf(o)
           y == Rec(s, o.n, o.l, f)
<1>3. f \in 1..3 /\ Takes(s, o.n, o.l, f) /\ o.n \in Nat /\ o.l \in Nat
  BY <1>1, <1>2, AuxFork, PlaceNat
<1>4. /\ y \in Op /\ Planned(y) /\ y.on = s /\ y.n = o.n /\ y.l = o.l
      /\ y.op = "record" /\ y.fork = f /\ y.i = EventOf(s)
  BY <1>1, <1>3, RecPlanned
<1> HIDE DEF y
<1>5. \E z \in Pend(s) : z.op = "record" /\ z.n = o.n /\ z.l = o.l
                         /\ z.fork = f /\ z.i = EventOf(s)
  <2>1. CASE o.op = "record"
    <3>1. f = o.fork
      BY <2>1 DEF ForkOf
    <3>2. o.i = EventOf(s)
      BY <1>2, <2>1 DEF Planned, PlannedSync, PlannedWork
    <3>. QED
      BY <2>1, <3>1, <3>2
  <2>2. CASE o.op # "record"
    <3>1. Place(o) < Place(y)
      BY <1>1, <1>2, <1>4, <2>2
         DEF Place, Planned, PlannedSync, PlannedWork, ForkOf, Aux, Op, Takes
    <3>2. Before(o, y)
      BY <1>4, <3>1 DEF Before
    <3>3. PICK z \in Pend(s) : Same(y, z)
      BY <1>1, <1>2, <1>4, <3>2 DEF StreamInv, Complete
    <3>. QED
      BY <1>4, <3>3 DEF Same
  <2>. QED
    BY <2>1, <2>2
<1>6. PICK z \in Pend(s) : z.op = "record" /\ z.n = o.n /\ z.l = o.l
                           /\ z.fork = f /\ z.i = EventOf(s)
  BY <1>5
<1>7. PICK w \in Pend("main") : /\ w.op = "wait" /\ w.n = z.n /\ w.l = z.l
                                /\ w.fork = z.fork /\ w.i = z.i
  BY <1>6 DEF StreamInv, Joined
<1>. QED
  BY <1>5, <1>6, <1>7

\* Nothing is left of the layers behind the main stream.
LEMMA PendingFrom ==
  ASSUME Types, StreamInv, NEW s \in Streams, NEW o \in Pend(s)
  PROVE  /\ queue["main"] # << >> /\ AtN \in Nat /\ AtL \in Nat /\ o \in Op
         /\ ~LayerBefore(o.n, o.l, AtN, AtL)
<1>1. ASSUME NEW m \in Pend("main")
      PROVE  /\ queue["main"] # << >> /\ AtN \in Nat /\ AtL \in Nat
             /\ ~LayerBefore(m.n, m.l, AtN, AtL)
  <2>1. queue["main"] # << >> /\ "main" \in Streams
    BY <1>1 DEF Pend, Streams
  <2>2. /\ Cur("main") \in Op /\ m \in Op
        /\ m = Cur("main") \/ Before(Cur("main"), m)
    BY <1>1, <2>1, HeadFirst DEF StreamInv
  <2>3. AtN = Cur("main").n /\ AtL = Cur("main").l
    BY <2>1 DEF AtN, AtL, Cur
  <2>. QED
    BY <2>1, <2>2, <2>3, PlaceNat DEF Before, LayerBefore
<1>2. CASE s = "main"
  <2>1. queue["main"] \in Seq(Op)
    BY DEF Types, Streams
  <2>2. o \in Op
    BY <1>2, <2>1 DEF Pend
  <2>. QED
    BY <1>1, <1>2, <2>2
<1>3. CASE s \in Aux
  <2>1. PICK w \in Pend("main") : w.n = o.n /\ w.l = o.l
    BY <1>3, AuxJoin
  <2>2. o \in Op
    BY DEF Types, Pend
  <2>. QED
    BY <1>1, <2>1, <2>2
<1>. QED
  BY <1>2, <1>3 DEF Streams, Aux

\* An operation of an auxiliary stream runs while the main stream is in its
\* layer: its fork has begun and has not been joined.
LEMMA Where ==
  ASSUME Types, StreamInv, NEW s \in Streams, queue[s] # << >>,
         s = "main" \/ Cur(s).op # "wait"
  PROVE  Cur(s).n = AtN /\ Cur(s).l = AtL
<1> DEFINE o == Cur(s)
<1>1. o \in Pend(s) /\ o \in Op /\ \A x \in Pend(s) : x \in Op /\ (x = o \/ Before(o, x))
  BY HeadFirst DEF StreamInv
<1>2. /\ queue["main"] # << >> /\ AtN \in Nat /\ AtL \in Nat
      /\ ~LayerBefore(o.n, o.l, AtN, AtL)
  BY <1>1, PendingFrom
<1>3. CASE s = "main"
  BY <1>2, <1>3 DEF AtN, AtL, Cur
<1>4. CASE s \in Aux /\ o.op # "wait"
  <2>. SUFFICES ASSUME LayerBefore(AtN, AtL, o.n, o.l) PROVE FALSE
    BY <1>1, <1>2, PlaceNat DEF LayerBefore
  <2>1. o.on = s /\ Planned(o) /\ Enqueued(o.n, o.l)
    BY <1>1 DEF StreamInv, OnPlan
  <2> DEFINE f == ForkOf(o)
             y == Rec("main", o.n, o.l, f)
  <2>2. f \in 1..3 /\ Takes(s, o.n, o.l, f) /\ Takes("main", o.n, o.l, f)
    BY <1>1, <1>4, <2>1, AuxFork
  <2>3. /\ y \in Op /\ Planned(y) /\ y.on = "main" /\ y.n = o.n /\ y.l = o.l
        /\ y.op = "record" /\ y.fork = f
    BY <1>1, <2>2, RecPlanned, PlaceNat DEF Streams
  <2> HIDE DEF y
  <2>4. "main" \in Streams /\ Cur("main") \in Pend("main")
    BY <1>2, HeadFirst DEF Streams, StreamInv
  <2>5. Before(Cur("main"), y)
    BY <1>2, <2>3 DEF Before, AtN, AtL, Cur
  <2>6. PICK z \in Pend("main") : Same(y, z)
    BY <2>1, <2>3, <2>4, <2>5 DEF StreamInv, Complete
  <2>7. PICK w \in Pend(s) : w.op = "wait" /\ w.n = o.n /\ w.l = o.l /\ w.fork = f
    BY <1>4, <2>2, <2>3, <2>6 DEF StreamInv, Forked, Same
  <2>8. Before(o, w) /\ w \in Op /\ w.on = s /\ Planned(w)
    BY <1>1, <1>4, <2>7 DEF StreamInv, OnPlan
  <2>9. Place(w) < Place(o)
    BY <1>1, <1>4, <2>1, <2>7, <2>8
       DEF Place, Planned, PlannedSync, PlannedWork, ForkOf, Aux, Op, Takes
  <2>. QED
    BY <1>1, <2>7, <2>8, <2>9, PlaceNat DEF Before, LayerBefore
<1>. QED
  BY <1>3, <1>4 DEF Streams, Aux

\* All of the layers ahead of the main stream is left, as far as it is enqueued.
LEMMA Later ==
  ASSUME Types, StreamInv, NEW y \in Op, Planned(y), Enqueued(y.n, y.l),
         LayerBefore(AtN, AtL, y.n, y.l)
  PROVE  \E z \in Pend(y.on) : Same(y, z)
<1>1. y.on \in Streams /\ y.n \in Nat /\ y.l \in Nat
  BY DEF Op
<1>2. queue["main"] # << >>
  BY <1>1 DEF AtN, AtL, Enqueued, LayerBefore, Types, Layers
<1>3. "main" \in Streams /\ Cur("main") \in Pend("main")
  BY <1>2, HeadFirst DEF Streams, StreamInv
<1>4. \A x \in Op : x.n = y.n /\ x.l = y.l => Before(Cur("main"), x)
  BY <1>2 DEF Before, AtN, AtL, Cur
<1>5. CASE y.on = "main"
  BY <1>3, <1>4, <1>5 DEF StreamInv, Complete
<1>6. CASE y.on \in Aux
  <2> DEFINE f == ForkOf(y)
             r == Rec("main", y.n, y.l, f)
  <2>1. f \in 1..3 /\ Takes(y.on, y.n, y.l, f) /\ Takes("main", y.n, y.l, f)
    BY <1>6, AuxFork
  <2>2. /\ r \in Op /\ Planned(r) /\ r.on = "main" /\ r.n = y.n /\ r.l = y.l
        /\ r.op = "record" /\ r.fork = f
    BY <1>1, <2>1, RecPlanned DEF Streams
  <2> HIDE DEF r
  <2>3. PICK z \in Pend("main") : Same(r, z)
    BY <1>3, <1>4, <2>2 DEF StreamInv, Complete
  <2>4. PICK w \in Pend(y.on) : w.op = "wait" /\ w.n = y.n /\ w.l = y.l /\ w.fork = f
    BY <1>6, <2>1, <2>2, <2>3 DEF StreamInv, Forked, Same
  <2>5. w \in Op /\ w.on = y.on /\ Planned(w)
    BY <1>1, <2>4, PendingFrom DEF StreamInv, OnPlan
  <2>6. CASE y.op = "wait"
    <3>1. y.fork = f /\ y.i = 0 /\ w.i = 0
      BY <1>6, <2>4, <2>5, <2>6 DEF ForkOf, Planned, PlannedSync, PlannedWork, Aux
    <3>. QED
      BY <2>4, <2>6, <3>1 DEF Same
  <2>7. CASE y.op # "wait"
    <3>1. Place(w) < Place(y)
      BY <1>6, <2>4, <2>5, <2>7
         DEF Place, Planned, PlannedSync, PlannedWork, ForkOf, Aux, Op, Takes
    <3>2. Before(w, y)
      BY <2>4, <3>1 DEF Before
    <3>. QED
      BY <1>1, <2>4, <3>2 DEF StreamInv, Complete
  <2>. QED
    BY <2>6, <2>7
<1>. QED
  BY <1>1, <1>5, <1>6 DEF Streams, Aux

\* The operations a cell is written by are planned for every layer, or for the
\* sources.
WriterPlanned(op, l) ==
  \/ op \in {"qkv", "insert"}
  \/ op \in {"kvScore", "compress", "insertCache"} /\ IsKVSource(l)
  \/ op = "produceK" /\ IsKVSource(l) /\ IsIndexSource(l)
  \/ op = "weights" /\ IsIndexSource(l)

\* The stream a writer is on.
StreamOf(op, n) ==
  CASE op = "kvScore" -> IF Small(n) THEN "aux0" ELSE "main"
    [] op = "weights" -> IF Small(n) THEN "aux1" ELSE "main"
    [] op \in {"compress", "insertCache"} -> IF setup.auxStreams THEN "aux0" ELSE "main"
    [] OTHER -> "main"

Work(op, n, l, i) == [on |-> StreamOf(op, n), op |-> op, n |-> n, l |-> l, i |-> i,
                      fork |-> 0, at |-> 0]

\* What a layer writes is on its plan, at one place of one stream.
LEMMA WorkPlanned ==
  ASSUME NEW n \in Nat, NEW l \in Nat, NEW op \in OpNames, WriterPlanned(op, l)
  PROVE  /\ Work(op, n, l, 0) \in Op /\ Planned(Work(op, n, l, 0))
         /\ Work(op, n, l, 0).op = op /\ Work(op, n, l, 0).n = n
         /\ Work(op, n, l, 0).l = l /\ Work(op, n, l, 0).i = 0
         /\ Work(op, n, l, 0).on = StreamOf(op, n)
  BY DEF Work, Op, OpNames, Streams, StreamOf, Planned, PlannedWork, WriterPlanned

\* Layers ahead of the main stream are untouched by the others.
LEMMA WriterLater ==
  ASSUME Types, StreamInv, NEW n \in Nat, NEW l \in Nat, NEW op \in OpNames,
         WriterPlanned(op, l), Enqueued(n, l), LayerBefore(AtN, AtL, n, l)
  PROVE  Pending(op, n, l)
<1> DEFINE y == Work(op, n, l, 0)
<1>1. y \in Op /\ Planned(y) /\ y.op = op /\ y.n = n /\ y.l = l
  BY WorkPlanned
<1> HIDE DEF y
<1>2. PICK z \in Pend(y.on) : Same(y, z)
  BY <1>1, Later
<1>3. y.on \in Streams
  BY <1>1 DEF Op
<1>. QED
  BY <1>1, <1>2, <1>3 DEF Same, Pending

-----------------------------------------------------------------------------
(* The streams run *)

\* The plan depends on the host alone.
LEMMA PlanKept ==
  ASSUME UNCHANGED host
  PROVE  /\ \A o \in Op : Planned(o)' <=> Planned(o)
         /\ \A n, l : Enqueued(n, l)' <=> Enqueued(n, l)
         /\ \A s \in Streams : \A n, l, f : Takes(s, n, l, f)' <=> Takes(s, n, l, f)
         /\ setup' = setup /\ batches' = batches /\ layer' = layer
         /\ Layers' = Layers /\ Step' = Step
<1>1. setup' = setup /\ batches' = batches /\ layer' = layer
  BY DEF host
<1>2. \A s \in Streams : \A n, l, f : Takes(s, n, l, f)' <=> Takes(s, n, l, f)
  BY <1>1 DEF Takes, Small, IsKVSource, IsIndexSource
<1>3. \A o \in Op : Planned(o)' <=> Planned(o)
  <2>. TAKE o \in Op
  <2>1. PlannedWork(o)' <=> PlannedWork(o)
    BY <1>1 DEF PlannedWork, Small, Scoring, IsKVSource, IsIndexSource, ShortContext,
                CompressRatio
  <2>2. PlannedSync(o)' <=> PlannedSync(o)
    BY <1>1 DEF PlannedSync, Takes, Small, IsKVSource, IsIndexSource
  <2>. QED
    BY <2>1, <2>2 DEF Planned
<1>. QED
  BY <1>1, <1>2, <1>3 DEF Enqueued, Layers, Step

\* Events on the plan are the three of the layer.
LEMMA PlannedInRange ==
  ASSUME NEW o \in Op, Planned(o)
  PROVE  /\ o.op = "record" => o.i = EventOf(o.on) /\ o.i \in Events /\ o.fork \in 1..3
         /\ o.op = "wait" => o.i \in Events /\ o.fork \in 1..3
                             /\ (o.on = "main" => \E s \in Aux : o.i = EventOf(s))
                             /\ (o.on \in Aux => o.i = 0)
  BY DEF Planned, PlannedSync, PlannedWork, Events, EventOf, Op, Streams, Aux

\* Running an operation keeps each stream the rest of its plan.
LEMMA PopKeepsOrder ==
  ASSUME Types, StreamInv, NEW s \in Streams, Pops(s)
  PROVE  Ordered' /\ OnPlan' /\ Complete'
<1>1. /\ Pend(s)' = Pend(s) \ {Cur(s)}
      /\ \A t \in Streams : Pend(t)' \subseteq Pend(t)
      /\ \A t \in Streams : t # s => Pend(t)' = Pend(t)
      /\ Ordered'
  BY PopQueue DEF Pops, StreamInv
<1>2. UNCHANGED host
  BY DEF Pops
<1>3. /\ \A o \in Op : Planned(o)' <=> Planned(o)
      /\ \A n, l : Enqueued(n, l)' <=> Enqueued(n, l)
  BY <1>2, PlanKept
<1>4. \A t \in Streams : \A o \in Pend(t) : o \in Op
  BY PendingFrom
<1>5. OnPlan'
  BY <1>1, <1>3, <1>4 DEF OnPlan, StreamInv
<1>6. Complete'
  <2>. SUFFICES ASSUME NEW t \in Streams, NEW x \in Pend(t)', NEW y \in Op,
                       y.on = t, Planned(y), Enqueued(y.n, y.l), Before(x, y)
                PROVE  \E z \in Pend(t)' : Same(y, z)
    BY <1>3 DEF Complete, Before, LayerBefore, Place, Same
  <2>1. x \in Pend(t) /\ x \in Op
    BY <1>1, <1>4
  <2>2. PICK z \in Pend(t) : Same(y, z)
    BY <2>1 DEF StreamInv, Complete
  <2>3. CASE t # s
    BY <1>1, <2>2, <2>3
  <2>4. CASE t = s
    <3>1. Cur(s) \in Op /\ Before(Cur(s), x)
      <4>1. /\ Cur(s) \in Op
            /\ \A v \in Pend(s) : v \in Op /\ (v = Cur(s) \/ Before(Cur(s), v))
        BY HeadFirst DEF Pops, StreamInv
      <4>. QED
        BY <1>1, <2>1, <2>4, <4>1
    <3>2. Before(Cur(s), y) /\ y # Cur(s)
      BY <2>1, <3>1, BeforeOrder
    <3>3. ASSUME z = Cur(s) PROVE FALSE
      <4>1. Place(z) = Place(y)
        <5>1. z.on = y.on /\ z.op = y.op /\ z.i = y.i /\ z.fork = y.fork
          BY <2>2, <2>4, <3>3 DEF Same, StreamInv, OnPlan
        <5>. QED
          BY <5>1 DEF Place
      <4>. QED
        BY <2>2, <3>1, <3>2, <3>3, <4>1, PlaceNat DEF Same, Before, LayerBefore
    <3>. QED
      BY <1>1, <2>2, <2>4, <3>3
  <2>. QED
    BY <2>3, <2>4
<1>. QED
  BY <1>1, <1>5, <1>6

\* A wait that returns: the record it is for has been executed.
LEMMA WaitOver ==
  ASSUME Types, StreamInv, NEW s \in Streams, Pops(s), Cur(s).op = "wait",
         NEW t \in Streams, NEW r \in Pend(t), r.op = "record",
         r.n = Cur(s).n, r.l = Cur(s).l, r.fork = Cur(s).fork, r.i = Cur(s).i
  PROVE  FALSE
<1>1. Cur(s) \in Pend(s) /\ Cur(s) \in Op
  BY HeadFirst DEF Pops, StreamInv
<1>2. r.at = Cur(s).at
  BY <1>1 DEF StreamInv, Matched
<1>3. fired[r.l][r.i] < r.at
  BY DEF StreamInv, Counted
<1>4. fired[r.l][r.i] >= Cur(s).at
  BY DEF Pops
<1>5. r \in Op /\ Planned(r) /\ Enqueued(r.n, r.l)
  BY PendingFrom DEF StreamInv, OnPlan
<1>6. r.l \in Layers /\ r.i \in Events
  BY <1>5, PlannedInRange DEF Enqueued
<1>7. fired[r.l][r.i] \in Nat /\ r.at \in Nat
  BY <1>5, <1>6 DEF Types, Op
<1>. QED
  BY <1>2, <1>3, <1>4, <1>7

\* A fork opens before it is entered and is left before it is joined.
LEMMA PopKeepsForks ==
  ASSUME Types, StreamInv, NEW s \in Streams, Pops(s)
  PROVE  Forked' /\ Joined'
<1>1. /\ Pend(s)' = Pend(s) \ {Cur(s)}
      /\ \A t \in Streams : Pend(t)' \subseteq Pend(t)
      /\ \A t \in Streams : t # s => Pend(t)' = Pend(t)
  BY PopQueue DEF Pops, StreamInv
<1>2. UNCHANGED host
  BY DEF Pops
<1>3. \A t \in Streams : \A n, l, f : Takes(t, n, l, f)' <=> Takes(t, n, l, f)
  BY <1>2, PlanKept
<1>4. /\ \A t \in Streams : \A o \in Pend(t) : o \in Op /\ Planned(o) /\ o.on = t
      /\ Aux \subseteq Streams /\ "main" \in Streams /\ "main" \notin Aux
  BY PendingFrom DEF StreamInv, OnPlan, Aux, Streams
<1>5. Forked'
  <2>. SUFFICES ASSUME NEW r \in Pend("main")', r.op = "record",
                       NEW t \in Aux, Takes(t, r.n, r.l, r.fork)
                PROVE  \E w \in Pend(t)' : /\ w.op = "wait" /\ w.n = r.n /\ w.l = r.l
                                           /\ w.fork = r.fork
    BY <1>3, <1>4 DEF Forked
  <2>1. r \in Pend("main") /\ t \in Streams
    BY <1>1, <1>4
  <2>2. PICK w \in Pend(t) : w.op = "wait" /\ w.n = r.n /\ w.l = r.l /\ w.fork = r.fork
    BY <2>1 DEF StreamInv, Forked
  <2>3. ASSUME s = t, w = Cur(s) PROVE FALSE
    <3>1. r.i = 0 /\ w.i = 0
      BY <1>4, <2>1, <2>2, PlannedInRange DEF EventOf
    <3>. QED
      BY <1>4, <2>1, <2>2, <2>3, <3>1, WaitOver
  <2>. QED
    BY <1>1, <2>1, <2>2, <2>3
<1>6. Joined'
  <2>. SUFFICES ASSUME NEW t \in Aux, NEW r \in Pend(t)', r.op = "record"
                PROVE  \E w \in Pend("main")' : /\ w.op = "wait" /\ w.n = r.n /\ w.l = r.l
                                                /\ w.fork = r.fork /\ w.i = r.i
    BY DEF Joined
  <2>1. t \in Streams /\ r \in Pend(t)
    BY <1>1, <1>4
  <2>2. PICK w \in Pend("main") : /\ w.op = "wait" /\ w.n = r.n /\ w.l = r.l
                                  /\ w.fork = r.fork /\ w.i = r.i
    BY <2>1 DEF StreamInv, Joined
  <2>3. ASSUME s = "main", w = Cur(s) PROVE FALSE
    BY <2>1, <2>2, <2>3, WaitOver
  <2>. QED
    BY <1>1, <1>4, <2>2, <2>3
<1>. QED
  BY <1>5, <1>6

\* An event fires in the order of its records.
LEMMA PopKeepsCounts ==
  ASSUME Types, StreamInv, NEW s \in Streams, Pops(s)
  PROVE  Counted' /\ Matched' /\ fired' \in [Layers -> [Events -> Nat]]
<1> DEFINE o == Cur(s)
<1>1. /\ Pend(s)' = Pend(s) \ {o}
      /\ \A t \in Streams : Pend(t)' \subseteq Pend(t)
      /\ \A t \in Streams : t # s => Pend(t)' = Pend(t)
  BY PopQueue DEF Pops, StreamInv
<1>2. UNCHANGED host /\ recorded' = recorded /\ Layers' = Layers
  BY PlanKept DEF Pops
<1>3. /\ \A t \in Streams : \A x \in Pend(t) :
           x \in Op /\ Planned(x) /\ x.on = t /\ x.l \in Layers
      /\ o \in Pend(s)
  BY PendingFrom, HeadFirst DEF StreamInv, OnPlan, Enqueued, Pops
<1>4. Matched'
  BY <1>1 DEF Matched, StreamInv
<1>5. CASE o.op # "record"
  <2>1. fired' = fired
    BY <1>5 DEF Pops
  <2>2. Counted'
    BY <1>1, <1>2, <2>1 DEF Counted, StreamInv, Before, LayerBefore, Place
  <2>. QED
    BY <1>4, <2>1, <2>2 DEF Types
<1>6. CASE o.op = "record"
  <2>1. o.l \in Layers /\ o.i \in Events /\ o.i = EventOf(s)
    BY <1>3, <1>6, PlannedInRange
  <2>2. fired' = [fired EXCEPT ![o.l][o.i] = fired[o.l][o.i] + 1]
    BY <1>6 DEF Pops
  <2>3. fired \in [Layers -> [Events -> Nat]] /\ recorded \in [Layers -> [Events -> Nat]]
    BY DEF Types
  <2>4. /\ fired' \in [Layers -> [Events -> Nat]]
        /\ \A l \in Layers, e \in Events :
             fired'[l][e] = IF l = o.l /\ e = o.i THEN fired[l][e] + 1 ELSE fired[l][e]
    BY <2>1, <2>2, <2>3
  <2>5. fired[o.l][o.i] < o.at /\ o.at <= recorded[o.l][o.i] /\ o.at \in Nat
    BY <1>3, <1>6 DEF StreamInv, Counted, Op
  <2>6. \A l \in Layers : \A e \in Events : fired'[l][e] <= recorded[l][e]
    BY <2>1, <2>3, <2>4, <2>5 DEF StreamInv, Counted
  <2>7. ASSUME NEW t \in Streams, NEW r \in Pend(t)', r.op = "record"
        PROVE  fired'[r.l][r.i] < r.at /\ r.at <= recorded[r.l][r.i]
    <3>1. /\ r \in Pend(t) /\ r \in Op /\ r.l \in Layers /\ r.i \in Events
          /\ r.i = EventOf(t) /\ r.at \in Nat
      BY <1>1, <1>3, <2>7, PlannedInRange DEF Op
    <3>2. fired[r.l][r.i] < r.at /\ r.at <= recorded[r.l][r.i]
      BY <2>7, <3>1 DEF StreamInv, Counted
    <3>3. ASSUME r.l = o.l, r.i = o.i PROVE o.at < r.at
      <4>1. t = s
        BY <2>1, <3>1, <3>3 DEF EventOf, Streams
      <4>2. Before(o, r)
        <5>1. \A v \in Pend(s) : v = o \/ Before(o, v)
          BY HeadFirst DEF Pops, StreamInv
        <5>. QED
          BY <1>1, <3>1, <4>1, <5>1
      <4>. QED
        BY <1>3, <1>6, <2>7, <3>1, <3>3, <4>1, <4>2 DEF StreamInv, Counted
    <3>. QED
      BY <2>1, <2>3, <2>4, <2>5, <3>1, <3>2, <3>3
  <2>8. \A t \in Streams : \A x, y \in Pend(t)' :
          /\ x.op = "record" /\ y.op = "record" /\ x.l = y.l /\ x.i = y.i /\ Before(x, y)
          => x.at < y.at
    BY <1>1 DEF StreamInv, Counted
  <2>9. Counted'
    BY <1>2, <2>6, <2>7, <2>8 DEF Counted, Before, LayerBefore, Place
  <2>. QED
    BY <1>2, <1>4, <2>4, <2>9
<1>. QED
  BY <1>5, <1>6

\* Running an operation keeps StreamInv.
LEMMA PopKeepsStreams ==
  ASSUME Types, StreamInv, NEW s \in Streams, Pops(s)
  PROVE  StreamInv'
  BY PopKeepsOrder, PopKeepsForks, PopKeepsCounts DEF StreamInv

-----------------------------------------------------------------------------
(* What an operation does *)

ActEffect(o) ==
  act' = IF o.op \in {"qkv", "kvScore", "weights"} THEN [act EXCEPT ![o.op] = <<o.n, o.l>>]
         ELSE IF o.op = "compress" THEN [act EXCEPT !.latent = act.kvScore]
         ELSE IF o.op = "indexQ" THEN [act EXCEPT !.indexQ = act.weights]
         ELSE act
CacheEffect(o) ==
  /\ swa' = IF o.op = "insert" THEN [swa EXCEPT ![o.l] = act.qkv] ELSE swa
  /\ comp' = IF o.op = "insertCache" THEN [comp EXCEPT ![o.l] = act.latent] ELSE comp
  /\ indexK' = IF o.op = "produceK" THEN [indexK EXCEPT ![o.l] = act.latent] ELSE indexK

ChunkOf(o) == batches[o.n].chunks[o.i]
GatheredBy(o) == IF ChunkOf(o).skipGather THEN ws
                 ELSE [k |-> indexK[KVSource(o.l)], group |-> ChunkOf(o).group]
ChunkRows(o) ==
  [t \in ChunkOf(o).first..ChunkOf(o).last |->
     Scored(o, t, t, IF GatheredBy(o).group = ChunkOf(o).group THEN GatheredBy(o).k ELSE None)]
DecodeRows(o) ==
  [r \in 1..Slots(batches[o.n]) |->
     Scored(o, InSlot(batches[o.n], r), r, indexK[KVSource(o.l)])]
SelectEffect(o) ==
  LET b == batches[o.n] IN
  /\ ws' = IF o.op = "chunk" THEN GatheredBy(o) ELSE ws
  /\ cand' = IF o.op = "chunk" THEN Published(o, ChunkRows(o))
             ELSE IF o.op = "decode" THEN Published(o, DecodeRows(o)) ELSE cand
  /\ o.op \notin {"fill", "clear", "chunk", "decode", "unpack"} => topk' = topk
  /\ o.op = "fill" =>
       topk' = Over(topk, [t \in 1..NumTokens(b) |-> Everything(<<o.n, t>>, o.l)])
  /\ o.op = "clear" => topk' = Over(topk, [r \in 1..HiddenRows(b) |-> NoSelection])
  /\ o.op = "chunk" => topk' = Over(topk, ChunkRows(o))
  /\ o.op = "decode" => topk' = Over(topk, DecodeRows(o))
  /\ o.op = "unpack" =>
       topk' = Over(topk, [t \in 1..DecodeTokens(b) |-> topk[Unpacked(b, t)]])
OutEffect(o) ==
  out' = IF o.op = "attend"
         THEN [out EXCEPT ![o.l] =
                [n |-> o.n, swa |-> swa[o.l],
                 comp |-> IF CompressRatio(o.l) > 0 THEN comp[KVSource(o.l)] ELSE None,
                 rows |-> IF CompressRatio(o.l) > 0
                          THEN [t \in 1..NumTokens(batches[o.n]) |-> topk[t]] ELSE None]]
         ELSE out

\* A step of a stream is the effect of its head on each buffer.
LEMMA StepEffects ==
  ASSUME NEW s \in Streams, GpuStep(s)
  PROVE  /\ Pops(s) /\ ActEffect(Cur(s)) /\ CacheEffect(Cur(s))
         /\ SelectEffect(Cur(s)) /\ OutEffect(Cur(s))
<1> USE DEF Pops, ActEffect, CacheEffect, SelectEffect, OutEffect, Runs, shared, CurBatch, Tag
<1>1. CASE RecordEvent(s)
  BY <1>1 DEF RecordEvent
<1>2. CASE WaitEvent(s)
  BY <1>2 DEF WaitEvent
<1>3. CASE Project(s)
  BY <1>3 DEF Project
<1>4. CASE Compress(s)
  BY <1>4 DEF Compress
<1>5. CASE IndexQuery(s)
  BY <1>5 DEF IndexQuery
<1>6. CASE Insert(s)
  BY <1>6 DEF Insert
<1>7. CASE InsertCache(s)
  BY <1>7 DEF InsertCache
<1>8. CASE ProduceK(s)
  BY <1>8 DEF ProduceK
<1>9. CASE FillShortContext(s)
  BY <1>9 DEF FillShortContext
<1>10. CASE ClearRows(s)
  BY <1>10 DEF ClearRows
<1>11. CASE SelectPrefill(s)
  BY <1>11 DEF SelectPrefill, GatheredBy, ChunkRows, ChunkOf
<1>12. CASE SelectDecode(s)
  BY <1>12 DEF SelectDecode, DecodeRows
<1>13. CASE Unpack(s)
  BY <1>13 DEF Unpack
<1>14. CASE Attend(s)
  BY <1>14 DEF Attend
<1>. QED
  BY <1>1, <1>2, <1>3, <1>4, <1>5, <1>6, <1>7, <1>8, <1>9, <1>10, <1>11, <1>12, <1>13,
     <1>14 DEF GpuStep

-----------------------------------------------------------------------------
(* Activations *)

\* An operation that runs behind its writer finds what the writer has left: the
\* next writer is not before the reader's layer.
LEMMA FedKept ==
  ASSUME Types, StreamInv, NEW s \in Streams, Pops(s),
         NEW readers, NEW writer \in OpNames, NEW cell,
         Fed(readers, writer, cell), writer # "wait",
         \A t \in Streams : \A c \in Pend(t) :
           c.op \in readers /\ LayerBefore(AtN, AtL, c.n, c.l) => Pending(writer, c.n, c.l),
         Cur(s).op = writer => act'[cell] = <<Cur(s).n, Cur(s).l>>,
         Cur(s).op # writer => act'[cell] = act[cell]
  PROVE  Fed(readers, writer, cell)'
<1> DEFINE o == Cur(s)
<1>1. /\ Pend(s)' = Pend(s) \ {o}
      /\ \A t \in Streams : Pend(t)' \subseteq Pend(t)
      /\ \A t \in Streams : t # s => Pend(t)' = Pend(t)
      /\ o \in Pend(s)
  BY PopQueue, HeadFirst DEF Pops, StreamInv
<1>. SUFFICES ASSUME NEW t \in Streams, NEW c \in Pend(t)', c.op \in readers,
                     ~Pending(writer, c.n, c.l)'
              PROVE  act'[cell] = <<c.n, c.l>>
  BY DEF Fed
<1>2. c \in Pend(t)
  BY <1>1
<1>3. CASE o.op # writer
  <2>1. ~Pending(writer, c.n, c.l)
    BY <1>1, <1>3 DEF Pending
  <2>. QED
    BY <1>2, <1>3, <2>1 DEF Fed
<1>4. CASE o.op = writer
  <2>1. o.n = AtN /\ o.l = AtL
    BY <1>4, Where DEF Pops
  <2>2. /\ c \in Op /\ ~LayerBefore(c.n, c.l, AtN, AtL) /\ Enqueued(c.n, c.l)
        /\ AtN \in Nat /\ AtL \in Nat /\ c.n \in Nat /\ c.l \in Nat
    BY <1>2, PendingFrom, PlaceNat DEF StreamInv, OnPlan
  <2>3. ASSUME LayerBefore(AtN, AtL, c.n, c.l) PROVE FALSE
    <3>1. Pending(writer, c.n, c.l)
      BY <1>2, <2>3
    <3>2. o.n # c.n \/ o.l # c.l
      BY <2>1, <2>2, <2>3 DEF LayerBefore
    <3>. QED
      BY <1>1, <3>1, <3>2 DEF Pending
  <2>4. c.n = o.n /\ c.l = o.l
    BY <2>1, <2>2, <2>3 DEF LayerBefore
  <2>. QED
    BY <1>4, <2>4
<1>. QED
  BY <1>3, <1>4

\* A reader at the head of a stream runs after its writer: in its own stream, or
\* joined since.
LEMMA WriterDone ==
  ASSUME Types, StreamInv, NEW s \in Streams, queue[s] # << >>,
         NEW writer \in OpNames,
         \/ Cur(s).op = "compress"    /\ writer = "kvScore"
         \/ Cur(s).op = "insertCache" /\ writer = "compress"
         \/ Cur(s).op = "produceK"    /\ writer = "compress"
         \/ Cur(s).op = "indexQ"      /\ writer = "weights"
         \/ Cur(s).op = "insert"      /\ writer = "qkv"
         \/ Cur(s).op \in {"chunk", "decode"} /\ writer = "indexQ"
  PROVE  ~Pending(writer, Cur(s).n, Cur(s).l)
<1> DEFINE o == Cur(s)
<1>1. /\ o \in Pend(s) /\ o \in Op
      /\ \A x \in Pend(s) : x \in Op /\ (x = o \/ Before(o, x))
  BY HeadFirst DEF StreamInv
<1>2. o.on = s /\ Planned(o) /\ o.op # "wait" /\ o.op # "record"
  BY <1>1 DEF StreamInv, OnPlan
<1>. SUFFICES ASSUME NEW t \in Streams, NEW w \in Pend(t), w.op = writer, w.n = o.n, w.l = o.l
              PROVE  FALSE
  BY DEF Pending
<1>3. w \in Op /\ Planned(w) /\ w.on = t
  BY PendingFrom DEF StreamInv, OnPlan
<1>4. CASE t = s
  <2>1. Place(w) < Place(o)
    BY <1>1, <1>2, <1>3, <1>4 DEF Place, Planned, PlannedSync, PlannedWork, Op
  <2>. QED
    BY <1>1, <1>3, <1>4, <2>1, PlaceNat DEF Before, LayerBefore
<1>5. CASE t # s /\ s = "main"
  <2>1. t \in Aux
    BY <1>5 DEF Aux, Streams
  <2>2. PICK v \in Pend("main") : /\ v.op = "wait" /\ v.n = w.n /\ v.l = w.l
                                  /\ v.fork = ForkOf(w) /\ v.i = EventOf(t)
    BY <2>1, AuxJoin
  <2>3. v \in Op /\ Planned(v) /\ v.on = "main"
    BY <1>5, <2>2, PendingFrom DEF StreamInv, OnPlan
  <2>. ForkOf(w) \in 1..3 /\ EventOf(t) \in 1..2
    BY <1>3, <2>1, AuxFork DEF EventOf, Aux
  <2>4. Place(v) = 20 * ForkOf(w) + 12 + EventOf(t)
    BY <2>2, <2>3 DEF Place
  <2>5. \/ writer = "kvScore" /\ o.op = "compress"
        \/ writer = "compress" /\ o.op = "produceK"
        \/ writer = "weights" /\ o.op = "indexQ"
    <3>1. writer # "qkv" /\ writer # "indexQ"
      BY <1>3, <1>5 DEF Planned, PlannedSync, PlannedWork
    <3>2. ~(writer = "compress" /\ o.op = "insertCache")
      BY <1>2, <1>3, <1>5 DEF Planned, PlannedSync, PlannedWork
    <3>. QED
      BY <3>1, <3>2
  <2>6. Place(v) < Place(o)
    BY <2>4, <2>5 DEF Place, ForkOf
  <2>. QED
    BY <1>1, <1>5, <2>2, <2>6, PlaceNat DEF Before, LayerBefore
<1>6. CASE t # s /\ s # "main"
  <2>1. \/ o.op = "compress" /\ writer = "kvScore" /\ s = "aux0" /\ t = "main"
        \/ o.op = "insertCache" /\ writer = "compress"
    <3>1. o.op \in {"compress", "insertCache"} /\ setup.auxStreams /\ s = "aux0"
      BY <1>2, <1>6 DEF Planned, PlannedSync, PlannedWork
    <3>2. o.op = "compress" => t \in {"main", "aux0"} /\ writer = "kvScore"
      BY <1>3 DEF Planned, PlannedSync, PlannedWork
    <3>. QED
      BY <1>6, <3>1, <3>2
  <2>2. CASE o.op = "insertCache" /\ writer = "compress"
    BY <1>2, <1>3, <1>6, <2>2 DEF Planned, PlannedSync, PlannedWork
  <2>3. CASE o.op = "compress" /\ writer = "kvScore" /\ s = "aux0" /\ t = "main"
    <3>1. Takes("aux0", o.n, o.l, 2) /\ Takes("main", o.n, o.l, 2) /\ ForkOf(o) = 2
      BY <1>2, <2>3 DEF Planned, PlannedSync, PlannedWork, Takes, ForkOf
    <3> DEFINE y == Rec("main", o.n, o.l, 2)
    <3>2. /\ y \in Op /\ Planned(y) /\ y.on = "main" /\ y.n = o.n /\ y.l = o.l
          /\ y.op = "record" /\ y.fork = 2
      BY <1>1, <3>1, RecPlanned, PlaceNat DEF Streams
    <3> HIDE DEF y
    <3>3. Before(w, y)
      BY <1>3, <2>3, <3>2 DEF Before, Place
    <3>4. PICK z \in Pend("main") : Same(y, z)
      BY <1>1, <1>2, <2>3, <3>2, <3>3 DEF StreamInv, Complete, OnPlan
    <3>5. PICK v \in Pend(s) : v.op = "wait" /\ v.n = o.n /\ v.l = o.l /\ v.fork = 2
      BY <2>3, <3>1, <3>2, <3>4 DEF StreamInv, Forked, Same, Aux
    <3>6. Place(v) < Place(o)
      BY <2>3, <3>5, <1>1, <1>2 DEF Place, StreamInv, OnPlan
    <3>7. v \in Op /\ (v = o \/ Before(o, v))
      BY <1>1, <3>5
    <3>. QED
      BY <1>1, <1>2, <3>5, <3>6, <3>7, PlaceNat DEF Before, LayerBefore
  <2>. QED
    BY <2>1, <2>2, <2>3
<1>. QED
  BY <1>4, <1>5, <1>6

\* The readers of the layers ahead have their writers ahead, too.
LEMMA ReaderAhead ==
  ASSUME Types, StreamInv, NEW s \in Streams, NEW c \in Pend(s),
         LayerBefore(AtN, AtL, c.n, c.l)
  PROVE  /\ c.op = "insert" => Pending("qkv", c.n, c.l)
         /\ c.op = "compress" => Pending("kvScore", c.n, c.l)
         /\ c.op \in {"insertCache", "produceK"} => Pending("compress", c.n, c.l)
         /\ c.op = "indexQ" => Pending("weights", c.n, c.l)
         /\ c.op \in {"chunk", "decode"} => Pending("indexQ", c.n, c.l)
<1>1. c \in Op /\ Planned(c) /\ Enqueued(c.n, c.l) /\ c.n \in Nat /\ c.l \in Nat
  BY PendingFrom, PlaceNat DEF StreamInv, OnPlan
<1>2. ASSUME NEW op \in OpNames, WriterPlanned(op, c.l) PROVE Pending(op, c.n, c.l)
  BY <1>1, <1>2, WriterLater
<1>3. {"qkv", "kvScore", "compress", "weights", "indexQ"} \subseteq OpNames
  BY DEF OpNames
<1>4. c.op \in {"compress", "insertCache", "produceK"} => IsKVSource(c.l)
  BY <1>1 DEF Planned, PlannedSync, PlannedWork
<1>5. c.op = "indexQ" => IsIndexSource(c.l)
  BY <1>1 DEF Planned, PlannedSync, PlannedWork, Scoring
<1>6. ASSUME c.op \in {"chunk", "decode"} PROVE Pending("indexQ", c.n, c.l)
  <2> DEFINE y == Work("indexQ", c.n, c.l, 0)
  <2>1. Scoring(c.n, c.l)
    BY <1>1, <1>6 DEF Planned, PlannedSync, PlannedWork
  <2>2. /\ y \in Op /\ Planned(y) /\ y.op = "indexQ" /\ y.n = c.n /\ y.l = c.l
        /\ y.on = "main"
    BY <1>1, <2>1 DEF Work, Op, OpNames, Streams, StreamOf, Planned, PlannedWork
  <2> HIDE DEF y
  <2>3. PICK z \in Pend("main") : Same(y, z)
    BY <1>1, <2>2, Later
  <2>. QED
    BY <2>2, <2>3 DEF Same, Pending, Streams
<1>. QED
  BY <1>2, <1>3, <1>4, <1>5, <1>6 DEF WriterPlanned

\* A reader that waits still for its writer waits; else it is fed.
LEMMA ActKept ==
  ASSUME Types, StreamInv, ActInv, NEW s \in Streams, GpuStep(s)
  PROVE  ActInv' /\ DOMAIN act' = DOMAIN act
<1> DEFINE o == Cur(s)
<1>1. Pops(s) /\ ActEffect(o)
  BY StepEffects
<1>2. o \in Pend(s) /\ o \in Op /\ Planned(o)
  BY <1>1, HeadFirst DEF Pops, StreamInv, OnPlan
<1>3. {"qkv", "kvScore", "compress", "weights", "indexQ"} \subseteq OpNames
  BY DEF OpNames
<1>4. DOMAIN act = {"qkv", "kvScore", "weights", "latent", "indexQ"}
  BY DEF Types
<1>5. DOMAIN act' = DOMAIN act
  BY <1>1 DEF ActEffect
<1>6. Fed({"insert"}, "qkv", "qkv")'
  <2>1. o.op = "qkv" => act'["qkv"] = <<o.n, o.l>>
    BY <1>1, <1>4 DEF ActEffect
  <2>2. o.op # "qkv" => act'["qkv"] = act["qkv"]
    BY <1>1, <1>4 DEF ActEffect
  <2>3. Fed({"insert"}, "qkv", "qkv")
    BY DEF ActInv
  <2>4. \A t \in Streams : \A c \in Pend(t) :
          c.op \in {"insert"} /\ LayerBefore(AtN, AtL, c.n, c.l) => Pending("qkv", c.n, c.l)
    BY ReaderAhead
  <2>. QED
    BY <1>1, <1>3, <2>1, <2>2, <2>3, <2>4, FedKept
<1>7. Fed({"compress"}, "kvScore", "kvScore")'
  <2>1. o.op = "kvScore" => act'["kvScore"] = <<o.n, o.l>>
    BY <1>1, <1>4 DEF ActEffect
  <2>2. o.op # "kvScore" => act'["kvScore"] = act["kvScore"]
    BY <1>1, <1>4 DEF ActEffect
  <2>3. Fed({"compress"}, "kvScore", "kvScore")
    BY DEF ActInv
  <2>4. \A t \in Streams : \A c \in Pend(t) :
          c.op \in {"compress"} /\ LayerBefore(AtN, AtL, c.n, c.l)
            => Pending("kvScore", c.n, c.l)
    BY ReaderAhead
  <2>. QED
    BY <1>1, <1>3, <2>1, <2>2, <2>3, <2>4, FedKept
<1>8. Fed({"insertCache", "produceK"}, "compress", "latent")'
  <2>1. ASSUME o.op = "compress" PROVE act'["latent"] = <<o.n, o.l>>
    <3>1. ~Pending("kvScore", o.n, o.l)
      BY <1>1, <1>3, <2>1, WriterDone DEF Pops
    <3>2. act["kvScore"] = <<o.n, o.l>>
      BY <1>2, <2>1, <3>1 DEF ActInv, Fed
    <3>. QED
      BY <1>1, <1>4, <2>1, <3>2 DEF ActEffect
  <2>2. o.op # "compress" => act'["latent"] = act["latent"]
    BY <1>1, <1>4 DEF ActEffect
  <2>3. Fed({"insertCache", "produceK"}, "compress", "latent")
    BY DEF ActInv
  <2>4. \A t \in Streams : \A c \in Pend(t) :
          c.op \in {"insertCache", "produceK"} /\ LayerBefore(AtN, AtL, c.n, c.l)
            => Pending("compress", c.n, c.l)
    BY ReaderAhead
  <2>. QED
    BY <1>1, <1>3, <2>1, <2>2, <2>3, <2>4, FedKept
<1>9. Fed({"indexQ"}, "weights", "weights")'
  <2>1. o.op = "weights" => act'["weights"] = <<o.n, o.l>>
    BY <1>1, <1>4 DEF ActEffect
  <2>2. o.op # "weights" => act'["weights"] = act["weights"]
    BY <1>1, <1>4 DEF ActEffect
  <2>3. Fed({"indexQ"}, "weights", "weights")
    BY DEF ActInv
  <2>4. \A t \in Streams : \A c \in Pend(t) :
          c.op \in {"indexQ"} /\ LayerBefore(AtN, AtL, c.n, c.l)
            => Pending("weights", c.n, c.l)
    BY ReaderAhead
  <2>. QED
    BY <1>1, <1>3, <2>1, <2>2, <2>3, <2>4, FedKept
<1>10. Fed({"chunk", "decode"}, "indexQ", "indexQ")'
  <2>1. ASSUME o.op = "indexQ" PROVE act'["indexQ"] = <<o.n, o.l>>
    <3>1. ~Pending("weights", o.n, o.l)
      BY <1>1, <1>3, <2>1, WriterDone DEF Pops
    <3>2. act["weights"] = <<o.n, o.l>>
      BY <1>2, <2>1, <3>1 DEF ActInv, Fed
    <3>. QED
      BY <1>1, <1>4, <2>1, <3>2 DEF ActEffect
  <2>2. o.op # "indexQ" => act'["indexQ"] = act["indexQ"]
    BY <1>1, <1>4 DEF ActEffect
  <2>3. Fed({"chunk", "decode"}, "indexQ", "indexQ")
    BY DEF ActInv
  <2>4. \A t \in Streams : \A c \in Pend(t) :
          c.op \in {"chunk", "decode"} /\ LayerBefore(AtN, AtL, c.n, c.l)
            => Pending("indexQ", c.n, c.l)
    BY ReaderAhead
  <2>. QED
    BY <1>1, <1>3, <2>1, <2>2, <2>3, <2>4, FedKept
<1>. QED
  BY <1>5, <1>6, <1>7, <1>8, <1>9, <1>10 DEF ActInv

-----------------------------------------------------------------------------
(* Caches *)

LEMMA SetupTypes ==
  ASSUME Types
  PROVE  /\ setup \in Setups /\ setup.ratio \in Seq(0..2) /\ Len(setup.ratio) \in Nat
         /\ Layers = 1..Len(setup.ratio) /\ Layers \subseteq Nat
         /\ \A l \in Layers : CompressRatio(l) \in 0..2
<1>1. setup \in Setups /\ setup \in Setup
  BY SetupAssumption DEF Types
<1>2. setup.ratio \in Seq(0..2)
  BY <1>1 DEF Setup
<1>. QED
  BY <1>1, <1>2 DEF Layers, CompressRatio

\* The main stream moves forward only.
LEMMA AtMoves ==
  ASSUME Types, StreamInv, NEW s \in Streams, Pops(s)
  PROVE  /\ AtN \in Nat /\ AtL \in Nat /\ AtN' \in Nat /\ AtL' \in Nat
         /\ (AtN' = AtN /\ AtL' = AtL) \/ LayerBefore(AtN, AtL, AtN', AtL')
         /\ s # "main" => AtN' = AtN /\ AtL' = AtL
         /\ queue["main"] # << >>
<1>1. /\ queue'[s] = Tail(queue[s]) /\ \A t \in Streams : t # s => queue'[t] = queue[t]
      /\ queue' \in [Streams -> Seq(Op)] /\ "main" \in Streams
      /\ queue \in [Streams -> Seq(Op)]
      /\ \A t \in Streams : Pend(t)' \subseteq Pend(t)
  BY PopQueue DEF Pops, StreamInv, Types, Streams
<1>2. Cur(s) \in Pend(s)
  BY HeadFirst DEF Pops, StreamInv
<1>3. queue["main"] # << >> /\ AtN \in Nat /\ AtL \in Nat
  BY <1>2, PendingFrom
<1>4. Step' = Step /\ layer' = layer /\ Step \in Nat /\ layer \in Nat
  <2>1. layer \in 1..(Len(setup.ratio) + 1) /\ Step \in Nat
    BY DEF Types
  <2>2. layer \in Int /\ layer >= 1
    BY <2>1
  <2>. QED
    BY <2>1, <2>2, PlanKept DEF Pops
<1>5. CASE queue'["main"] = << >>
  <2>1. AtN' = Step /\ AtL' = layer
    BY <1>4, <1>5 DEF AtN, AtL
  <2>2. Cur("main") \in Pend("main")
    BY <1>1, <1>3, HeadFirst DEF StreamInv
  <2>3. Enqueued(AtN, AtL)
    BY <1>1, <1>3, <2>2 DEF StreamInv, OnPlan, AtN, AtL, Cur
  <2>4. s = "main"
    BY <1>1, <1>3, <1>5
  <2>. QED
    BY <1>3, <1>4, <2>1, <2>3, <2>4 DEF Enqueued, LayerBefore
<1>6. CASE queue'["main"] # << >>
  <2> DEFINE h == Head(queue'["main"])
  <2>1. AtN' = h.n /\ AtL' = h.l
    BY <1>6 DEF AtN, AtL
  <2>2. h = queue'["main"][1] /\ 1 \in DOMAIN queue'["main"]
    BY <1>1, <1>6
  <2>3. h \in Pend("main")
    BY <1>1, <2>2 DEF Pend
  <2>4. h \in Op /\ ~LayerBefore(h.n, h.l, AtN, AtL) /\ h.n \in Nat /\ h.l \in Nat
    BY <1>1, <2>3, PendingFrom, PlaceNat
  <2>5. s # "main" => h = Head(queue["main"])
    BY <1>1
  <2>6. s # "main" => AtN' = AtN /\ AtL' = AtL
    BY <1>3, <2>1, <2>5 DEF AtN, AtL
  <2>. QED
    BY <1>3, <2>1, <2>4, <2>6 DEF LayerBefore
<1>. QED
  BY <1>5, <1>6

\* What a step leaves in a cell that one operation of a layer writes.
LEMMA WrittenKept ==
  ASSUME Types, StreamInv, NEW s \in Streams, Pops(s),
         NEW writer \in OpNames, writer # "wait", NEW l \in Layers, WriterPlanned(writer, l),
         NEW old, NEW new,
         Enqueued(AtN, l) /\ ~Pending(writer, AtN, l) => old = <<AtN, l>>,
         Cur(s).op = writer /\ Cur(s).l = l => new = <<Cur(s).n, Cur(s).l>>,
         ~(Cur(s).op = writer /\ Cur(s).l = l) => new = old
  PROVE  Enqueued(AtN, l)' /\ ~Pending(writer, AtN, l)' => new = <<AtN', l>>
<1> DEFINE o == Cur(s)
<1>1. /\ Pend(s)' = Pend(s) \ {o}
      /\ \A t \in Streams : t # s => Pend(t)' = Pend(t)
  BY PopQueue, HeadFirst DEF Pops, StreamInv
<1>2. /\ AtN \in Nat /\ AtL \in Nat /\ AtN' \in Nat /\ AtL' \in Nat
      /\ (AtN' = AtN /\ AtL' = AtL) \/ LayerBefore(AtN, AtL, AtN', AtL')
  BY AtMoves
<1>3. \A n : Enqueued(n, l)' <=> Enqueued(n, l)
  BY PlanKept DEF Pops
<1>. SUFFICES ASSUME Enqueued(AtN', l), ~Pending(writer, AtN, l)'
              PROVE  new = <<AtN', l>>
  BY <1>3 DEF Enqueued
<1>4. o.op = writer => o.n = AtN /\ o.l = AtL
  BY Where DEF Pops
<1>5. \A n, k : Pending(writer, n, k) /\ ~(o.op = writer /\ o.n = n /\ o.l = k)
                => \E t \in Streams : \E x \in Pend(t)' : x.op = writer /\ x.n = n /\ x.l = k
  BY <1>1 DEF Pending
<1>6. ~\E t \in Streams : \E x \in Pend(t)' : x.op = writer /\ x.n = AtN' /\ x.l = l
  BY DEF Pending
<1>7. CASE AtN' # AtN
  <2>1. LayerBefore(AtN, AtL, AtN', l)
    BY <1>2, <1>7 DEF LayerBefore
  <2>2. l \in Nat
    BY SetupTypes
  <2>3. Pending(writer, AtN', l)
    BY <1>2, <2>1, <2>2, WriterLater
  <2>. QED
    BY <1>4, <1>5, <1>6, <1>7, <2>3
<1>8. CASE AtN' = AtN
  <2>1. CASE o.op = writer /\ o.l = l
    BY <1>4, <1>8, <2>1
  <2>2. CASE ~(o.op = writer /\ o.l = l)
    BY <1>5, <1>6, <1>8, <2>2
  <2>. QED
    BY <2>1, <2>2
<1>. QED
  BY <1>7, <1>8

\* A cache is written by its layer when the main stream goes past.
LEMMA CachesKept ==
  ASSUME Types, StreamInv, ActInv, CacheInv, NEW s \in Streams, GpuStep(s)
  PROVE  /\ CacheInv'
         /\ DOMAIN swa' = DOMAIN swa /\ DOMAIN comp' = DOMAIN comp
         /\ DOMAIN indexK' = DOMAIN indexK
<1> DEFINE o == Cur(s)
<1>1. Pops(s) /\ CacheEffect(o)
  BY StepEffects
<1>2. o \in Pend(s) /\ o \in Op /\ Planned(o) /\ queue[s] # << >>
  BY <1>1, HeadFirst DEF Pops, StreamInv, OnPlan
<1>3. {"qkv", "compress", "insert", "produceK", "insertCache"} \subseteq OpNames
  BY DEF OpNames
<1>4. DOMAIN swa = Layers /\ DOMAIN comp = Layers /\ DOMAIN indexK = Layers
  BY DEF Types
<1>5. setup' = setup /\ Layers' = Layers
  BY <1>1, PlanKept DEF Pops
<1>6. o.op = "insert" => act["qkv"] = <<o.n, o.l>>
  BY <1>2, <1>3, WriterDone DEF ActInv, Fed
<1>7. o.op = "insertCache" => act["latent"] = <<o.n, o.l>>
  BY <1>2, <1>3, WriterDone DEF ActInv, Fed
<1>8. o.op = "produceK" => act["latent"] = <<o.n, o.l>>
  BY <1>2, <1>3, WriterDone DEF ActInv, Fed
<1>9. ASSUME NEW l \in Layers PROVE Written(swa, "insert", l)'
  <2>1. WriterPlanned("insert", l)
    BY DEF WriterPlanned
  <2>2. o.op = "insert" /\ o.l = l => swa'[l] = <<o.n, o.l>>
    BY <1>1, <1>4, <1>6 DEF CacheEffect
  <2>3. ~(o.op = "insert" /\ o.l = l) => swa'[l] = swa[l]
    BY <1>1, <1>4 DEF CacheEffect
  <2>4. Enqueued(AtN, l) /\ ~Pending("insert", AtN, l) => swa[l] = <<AtN, l>>
    BY DEF CacheInv, Written
  <2>5. Enqueued(AtN, l)' /\ ~Pending("insert", AtN, l)' => swa'[l] = <<AtN', l>>
    BY <1>1, <1>3, <2>1, <2>2, <2>3, <2>4, WrittenKept
  <2>. QED
    BY <2>5 DEF Written
<1>10. ASSUME NEW l \in Layers, IsKVSource(l)
       PROVE  Written(indexK, "produceK", l)' /\ Written(comp, "insertCache", l)'
  <2>1. WriterPlanned("produceK", l) /\ WriterPlanned("insertCache", l)
    BY <1>10, TopologyAssumption, SetupTypes DEF WriterPlanned, IsKVSource, IsIndexSource
  <2>2. o.op = "produceK" /\ o.l = l => indexK'[l] = <<o.n, o.l>>
    BY <1>1, <1>4, <1>8 DEF CacheEffect
  <2>3. ~(o.op = "produceK" /\ o.l = l) => indexK'[l] = indexK[l]
    BY <1>1, <1>4 DEF CacheEffect
  <2>4. Enqueued(AtN, l) /\ ~Pending("produceK", AtN, l) => indexK[l] = <<AtN, l>>
    BY <1>10 DEF CacheInv, Written
  <2>5. Enqueued(AtN, l)' /\ ~Pending("produceK", AtN, l)' => indexK'[l] = <<AtN', l>>
    BY <1>1, <1>3, <2>1, <2>2, <2>3, <2>4, WrittenKept
  <2>6. o.op = "insertCache" /\ o.l = l => comp'[l] = <<o.n, o.l>>
    BY <1>1, <1>4, <1>7 DEF CacheEffect
  <2>7. ~(o.op = "insertCache" /\ o.l = l) => comp'[l] = comp[l]
    BY <1>1, <1>4 DEF CacheEffect
  <2>8. Enqueued(AtN, l) /\ ~Pending("insertCache", AtN, l) => comp[l] = <<AtN, l>>
    BY <1>10 DEF CacheInv, Written
  <2>9. Enqueued(AtN, l)' /\ ~Pending("insertCache", AtN, l)' => comp'[l] = <<AtN', l>>
    BY <1>1, <1>3, <2>1, <2>6, <2>7, <2>8, WrittenKept
  <2>. QED
    BY <2>5, <2>9 DEF Written
<1>11. CacheInv'
  BY <1>5, <1>9, <1>10 DEF CacheInv, IsKVSource
<1>. QED
  BY <1>1, <1>11 DEF CacheEffect

-----------------------------------------------------------------------------
(* Numbers of tokens *)

\* Induction on a set of numbers.
LEMMA Counting ==
  ASSUME NEW S, 0 \in S, \A n \in Nat : n \in S => n + 1 \in S
  PROVE  Nat \subseteq S
<1> DEFINE T == Nat \ S
<1>. SUFFICES ASSUME T # {} PROVE FALSE
  OBVIOUS
<1>1. PICK t \in T : \A y \in T : <<y, t>> \notin OpToRel(<, Nat)
  <2>1. T \subseteq Nat /\ T # {}
    OBVIOUS
  <2> HIDE DEF T
  <2>. QED
    BY <2>1, NatLessThanWellFounded, WFMin, Zenon
<1>2. t # 0 /\ t \in Nat
  OBVIOUS
<1>3. t - 1 \in Nat /\ t - 1 < t /\ (t - 1) + 1 = t
  BY <1>2
<1>4. t - 1 \notin S
  BY <1>2, <1>3
<1>5. <<t - 1, t>> \in OpToRel(<, Nat)
  <2>1. \A y, z \in Nat : y < z => <<y, z>> \in OpToRel(<, Nat)
    BY Zenon DEF OpToRel
  <2>. QED
    BY <1>2, <1>3, <2>1
<1>. QED
  BY <1>1, <1>3, <1>4, <1>5

\* A set of numbers that is not empty has a least member, which Min picks.
LEMMA Smallest ==
  ASSUME NEW S, S \subseteq Nat, S # {}
  PROVE  Min(S) \in S /\ \A x \in S : Min(S) <= x
<1>1. PICK t \in S : \A y \in S : <<y, t>> \notin OpToRel(<, Nat)
  BY NatLessThanWellFounded, WFMin, Zenon
<1>2. \A y, z \in Nat : y < z => <<y, z>> \in OpToRel(<, Nat)
  BY Zenon DEF OpToRel
<1>3. \A y \in S : t <= y
  <2>. TAKE y \in S
  <2>1. ~(y < t)
    BY <1>1, <1>2
  <2>. QED
    BY <2>1
<1>4. \E m \in S : \A x \in S : m <= x
  BY <1>1, <1>3
<1>. QED
  BY <1>4, Zenon DEF Min

\* So does Max the greatest of a bounded set.
LEMMA Largest ==
  ASSUME NEW b \in Nat, NEW S, S \subseteq 0..b, S # {}
  PROVE  Max(S) \in S /\ \A x \in S : x <= Max(S)
<1> DEFINE T == {b - x : x \in S}
<1>1. \A x \in S : b - x \in Nat /\ x \in Int
  OBVIOUS
<1>2. T \subseteq Nat /\ T # {}
  BY <1>1
<1>3. Min(T) \in T /\ \A y \in T : Min(T) <= y
  <2> HIDE DEF T
  <2>. QED
    BY <1>2, Smallest
<1>4. PICK m \in S : Min(T) = b - m
  BY <1>3
<1>5. \A x \in S : b - m <= b - x
  BY <1>3, <1>4
<1>6. \A x \in S : m >= x
  BY <1>1, <1>5
<1>7. Max(S) \in S /\ \A x \in S : Max(S) >= x
  BY <1>6, Zenon DEF Max
<1>. QED
  BY <1>1, <1>7

\* The sums of the first numbers of s.
IsSum(f, s, n) == f = [i \in 0..n |-> IF i = 0 THEN 0 ELSE f[i - 1] + s[i]]

\* SumOf is the value of a function that exists.
LEMMA SumExists ==
  ASSUME NEW s
  PROVE  \A n \in Nat : \E f : IsSum(f, s, n)
<1> DEFINE D == {n \in Nat : \E f : IsSum(f, s, n)}
<1>1. 0 \in D
  <2>1. 0..0 = {0}
    OBVIOUS
  <2>2. IsSum([i \in 0..0 |-> 0], s, 0)
    BY <2>1 DEF IsSum
  <2>. QED
    BY <2>2
<1>2. ASSUME NEW n \in Nat, n \in D PROVE n + 1 \in D
  <2>1. PICK old : IsSum(old, s, n)
    BY <1>2
  <2> DEFINE new == [i \in 0..(n + 1) |-> IF i = n + 1 THEN old[n] + s[n + 1] ELSE old[i]]
  <2>2. \A i \in 0..(n + 1) : new[i] = IF i = 0 THEN 0 ELSE new[i - 1] + s[i]
    <3>. TAKE i \in 0..(n + 1)
    <3>1. CASE i = n + 1
      <4>1. i # 0 /\ i - 1 = n /\ new[i] = old[n] + s[n + 1] /\ new[i - 1] = old[n]
        BY <3>1
      <4> HIDE DEF new
      <4>. QED
        BY <3>1, <4>1
    <3>2. CASE i # n + 1
      <4>1. i \in 0..n /\ new[i] = old[i]
        BY <3>2
      <4>2. old[i] = IF i = 0 THEN 0 ELSE old[i - 1] + s[i]
        BY <2>1, <4>1 DEF IsSum
      <4>3. i # 0 => new[i - 1] = old[i - 1]
        BY <4>1
      <4> HIDE DEF new
      <4>. QED
        BY <4>1, <4>2, <4>3
    <3>. QED
      BY <3>1, <3>2
  <2>3. IsSum(new, s, n + 1)
    <3>1. new = [i \in 0..(n + 1) |-> new[i]]
      OBVIOUS
    <3> HIDE DEF new
    <3>. QED
      BY <2>2, <3>1 DEF IsSum
  <2>. QED
    BY <2>3
<1>3. Nat \subseteq D
  <2> HIDE DEF D
  <2>. QED
    BY <1>1, <1>2, Counting
<1>. QED
  BY <1>3

\* SumOf sums its sequence.
LEMMA SumIs ==
  ASSUME NEW s \in Seq(Nat)
  PROVE  \E f : IsSum(f, s, Len(s)) /\ SumOf(s) = f[Len(s)]
<1> DEFINE L == Len(s)
           sum == CHOOSE f : f = [i \in 0..L |-> IF i = 0 THEN 0 ELSE f[i - 1] + s[i]]
<1>1. L \in Nat
  OBVIOUS
<1>2. sum = [i \in 0..L |-> IF i = 0 THEN 0 ELSE sum[i - 1] + s[i]]
  <2>1. \E f : f = [i \in 0..L |-> IF i = 0 THEN 0 ELSE f[i - 1] + s[i]]
    <3>1. PICK f : IsSum(f, s, L)
      BY <1>1, SumExists
    <3>2. f = [i \in 0..L |-> IF i = 0 THEN 0 ELSE f[i - 1] + s[i]]
      BY <3>1 DEF IsSum
    <3>. QED
      BY <3>2, Zenon
  <2> HIDE DEF L
  <2>. QED
    BY <2>1, Zenon
<1>3. SumOf(s) = sum[L]
  BY DEF SumOf
<1> HIDE DEF sum
<1>4. IsSum(sum, s, L)
  BY <1>2 DEF IsSum
<1>. QED
  BY <1>3, <1>4

\* Partial sums of numbers are numbers.
LEMMA SumNat ==
  ASSUME NEW s, NEW n \in Nat, \A i \in 1..n : s[i] \in Nat, NEW f, IsSum(f, s, n)
  PROVE  \A i \in 0..n : f[i] \in Nat
<1> DEFINE D == {i \in Nat : i <= n => f[i] \in Nat}
<1>1. f[0] = 0 /\ \A i \in 0..n : i # 0 => f[i] = f[i - 1] + s[i]
  BY DEF IsSum
<1>2. 0 \in D
  BY <1>1
<1>3. ASSUME NEW i \in Nat, i \in D PROVE i + 1 \in D
  <2>. SUFFICES ASSUME i + 1 <= n PROVE f[i + 1] \in Nat
    OBVIOUS
  <2>1. i + 1 \in 1..n /\ i + 1 \in 0..n /\ (i + 1) - 1 = i /\ i <= n
    OBVIOUS
  <2>. QED
    BY <1>1, <1>3, <2>1
<1>4. Nat \subseteq D
  <2> HIDE DEF D
  <2>. QED
    BY <1>2, <1>3, Counting
<1>. QED
  BY <1>4

\* Sums depend on the elements alone.
LEMMA SumUnique ==
  ASSUME NEW s, NEW t, NEW n \in Nat, NEW m \in 0..n, \A i \in 1..m : s[i] = t[i],
         NEW f, IsSum(f, s, n), NEW g, IsSum(g, t, m)
  PROVE  f[m] = g[m]
<1> DEFINE D == {i \in Nat : i <= m => f[i] = g[i]}
<1>1. /\ f[0] = 0 /\ \A i \in 0..n : i # 0 => f[i] = f[i - 1] + s[i]
      /\ g[0] = 0 /\ \A i \in 0..m : i # 0 => g[i] = g[i - 1] + t[i]
  BY DEF IsSum
<1>2. 0 \in D
  BY <1>1
<1>3. ASSUME NEW i \in Nat, i \in D PROVE i + 1 \in D
  <2>. SUFFICES ASSUME i + 1 <= m PROVE f[i + 1] = g[i + 1]
    OBVIOUS
  <2>1. i + 1 \in 1..m /\ i + 1 \in 0..n /\ i + 1 \in 0..m /\ (i + 1) - 1 = i /\ i <= m
        /\ i + 1 # 0
    OBVIOUS
  <2>2. f[i + 1] = f[i] + s[i + 1] /\ g[i + 1] = g[i] + t[i + 1]
    BY <1>1, <2>1
  <2>. QED
    BY <1>3, <2>1, <2>2
<1>4. Nat \subseteq D
  <2> HIDE DEF D
  <2>. QED
    BY <1>2, <1>3, Counting
<1>. QED
  BY <1>4

\* Which of the numbers the t-th unit of the sum comes from.
LEMMA SumSplit ==
  ASSUME NEW s, NEW n \in Nat, \A i \in 1..n : s[i] \in Nat, NEW f, IsSum(f, s, n),
         NEW t \in 1..f[n]
  PROVE  \E i \in 1..n : f[i - 1] < t /\ t <= f[i]
<1> DEFINE D == {i \in Nat : i <= n /\ t <= f[i] =>
                   \E k \in 1..i : f[k - 1] < t /\ t <= f[k]}
<1>1. \A i \in 0..n : f[i] \in Nat
  BY SumNat
<1>2. f[0] = 0
  BY DEF IsSum
<1>3. t \in Nat /\ t > 0 /\ f[n] \in Nat /\ t <= f[n]
  BY <1>1
<1>4. 0 \in D
  BY <1>2, <1>3
<1>5. ASSUME NEW i \in Nat, i \in D PROVE i + 1 \in D
  <2>. SUFFICES ASSUME i + 1 <= n, t <= f[i + 1]
                PROVE  \E k \in 1..(i + 1) : f[k - 1] < t /\ t <= f[k]
    OBVIOUS
  <2>1. CASE t <= f[i]
    <3>1. PICK k \in 1..i : f[k - 1] < t /\ t <= f[k]
      BY <1>5, <2>1
    <3>. QED
      BY <3>1
  <2>2. CASE ~(t <= f[i])
    <3>1. i \in 0..n /\ (i + 1) - 1 = i /\ i + 1 \in 1..(i + 1)
      OBVIOUS
    <3>2. f[i] < t
      BY <1>1, <1>3, <2>2, <3>1
    <3>. QED
      BY <3>1, <3>2
  <2>. QED
    BY <2>1, <2>2
<1>6. n \in D
  <2> HIDE DEF D
  <2>. QED
    BY <1>4, <1>5, Counting
<1>. QED
  BY <1>3, <1>6

\* The numbers of tokens of a batch, and that its rows fit.
LEMMA BatchNumbers ==
  ASSUME NEW b \in Batches
  PROVE  /\ b.decodes \in Seq(Nat \ {0}) /\ b.prefill \in Nat /\ b.chunks \in Seq(Chunk)
         /\ DecodeTokens(b) \in Nat /\ NumTokens(b) \in Nat /\ HiddenRows(b) \in Nat
         /\ DecodeTokens(b) <= NumTokens(b) /\ NumTokens(b) <= MaxRows /\ MaxRows \in Nat
         /\ b.prefill = 0 => NumTokens(b) = DecodeTokens(b)
         /\ b.decodes = << >> => DecodeTokens(b) = 0 /\ ~RequiresPadding(b)
<1>1. /\ b.decodes \in Seq(Nat \ {0}) /\ b.prefill \in Nat /\ b.padding \in Nat
      /\ b.chunks \in Seq(Chunk)
  BY SetupAssumption DEF Batch
<1>2. b.decodes \in Seq(Nat)
  BY <1>1
<1>3. PICK f : IsSum(f, b.decodes, Len(b.decodes)) /\ SumOf(b.decodes) = f[Len(b.decodes)]
  BY <1>2, SumIs
<1>4. DecodeTokens(b) \in Nat
  <2>1. Len(b.decodes) \in Nat /\ \A i \in 1..Len(b.decodes) : b.decodes[i] \in Nat
    BY <1>2
  <2>2. f[Len(b.decodes)] \in Nat
    BY <1>3, <2>1, SumNat
  <2>. QED
    BY <1>3, <2>2 DEF DecodeTokens
<1>5. b.decodes = << >> => DecodeTokens(b) = 0
  <2>. SUFFICES ASSUME b.decodes = << >> PROVE f[0] = 0
    BY <1>3 DEF DecodeTokens
  <2>. QED
    BY <1>3 DEF IsSum
<1>6. b.decodes = << >> => ~RequiresPadding(b)
  BY DEF RequiresPadding
<1>7. NumTokens(b) \in Nat /\ HiddenRows(b) \in Nat /\ DecodeTokens(b) <= NumTokens(b)
      /\ (b.prefill = 0 => NumTokens(b) = DecodeTokens(b)) /\ NumTokens(b) <= HiddenRows(b)
  BY <1>1, <1>4 DEF NumTokens, HiddenRows
<1>8. MaxRows \in Nat /\ HiddenRows(b) <= MaxRows
  BY SetupAssumption
<1>. QED
  BY <1>1, <1>4, <1>5, <1>6, <1>7, <1>8

\* The chunks are the prefill's tokens, all of them.
LEMMA ChunkTokens ==
  ASSUME NEW b \in Batches
  PROVE  /\ \A i \in DOMAIN b.chunks : \A t \in InChunk(b, i) :
              t \in (DecodeTokens(b) + 1)..NumTokens(b)
         /\ \A t \in (DecodeTokens(b) + 1)..NumTokens(b) :
              \E i \in DOMAIN b.chunks : t \in InChunk(b, i)
<1>1. UNION {c.first..c.last : c \in {b.chunks[i] : i \in DOMAIN b.chunks}}
        = (DecodeTokens(b) + 1)..NumTokens(b)
  BY ChunkAssumption
<1>. QED
  BY <1>1 DEF InChunk

\* The longest decode is not shorter than any.
LEMMA NextNIs ==
  ASSUME NEW b \in Batches, b.decodes # << >>
  PROVE  NextN(b) \in Nat \ {0} /\ \A i \in DOMAIN b.decodes : b.decodes[i] <= NextN(b)
<1> DEFINE S == {b.decodes[i] : i \in DOMAIN b.decodes}
<1>1. b.decodes \in Seq(Nat) /\ b.decodes \in Seq(Nat \ {0})
  BY BatchNumbers
<1>2. PICK f : IsSum(f, b.decodes, Len(b.decodes))
  BY <1>1, SumIs
<1>3. /\ Len(b.decodes) \in Nat /\ \A i \in 1..Len(b.decodes) : b.decodes[i] \in Nat
      /\ DOMAIN b.decodes = 1..Len(b.decodes) /\ Len(b.decodes) > 0
  BY <1>1
<1>4. \A i \in 0..Len(b.decodes) : f[i] \in Nat
  BY <1>2, <1>3, SumNat
<1> DEFINE T == {i \in Nat : i <= Len(b.decodes) => \A k \in 1..i : b.decodes[k] <= f[Len(b.decodes)]}
           D == {i \in Nat : i <= Len(b.decodes) => \A k \in 1..i : b.decodes[k] <= f[i]}
<1>5. 0 \in D
  OBVIOUS
<1>6. ASSUME NEW i \in Nat, i \in D PROVE i + 1 \in D
  <2>. SUFFICES ASSUME i + 1 <= Len(b.decodes), NEW k \in 1..(i + 1)
                PROVE  b.decodes[k] <= f[i + 1]
    OBVIOUS
  <2>1. i + 1 \in 0..Len(b.decodes) /\ i \in 0..Len(b.decodes) /\ i + 1 # 0
        /\ i + 1 \in 1..Len(b.decodes) /\ (i + 1) - 1 = i /\ k \in 1..Len(b.decodes)
    BY <1>3
  <2>2. f[i + 1] = f[i] + b.decodes[i + 1]
    BY <1>2, <2>1 DEF IsSum
  <2>3. k \in 1..i => b.decodes[k] <= f[i]
    BY <1>3, <1>6, <2>1
  <2>4. k \in 1..i \/ k = i + 1
    OBVIOUS
  <2>. QED
    BY <1>3, <1>4, <2>1, <2>2, <2>3, <2>4
<1>7. Len(b.decodes) \in D
  <2> HIDE DEF D
  <2>. QED
    BY <1>3, <1>5, <1>6, Counting
<1>8. S \subseteq 0..f[Len(b.decodes)] /\ S # {} /\ f[Len(b.decodes)] \in Nat
  <2>1. \A k \in 1..Len(b.decodes) : b.decodes[k] <= f[Len(b.decodes)]
    BY <1>3, <1>7
  <2>2. f[Len(b.decodes)] \in Nat /\ 1 \in DOMAIN b.decodes
    BY <1>3, <1>4
  <2>3. \A k \in DOMAIN b.decodes : b.decodes[k] \in 0..f[Len(b.decodes)]
    BY <1>3, <2>1, <2>2
  <2>. QED
    BY <2>2, <2>3
<1>9. Max(S) \in S /\ \A x \in S : x <= Max(S)
  <2> HIDE DEF S
  <2>. QED
    BY <1>8, Largest
<1>10. NextN(b) = Max(S)
  BY DEF NextN
<1>. QED
  BY <1>1, <1>3, <1>9, <1>10

\* Division with remainder is unique.
LEMMA DivModOf ==
  ASSUME NEW k \in Nat, NEW d \in Nat \ {0}, NEW r \in 0..(d - 1)
  PROVE  (k * d + r) \div d = k /\ (k * d + r) % d = r
  BY SMT

\* Decodes of one length are scored in their place.
LEMMA SlotsAlike ==
  ASSUME NEW b \in Batches, ~RequiresPadding(b)
  PROVE  Slots(b) = DecodeTokens(b) /\ \A r : InSlot(b, r) = r
  BY DEF Slots, InSlot

\* Every decode token has its slot.
LEMMA UnpackedSlot ==
  ASSUME NEW b \in Batches, RequiresPadding(b), NEW t \in 1..DecodeTokens(b)
  PROVE  Unpacked(b, t) \in 1..Slots(b) /\ InSlot(b, Unpacked(b, t)) = t
<1> DEFINE s == b.decodes
           L == Len(s)
<1>1. s \in Seq(Nat) /\ L \in Nat /\ DOMAIN s = 1..L /\ \A i \in 1..L : s[i] \in Nat
  BY BatchNumbers
<1>2. PICK f : IsSum(f, s, L) /\ SumOf(s) = f[L]
  BY <1>1, SumIs
<1>3. \A i \in 0..L : f[i] \in Nat
  BY <1>1, <1>2, SumNat
<1>4. t \in 1..f[L]
  BY <1>2 DEF DecodeTokens
<1>5. PICK i \in 1..L : f[i - 1] < t /\ t <= f[i]
  BY <1>1, <1>2, <1>4, SumSplit
<1>6. /\ i - 1 \in 0..L /\ i \in 0..L /\ i # 0 /\ i - 1 \in Nat
      /\ f[i - 1] \in Nat /\ f[i] \in Nat /\ f[i] = f[i - 1] + s[i]
  <2>1. i - 1 \in 0..L /\ i \in 0..L /\ i # 0 /\ i - 1 \in Nat
    BY <1>1
  <2>. QED
    BY <1>2, <1>3, <2>1 DEF IsSum
<1> DEFINE j == t - f[i - 1]
           d == NextN(b)
           slot == (i - 1) * d + j
<1>7. j \in 1..s[i] /\ t \in Nat /\ s[i] \in Nat
  BY <1>1, <1>3, <1>4, <1>5, <1>6
<1>8. d \in Nat \ {0} /\ s[i] <= d
  <2>1. s # << >>
    BY DEF RequiresPadding
  <2>. QED
    BY <1>1, <2>1, NextNIs
<1>9. j \in 1..d /\ j - 1 \in 0..(d - 1)
  BY <1>7, <1>8
<1>10. slot - 1 = (i - 1) * d + (j - 1)
  <2> HIDE DEF d, j
  <2>1. (i - 1) * d \in Nat
    BY <1>6, <1>8
  <2>. QED
    BY <1>9, <2>1
<1>11. (slot - 1) \div d = i - 1 /\ (slot - 1) % d = j - 1
  <2> HIDE DEF d, j, slot
  <2>1. ((i - 1) * d + (j - 1)) \div d = i - 1 /\ ((i - 1) * d + (j - 1)) % d = j - 1
    BY <1>6, <1>8, <1>9, DivModOf, Zenon
  <2>. QED
    BY <1>10, <2>1, Zenon
<1>12. slot \in 1..Slots(b)
  <2>1. Slots(b) = L * d
    BY DEF Slots
  <2> HIDE DEF d, j, L
  <2>2. (i - 1) * d \in Nat /\ i * d = (i - 1) * d + d /\ i * d <= L * d /\ L * d \in Nat
    BY <1>1, <1>6, <1>8
  <2>3. slot \in Nat /\ 1 <= slot /\ slot <= (i - 1) * d + d
    BY <1>9, <1>8, <2>2
  <2> HIDE DEF slot
  <2>4. slot <= L * d
    BY <2>2, <2>3, <1>8
  <2>. QED
    BY <2>1, <2>2, <2>3, <2>4
<1>13. SumOf(SubSeq(s, 1, i - 1)) = f[i - 1]
  <2> DEFINE u == SubSeq(s, 1, i - 1)
  <2>1. u \in Seq(Nat) /\ Len(u) = i - 1 /\ \A k \in 1..(i - 1) : s[k] = u[k]
    BY <1>1, <1>6
  <2>2. PICK g : IsSum(g, u, Len(u)) /\ SumOf(u) = g[Len(u)]
    BY <2>1, SumIs
  <2> HIDE DEF u
  <2>3. f[i - 1] = g[i - 1]
    <3> DEFINE m == i - 1
    <3>1. m \in 0..L /\ L \in Nat /\ IsSum(f, s, L) /\ IsSum(g, u, m)
      BY <1>1, <1>2, <1>6, <2>1, <2>2
    <3>2. \A k \in 1..m : s[k] = u[k]
      BY <2>1
    <3> HIDE DEF L, s, m
    <3>3. f[m] = g[m]
      BY <3>1, <3>2, SumUnique
    <3>. QED
      BY <3>3 DEF m
  <2>. QED
    BY <2>1, <2>2, <2>3 DEF u
<1>14. InSlot(b, slot) = t
  <2>1. (i - 1) + 1 = i /\ (j - 1) + 1 = j
    BY <1>6, <1>7
  <2>2. InSlot(b, slot) = PackedRow(b, i, j)
    <3> HIDE DEF j, slot
    <3>. QED
      BY <1>7, <1>11, <2>1 DEF InSlot
  <2>3. PackedRow(b, i, j) = f[i - 1] + j
    BY <1>13 DEF PackedRow
  <2>. QED
    BY <1>6, <1>7, <2>2, <2>3
<1>. QED
  <2> HIDE DEF slot
  <2>. QED
    BY <1>12, <1>14 DEF Unpacked

-----------------------------------------------------------------------------
(* Sources *)

LEMMA LatestIs ==
  ASSUME NEW sources, NEW l \in Nat, \E k \in sources : k <= l, sources \subseteq Nat
  PROVE  /\ Latest(sources, l) \in sources /\ Latest(sources, l) <= l
         /\ \A y \in sources : y <= l => y <= Latest(sources, l)
<1> DEFINE S == {s \in sources : s <= l}
<1>1. S \subseteq 0..l /\ S # {}
  <2>1. \A s \in S : s \in 0..l
    OBVIOUS
  <2>2. S # {}
    OBVIOUS
  <2> HIDE DEF S
  <2>. QED
    BY <2>1, <2>2
<1>2. Max(S) \in S /\ \A x \in S : x <= Max(S)
  <2> HIDE DEF S
  <2>. QED
    BY <1>1, Largest
<1>. QED
  BY <1>2 DEF Latest

\* The sources a layer reads from are layers of its ratio at or before it.
LEMMA Sources ==
  ASSUME Types, NEW l \in Layers, CompressRatio(l) > 0
  PROVE  /\ KVSource(l) \in Layers /\ KVSource(l) <= l /\ IsKVSource(KVSource(l))
         /\ IndexSource(l) \in Layers /\ IsSourceOf(IndexSource(l), l)
         /\ IsIndexSource(IndexSource(l))
         /\ CompressRatio(KVSource(l)) = CompressRatio(l)
         /\ CompressRatio(IndexSource(l)) = CompressRatio(l)
         /\ setup.candidateSource \in 1..l
              => CompressRatio(setup.candidateSource) = CompressRatio(l)
<1>1. /\ setup \in Setups /\ l \in DOMAIN setup.ratio /\ setup.ratio[l] > 0
      /\ l \in Nat /\ Layers = 1..Len(setup.ratio) /\ Len(setup.ratio) \in Nat
  BY SetupTypes DEF Layers, CompressRatio
<1>2. /\ setup.kvSources \subseteq Nat \ {0} /\ setup.indexSources \subseteq Nat \ {0}
  BY <1>1, SetupAssumption DEF Setup
<1>3. /\ setup.kvSources \subseteq setup.indexSources
      /\ \E k \in setup.kvSources : k <= l
      /\ setup.ratio[Latest(setup.kvSources, l)] = setup.ratio[l]
      /\ setup.ratio[Latest(setup.indexSources, l)] = setup.ratio[l]
      /\ setup.candidateSource \in 1..l
           => setup.ratio[setup.candidateSource] = setup.ratio[l]
  BY <1>1, TopologyAssumption
<1>4. /\ KVSource(l) \in setup.kvSources /\ KVSource(l) <= l
      /\ \A y \in setup.kvSources : y <= l => y <= KVSource(l)
  BY <1>1, <1>2, <1>3, LatestIs DEF KVSource
<1>5. /\ IndexSource(l) \in setup.indexSources /\ IndexSource(l) <= l
      /\ \A y \in setup.indexSources : y <= l => y <= IndexSource(l)
  <2>1. \E k \in setup.indexSources : k <= l
    BY <1>3
  <2>. QED
    BY <1>1, <1>2, <2>1, LatestIs DEF IndexSource
<1>6. KVSource(l) \in Layers /\ IndexSource(l) \in Layers
  BY <1>1, <1>2, <1>4, <1>5
<1>. QED
  BY <1>3, <1>4, <1>5, <1>6
     DEF IsSourceOf, IsKVSource, IsIndexSource, CompressRatio, KVSource, IndexSource

\* The slots of padded decodes fit.
LEMMA SlotsNat ==
  ASSUME NEW b \in Batches
  PROVE  Slots(b) \in Nat /\ Slots(b) <= MaxRows
<1>1. CASE ~RequiresPadding(b)
  BY <1>1, BatchNumbers, SlotsAlike, SetupAssumption
<1>2. CASE RequiresPadding(b)
  <2>1. b.decodes # << >> /\ b.decodes \in Seq(Nat \ {0})
    BY <1>2, BatchNumbers
  <2>2. NextN(b) \in Nat /\ Len(b.decodes) \in Nat
    BY <2>1, NextNIs
  <2>3. Len(b.decodes) * NextN(b) \in Nat
    BY <2>2
  <2>. QED
    BY <1>2, <2>3, SetupAssumption DEF Slots
<1>. QED
  BY <1>1, <1>2

-----------------------------------------------------------------------------
(* The indexer's operations *)

Selectors == {"fill", "clear", "chunk", "decode", "unpack"}

\* A layer that was enqueued has a batch.
LEMMA BatchOf ==
  ASSUME Types, NEW n, NEW l, Enqueued(n, l)
  PROVE  batches[n] \in Batches /\ n \in Nat /\ n \in 1..Step /\ l \in Layers /\ l \in Nat
<1>1. batches \in Seq(Batches) /\ n \in 1..Len(batches) /\ l \in Layers
  BY DEF Types, Enqueued, Step
<1>. QED
  BY <1>1, SetupTypes DEF Step

\* What of an index source is on the main stream.
Selecting(op, n, x, i) ==
  \/ op = "fill" /\ i = 0 /\ ShortContext(x, batches[n])
  \/ op = "clear" /\ i = 0 /\ ~ShortContext(x, batches[n])
  \/ op = "chunk" /\ i \in DOMAIN batches[n].chunks /\ ~ShortContext(x, batches[n])
  \/ op = "decode" /\ i = 0 /\ batches[n].decodes # << >> /\ ~ShortContext(x, batches[n])
  \/ op = "unpack" /\ i = 0 /\ RequiresPadding(batches[n]) /\ ~ShortContext(x, batches[n])

\* The indexer's operations are on the plan of a source.
LEMMA SelectingPlanned ==
  ASSUME Types, NEW n, NEW x, Enqueued(n, x), IsIndexSource(x),
         NEW op, NEW i, Selecting(op, n, x, i)
  PROVE  /\ Work(op, n, x, i) \in Op /\ Planned(Work(op, n, x, i))
         /\ Work(op, n, x, i).op = op /\ Work(op, n, x, i).n = n
         /\ Work(op, n, x, i).l = x /\ Work(op, n, x, i).i = i
         /\ Work(op, n, x, i).on = "main"
<1>1. batches[n] \in Batches /\ n \in Nat /\ x \in Nat
  BY BatchOf
<1>2. op \in Selectors /\ StreamOf(op, n) = "main"
  BY DEF Selecting, Selectors, StreamOf
<1>3. i \in Nat
  <2>1. batches[n].chunks \in Seq(Chunk)
    BY <1>1, BatchNumbers
  <2>2. DOMAIN batches[n].chunks \subseteq Nat
    BY <2>1
  <2>. QED
    BY <2>2 DEF Selecting
<1>4. Work(op, n, x, i) \in Op
  BY <1>1, <1>2, <1>3 DEF Work, Op, OpNames, Selectors, Streams
<1>5. PlannedWork(Work(op, n, x, i))
  BY <1>2 DEF Work, PlannedWork, Selecting, Scoring
<1>. QED
  BY <1>2, <1>4, <1>5 DEF Work, Planned

\* Those of layers ahead are all still to come.
LEMMA SelectingAhead ==
  ASSUME Types, StreamInv, NEW n, NEW x, Enqueued(n, x), IsIndexSource(x),
         NEW op, NEW i, Selecting(op, n, x, i), LayerBefore(AtN, AtL, n, x)
  PROVE  PendingAt(op, n, x, i)
<1> DEFINE y == Work(op, n, x, i)
<1>1. /\ y \in Op /\ Planned(y) /\ y.op = op /\ y.n = n /\ y.l = x /\ y.i = i
      /\ y.on = "main"
  BY SelectingPlanned
<1> HIDE DEF y
<1>2. PICK z \in Pend("main") : Same(y, z)
  BY <1>1, Later
<1>. QED
  BY <1>1, <1>2 DEF Same, PendingAt

Turn(op) == CASE op = "fill"   -> 63
              [] op = "clear"  -> 80
              [] op = "chunk"  -> 81
              [] op = "decode" -> 82
              [] op = "unpack" -> 83

\* An indexer's operation that runs is of the layer the main stream is in.
LEMMA SelectorHead ==
  ASSUME Types, StreamInv, NEW s \in Streams, queue[s] # << >>, Cur(s).op \in Selectors
  PROVE  /\ s = "main" /\ Cur(s) \in Pend("main") /\ Cur(s) \in Op
         /\ Cur(s).n = AtN /\ Cur(s).l = AtL /\ Enqueued(Cur(s).n, Cur(s).l)
         /\ IsIndexSource(Cur(s).l)
         /\ Selecting(Cur(s).op, Cur(s).n, Cur(s).l, Cur(s).i)
         /\ Place(Cur(s)) = Turn(Cur(s).op)
<1>1. /\ Cur(s) \in Pend(s) /\ Cur(s) \in Op /\ Cur(s).on = s /\ Planned(Cur(s))
      /\ Enqueued(Cur(s).n, Cur(s).l)
  BY HeadFirst DEF StreamInv, OnPlan
<1>2. PlannedWork(Cur(s))
  BY <1>1 DEF Planned, PlannedSync, Selectors
<1>3. s = "main"
  BY <1>1, <1>2 DEF PlannedWork, Selectors
<1>4. IsIndexSource(Cur(s).l) /\ Selecting(Cur(s).op, Cur(s).n, Cur(s).l, Cur(s).i)
  BY <1>2 DEF PlannedWork, Selectors, Selecting, Scoring
<1>5. Place(Cur(s)) = Turn(Cur(s).op)
  BY DEF Place, Turn, Selectors
<1>6. Cur(s).n = AtN /\ Cur(s).l = AtL
  BY <1>3, Where
<1>. QED
  BY <1>1, <1>3, <1>4, <1>5, <1>6

\* Of the operations of the source that is selecting, those before the one that
\* runs are done and those after it are not.
LEMMA SelectingOrder ==
  ASSUME Types, StreamInv, NEW s \in Streams, queue[s] # << >>, Cur(s).op \in Selectors,
         NEW op, NEW i, Selecting(op, Cur(s).n, Cur(s).l, i)
  PROVE  /\ \/ Turn(Cur(s).op) < Turn(op)
            \/ Turn(Cur(s).op) = Turn(op) /\ Cur(s).i < i
            => PendingAt(op, Cur(s).n, Cur(s).l, i)
         /\ \/ Turn(op) < Turn(Cur(s).op)
            \/ Turn(op) = Turn(Cur(s).op) /\ i < Cur(s).i
            => ~PendingAt(op, Cur(s).n, Cur(s).l, i)
<1> DEFINE o == Cur(s)
<1>1. /\ s = "main" /\ o \in Pend("main") /\ o \in Op /\ Enqueued(o.n, o.l)
      /\ IsIndexSource(o.l) /\ Place(o) = Turn(o.op)
  BY SelectorHead
<1>2. \A x \in Pend("main") : x \in Op /\ (x = o \/ Before(o, x))
  BY <1>1, HeadFirst DEF StreamInv
<1> DEFINE y == Work(op, o.n, o.l, i)
<1>3. /\ y \in Op /\ Planned(y) /\ y.op = op /\ y.n = o.n /\ y.l = o.l /\ y.i = i
      /\ y.on = "main"
  BY <1>1, SelectingPlanned
<1>4. op \in Selectors
  BY DEF Selecting, Selectors
<1> HIDE DEF y
<1>5. \A x : x.op = op => Place(x) = Turn(op)
  BY <1>4 DEF Place, Turn, Selectors
<1>6. ASSUME Turn(o.op) < Turn(op) \/ (Turn(o.op) = Turn(op) /\ o.i < i)
      PROVE  PendingAt(op, o.n, o.l, i)
  <2>1. Before(o, y)
    BY <1>1, <1>3, <1>5, <1>6 DEF Before
  <2>2. PICK z \in Pend("main") : Same(y, z)
    BY <1>1, <1>3, <2>1 DEF StreamInv, Complete
  <2>. QED
    BY <1>3, <2>2 DEF Same, PendingAt
<1>7. ASSUME Turn(op) < Turn(o.op) \/ (Turn(op) = Turn(o.op) /\ i < o.i),
             NEW z \in Pend("main"), z.op = op, z.n = o.n, z.l = o.l, z.i = i
      PROVE  FALSE
  <2>1. z \in Op /\ (z = o \/ Before(o, z))
    BY <1>2, <1>7
  <2>2. Place(z) = Turn(op) /\ Place(z) \in Nat /\ Place(o) \in Nat
    BY <1>1, <1>5, <1>7, <2>1, PlaceNat
  <2>. QED
    BY <1>1, <1>7, <2>1, <2>2, PlaceNat DEF Before, LayerBefore
<1>. QED
  BY <1>6, <1>7 DEF PendingAt

\* A step takes one operation off what is to come.
LEMMA PendingAfter ==
  ASSUME Types, StreamInv, NEW s \in Streams, Pops(s)
  PROVE  \A op, n, x, i :
           /\ PendingAt(op, n, x, i)' => PendingAt(op, n, x, i)
           /\ PendingAt(op, n, x, i) /\ ~PendingAt(op, n, x, i)' =>
                Cur(s).op = op /\ Cur(s).n = n /\ Cur(s).l = x /\ Cur(s).i = i
<1>1. /\ Pend(s)' = Pend(s) \ {Cur(s)}
      /\ \A t \in Streams : Pend(t)' \subseteq Pend(t)
      /\ \A t \in Streams : t # s => Pend(t)' = Pend(t)
      /\ "main" \in Streams
  BY PopQueue DEF Pops, StreamInv, Streams
<1>. QED
  BY <1>1 DEF PendingAt

\* And that one is done for good.
LEMMA PendingOver ==
  ASSUME Types, StreamInv, NEW s \in Streams, Pops(s), NEW o, o = Cur(s), o.op \in Selectors
  PROVE  ~PendingAt(o.op, o.n, o.l, o.i)'
<1>1. s = "main" /\ Pend("main")' = Pend("main") \ {o} /\ o \in Op
  BY PopQueue, SelectorHead DEF Pops, StreamInv
<1>. SUFFICES ASSUME NEW z \in Pend("main")', z.op = o.op, z.n = o.n, z.l = o.l, z.i = o.i
              PROVE  FALSE
  BY DEF PendingAt
<1>2. z \in Op /\ Before(o, z)
  BY <1>1, HeadFirst DEF Pops, StreamInv
<1>3. Place(z) = Place(o)
  BY DEF Place, Selectors
<1>. QED
  BY <1>1, <1>2, <1>3, PlaceNat DEF Before, LayerBefore

-----------------------------------------------------------------------------
(* What the indexer selects from *)

LEMMA QueryDone ==
  ASSUME Types, StreamInv, ActInv, NEW s \in Streams, queue[s] # << >>,
         Cur(s).op \in {"chunk", "decode"}
  PROVE  act.indexQ = <<Cur(s).n, Cur(s).l>>
<1>1. "indexQ" \in OpNames
  BY DEF OpNames
<1>2. ~Pending("indexQ", Cur(s).n, Cur(s).l)
  BY <1>1, WriterDone
<1>3. Cur(s) \in Pend(s)
  BY HeadFirst DEF StreamInv
<1>. QED
  BY <1>2, <1>3 DEF ActInv, Fed

\* Selection reads keys its own step has extended.
LEMMA KeysDone ==
  ASSUME Types, StreamInv, CacheInv, NEW s \in Streams, queue[s] # << >>,
         Cur(s).op \in {"chunk", "decode"}, CompressRatio(Cur(s).l) > 0
  PROVE  indexK[KVSource(Cur(s).l)] = <<Cur(s).n, KVSource(Cur(s).l)>>
<1> DEFINE o == Cur(s)
           k == KVSource(o.l)
<1>1. /\ s = "main" /\ o \in Op /\ o \in Pend("main") /\ o.n = AtN /\ o.l = AtL
      /\ Enqueued(o.n, o.l) /\ Place(o) = Turn(o.op)
  BY SelectorHead DEF Selectors
<1>2. o.l \in Layers /\ o.n \in Nat /\ o.l \in Nat
  BY <1>1, BatchOf
<1>3. k \in Layers /\ k <= o.l /\ IsKVSource(k) /\ k \in Nat
  BY <1>2, Sources, SetupTypes
<1> HIDE DEF k
<1>4. Enqueued(AtN, k)
  BY <1>1, <1>2, <1>3, SetupTypes DEF Enqueued, Types
<1>5. ASSUME NEW t \in Streams, NEW z \in Pend(t), z.op = "produceK", z.n = o.n, z.l = k
      PROVE  FALSE
  <2>1. z \in Op /\ ~LayerBefore(z.n, z.l, AtN, AtL) /\ z.on = t /\ Planned(z)
    BY <1>5, PendingFrom DEF StreamInv, OnPlan
  <2>2. z.l = o.l
    BY <1>1, <1>2, <1>3, <1>5, <2>1 DEF LayerBefore
  <2>3. t = "main"
    BY <1>5, <2>1 DEF Planned, PlannedSync, PlannedWork
  <2>4. Before(o, z)
    BY <1>1, <1>5, <2>3, HeadFirst DEF StreamInv
  <2>5. Place(z) = 62 /\ Place(o) \in {81, 82}
    BY <1>1, <1>5 DEF Place, Turn
  <2>. QED
    BY <1>1, <1>2, <1>5, <2>2, <2>4, <2>5 DEF Before, LayerBefore
<1>6. ~Pending("produceK", AtN, k)
  BY <1>1, <1>5 DEF Pending
<1>7. indexK[k] = <<AtN, k>>
  BY <1>3, <1>4, <1>6 DEF CacheInv, Written
<1>. QED
  BY <1>1, <1>7 DEF k

\* A chunk that skips the gather finds the keys of its group.
LEMMA GatherDone ==
  ASSUME Types, StreamInv, CacheInv, GatherInv, NEW s \in Streams, queue[s] # << >>,
         Cur(s).op = "chunk", CompressRatio(Cur(s).l) > 0
  PROVE  GatheredBy(Cur(s)) = [k |-> <<Cur(s).n, KVSource(Cur(s).l)>>,
                               group |-> ChunkOf(Cur(s)).group]
<1> DEFINE o == Cur(s)
<1>1. /\ s = "main" /\ o \in Op /\ o \in Pend("main") /\ Enqueued(o.n, o.l)
      /\ Selecting("chunk", o.n, o.l, o.i)
  BY SelectorHead DEF Selectors
<1>2. batches[o.n] \in Batches
  BY <1>1, BatchOf
<1>3. o.i \in DOMAIN batches[o.n].chunks /\ ~ShortContext(o.l, batches[o.n])
  BY <1>1 DEF Selecting
<1>4. CASE ~ChunkOf(o).skipGather
  <2>1. indexK[KVSource(o.l)] = <<o.n, KVSource(o.l)>>
    BY KeysDone
  <2>. QED
    BY <1>4, <2>1 DEF GatheredBy
<1>5. CASE ChunkOf(o).skipGather
  <2>1. o.i > 1 /\ ChunkOf(o).group = batches[o.n].chunks[o.i - 1].group
    BY <1>2, <1>3, <1>5, ChunkAssumption DEF ChunkOf
  <2>2. batches[o.n].chunks \in Seq(Chunk)
    BY <1>2, BatchNumbers
  <2>3. o.i - 1 \in DOMAIN batches[o.n].chunks /\ o.i - 1 < o.i
    BY <1>3, <2>1, <2>2
  <2>4. Selecting("chunk", o.n, o.l, o.i - 1)
    BY <1>3, <2>3 DEF Selecting
  <2>5. ~PendingAt("chunk", o.n, o.l, o.i - 1)
    BY <2>3, <2>4, SelectingOrder DEF Selectors
  <2>6. ws = [k |-> <<o.n, KVSource(o.l)>>, group |-> batches[o.n].chunks[o.i - 1].group]
    BY <1>1, <2>1, <2>5 DEF GatherInv
  <2>. QED
    BY <1>5, <2>1, <2>6 DEF GatheredBy
<1>. QED
  BY <1>4, <1>5

\* A layer that masks finds the candidates of every token it scores.
LEMMA CandsDone ==
  ASSUME Types, StreamInv, CandInv, NEW s \in Streams, queue[s] # << >>,
         Cur(s).op \in {"chunk", "decode"}, CompressRatio(Cur(s).l) > 0,
         Whole(batches[Cur(s).n]), UsesCandidates(Cur(s).l)
  PROVE  /\ \A i \in DOMAIN batches[Cur(s).n].chunks :
              \A t \in InChunk(batches[Cur(s).n], i) : cand[t] = <<Cur(s).n, t>>
         /\ \A r \in 1..Slots(batches[Cur(s).n]) : InSlot(batches[Cur(s).n], r) # 0 =>
              cand[r] = <<Cur(s).n, InSlot(batches[Cur(s).n], r)>>
<1> DEFINE o == Cur(s)
           c == setup.candidateSource
           b == batches[o.n]
<1>1. /\ s = "main" /\ o \in Op /\ o.n = AtN /\ o.l = AtL /\ Enqueued(o.n, o.l)
      /\ Selecting(o.op, o.n, o.l, o.i)
  BY SelectorHead DEF Selectors
<1>2. o.l \in Layers /\ o.n \in Nat /\ o.l \in Nat
  BY <1>1, BatchOf
<1>3. ~ShortContext(o.l, b)
  BY <1>1 DEF Selecting
<1>4. c \in 1..(o.l - 1) /\ c \in 1..o.l /\ c \in Layers
  BY <1>2, SetupTypes DEF UsesCandidates
<1>5. CompressRatio(c) = CompressRatio(o.l)
  BY <1>2, <1>4, Sources
<1>6. ~ShortContext(c, b)
  BY <1>3, <1>5 DEF ShortContext
<1>7. Enqueued(AtN, c)
  BY <1>1, <1>2, <1>4, SetupTypes DEF Enqueued, Types
<1>8. CandsOf(AtN, c)
  BY <1>1, <1>4, <1>5, <1>6, <1>7 DEF CandInv, Enqueued
<1>9. \A op, i : ~PendingAt(op, AtN, c, i)
  <2>. SUFFICES ASSUME NEW z \in Pend("main"), z.n = AtN, z.l = c PROVE FALSE
    BY DEF PendingAt
  <2>1. ~LayerBefore(z.n, z.l, AtN, AtL)
    BY PendingFrom DEF Streams
  <2>. QED
    BY <1>1, <1>2, <1>4, <2>1 DEF LayerBefore
<1>. QED
  BY <1>1, <1>8, <1>9 DEF CandsOf

\* What is scored so is a good row.
LEMMA ScoredGood ==
  ASSUME NEW o, NEW t, NEW r, t # 0, ~ShortContext(o.l, batches[o.n]),
         act.indexQ = <<o.n, o.l>>, UsesCandidates(o.l) => cand[r] = <<o.n, t>>,
         ~RequiresPadding(batches[o.n]) => r = t
  PROVE  GoodRow(Scored(o, t, r, <<o.n, KVSource(o.l)>>), o.n, o.l, t)
  BY DEF GoodRow, Scored, Selection

-----------------------------------------------------------------------------
(* The indexer runs *)

LEMMA HostKept ==
  ASSUME UNCHANGED host
  PROVE  /\ setup' = setup /\ batches' = batches
         /\ \A x : CompressRatio(x)' = CompressRatio(x) /\ KVSource(x)' = KVSource(x)
                   /\ IndexSource(x)' = IndexSource(x)
         /\ \A x, b : ShortContext(x, b)' <=> ShortContext(x, b)
         /\ \A x : UsesCandidates(x)' <=> UsesCandidates(x)
         /\ \A row, n, x, t : GoodRow(row, n, x, t)' <=> GoodRow(row, n, x, t)
<1>1. setup' = setup /\ batches' = batches
  BY DEF host
<1>2. \A x : CompressRatio(x)' = CompressRatio(x) /\ KVSource(x)' = KVSource(x)
             /\ IndexSource(x)' = IndexSource(x)
  BY <1>1 DEF CompressRatio, KVSource, IndexSource
<1>3. \A x, b : ShortContext(x, b)' <=> ShortContext(x, b)
  BY <1>1, <1>2 DEF ShortContext, CompressRatio
<1>4. \A x : UsesCandidates(x)' <=> UsesCandidates(x)
  BY <1>1 DEF UsesCandidates
<1>5. \A row, n, x, t : GoodRow(row, n, x, t)' <=> GoodRow(row, n, x, t)
  BY <1>1 DEF GoodRow, Everything, ShortContext, CompressRatio, KVSource, UsesCandidates
<1>. QED
  BY <1>1, <1>2, <1>3, <1>4, <1>5

\* The workspace stays the group's until its last chunk.
LEMMA GatherKept ==
  ASSUME Types, StreamInv, CacheInv, GatherInv, NEW s \in Streams, GpuStep(s)
  PROVE  GatherInv'
<1> DEFINE o == Cur(s)
<1>1. Pops(s) /\ SelectEffect(o)
  BY StepEffects
<1>2. /\ UNCHANGED host /\ queue[s] # << >>
      /\ Pend(s)' = Pend(s) \ {o} /\ \A t \in Streams : Pend(t)' \subseteq Pend(t)
      /\ "main" \in Streams
  BY <1>1, PopQueue DEF Pops, StreamInv, Streams
<1>. SUFFICES ASSUME NEW c \in Pend("main")', c.op = "chunk", c.i > 1,
                     ~PendingAt("chunk", c.n, c.l, c.i - 1)', CompressRatio(c.l) > 0
              PROVE  ws' = [k |-> <<c.n, KVSource(c.l)>>,
                            group |-> batches[c.n].chunks[c.i - 1].group]
  BY <1>2, HostKept DEF GatherInv
<1>3. c \in Pend("main")
  BY <1>2
<1>4. CASE PendingAt("chunk", c.n, c.l, c.i - 1)
  <2>1. o.op = "chunk" /\ o.n = c.n /\ o.l = c.l /\ o.i = c.i - 1
    BY <1>1, <1>4, PendingAfter
  <2>2. GatheredBy(o) = [k |-> <<o.n, KVSource(o.l)>>, group |-> ChunkOf(o).group]
    BY <1>2, <2>1, GatherDone
  <2>3. ws' = GatheredBy(o)
    BY <1>1, <2>1 DEF SelectEffect
  <2>. QED
    BY <2>1, <2>2, <2>3 DEF ChunkOf
<1>5. CASE ~PendingAt("chunk", c.n, c.l, c.i - 1)
  <2>1. ws = [k |-> <<c.n, KVSource(c.l)>>, group |-> batches[c.n].chunks[c.i - 1].group]
    BY <1>3, <1>5 DEF GatherInv
  <2>2. ASSUME o.op = "chunk" PROVE FALSE
    <3>1. /\ s = "main" /\ o.n = AtN /\ o.l = AtL /\ o.n \in Nat /\ o.l \in Nat /\ o.i \in Nat
      BY <1>2, <2>2, SelectorHead, PlaceNat DEF Selectors
    <3>2. /\ c \in Op /\ ~LayerBefore(c.n, c.l, AtN, AtL) /\ Enqueued(c.n, c.l)
          /\ Planned(c) /\ c.n \in Nat /\ c.l \in Nat /\ c.i \in Nat
      BY <1>2, <1>3, PendingFrom, PlaceNat DEF StreamInv, OnPlan
    <3>3. /\ IsIndexSource(c.l) /\ c.i \in DOMAIN batches[c.n].chunks
          /\ ~ShortContext(c.l, batches[c.n])
      BY <3>2 DEF Planned, PlannedSync, PlannedWork, Scoring
    <3>4. batches[c.n].chunks \in Seq(Chunk)
      BY <3>2, BatchOf, BatchNumbers
    <3>5. c.i - 1 \in DOMAIN batches[c.n].chunks
      BY <3>2, <3>3, <3>4
    <3>6. Selecting("chunk", c.n, c.l, c.i - 1)
      BY <3>3, <3>5 DEF Selecting
    <3>7. CASE LayerBefore(AtN, AtL, c.n, c.l)
      BY <1>5, <3>2, <3>3, <3>6, <3>7, SelectingAhead
    <3>8. CASE ~LayerBefore(AtN, AtL, c.n, c.l)
      <4>1. c.n = o.n /\ c.l = o.l
        BY <3>1, <3>2, <3>8 DEF LayerBefore
      <4>2. c # o /\ Before(o, c)
        BY <1>2, <1>3, <3>1, HeadFirst DEF StreamInv
      <4>3. o.i < c.i
        BY <2>2, <3>1, <3>2, <4>1, <4>2 DEF Before, LayerBefore, Place
      <4>4. CASE o.i < c.i - 1
        BY <1>2, <1>5, <2>2, <3>6, <4>1, <4>4, SelectingOrder DEF Selectors
      <4>5. CASE o.i = c.i - 1
        <5>1. o \in Pend("main")
          BY <1>2, <3>1, HeadFirst DEF StreamInv
        <5>. QED
          BY <1>5, <2>2, <4>1, <4>5, <5>1 DEF PendingAt
      <4>. QED
        BY <3>1, <3>2, <4>3, <4>4, <4>5
    <3>. QED
      BY <3>7, <3>8
  <2>3. ws' = ws
    BY <1>1, <2>2 DEF SelectEffect
  <2>. QED
    BY <2>1, <2>3
<1>. QED
  BY <1>4, <1>5

\* Writing some rows of a buffer leaves the others.
LEMMA OverAt ==
  ASSUME NEW buffer, NEW f, NEW r \in DOMAIN buffer
  PROVE  /\ r \in DOMAIN f => Over(buffer, f)[r] = f[r]
         /\ r \notin DOMAIN f => Over(buffer, f)[r] = buffer[r]
         /\ DOMAIN Over(buffer, f) = DOMAIN buffer
  BY DEF Over

\* A source's operation leaves what is selected so far, and adds its own.
LEMMA RowsStep ==
  ASSUME Types, StreamInv, ActInv, CacheInv, GatherInv, CandInv,
         NEW s \in Streams, GpuStep(s), NEW o, o = Cur(s), o.op \in Selectors,
         CompressRatio(o.l) > 0, Whole(batches[o.n]), RowsOf(o.n, o.l)
  PROVE  RowsOf(o.n, o.l)'
<1> DEFINE n == o.n
           x == o.l
           b == batches[n]
<1>1. /\ Pops(s) /\ SelectEffect(o) /\ UNCHANGED host /\ queue[s] # << >>
      /\ batches' = batches
  BY StepEffects, HostKept DEF Pops
<1>2. /\ s = "main" /\ o \in Pend("main") /\ Enqueued(n, x) /\ IsIndexSource(x)
      /\ Selecting(o.op, n, x, o.i)
  BY <1>1, SelectorHead
<1>3. b \in Batches
  BY <1>2, BatchOf
<1>4. /\ DecodeTokens(b) \in Nat /\ NumTokens(b) \in Nat /\ MaxRows \in Nat
      /\ DecodeTokens(b) <= NumTokens(b) /\ NumTokens(b) <= MaxRows
      /\ b.prefill = 0 => NumTokens(b) = DecodeTokens(b)
      /\ b.decodes = << >> => DecodeTokens(b) = 0 /\ ~RequiresPadding(b)
  BY <1>3, BatchNumbers
<1>5. DOMAIN topk = 1..MaxRows
  BY DEF Types
<1>6. \A i \in DOMAIN b.chunks : \A t \in InChunk(b, i) :
        /\ t \in (DecodeTokens(b) + 1)..NumTokens(b) /\ ~RequiresPadding(b) /\ t # 0
        /\ t \in DOMAIN topk /\ t \notin 1..DecodeTokens(b)
  <2>1. \A i \in DOMAIN b.chunks : \A t \in InChunk(b, i) :
          t \in (DecodeTokens(b) + 1)..NumTokens(b)
    BY <1>3, ChunkTokens
  <2>2. RequiresPadding(b) => NumTokens(b) = DecodeTokens(b)
    BY <1>4 DEF Whole
  <2>. QED
    BY <1>4, <1>5, <2>1, <2>2
<1>7. /\ ~RequiresPadding(b) => Slots(b) = DecodeTokens(b) /\ \A r : InSlot(b, r) = r
      /\ Slots(b) <= MaxRows
  BY <1>3, SlotsAlike, SetupAssumption
<1>8. \A op, i : /\ PendingAt(op, n, x, i)' => PendingAt(op, n, x, i)
                 /\ PendingAt(op, n, x, i) /\ ~PendingAt(op, n, x, i)' => o.op = op /\ o.i = i
  BY <1>1, PendingAfter
<1>9. \A op, i : Selecting(op, n, x, i) /\ (Turn(o.op) < Turn(op) \/
                   (Turn(o.op) = Turn(op) /\ o.i < i)) => PendingAt(op, n, x, i)
  BY <1>1, SelectingOrder
<1>10. \A op, i : Selecting(op, n, x, i) /\ (Turn(op) < Turn(o.op) \/
                    (Turn(op) = Turn(o.op) /\ i < o.i)) => ~PendingAt(op, n, x, i)
  BY <1>1, SelectingOrder
<1>11. o.op # "fill" => ~ShortContext(x, b)
  BY <1>2 DEF Selecting, Selectors
<1>12. o.op = "fill" => ShortContext(x, b)
  BY <1>2 DEF Selecting, Selectors
<1>13. /\ Turn("clear") = 80 /\ Turn("chunk") = 81 /\ Turn("decode") = 82 /\ Turn("unpack") = 83
  BY DEF Turn
<1>14. ASSUME o.op \in {"clear", "chunk"} PROVE b.decodes # << >> => PendingAt("decode", n, x, 0)'
  BY <1>8, <1>9, <1>11, <1>13, <1>14 DEF Selecting
<1>15. ASSUME o.op \in {"clear", "chunk", "decode"}
       PROVE  RequiresPadding(b) => PendingAt("unpack", n, x, 0)'
  BY <1>8, <1>9, <1>11, <1>13, <1>15 DEF Selecting
<1>. DEFINE Good(row, t) == GoodRow(row, n, x, t)
<1>16. /\ \A row, t : GoodRow(row, n, x, t)' <=> Good(row, t)
       /\ ShortContext(x, b)' <=> ShortContext(x, b)
  BY <1>1, HostKept
\* What is to be shown, with the batch as it is.
<1>. SUFFICES
       /\ ShortContext(x, b) /\ ~PendingAt("fill", n, x, 0)' =>
            \A t \in 1..NumTokens(b) : Good(topk'[t], t)
       /\ ~ShortContext(x, b) =>
          /\ \A i \in DOMAIN b.chunks : ~PendingAt("chunk", n, x, i)' =>
               \A t \in InChunk(b, i) : Good(topk'[t], t)
          /\ ~RequiresPadding(b) /\ ~PendingAt("decode", n, x, 0)' =>
               \A t \in 1..DecodeTokens(b) : Good(topk'[t], t)
          /\ RequiresPadding(b) /\ ~PendingAt("decode", n, x, 0)' /\ PendingAt("unpack", n, x, 0)' =>
               \A r \in 1..Slots(b) : InSlot(b, r) # 0 => Good(topk'[r], InSlot(b, r))
          /\ RequiresPadding(b) /\ ~PendingAt("unpack", n, x, 0)' =>
               \A t \in 1..DecodeTokens(b) : Good(topk'[t], t)
  BY <1>1, <1>16 DEF RowsOf
<1>17. CASE o.op = "fill"
  <2>1. \A t \in 1..NumTokens(b) : Good(topk'[t], t)
    <3>. TAKE t \in 1..NumTokens(b)
    <3>1. t \in DOMAIN topk
      BY <1>4, <1>5
    <3> DEFINE F == [u \in 1..NumTokens(b) |-> Everything(<<n, u>>, x)]
    <3>a. topk' = Over(topk, F)
      BY <1>1, <1>17 DEF SelectEffect
    <3>b. t \in DOMAIN F /\ F[t] = Everything(<<n, t>>, x)
      OBVIOUS
    <3> HIDE DEF F
    <3>2. topk'[t] = Everything(<<n, t>>, x)
      BY <3>a, <3>b, <3>1, OverAt
    <3>. QED
      BY <1>12, <1>17, <3>2 DEF GoodRow
  <2>. QED
    BY <1>12, <1>17, <2>1
<1>18. CASE o.op = "clear"
  <2>1. \A i \in DOMAIN b.chunks : PendingAt("chunk", n, x, i)'
    BY <1>8, <1>9, <1>11, <1>13, <1>18 DEF Selecting
  <2>. QED
    BY <1>4, <1>11, <1>14, <1>15, <1>18, <2>1
<1>19. CASE o.op = "chunk"
  <2>1. /\ ChunkOf(o) = b.chunks[o.i] /\ o.i \in DOMAIN b.chunks
    BY <1>2, <1>19 DEF ChunkOf, Selecting
  <2>2. topk' = Over(topk, ChunkRows(o)) /\ DOMAIN ChunkRows(o) = InChunk(b, o.i)
    BY <1>1, <1>19, <2>1 DEF SelectEffect, ChunkRows, InChunk
  <2>3. \A t \in InChunk(b, o.i) : Good(ChunkRows(o)[t], t)
    <3>. TAKE t \in InChunk(b, o.i)
    <3>1. GatheredBy(o) = [k |-> <<n, KVSource(x)>>, group |-> ChunkOf(o).group]
      BY <1>1, <1>19, GatherDone
    <3>2. ChunkRows(o)[t] = Scored(o, t, t, <<n, KVSource(x)>>)
      <4> DEFINE k == IF GatheredBy(o).group = ChunkOf(o).group THEN GatheredBy(o).k ELSE None
      <4>1. ChunkRows(o) = [u \in InChunk(b, o.i) |-> Scored(o, u, u, k)]
        BY <2>1 DEF ChunkRows, InChunk
      <4>2. k = <<n, KVSource(x)>>
        BY <3>1
      <4> HIDE DEF k
      <4>. QED
        BY <4>1, <4>2, Zenon
    <3>3. act.indexQ = <<n, x>>
      BY <1>1, <1>19, QueryDone
    <3>4. UsesCandidates(x) => cand[t] = <<n, t>>
      BY <1>1, <1>19, <2>1, CandsDone
    <3>. QED
      BY <1>6, <1>11, <1>19, <2>1, <3>2, <3>3, <3>4, ScoredGood
  <2>4. \A i \in DOMAIN b.chunks : ~PendingAt("chunk", n, x, i)' =>
               \A t \in InChunk(b, i) : Good(topk'[t], t)
    <3>. TAKE i \in DOMAIN b.chunks
    <3>. HAVE ~PendingAt("chunk", n, x, i)'
    <3>. TAKE t \in InChunk(b, i)
    <3>1. CASE t \in InChunk(b, o.i)
      BY <1>6, <2>2, <2>3, <3>1, OverAt
    <3>2. CASE t \notin InChunk(b, o.i)
      <4>1. topk'[t] = topk[t]
        BY <1>6, <2>2, <3>2, OverAt
      <4>2. ~PendingAt("chunk", n, x, i)
        BY <1>8, <3>2
      <4>. QED
        BY <1>11, <1>19, <4>1, <4>2 DEF RowsOf
    <3>. QED
      BY <3>1, <3>2
  <2>. QED
    BY <1>4, <1>11, <1>14, <1>15, <1>19, <2>4
<1>20. CASE o.op = "decode"
  <2>1. \A r \in DOMAIN topk :
          /\ r \in 1..Slots(b) => topk'[r] = Scored(o, InSlot(b, r), r, indexK[KVSource(x)])
          /\ r \notin 1..Slots(b) => topk'[r] = topk[r]
    BY <1>1, <1>20 DEF SelectEffect, DecodeRows, Over
  <2>2. \A r \in 1..Slots(b) : r \in DOMAIN topk
    <3>1. Slots(b) \in Int
      BY <1>3, <1>4, <1>7, SlotsNat
    <3>. QED
      BY <1>4, <1>5, <1>7, <3>1
  <2>3. \A r \in 1..Slots(b) : InSlot(b, r) # 0 => Good(topk'[r], InSlot(b, r))
    <3>. TAKE r \in 1..Slots(b)
    <3>. HAVE InSlot(b, r) # 0
    <3>1. topk'[r] = Scored(o, InSlot(b, r), r, <<n, KVSource(x)>>)
      <4>1. indexK[KVSource(x)] = <<n, KVSource(x)>>
        BY <1>1, <1>20, KeysDone
      <4>. QED
        BY <2>1, <2>2, <4>1
    <3>2. act.indexQ = <<n, x>>
      BY <1>1, <1>20, QueryDone
    <3>3. UsesCandidates(x) => cand[r] = <<n, InSlot(b, r)>>
      BY <1>1, <1>20, CandsDone
    <3>. QED
      BY <1>7, <1>11, <1>20, <3>1, <3>2, <3>3, ScoredGood
  <2>4. \A i \in DOMAIN b.chunks : ~PendingAt("chunk", n, x, i)' =>
               \A t \in InChunk(b, i) : Good(topk'[t], t)
    <3>. TAKE i \in DOMAIN b.chunks
    <3>. HAVE ~PendingAt("chunk", n, x, i)'
    <3>. TAKE t \in InChunk(b, i)
    <3>1. topk'[t] = topk[t]
      <4>1. t \notin 1..Slots(b) /\ t \in DOMAIN topk
        BY <1>6, <1>7
      <4>. QED
        BY <2>1, <4>1
    <3>2. ~PendingAt("chunk", n, x, i)
      BY <1>8, <1>20
    <3>. QED
      BY <1>11, <1>20, <3>1, <3>2 DEF RowsOf
  <2>. QED
    BY <1>7, <1>11, <1>15, <1>20, <2>3, <2>4
<1>21. CASE o.op = "unpack"
  <2>1. RequiresPadding(b)
    BY <1>2, <1>21 DEF Selecting
  <2>2. ~PendingAt("decode", n, x, 0) /\ PendingAt("unpack", n, x, 0)
    <3>1. b.decodes # << >>
      BY <1>4, <2>1
    <3>2. Selecting("decode", n, x, 0)
      BY <1>11, <1>21, <3>1 DEF Selecting
    <3>3. o.i = 0
      BY <1>2, <1>21 DEF Selecting
    <3>. QED
      BY <1>2, <1>10, <1>13, <1>21, <3>2, <3>3 DEF PendingAt
  <2>3. \A t \in 1..DecodeTokens(b) : Good(topk'[t], t)
    <3>. TAKE t \in 1..DecodeTokens(b)
    <3>1. Unpacked(b, t) \in 1..Slots(b) /\ InSlot(b, Unpacked(b, t)) = t
      BY <1>3, <2>1, UnpackedSlot
    <3>2. Good(topk[Unpacked(b, t)], t)
      <4>1. t # 0
        BY <1>4
      <4>. QED
        BY <1>11, <1>21, <2>1, <2>2, <3>1, <4>1 DEF RowsOf
    <3>3. t \in DOMAIN topk
      BY <1>4, <1>5
    <3> DEFINE F == [u \in 1..DecodeTokens(b) |-> topk[Unpacked(b, u)]]
    <3>a. topk' = Over(topk, F)
      BY <1>1, <1>21 DEF SelectEffect
    <3>b. t \in DOMAIN F /\ F[t] = topk[Unpacked(b, t)]
      OBVIOUS
    <3> HIDE DEF F
    <3>4. topk'[t] = topk[Unpacked(b, t)]
      BY <3>a, <3>b, <3>3, OverAt
    <3>. QED
      BY <3>2, <3>4
  <2>4. ~PendingAt("unpack", n, x, 0)'
    <3>1. o.i = 0
      BY <1>2, <1>21 DEF Selecting
    <3>. QED
      BY <1>1, <1>21, <3>1, PendingOver
  <2>. QED
    BY <1>6, <1>11, <1>21, <2>1, <2>3, <2>4
<1>. QED
  BY <1>17, <1>18, <1>19, <1>20, <1>21 DEF Selectors

\* A layer has one index source.
LEMMA IndexSourceAt ==
  ASSUME Types, NEW x, NEW l, IsSourceOf(x, l), NEW y, IsSourceOf(y, l)
  PROVE  x = y
<1>1. setup.indexSources \subseteq Nat
  BY SetupTypes, SetupAssumption DEF Setup
<1>. QED
  BY <1>1 DEF IsSourceOf

\* No operation overwrites rows attention will still read.
LEMMA RowsKept ==
  ASSUME Types, StreamInv, ActInv, CacheInv, GatherInv, CandInv, RowsInv,
         NEW s \in Streams, GpuStep(s)
  PROVE  RowsInv' /\ DOMAIN topk' = DOMAIN topk
<1>1. /\ Pops(s) /\ SelectEffect(Cur(s)) /\ UNCHANGED host /\ queue[s] # << >>
      /\ batches' = batches /\ setup' = setup /\ Layers' = Layers
  BY StepEffects, HostKept, PlanKept DEF Pops
<1>2. DOMAIN topk' = DOMAIN topk
  <2>1. CASE Cur(s).op \notin Selectors
    BY <1>1, <2>1 DEF SelectEffect, Selectors
  <2>2. CASE Cur(s).op \in Selectors
    BY <1>1, <2>2 DEF SelectEffect, Selectors, Over
  <2>. QED
    BY <2>1, <2>2
<1>3. /\ AtN \in Nat /\ AtL \in Nat /\ AtN' \in Nat /\ AtL' \in Nat
      /\ (AtN' = AtN /\ AtL' = AtL) \/ LayerBefore(AtN, AtL, AtN', AtL')
  BY <1>1, AtMoves
<1>4. RowsInv'
  <2>. SUFFICES ASSUME NEW x \in Layers, IsSourceOf(x, AtL)', CompressRatio(x) > 0,
                       NEW n \in 1..Step, n = AtN', Enqueued(n, x), Whole(batches[n])
                PROVE  RowsOf(n, x)'
    <3>1. /\ \A m, l : Enqueued(m, l)' <=> Enqueued(m, l)
          /\ \A y : CompressRatio(y)' = CompressRatio(y)
          /\ Step' = Step
      BY <1>1, PlanKept, HostKept
    <3>. QED
      BY <1>1, <3>1 DEF RowsInv
  <2>1. x \in Nat /\ IsIndexSource(x) /\ x <= AtL'
        /\ \A y \in setup.indexSources : y <= AtL' => y <= x
    BY <1>1, BatchOf DEF IsSourceOf, IsIndexSource
  <2> DEFINE b == batches[n]
  <2>. b \in Batches
    BY BatchOf
  <2>2. CASE LayerBefore(AtN, AtL, n, x)
    <3>1. ASSUME NEW op, NEW i, Selecting(op, n, x, i) PROVE PendingAt(op, n, x, i)'
      <4>1. PendingAt(op, n, x, i)
        BY <2>1, <2>2, <3>1, SelectingAhead
      <4>2. ASSUME ~PendingAt(op, n, x, i)' PROVE FALSE
        <5>1. Cur(s).op = op /\ Cur(s).n = n /\ Cur(s).l = x
          BY <1>1, <4>1, <4>2, PendingAfter
        <5>2. op \in Selectors
          BY <3>1 DEF Selecting, Selectors
        <5>3. n = AtN /\ x = AtL
          BY <1>1, <5>1, <5>2, SelectorHead
        <5>. QED
          BY <1>3, <2>2, <5>3 DEF LayerBefore
      <4>. QED
        BY <4>2
    <3>2. /\ ShortContext(x, b) => PendingAt("fill", n, x, 0)'
          /\ ~ShortContext(x, b) =>
             /\ \A i \in DOMAIN b.chunks : PendingAt("chunk", n, x, i)'
             /\ b.decodes # << >> => PendingAt("decode", n, x, 0)'
             /\ RequiresPadding(b) => PendingAt("unpack", n, x, 0)'
      BY <3>1 DEF Selecting
    <3>3. b.decodes = << >> => DecodeTokens(b) = 0 /\ ~RequiresPadding(b)
      BY BatchNumbers
    <3>4. 1..0 = {}
      OBVIOUS
    <3>5. ShortContext(x, b)' <=> ShortContext(x, b)
      BY <1>1, HostKept
    <3>6. b' = b
      BY <1>1
    <3> HIDE DEF b
    <3>7. /\ ShortContext(x, b)' => PendingAt("fill", n, x, 0)'
          /\ ~ShortContext(x, b)' =>
             /\ \A i \in DOMAIN b.chunks : PendingAt("chunk", n, x, i)'
             /\ ~RequiresPadding(b) /\ ~PendingAt("decode", n, x, 0)' => 1..DecodeTokens(b) = {}
             /\ RequiresPadding(b) => PendingAt("decode", n, x, 0)' /\ PendingAt("unpack", n, x, 0)'
      BY <3>2, <3>3, <3>4, <3>5
    <3>. QED
      BY <1>1, <3>7 DEF RowsOf, b
  <2>3. CASE ~LayerBefore(AtN, AtL, n, x)
    <3>1. n = AtN /\ x <= AtL /\ AtL <= AtL'
      BY <1>3, <2>1, <2>3 DEF LayerBefore
    <3>2. IsSourceOf(x, AtL)
      <4>1. setup.indexSources \subseteq Nat
        BY SetupTypes, SetupAssumption DEF Setup
      <4>. QED
        BY <1>3, <2>1, <3>1, <4>1 DEF IsSourceOf, IsIndexSource
    <3>3. RowsOf(n, x)
      BY <3>1, <3>2 DEF RowsInv
    <3>4. CASE Cur(s).op \in Selectors
      <4> DEFINE o == Cur(s)
      <4>1. o.n = AtN /\ o.l = AtL /\ IsIndexSource(o.l) /\ o \in Op
        BY <1>1, <3>4, SelectorHead
      <4>2. o.l = x
        BY <1>3, <2>1, <3>1, <3>2, <4>1 DEF IsSourceOf, IsIndexSource
      <4>3. PICK c : c = o
        OBVIOUS
      <4> HIDE DEF o
      <4>4. RowsOf(c.n, c.l)'
        BY <3>1, <3>3, <3>4, <4>1, <4>2, <4>3, RowsStep DEF o
      <4>. QED
        BY <3>1, <4>1, <4>2, <4>3, <4>4
    <3>5. CASE Cur(s).op \notin Selectors
      <4>1. topk' = topk
        BY <1>1, <3>5 DEF SelectEffect, Selectors
      <4>2. \A op \in Selectors : \A i : PendingAt(op, n, x, i)' <=> PendingAt(op, n, x, i)
        BY <1>1, <3>5, PendingAfter
      <4>3. \A op \in {"fill", "chunk", "decode", "unpack"} : \A i :
              PendingAt(op, n, x, i)' <=> PendingAt(op, n, x, i)
        BY <4>2 DEF Selectors
      <4>4. ShortContext(x, b)' <=> ShortContext(x, b)
        BY <1>1, HostKept
      <4>5. \A row, t : GoodRow(row, n, x, t)' <=> GoodRow(row, n, x, t)
        BY <1>1, HostKept
      <4>. QED
        BY <1>1, <3>3, <4>1, <4>3, <4>4, <4>5 DEF RowsOf
    <3>. QED
      BY <3>4, <3>5
  <2>. QED
    BY <2>2, <2>3
<1>. QED
  BY <1>2, <1>4

\* The candidate source's operations publish the tokens of their rows.
LEMMA CandsStep ==
  ASSUME Types, StreamInv, NEW s \in Streams, GpuStep(s), NEW o, o = Cur(s),
         o.op \in Selectors, o.l = setup.candidateSource, Whole(batches[o.n]),
         CandsOf(o.n, o.l)
  PROVE  CandsOf(o.n, o.l)'
<1> DEFINE n == o.n
           x == o.l
           b == batches[n]
<1>1. /\ Pops(s) /\ SelectEffect(o) /\ UNCHANGED host /\ queue[s] # << >>
      /\ batches' = batches
  BY StepEffects, HostKept DEF Pops
<1>2. /\ s = "main" /\ o \in Pend("main") /\ Enqueued(n, x) /\ IsIndexSource(x)
      /\ Selecting(o.op, n, x, o.i)
  BY <1>1, SelectorHead
<1>3. b \in Batches
  BY <1>2, BatchOf
<1>4. /\ DecodeTokens(b) \in Nat /\ NumTokens(b) \in Nat /\ MaxRows \in Nat
      /\ DecodeTokens(b) <= NumTokens(b) /\ NumTokens(b) <= MaxRows
      /\ b.prefill = 0 => NumTokens(b) = DecodeTokens(b)
      /\ b.decodes = << >> => DecodeTokens(b) = 0 /\ ~RequiresPadding(b)
      /\ Slots(b) \in Nat /\ Slots(b) <= MaxRows
  BY <1>3, BatchNumbers, SlotsNat
<1>5. DOMAIN cand = 1..MaxRows
  BY DEF Types
<1>6. ~RequiresPadding(b) => Slots(b) = DecodeTokens(b) /\ \A r : InSlot(b, r) = r
  BY <1>3, SlotsAlike
<1>7. \A i \in DOMAIN b.chunks : \A t \in InChunk(b, i) :
        t \notin 1..Slots(b) /\ t # 0 /\ t \in DOMAIN cand
  <2>1. \A i \in DOMAIN b.chunks : \A t \in InChunk(b, i) :
          t \in (DecodeTokens(b) + 1)..NumTokens(b)
    BY <1>3, ChunkTokens
  <2>2. RequiresPadding(b) => NumTokens(b) = DecodeTokens(b)
    BY <1>4 DEF Whole
  <2>. QED
    BY <1>4, <1>5, <1>6, <2>1, <2>2
<1>8. \A op, i : PendingAt(op, n, x, i) /\ ~PendingAt(op, n, x, i)' => o.op = op /\ o.i = i
  BY <1>1, PendingAfter
<1>9. 1..Slots(b) \subseteq DOMAIN cand
  BY <1>4, <1>5
\* What is to be shown, with the batch as it is.
<1>. SUFFICES
       /\ \A i \in DOMAIN b.chunks : ~PendingAt("chunk", n, x, i)' =>
            \A t \in InChunk(b, i) : cand'[t] = <<n, t>>
       /\ ~PendingAt("decode", n, x, 0)' =>
            \A r \in 1..Slots(b) : InSlot(b, r) # 0 => cand'[r] = <<n, InSlot(b, r)>>
  BY <1>1 DEF CandsOf
<1>10. CASE o.op = "chunk"
  <2>1. /\ ChunkOf(o) = b.chunks[o.i] /\ o.i \in DOMAIN b.chunks
    BY <1>2, <1>10 DEF ChunkOf, Selecting
  <2>2. \A r \in DOMAIN cand :
          /\ r \in InChunk(b, o.i) /\ r # 0 => cand'[r] = <<n, r>>
          /\ r \notin InChunk(b, o.i) => cand'[r] = cand[r]
    BY <1>1, <1>10, <2>1 DEF SelectEffect, Published, ChunkRows, Over, InChunk, Scored, Selection
  <2>3. \A i \in DOMAIN b.chunks : ~PendingAt("chunk", n, x, i)' =>
            \A t \in InChunk(b, i) : cand'[t] = <<n, t>>
    <3>. TAKE i \in DOMAIN b.chunks
    <3>. HAVE ~PendingAt("chunk", n, x, i)'
    <3>. TAKE t \in InChunk(b, i)
    <3>1. CASE t \in InChunk(b, o.i)
      BY <1>7, <2>2, <3>1
    <3>2. CASE t \notin InChunk(b, o.i)
      <4>1. ~PendingAt("chunk", n, x, i)
        BY <1>8, <3>2
      <4>2. cand'[t] = cand[t]
        BY <1>7, <2>2, <3>2
      <4>. QED
        BY <4>1, <4>2 DEF CandsOf
    <3>. QED
      BY <3>1, <3>2
  <2>4. ~PendingAt("decode", n, x, 0)' => ~PendingAt("decode", n, x, 0)
    BY <1>8, <1>10
  <2>5. \A r \in 1..Slots(b) : cand'[r] = cand[r]
    <3>. TAKE r \in 1..Slots(b)
    <3>1. r \notin InChunk(b, o.i)
      BY <1>7, <2>1
    <3>. QED
      BY <1>9, <2>2, <3>1
  <2>. QED
    BY <2>3, <2>4, <2>5 DEF CandsOf
<1>11. CASE o.op = "decode"
  <2>1. \A r \in DOMAIN cand :
          /\ r \in 1..Slots(b) /\ InSlot(b, r) # 0 => cand'[r] = <<n, InSlot(b, r)>>
          /\ r \notin 1..Slots(b) => cand'[r] = cand[r]
    BY <1>1, <1>11 DEF SelectEffect, Published, DecodeRows, Over, Scored, Selection
  <2>2. \A r \in 1..Slots(b) : InSlot(b, r) # 0 => cand'[r] = <<n, InSlot(b, r)>>
    BY <1>9, <2>1
  <2>3. \A i : ~PendingAt("chunk", n, x, i)' => ~PendingAt("chunk", n, x, i)
    BY <1>8, <1>11
  <2>4. \A i \in DOMAIN b.chunks : \A t \in InChunk(b, i) : cand'[t] = cand[t]
    BY <1>7, <2>1
  <2>. QED
    BY <2>2, <2>3, <2>4 DEF CandsOf
<1>12. CASE o.op \notin {"chunk", "decode"}
  <2>1. cand' = cand
    BY <1>1, <1>12 DEF SelectEffect
  <2>2. /\ \A i : ~PendingAt("chunk", n, x, i)' => ~PendingAt("chunk", n, x, i)
        /\ ~PendingAt("decode", n, x, 0)' => ~PendingAt("decode", n, x, 0)
    BY <1>8, <1>12
  <2>. QED
    BY <2>1, <2>2 DEF CandsOf
<1>. QED
  BY <1>10, <1>11, <1>12

\* Nor candidate blocks a later layer masks by.
LEMMA CandsKept ==
  ASSUME Types, StreamInv, CandInv, NEW s \in Streams, GpuStep(s)
  PROVE  CandInv' /\ DOMAIN cand' = DOMAIN cand
<1>1. /\ Pops(s) /\ SelectEffect(Cur(s)) /\ UNCHANGED host /\ queue[s] # << >>
      /\ batches' = batches /\ setup' = setup /\ Layers' = Layers
  BY StepEffects, HostKept, PlanKept DEF Pops
<1>2. DOMAIN cand' = DOMAIN cand
  BY <1>1 DEF SelectEffect, Published, Over
<1>3. /\ AtN \in Nat /\ AtL \in Nat /\ AtN' \in Nat /\ AtL' \in Nat
      /\ (AtN' = AtN /\ AtL' = AtL) \/ LayerBefore(AtN, AtL, AtN', AtL')
  BY <1>1, AtMoves
<1>4. CandInv'
  <2>. SUFFICES ASSUME NEW x \in Layers, x = setup.candidateSource, CompressRatio(x) > 0,
                       NEW n \in 1..Step, n = AtN', Enqueued(n, x), Whole(batches[n]),
                       ~ShortContext(x, batches[n])
                PROVE  CandsOf(n, x)'
    <3>1. /\ \A m, l : Enqueued(m, l)' <=> Enqueued(m, l)
          /\ \A y : CompressRatio(y)' = CompressRatio(y)
          /\ \A y, b : ShortContext(y, b)' <=> ShortContext(y, b)
          /\ Step' = Step
      BY <1>1, PlanKept, HostKept
    <3>. QED
      BY <1>1, <3>1 DEF CandInv, ShortContext, CompressRatio
  <2> DEFINE b == batches[n]
  <2>. b \in Batches
    BY BatchOf
  <2>a. x \in Nat /\ IsIndexSource(x)
    <3>1. x \in Nat /\ x # 0
      BY SetupTypes
    <3>2. setup \in Setups
      BY DEF Types
    <3>. QED
      BY <3>1, <3>2, TopologyAssumption DEF IsIndexSource
  <2>2. CASE LayerBefore(AtN, AtL, n, x)
    <3>1. ASSUME NEW op, NEW i, Selecting(op, n, x, i) PROVE PendingAt(op, n, x, i)'
      <4>1. PendingAt(op, n, x, i)
        BY <2>a, <2>2, <3>1, SelectingAhead
      <4>2. ASSUME ~PendingAt(op, n, x, i)' PROVE FALSE
        <5>1. Cur(s).op = op /\ Cur(s).n = n /\ Cur(s).l = x
          BY <1>1, <4>1, <4>2, PendingAfter
        <5>2. op \in Selectors
          BY <3>1 DEF Selecting, Selectors
        <5>3. n = AtN /\ x = AtL
          BY <1>1, <5>1, <5>2, SelectorHead
        <5>. QED
          BY <1>3, <2>2, <5>3 DEF LayerBefore
      <4>. QED
        BY <4>2
    <3>2. /\ \A i \in DOMAIN b.chunks : PendingAt("chunk", n, x, i)'
          /\ b.decodes # << >> => PendingAt("decode", n, x, 0)'
      BY <3>1 DEF Selecting
    <3>3. b.decodes = << >> => 1..Slots(b) = {}
      <4>1. b.decodes = << >> => Slots(b) = 0
        BY BatchNumbers, SlotsAlike
      <4>2. 1..0 = {}
        OBVIOUS
      <4>. QED
        BY <4>1, <4>2
    <3>. QED
      BY <1>1, <3>2, <3>3 DEF CandsOf
  <2>3. CASE ~LayerBefore(AtN, AtL, n, x)
    <3>1. n = AtN
      BY <1>3, <2>3 DEF LayerBefore
    <3>3. CandsOf(n, x)
      BY <3>1 DEF CandInv
    <3>4. CASE Cur(s).op \in Selectors /\ Cur(s).l = x
      <4>1. Cur(s).n = n
        BY <1>1, <3>1, <3>4, SelectorHead
      <4>2. PICK c : c = Cur(s)
        OBVIOUS
      <4>3. CandsOf(c.n, c.l)'
        BY <3>3, <3>4, <4>1, <4>2, CandsStep
      <4>. QED
        BY <3>4, <4>1, <4>2, <4>3
    <3>5. CASE ~(Cur(s).op \in Selectors /\ Cur(s).l = x)
      <4>1. cand' = cand
        BY <1>1, <3>5 DEF SelectEffect, Selectors, Published
      <4>2. /\ \A i : ~PendingAt("chunk", n, x, i)' => ~PendingAt("chunk", n, x, i)
            /\ ~PendingAt("decode", n, x, 0)' => ~PendingAt("decode", n, x, 0)
        BY <1>1, <3>5, PendingAfter DEF Selectors
      <4>. QED
        BY <1>1, <3>3, <4>1, <4>2 DEF CandsOf
    <3>. QED
      BY <3>4, <3>5
  <2>. QED
    BY <2>2, <2>3
<1>. QED
  BY <1>2, <1>4

-----------------------------------------------------------------------------
(* Attention *)

\* When a layer attends, nothing of it and of the layers behind is left but work
\* of later places.
LEMMA AttendLast ==
  ASSUME Types, StreamInv, NEW s \in Streams, queue[s] # << >>, Cur(s).op = "attend"
  PROVE  /\ s = "main" /\ Cur(s) \in Op /\ Cur(s).n = AtN /\ Cur(s).l = AtL
         /\ Enqueued(Cur(s).n, Cur(s).l)
         /\ \A t \in Streams : \A z \in Pend(t) : z.n = Cur(s).n /\ z.l <= Cur(s).l
              => t = "main" /\ z.op = "attend"
<1> DEFINE o == Cur(s)
<1>1. /\ o \in Pend(s) /\ o \in Op /\ o.on = s /\ Planned(o) /\ Enqueued(o.n, o.l)
      /\ o.n \in Nat /\ o.l \in Nat
  BY HeadFirst, PlaceNat DEF StreamInv, OnPlan
<1>2. s = "main"
  BY <1>1 DEF Planned, PlannedSync, PlannedWork
<1>3. o.n = AtN /\ o.l = AtL /\ Place(o) = 84
  BY <1>2, Where DEF Place
<1>4. ASSUME NEW t \in Streams, NEW z \in Pend(t), z.n = o.n, z.l <= o.l
      PROVE  t = "main" /\ z.op = "attend"
  <2>1. /\ z \in Op /\ ~LayerBefore(z.n, z.l, AtN, AtL) /\ z.on = t /\ Planned(z)
        /\ z.l \in Nat /\ z.n \in Nat
    BY <1>4, PendingFrom, PlaceNat DEF StreamInv, OnPlan
  <2>2. z.l = o.l
    BY <1>1, <1>3, <1>4, <2>1 DEF LayerBefore
  <2>3. \A y \in Pend("main") : y.n = o.n /\ y.l = o.l => Place(y) >= 84
    <3>. SUFFICES ASSUME NEW y \in Pend("main"), y.n = o.n, y.l = o.l PROVE Place(y) >= 84
      OBVIOUS
    <3>1. y \in Op /\ (y = o \/ Before(o, y))
      BY <1>2, HeadFirst DEF StreamInv
    <3>2. Place(y) \in Nat
      BY <3>1, PlaceNat
    <3>. QED
      BY <1>1, <1>3, <3>1, <3>2 DEF Before, LayerBefore
  <2>4. CASE t = "main"
    <3>1. Place(z) >= 84
      BY <1>4, <2>2, <2>3, <2>4
    <3>2. z.op # "record" /\ z.op # "wait"
      <4>1. ASSUME PlannedSync(z) PROVE Place(z) < 84
        <5>1. z.fork \in 1..3 /\ z.op \in {"record", "wait"} /\ z.on = "main"
          BY <2>1, <2>4, <4>1 DEF PlannedSync
        <5>2. z.op = "wait" => z.i \in 0..2
          BY <2>1, PlannedInRange DEF Events
        <5>3. z.op = "record" => Place(z) = 20 * z.fork + 1
          BY <5>1 DEF Place
        <5>4. z.op = "wait" => Place(z) = 20 * z.fork + (12 + z.i)
          BY <5>1 DEF Place
        <5>. QED
          BY <5>1, <5>2, <5>3, <5>4
      <4>. QED
        <5>1. Place(z) \in Nat
          BY <2>1, PlaceNat
        <5>2. PlannedWork(z)
          BY <2>1, <3>1, <4>1, <5>1 DEF Planned
        <5>. QED
          BY <5>2 DEF PlannedWork
    <3>. QED
      BY <2>1, <2>4, <3>1, <3>2 DEF Place, Op, OpNames
  <2>5. CASE t \in Aux
    <3>1. PICK w \in Pend("main") : /\ w.op = "wait" /\ w.n = z.n /\ w.l = z.l
                                    /\ w.fork = ForkOf(z) /\ w.i = EventOf(t)
      BY <2>5, AuxJoin
    <3>2. w \in Op /\ w.on = "main" /\ ForkOf(z) \in 1..3 /\ EventOf(t) \in 1..2
      BY <1>2, <2>1, <2>5, <3>1, PendingFrom, AuxFork DEF StreamInv, OnPlan, EventOf, Aux
    <3>3. Place(w) = 20 * ForkOf(z) + 12 + EventOf(t)
      BY <3>1, <3>2 DEF Place
    <3>4. Place(w) >= 84
      BY <1>4, <2>2, <2>3, <3>1
    <3>. QED
      BY <3>2, <3>3, <3>4
  <2>. QED
    BY <2>4, <2>5 DEF Streams, Aux
<1>. QED
  BY <1>1, <1>2, <1>3, <1>4

\* What a layer reads is what was made for it.
LEMMA AttendReads ==
  ASSUME Types, StreamInv, CacheInv, RowsInv, NEW s \in Streams, queue[s] # << >>,
         NEW o, o = Cur(s), o.op = "attend"
  PROVE  /\ swa[o.l] = <<o.n, o.l>>
         /\ CompressRatio(o.l) > 0 =>
              /\ comp[KVSource(o.l)] = <<o.n, KVSource(o.l)>>
              /\ Whole(batches[o.n]) =>
                   \A t \in 1..NumTokens(batches[o.n]) :
                     GoodRow(topk[t], o.n, IndexSource(o.l), t)
<1> DEFINE n == o.n
           b == batches[n]
<1>1. /\ s = "main" /\ o \in Op /\ n = AtN /\ o.l = AtL /\ Enqueued(n, o.l)
      /\ \A t \in Streams : \A z \in Pend(t) : z.n = n /\ z.l <= o.l
              => t = "main" /\ z.op = "attend"
  BY AttendLast
<1>2. o.l \in Layers /\ n \in Nat /\ o.l \in Nat /\ b \in Batches /\ n \in 1..Step
  BY <1>1, BatchOf
<1>3. ASSUME NEW op, op # "attend", NEW l \in Nat, l <= o.l PROVE ~Pending(op, n, l)
  BY <1>1, <1>3 DEF Pending
<1>4. ASSUME NEW op, op # "attend", NEW l \in Nat, l <= o.l, NEW i PROVE ~PendingAt(op, n, l, i)
  BY <1>1, <1>4 DEF PendingAt, Streams
<1>5. \A l \in Layers : l <= o.l => Enqueued(AtN, l) /\ l \in Nat
  BY <1>1, <1>2, SetupTypes DEF Enqueued, Types
<1>6. swa[o.l] = <<n, o.l>>
  BY <1>1, <1>2, <1>3 DEF CacheInv, Written
<1>. SUFFICES ASSUME CompressRatio(o.l) > 0
              PROVE  /\ comp[KVSource(o.l)] = <<n, KVSource(o.l)>>
                     /\ Whole(b) => \A t \in 1..NumTokens(b) :
                          GoodRow(topk[t], n, IndexSource(o.l), t)
  BY <1>6
<1>7. comp[KVSource(o.l)] = <<n, KVSource(o.l)>>
  <2>1. KVSource(o.l) \in Layers /\ KVSource(o.l) <= o.l /\ IsKVSource(KVSource(o.l))
    BY <1>2, Sources
  <2>. QED
    BY <1>1, <1>3, <1>5, <2>1 DEF CacheInv, Written
<1>8. ASSUME Whole(b), NEW t \in 1..NumTokens(b)
      PROVE  GoodRow(topk[t], n, IndexSource(o.l), t)
  <2> DEFINE x == IndexSource(o.l)
  <2>1. x \in Layers /\ IsSourceOf(x, o.l) /\ x <= o.l /\ CompressRatio(x) > 0
    BY <1>2, Sources DEF IsSourceOf
  <2> HIDE DEF x
  <2>2. RowsOf(n, x)
    BY <1>1, <1>2, <1>5, <1>8, <2>1 DEF RowsInv
  <2>3. \A i : /\ ~PendingAt("fill", n, x, i) /\ ~PendingAt("chunk", n, x, i)
               /\ ~PendingAt("decode", n, x, i) /\ ~PendingAt("unpack", n, x, i)
    BY <1>4, <1>5, <2>1
  <2>4. /\ ShortContext(x, b) => \A u \in 1..NumTokens(b) : GoodRow(topk[u], n, x, u)
        /\ ~ShortContext(x, b) =>
             /\ \A i \in DOMAIN b.chunks : \A u \in InChunk(b, i) : GoodRow(topk[u], n, x, u)
             /\ \A u \in 1..DecodeTokens(b) : GoodRow(topk[u], n, x, u)
    BY <2>2, <2>3 DEF RowsOf
  <2>5. t \in 1..DecodeTokens(b) \/ t \in (DecodeTokens(b) + 1)..NumTokens(b)
    BY <1>2, BatchNumbers
  <2>6. t \in (DecodeTokens(b) + 1)..NumTokens(b)
          => \E i \in DOMAIN b.chunks : t \in InChunk(b, i)
    BY <1>2, ChunkTokens
  <2>. QED
    BY <2>4, <2>5, <2>6 DEF x
<1>. QED
  BY <1>7, <1>8

\* Attention reads what is by then complete.
LEMMA OutKept ==
  ASSUME Types, StreamInv, CacheInv, RowsInv, OutInv, NEW s \in Streams, GpuStep(s)
  PROVE  OutInv' /\ DOMAIN out' = DOMAIN out
<1>1. /\ Pops(s) /\ OutEffect(Cur(s)) /\ UNCHANGED host /\ queue[s] # << >>
      /\ batches' = batches /\ setup' = setup /\ Layers' = Layers /\ Step' = Step
  BY StepEffects, HostKept, PlanKept DEF Pops
<1>2. DOMAIN out' = DOMAIN out /\ DOMAIN out = Layers
  BY <1>1 DEF OutEffect, Types
<1>3. PICK o : o = Cur(s)
  OBVIOUS
<1> DEFINE Fine(v, l) ==
      /\ v.n \in 1..Step
      /\ v.swa = <<v.n, l>>
      /\ CompressRatio(l) > 0 =>
         /\ v.comp = <<v.n, KVSource(l)>>
         /\ DOMAIN v.rows = 1..NumTokens(batches[v.n])
         /\ Whole(batches[v.n]) =>
              \A t \in 1..NumTokens(batches[v.n]) : GoodRow(v.rows[t], v.n, IndexSource(l), t)
<1>4. ASSUME NEW l \in Layers, Attended(l)' PROVE Fine(out'[l], l)
  <2>1. CASE o.op = "attend" /\ o.l = l
    <3>1. out'[l] = [n |-> o.n, swa |-> swa[o.l],
                 comp |-> IF CompressRatio(o.l) > 0 THEN comp[KVSource(o.l)] ELSE None,
                 rows |-> IF CompressRatio(o.l) > 0
                          THEN [t \in 1..NumTokens(batches[o.n]) |-> topk[t]] ELSE None]
      BY <1>1, <1>2, <1>3, <2>1 DEF OutEffect
    <3>2. /\ swa[o.l] = <<o.n, o.l>>
          /\ CompressRatio(o.l) > 0 =>
              /\ comp[KVSource(o.l)] = <<o.n, KVSource(o.l)>>
              /\ Whole(batches[o.n]) =>
                   \A t \in 1..NumTokens(batches[o.n]) :
                     GoodRow(topk[t], o.n, IndexSource(o.l), t)
      BY <1>1, <1>3, <2>1, AttendReads
    <3>3. o.n \in 1..Step
      BY <1>1, <1>3, <2>1, AttendLast, BatchOf
    <3>. QED
      BY <2>1, <3>1, <3>2, <3>3
  <2>2. CASE ~(o.op = "attend" /\ o.l = l)
    <3>1. out'[l] = out[l]
      BY <1>1, <1>2, <1>3, <2>2 DEF OutEffect
    <3>. QED
      BY <1>4, <3>1 DEF OutInv, Attended
  <2>. QED
    BY <2>1, <2>2
<1>5. /\ \A row, n, x, t : GoodRow(row, n, x, t)' <=> GoodRow(row, n, x, t)
      /\ \A x : CompressRatio(x)' = CompressRatio(x) /\ KVSource(x)' = KVSource(x)
                   /\ IndexSource(x)' = IndexSource(x)
  BY <1>1, HostKept
<1>6. OutInv'
  <2>. SUFFICES ASSUME NEW l \in Layers, Attended(l)'
                PROVE /\ out'[l].n \in 1..Step
                      /\ out'[l].swa = <<out'[l].n, l>>
                      /\ CompressRatio(l) > 0 =>
                           /\ out'[l].comp = <<out'[l].n, KVSource(l)>>
                           /\ DOMAIN out'[l].rows = 1..NumTokens(batches[out'[l].n])
                           /\ Whole(batches[out'[l].n]) =>
                                \A t \in 1..NumTokens(batches[out'[l].n]) :
                                  GoodRow(out'[l].rows[t], out'[l].n, IndexSource(l), t)
    BY <1>1, <1>5 DEF OutInv, GoodRow, ShortContext, CompressRatio, KVSource, IndexSource,
                      UsesCandidates, Everything
  <2>. QED
    BY <1>4
<1>. QED
  BY <1>2, <1>6

\* A step of a stream keeps the invariant.
LEMMA GpuStepInv ==
  ASSUME IInv, NEW s \in Streams, GpuStep(s)
  PROVE  IInv'
<1>. USE DEF IInv
<1>1. /\ Pops(s) /\ UNCHANGED host /\ recorded' = recorded /\ queue[s] # << >>
      /\ setup' = setup /\ batches' = batches /\ layer' = layer /\ Layers' = Layers
      /\ Step' = Step
  BY StepEffects, PlanKept DEF Pops
<1>2. StreamInv'
  BY <1>1, PopKeepsStreams
<1>3. queue' \in [Streams -> Seq(Op)]
  BY <1>1, PopQueue DEF Pops, StreamInv
<1>4. fired' \in [Layers -> [Events -> Nat]]
  BY <1>1, PopKeepsCounts
<1>5. ActInv' /\ DOMAIN act' = DOMAIN act
  BY ActKept
<1>6. CacheInv' /\ DOMAIN swa' = DOMAIN swa /\ DOMAIN comp' = DOMAIN comp
      /\ DOMAIN indexK' = DOMAIN indexK
  BY CachesKept
<1>7. GatherInv'
  BY GatherKept
<1>8. RowsInv' /\ DOMAIN topk' = DOMAIN topk
  BY RowsKept
<1>9. CandInv' /\ DOMAIN cand' = DOMAIN cand
  BY CandsKept
<1>10. OutInv' /\ DOMAIN out' = DOMAIN out
  BY OutKept
<1>11. Types'
  BY <1>1, <1>3, <1>4, <1>5, <1>6, <1>8, <1>9, <1>10 DEF Types
<1>. QED
  BY <1>2, <1>5, <1>6, <1>7, <1>8, <1>9, <1>10, <1>11

-----------------------------------------------------------------------------
(* What the host enqueues *)

Sorted(q) == \A i, j \in DOMAIN q : i < j => Before(q[i], q[j])
Elements(q) == {q[i] : i \in DOMAIN q}

\* Work in the order of its places, which are from lo to hi: the elements of S.
Piece(q, n, l, lo, hi, S) ==
  /\ q \in Seq(Op) /\ Sorted(q) /\ Elements(q) = S
  /\ \A i \in DOMAIN q : q[i].n = n /\ q[i].l = l /\ q[i].at = 0
                         /\ lo <= Place(q[i]) /\ Place(q[i]) <= hi

\* Nothing is a piece of a program.
LEMMA NoPiece ==
  ASSUME NEW n, NEW l, NEW lo, NEW hi
  PROVE  Piece(<< >>, n, l, lo, hi, {})
  BY DEF Piece, Sorted, Elements

\* So is one operation.
LEMMA OnePiece ==
  ASSUME NEW n, NEW l, NEW k \in Nat, NEW o \in Op, o.n = n, o.l = l, o.at = 0, Place(o) = k
  PROVE  Piece(<<o>>, n, l, k, k, {o})
  BY DEF Piece, Sorted, Elements

\* So are three in order.
LEMMA ThreePieces ==
  ASSUME NEW n, NEW l, NEW a \in Op, NEW b \in Op, NEW c \in Op,
         a.n = n, a.l = l, a.at = 0, b.n = n, b.l = l, b.at = 0, c.n = n, c.l = l, c.at = 0,
         NEW lo \in Nat, NEW hi \in Nat,
         Place(a) = lo, Place(c) = hi, lo < Place(b), Place(b) < hi
  PROVE  Piece(<<a, b, c>>, n, l, lo, hi, {a, b, c})
<1> DEFINE q == <<a, b, c>>
<1>1. /\ q \in Seq(Op) /\ DOMAIN q = 1..3 /\ q[1] = a /\ q[2] = b /\ q[3] = c
  OBVIOUS
<1>2. \A i \in 1..3 : i = 1 \/ i = 2 \/ i = 3
  OBVIOUS
<1>3. Elements(q) = {a, b, c}
  <2> HIDE DEF q
  <2>1. 1 \in 1..3 /\ 2 \in 1..3 /\ 3 \in 1..3
    OBVIOUS
  <2>. QED
    BY <1>1, <1>2, <2>1 DEF Elements
<1>4. Place(a) \in Nat /\ Place(b) \in Nat /\ Place(c) \in Nat
  BY PlaceNat
<1>5. Before(a, b) /\ Before(b, c) /\ Before(a, c)
  BY <1>4 DEF Before
<1>6. Sorted(q)
  <2> HIDE DEF q
  <2>. QED
    BY <1>1, <1>2, <1>5 DEF Sorted
<1> HIDE DEF q
<1>. QED
  BY <1>1, <1>2, <1>3, <1>4, <1>6 DEF Piece, q

\* Pieces follow each other.
LEMMA NextPiece ==
  ASSUME NEW n, NEW l, NEW a, NEW b, NEW S, NEW T,
         NEW lo \in Nat, NEW mid \in Nat, NEW top \in Nat, NEW hi \in Nat,
         Piece(a, n, l, lo, mid, S), Piece(b, n, l, top, hi, T),
         lo <= mid, mid < top, top <= hi
  PROVE  Piece(a \o b, n, l, lo, hi, S \cup T)
<1> DEFINE q == a \o b
<1>1. /\ a \in Seq(Op) /\ b \in Seq(Op) /\ Len(a) \in Nat /\ Len(b) \in Nat
      /\ DOMAIN a = 1..Len(a) /\ DOMAIN b = 1..Len(b)
  BY DEF Piece
<1>2. /\ q \in Seq(Op) /\ DOMAIN q = 1..(Len(a) + Len(b))
      /\ \A i \in 1..(Len(a) + Len(b)) :
           q[i] = IF i <= Len(a) THEN a[i] ELSE b[i - Len(a)]
  BY <1>1
<1>3. \A i \in 1..(Len(a) + Len(b)) :
        /\ i <= Len(a) => i \in DOMAIN a /\ q[i] = a[i]
        /\ ~(i <= Len(a)) => i - Len(a) \in DOMAIN b /\ q[i] = b[i - Len(a)]
  BY <1>1, <1>2
<1>4. \A i \in DOMAIN a : i \in DOMAIN q /\ q[i] = a[i]
  BY <1>1, <1>2
<1>5. \A i \in DOMAIN b : i + Len(a) \in DOMAIN q /\ q[i + Len(a)] = b[i]
  <2>. TAKE i \in DOMAIN b
  <2>1. i + Len(a) \in 1..(Len(a) + Len(b)) /\ ~(i + Len(a) <= Len(a)) /\ (i + Len(a)) - Len(a) = i
    BY <1>1
  <2>. QED
    BY <1>2, <2>1
<1> HIDE DEF q
<1>6. Elements(q) = S \cup T
  <2>1. Elements(a) = S /\ Elements(b) = T
    BY DEF Piece
  <2>2. ASSUME NEW o \in Elements(q) PROVE o \in S \cup T
    BY <1>2, <1>3, <2>1, <2>2 DEF Elements
  <2>3. ASSUME NEW o \in S \cup T PROVE o \in Elements(q)
    BY <1>4, <1>5, <2>1, <2>3 DEF Elements
  <2>. QED
    BY <2>2, <2>3
<1>7. \A i \in DOMAIN q : q[i] \in Op /\ q[i].n = n /\ q[i].l = l /\ q[i].at = 0
                          /\ Place(q[i]) \in Nat
                          /\ (i <= Len(a) => lo <= Place(q[i]) /\ Place(q[i]) <= mid)
                          /\ (~(i <= Len(a)) => top <= Place(q[i]) /\ Place(q[i]) <= hi)
  <2>. TAKE i \in DOMAIN q
  <2>1. q[i] \in Op /\ Place(q[i]) \in Nat
    BY <1>2, PlaceNat
  <2>2. CASE i <= Len(a)
    BY <1>2, <1>3, <2>1, <2>2 DEF Piece
  <2>3. CASE ~(i <= Len(a))
    BY <1>2, <1>3, <2>1, <2>3 DEF Piece
  <2>. QED
    BY <2>2, <2>3
<1>8. Sorted(q)
  <2>. SUFFICES ASSUME NEW i \in DOMAIN q, NEW j \in DOMAIN q, i < j PROVE Before(q[i], q[j])
    BY DEF Sorted
  <2>0. i \in Int /\ j \in Int
    BY <1>2
  <2>1. CASE j <= Len(a)
    <3>1. i <= Len(a)
      BY <1>1, <2>0, <2>1
    <3>. QED
      BY <1>2, <1>3, <2>1, <3>1 DEF Piece, Sorted
  <2>2. CASE ~(i <= Len(a))
    <3>1. ~(j <= Len(a)) /\ i - Len(a) < j - Len(a)
      BY <1>1, <2>0, <2>2
    <3>. QED
      BY <1>2, <1>3, <2>2, <3>1 DEF Piece, Sorted
  <2>3. CASE i <= Len(a) /\ ~(j <= Len(a))
    BY <1>7, <2>3 DEF Before
  <2>. QED
    BY <2>1, <2>2, <2>3
<1>9. \A i \in DOMAIN q : lo <= Place(q[i]) /\ Place(q[i]) <= hi
  BY <1>7
<1>. QED
  BY <1>2, <1>6, <1>7, <1>8, <1>9 DEF Piece, q

\* A piece may be left out.
LEMMA SomePiece ==
  ASSUME NEW n, NEW l, NEW a, NEW S, NEW lo, NEW hi, NEW c \in BOOLEAN,
         c => Piece(a, n, l, lo, hi, S)
  PROVE  Piece(OnlyIf(c, a), n, l, lo, hi, IF c THEN S ELSE {})
  BY NoPiece DEF OnlyIf

\* Room around it does not matter.
LEMMA WiderPiece ==
  ASSUME NEW n, NEW l, NEW a, NEW S, NEW lo \in Nat, NEW hi \in Nat,
         NEW low \in Nat, NEW high \in Nat, low <= lo, hi <= high,
         Piece(a, n, l, lo, hi, S)
  PROVE  Piece(a, n, l, low, high, S)
<1>1. a \in Seq(Op) /\ \A i \in DOMAIN a : a[i] \in Op /\ Place(a[i]) \in Nat
  BY PlaceNat DEF Piece
<1>. QED
  BY <1>1 DEF Piece

\* What a stream is given of it.
IsOn(kept, q, s, n) ==
  kept = [p \in 0..n |-> IF p = 0 THEN << >>
                         ELSE IF q[p].on = s THEN Append(kept[p - 1], q[p]) ELSE kept[p - 1]]

\* OnStream is the value of a function that exists.
LEMMA OnExists ==
  ASSUME NEW q, NEW s
  PROVE  \A n \in Nat : \E kept : IsOn(kept, q, s, n)
<1> DEFINE D == {n \in Nat : \E kept : IsOn(kept, q, s, n)}
<1>1. 0 \in D
  <2>1. 0..0 = {0}
    OBVIOUS
  <2>2. IsOn([m \in 0..0 |-> << >>], q, s, 0)
    BY <2>1 DEF IsOn
  <2>. QED
    BY <2>2
<1>2. ASSUME NEW n \in Nat, n \in D PROVE n + 1 \in D
  <2>1. PICK old : IsOn(old, q, s, n)
    BY <1>2
  <2> DEFINE last == IF q[n + 1].on = s THEN Append(old[n], q[n + 1]) ELSE old[n]
             new  == [m \in 0..(n + 1) |-> IF m = n + 1 THEN last ELSE old[m]]
  <2>2. \A m \in 0..(n + 1) : new[m] = IF m = 0 THEN << >>
                         ELSE IF q[m].on = s THEN Append(new[m - 1], q[m]) ELSE new[m - 1]
    <3>. TAKE m \in 0..(n + 1)
    <3>1. CASE m = n + 1
      <4>1. m # 0 /\ m - 1 = n /\ new[m] = last /\ new[m - 1] = old[n]
        BY <3>1
      <4>. QED
        BY <3>1, <4>1
    <3>2. CASE m # n + 1
      <4>1. m \in 0..n /\ new[m] = old[m]
        BY <3>2
      <4>2. old[m] = IF m = 0 THEN << >>
                         ELSE IF q[m].on = s THEN Append(old[m - 1], q[m]) ELSE old[m - 1]
        BY <2>1, <4>1 DEF IsOn
      <4>3. CASE m = 0
        BY <4>1, <4>2, <4>3
      <4>4. CASE m # 0
        <5>1. m - 1 \in 0..(n + 1) /\ m - 1 # n + 1
          BY <4>1, <4>4
        <5>2. new[m - 1] = old[m - 1]
          BY <5>1
        <5> HIDE DEF new
        <5>. QED
          BY <4>1, <4>2, <4>4, <5>2
      <4>. QED
        BY <4>3, <4>4
    <3>. QED
      BY <3>1, <3>2
  <2>3. IsOn(new, q, s, n + 1)
    <3>1. new = [m \in 0..(n + 1) |-> new[m]]
      OBVIOUS
    <3> HIDE DEF new
    <3>. QED
      BY <2>2, <3>1 DEF IsOn
  <2>. QED
    BY <2>3
<1>3. Nat \subseteq D
  <2> HIDE DEF D
  <2>. QED
    BY <1>1, <1>2, Counting
<1>. QED
  BY <1>3

\* The first n of q that are on s, in order.
OnWell(r, q, s, n) ==
  /\ r \in Seq(Op) /\ Sorted(r)
  /\ Elements(r) = {o \in {q[i] : i \in 1..n} : o.on = s}

\* Appending what comes last keeps a sequence in order.
LEMMA OnAppend ==
  ASSUME NEW r \in Seq(Op), Sorted(r), NEW e \in Op, \A o \in Elements(r) : Before(o, e)
  PROVE  /\ Append(r, e) \in Seq(Op) /\ Sorted(Append(r, e))
         /\ Elements(Append(r, e)) = Elements(r) \cup {e}
<1> DEFINE a == Append(r, e)
<1>1. /\ a \in Seq(Op) /\ Len(r) \in Nat /\ DOMAIN r = 1..Len(r) /\ DOMAIN a = 1..(Len(r) + 1)
      /\ \A i \in 1..Len(r) : a[i] = r[i]
      /\ a[Len(r) + 1] = e
  OBVIOUS
<1>2. /\ \A i \in 1..(Len(r) + 1) : i \in 1..Len(r) \/ i = Len(r) + 1
      /\ \A i \in 1..Len(r) : i \in 1..(Len(r) + 1) /\ i # Len(r) + 1
      /\ Len(r) + 1 \in 1..(Len(r) + 1)
  BY <1>1
<1> HIDE DEF a
<1>3. Elements(a) = Elements(r) \cup {e}
  BY <1>1, <1>2 DEF Elements
<1>4. Sorted(a)
  <2>. SUFFICES ASSUME NEW i \in 1..(Len(r) + 1), NEW j \in 1..(Len(r) + 1), i < j
                PROVE  Before(a[i], a[j])
    BY <1>1 DEF Sorted
  <2>1. i \in 1..Len(r)
    BY <1>1
  <2>2. CASE j \in 1..Len(r)
    BY <1>1, <2>1, <2>2 DEF Sorted
  <2>3. CASE j = Len(r) + 1
    BY <1>1, <2>1, <2>3 DEF Elements
  <2>. QED
    BY <1>2, <2>2, <2>3
<1>. QED
  BY <1>1, <1>3, <1>4 DEF a

\* OnStream keeps the order and exactly what is on the stream.
LEMMA OnStreamIs ==
  ASSUME NEW q \in Seq(Op), Sorted(q), NEW s
  PROVE  /\ OnStream(q, s) \in Seq(Op) /\ Sorted(OnStream(q, s))
         /\ Elements(OnStream(q, s)) = {o \in Elements(q) : o.on = s}
<1> DEFINE L == Len(q)
           kept == CHOOSE f : f = [p \in 0..L |->
                      IF p = 0 THEN << >>
                      ELSE IF q[p].on = s THEN Append(f[p - 1], q[p]) ELSE f[p - 1]]
<1>1. L \in Nat /\ DOMAIN q = 1..L
  OBVIOUS
<1>2. kept = [p \in 0..L |-> IF p = 0 THEN << >>
                      ELSE IF q[p].on = s THEN Append(kept[p - 1], q[p]) ELSE kept[p - 1]]
  <2>1. \E f : f = [p \in 0..L |-> IF p = 0 THEN << >>
                      ELSE IF q[p].on = s THEN Append(f[p - 1], q[p]) ELSE f[p - 1]]
    <3>1. PICK f : IsOn(f, q, s, L)
      BY <1>1, OnExists
    <3>2. f = [p \in 0..L |-> IF p = 0 THEN << >>
                      ELSE IF q[p].on = s THEN Append(f[p - 1], q[p]) ELSE f[p - 1]]
      BY <3>1 DEF IsOn
    <3>. QED
      BY <3>2, Zenon
  <2> HIDE DEF L
  <2>. QED
    BY <2>1, Zenon
<1>3. OnStream(q, s) = kept[L]
  BY DEF OnStream
<1> HIDE DEF kept
<1> DEFINE D == {n \in Nat : n <= L => OnWell(kept[n], q, s, n)}
<1>4. 0 \in D
  <2>1. kept[0] = << >> /\ 1..0 = {}
    BY <1>1, <1>2
  <2>2. OnWell(<< >>, q, s, 0)
    BY <2>1 DEF OnWell, Sorted, Elements
  <2>. QED
    BY <2>1, <2>2
<1>5. ASSUME NEW n \in Nat, n \in D PROVE n + 1 \in D
  <2>. SUFFICES ASSUME n + 1 <= L PROVE OnWell(kept[n + 1], q, s, n + 1)
    OBVIOUS
  <2>1. n <= L /\ n + 1 \in 0..L /\ n + 1 # 0 /\ (n + 1) - 1 = n /\ n + 1 \in 1..L
    BY <1>1
  <2>2. OnWell(kept[n], q, s, n)
    BY <1>5, <2>1
  <2>3. kept[n + 1] = IF q[n + 1].on = s THEN Append(kept[n], q[n + 1]) ELSE kept[n]
    BY <1>2, <2>1
  <2>4. {q[i] : i \in 1..(n + 1)} = {q[i] : i \in 1..n} \cup {q[n + 1]}
    <3>1. 1..(n + 1) = 1..n \cup {n + 1}
      OBVIOUS
    <3>. QED
      BY <3>1
  <2>5. CASE q[n + 1].on = s
    <3>1. q[n + 1] \in Op
      BY <1>1, <2>1
    <3>2. \A o \in Elements(kept[n]) : Before(o, q[n + 1])
      <4>. TAKE o \in Elements(kept[n])
      <4>1. PICK i \in 1..n : o = q[i]
        BY <2>2 DEF OnWell
      <4>2. i \in DOMAIN q /\ n + 1 \in DOMAIN q /\ i < n + 1
        BY <1>1, <2>1
      <4>. QED
        BY <4>1, <4>2 DEF Sorted
    <3>3. kept[n] \in Seq(Op) /\ Sorted(kept[n])
      BY <2>2 DEF OnWell
    <3>4. /\ Append(kept[n], q[n + 1]) \in Seq(Op) /\ Sorted(Append(kept[n], q[n + 1]))
          /\ Elements(Append(kept[n], q[n + 1])) = Elements(kept[n]) \cup {q[n + 1]}
      BY <3>1, <3>2, <3>3, OnAppend
    <3>. QED
      BY <2>2, <2>3, <2>4, <2>5, <3>4 DEF OnWell
  <2>6. CASE q[n + 1].on # s
    BY <2>2, <2>3, <2>4, <2>6 DEF OnWell
  <2>. QED
    BY <2>5, <2>6
<1>6. L \in D
  <2> HIDE DEF D, L
  <2>. QED
    BY <1>1, <1>4, <1>5, Counting
<1>7. OnWell(OnStream(q, s), q, s, L)
  BY <1>1, <1>3, <1>6
<1>. QED
  BY <1>1, <1>7 DEF OnWell, Elements

\* The operations of a layer by their places.
SyncAt(y, on, op, i, f, k) ==
  y.on = on /\ y.op = op /\ y.i = i /\ y.fork = f /\ Place(y) = k
WorkAt(y, on, op, k) == y.on = on /\ y.op = op /\ y.fork = 0 /\ y.i = 0 /\ Place(y) = k

\* All that is on the plan, with its place.
LEMMA PlannedAt ==
  ASSUME NEW y \in Op, Planned(y)
  PROVE  \/ \E f \in 1..3 :
              /\ Takes("main", y.n, y.l, f)
              /\ SyncAt(y, "main", "record", 0, f, 20 * f + 1)
         \/ \E f \in 1..3 :
              /\ Takes("aux0", y.n, y.l, f)
              /\ \/ SyncAt(y, "aux0", "record", 1, f, 20 * f + 6)
                 \/ SyncAt(y, "aux0", "wait", 0, f, 20 * f + 4)
                 \/ SyncAt(y, "main", "wait", 1, f, 20 * f + 13)
         \/ /\ Takes("aux1", y.n, y.l, 1)
            /\ \/ SyncAt(y, "aux1", "record", 2, 1, 29)
               \/ SyncAt(y, "aux1", "wait", 0, 1, 27)
               \/ SyncAt(y, "main", "wait", 2, 1, 34)
         \/ WorkAt(y, "main", "qkv", 30)
         \/ WorkAt(y, "main", "insert", 42)
         \/ WorkAt(y, "main", "attend", 84)
         \/ IsKVSource(y.l) /\ Small(y.n) /\ WorkAt(y, "aux0", "kvScore", 25)
         \/ IsKVSource(y.l) /\ ~Small(y.n) /\ WorkAt(y, "main", "kvScore", 31)
         \/ IsIndexSource(y.l) /\ Small(y.n) /\ WorkAt(y, "aux1", "weights", 28)
         \/ IsIndexSource(y.l) /\ ~Small(y.n) /\ WorkAt(y, "main", "weights", 32)
         \/ IsKVSource(y.l) /\ setup.auxStreams /\ WorkAt(y, "aux0", "compress", 45)
         \/ IsKVSource(y.l) /\ ~setup.auxStreams /\ WorkAt(y, "main", "compress", 45)
         \/ IsKVSource(y.l) /\ setup.auxStreams /\ WorkAt(y, "aux0", "insertCache", 65)
         \/ IsKVSource(y.l) /\ ~setup.auxStreams /\ WorkAt(y, "main", "insertCache", 65)
         \/ IsKVSource(y.l) /\ IsIndexSource(y.l) /\ WorkAt(y, "main", "produceK", 62)
         \/ IsIndexSource(y.l) /\ ShortContext(y.l, batches[y.n]) /\ WorkAt(y, "main", "fill", 63)
         \/ Scoring(y.n, y.l) /\ WorkAt(y, "main", "indexQ", 63)
         \/ Scoring(y.n, y.l) /\ WorkAt(y, "main", "clear", 80)
         \/ /\ Scoring(y.n, y.l) /\ y.on = "main" /\ y.op = "chunk" /\ y.fork = 0
            /\ y.i \in DOMAIN batches[y.n].chunks /\ Place(y) = 81
         \/ Scoring(y.n, y.l) /\ batches[y.n].decodes # << >> /\ WorkAt(y, "main", "decode", 82)
         \/ Scoring(y.n, y.l) /\ RequiresPadding(batches[y.n]) /\ WorkAt(y, "main", "unpack", 83)
<1>1. CASE PlannedSync(y)
  <2>1. y.fork \in 1..3
    BY <1>1 DEF PlannedSync
  <2>2. CASE y.op = "record"
    <3>1. y.i = EventOf(y.on) /\ Takes(y.on, y.n, y.l, y.fork) /\ y.on \in Streams
      BY <1>1, <2>2 DEF PlannedSync, Op
    <3>2. CASE y.on = "main"
      BY <2>1, <2>2, <3>1, <3>2 DEF SyncAt, Place, EventOf
    <3>3. CASE y.on = "aux0"
      BY <2>1, <2>2, <3>1, <3>3 DEF SyncAt, Place, EventOf
    <3>4. CASE y.on = "aux1"
      <4>1. y.fork = 1
        BY <2>1, <3>1, <3>4 DEF Takes
      <4>. QED
        BY <2>1, <2>2, <3>1, <3>4, <4>1 DEF SyncAt, Place, EventOf
    <3>. QED
      BY <3>1, <3>2, <3>3, <3>4 DEF Streams
  <2>3. CASE y.op = "wait" /\ y.on \in Aux
    <3>1. y.i = 0 /\ Takes(y.on, y.n, y.l, y.fork)
      BY <1>1, <2>3 DEF PlannedSync, Aux
    <3>2. CASE y.on = "aux0"
      BY <2>1, <2>3, <3>1, <3>2 DEF SyncAt, Place
    <3>3. CASE y.on = "aux1"
      <4>1. y.fork = 1
        BY <2>1, <3>1, <3>3 DEF Takes
      <4>. QED
        BY <2>1, <2>3, <3>1, <3>3, <4>1 DEF SyncAt, Place
    <3>. QED
      BY <2>3, <3>2, <3>3 DEF Aux
  <2>4. CASE y.op = "wait" /\ y.on = "main"
    <3>1. PICK s \in Aux : y.i = EventOf(s) /\ Takes(s, y.n, y.l, y.fork)
      BY <1>1, <2>4 DEF PlannedSync, Aux
    <3>2. CASE s = "aux0"
      BY <2>1, <2>4, <3>1, <3>2 DEF SyncAt, Place, EventOf
    <3>3. CASE s = "aux1"
      <4>1. y.fork = 1
        BY <2>1, <3>1, <3>3 DEF Takes
      <4>. QED
        BY <2>1, <2>4, <3>1, <3>3, <4>1 DEF SyncAt, Place, EventOf
    <3>. QED
      BY <3>1, <3>2, <3>3 DEF Aux
  <2>. QED
    BY <1>1, <2>2, <2>3, <2>4 DEF PlannedSync
<1>2. CASE PlannedWork(y)
  BY <1>2 DEF PlannedWork, WorkAt, Place
<1>. QED
  BY <1>1, <1>2 DEF Planned

\* All that is planned of the layer at the places from lo to hi, in order.
Exact(q, n, l, lo, hi) ==
  /\ Piece(q, n, l, lo, hi, Elements(q))
  /\ \A o \in Elements(q) : Planned(o)
  /\ \A y \in Op : Planned(y) /\ y.n = n /\ y.l = l /\ lo <= Place(y) /\ Place(y) <= hi
       => \E z \in Elements(q) : Same(y, z) /\ z.on = y.on

\* Where nothing is planned, nothing is exactly the plan.
LEMMA NoExact ==
  ASSUME NEW n, NEW l, NEW lo, NEW hi,
         \A y \in Op : Planned(y) /\ y.n = n /\ y.l = l => ~(lo <= Place(y) /\ Place(y) <= hi)
  PROVE  Exact(<< >>, n, l, lo, hi)
<1>1. Elements(<< >>) = {}
  BY DEF Elements
<1>. QED
  BY <1>1, NoPiece DEF Exact

\* One operation is, where the plan has just that.
LEMMA OneExact ==
  ASSUME NEW n, NEW l, NEW lo \in Nat, NEW hi \in Nat,
         NEW o \in Op, o.n = n, o.l = l, o.at = 0, Planned(o), lo <= Place(o), Place(o) <= hi,
         \A y \in Op : Planned(y) /\ y.n = n /\ y.l = l /\ lo <= Place(y) /\ Place(y) <= hi
           => Same(y, o) /\ y.on = o.on
  PROVE  Exact(<<o>>, n, l, lo, hi)
<1>1. Elements(<<o>>) = {o}
  BY DEF Elements
<1>2. Place(o) \in Nat
  BY PlaceNat
<1>3. Piece(<<o>>, n, l, Place(o), Place(o), {o})
  BY <1>2, OnePiece
<1>4. Piece(<<o>>, n, l, lo, hi, {o})
  BY <1>2, <1>3, WiderPiece
<1>. QED
  BY <1>1, <1>4 DEF Exact

\* Three are, where the plan has just those.
LEMMA ThreeExact ==
  ASSUME NEW n, NEW l, NEW lo \in Nat, NEW hi \in Nat, NEW a \in Op, NEW b \in Op, NEW c \in Op,
         a.n = n, a.l = l, a.at = 0, b.n = n, b.l = l, b.at = 0, c.n = n, c.l = l, c.at = 0,
         Planned(a), Planned(b), Planned(c),
         lo <= Place(a), Place(a) < Place(b), Place(b) < Place(c), Place(c) <= hi,
         \A y \in Op : Planned(y) /\ y.n = n /\ y.l = l /\ lo <= Place(y) /\ Place(y) <= hi
           => \E o \in {a, b, c} : Same(y, o) /\ y.on = o.on
  PROVE  Exact(<<a, b, c>>, n, l, lo, hi)
<1>1. Place(a) \in Nat /\ Place(b) \in Nat /\ Place(c) \in Nat
  BY PlaceNat
<1>2. Piece(<<a, b, c>>, n, l, Place(a), Place(c), {a, b, c})
  BY <1>1, ThreePieces
<1>3. Piece(<<a, b, c>>, n, l, lo, hi, {a, b, c})
  BY <1>1, <1>2, WiderPiece
<1>4. Elements(<<a, b, c>>) = {a, b, c}
  BY <1>3 DEF Piece
<1>. QED
  BY <1>3, <1>4 DEF Exact

\* Parts of the plan follow each other.
LEMMA NextExact ==
  ASSUME NEW n, NEW l, NEW a, NEW b, NEW lo \in Nat, NEW mid \in Nat, NEW hi \in Nat,
         lo <= mid, mid < hi, Exact(a, n, l, lo, mid), Exact(b, n, l, mid + 1, hi)
  PROVE  Exact(a \o b, n, l, lo, hi)
<1>1. Piece(a \o b, n, l, lo, hi, Elements(a) \cup Elements(b))
  BY NextPiece DEF Exact
<1>2. Elements(a \o b) = Elements(a) \cup Elements(b)
  BY <1>1 DEF Piece
<1>3. \A y \in Op : Place(y) \in Nat
  BY PlaceNat
<1>4. \A y \in Op : lo <= Place(y) /\ Place(y) <= hi =>
        \/ lo <= Place(y) /\ Place(y) <= mid
        \/ mid + 1 <= Place(y) /\ Place(y) <= hi
  BY <1>3
<1>. QED
  BY <1>1, <1>2, <1>4 DEF Exact

\* A part is left out when the plan has none of it.
LEMMA SomeExact ==
  ASSUME NEW n, NEW l, NEW q, NEW lo, NEW hi, NEW c \in BOOLEAN,
         c => Exact(q, n, l, lo, hi),
         ~c => \A y \in Op : Planned(y) /\ y.n = n /\ y.l = l
                             => ~(lo <= Place(y) /\ Place(y) <= hi)
  PROVE  Exact(OnlyIf(c, q), n, l, lo, hi)
  BY NoExact DEF OnlyIf

\* A part is also the plan of a span with nothing else in it.
LEMMA WiderExact ==
  ASSUME NEW n, NEW l, NEW q, NEW lo \in Nat, NEW hi \in Nat, NEW low \in Nat, NEW high \in Nat,
         low <= lo, hi <= high, Exact(q, n, l, lo, hi),
         \A y \in Op : Planned(y) /\ y.n = n /\ y.l = l /\ low <= Place(y) /\ Place(y) <= high
           => lo <= Place(y) /\ Place(y) <= hi
  PROVE  Exact(q, n, l, low, high)
<1>1. Piece(q, n, l, low, high, Elements(q))
  BY WiderPiece DEF Exact
<1>. QED
  BY <1>1 DEF Exact

\* The operations the program is written with.
LEMMA OnIs ==
  ASSUME Step \in Nat, NEW s \in Streams, NEW op \in OpNames, NEW l \in Nat, NEW i \in Nat
  PROVE  /\ On(s, op, l) = [on |-> s, op |-> op, n |-> Step, l |-> l, i |-> 0,
                            fork |-> 0, at |-> 0]
         /\ Nth(s, op, l, i) = [on |-> s, op |-> op, n |-> Step, l |-> l, i |-> i,
                                fork |-> 0, at |-> 0]
         /\ On(s, op, l) \in Op /\ Nth(s, op, l, i) \in Op
<1>1. /\ On(s, op, l) = [on |-> s, op |-> op, n |-> Step, l |-> l, i |-> 0,
                            fork |-> 0, at |-> 0]
      /\ Nth(s, op, l, i) = [on |-> s, op |-> op, n |-> Step, l |-> l, i |-> i,
                                fork |-> 0, at |-> 0]
  BY DEF On, Nth
<1>. QED
  BY <1>1 DEF Op

\* Records and waits before their counts are resolved.
LEMMA SyncIs ==
  ASSUME Step \in Nat, NEW s \in Streams, NEW l \in Nat, NEW i \in Nat, NEW f \in 1..3
  PROVE  /\ Record(s, l, f, i) = [on |-> s, op |-> "record", n |-> Step, l |-> l, i |-> i,
                                  fork |-> f, at |-> 0]
         /\ Wait(s, l, f, i) = [on |-> s, op |-> "wait", n |-> Step, l |-> l, i |-> i,
                                fork |-> f, at |-> 0]
         /\ Record(s, l, f, i) \in Op /\ Wait(s, l, f, i) \in Op
<1>0. "record" \in OpNames /\ "wait" \in OpNames
  BY DEF OpNames
<1>1. /\ Nth(s, "record", l, i) = [on |-> s, op |-> "record", n |-> Step, l |-> l, i |-> i,
                                   fork |-> 0, at |-> 0]
      /\ Nth(s, "wait", l, i) = [on |-> s, op |-> "wait", n |-> Step, l |-> l, i |-> i,
                                 fork |-> 0, at |-> 0]
  BY <1>0, OnIs
<1>2. /\ Record(s, l, f, i) = [on |-> s, op |-> "record", n |-> Step, l |-> l, i |-> i,
                                  fork |-> f, at |-> 0]
      /\ Wait(s, l, f, i) = [on |-> s, op |-> "wait", n |-> Step, l |-> l, i |-> i,
                                fork |-> f, at |-> 0]
  BY <1>1 DEF Record, Wait
<1>. QED
  BY <1>0, <1>2 DEF Op

\* The same, one fact at a time.
LEMMA OnPlanned ==
  ASSUME Types, NEW l \in Layers, NEW s \in Streams, NEW op \in OpNames \ {"record", "wait"},
         PlannedWork(Work(op, Step, l, 0)), StreamOf(op, Step) = s
  PROVE  /\ On(s, op, l) \in Op /\ Planned(On(s, op, l))
         /\ On(s, op, l).on = s /\ On(s, op, l).op = op /\ On(s, op, l).i = 0
         /\ On(s, op, l).fork = 0 /\ On(s, op, l).n = Step /\ On(s, op, l).l = l
         /\ On(s, op, l).at = 0
<1>1. Step \in Nat /\ l \in Nat
  BY SetupTypes DEF Types
<1>2. On(s, op, l) = [on |-> s, op |-> op, n |-> Step, l |-> l, i |-> 0, fork |-> 0, at |-> 0]
      /\ On(s, op, l) \in Op
  BY <1>1, OnIs
<1>3. On(s, op, l) = Work(op, Step, l, 0)
  BY <1>2 DEF Work
<1>. QED
  BY <1>2, <1>3 DEF Planned

\* A record of a stream in a fork is on the plan.
LEMMA RecordPlanned ==
  ASSUME Types, NEW l \in Layers, NEW s \in Streams, NEW f \in 1..3, Takes(s, Step, l, f),
         NEW e, e = EventOf(s)
  PROVE  /\ Record(s, l, f, e) \in Op /\ Planned(Record(s, l, f, e))
         /\ Record(s, l, f, e).n = Step /\ Record(s, l, f, e).l = l
         /\ Record(s, l, f, e).at = 0 /\ Record(s, l, f, e).on = s
         /\ Record(s, l, f, e).op = "record" /\ Record(s, l, f, e).fork = f
         /\ Record(s, l, f, e).i = e
<1>1. Step \in Nat /\ l \in Nat /\ e \in Nat
  BY SetupTypes DEF Types, EventOf
<1>2. /\ Record(s, l, f, e) = [on |-> s, op |-> "record", n |-> Step, l |-> l,
                               i |-> e, fork |-> f, at |-> 0]
      /\ Record(s, l, f, e) \in Op
  BY <1>1, SyncIs
<1>. QED
  BY <1>2 DEF Planned, PlannedSync

\* So is the wait that enters it.
LEMMA WaitPlanned ==
  ASSUME Types, NEW l \in Layers, NEW s \in Aux, NEW f \in 1..3, Takes(s, Step, l, f)
  PROVE  /\ Wait(s, l, f, 0) \in Op /\ Planned(Wait(s, l, f, 0))
         /\ Wait(s, l, f, 0).n = Step /\ Wait(s, l, f, 0).l = l
         /\ Wait(s, l, f, 0).at = 0 /\ Wait(s, l, f, 0).on = s
         /\ Wait(s, l, f, 0).op = "wait" /\ Wait(s, l, f, 0).fork = f
         /\ Wait(s, l, f, 0).i = 0
<1>1. Step \in Nat /\ l \in Nat /\ 0 \in Nat /\ s \in Streams
  BY SetupTypes DEF Types, Aux, Streams
<1>2. /\ Wait(s, l, f, 0) = [on |-> s, op |-> "wait", n |-> Step, l |-> l,
                             i |-> 0, fork |-> f, at |-> 0]
      /\ Wait(s, l, f, 0) \in Op
  BY <1>1, SyncIs
<1>. QED
  BY <1>2 DEF Planned, PlannedSync

\* So is the wait that joins it.
LEMMA JoinPlanned ==
  ASSUME Types, NEW l \in Layers, NEW s \in Aux, NEW f \in 1..3, Takes(s, Step, l, f),
         NEW e, e = EventOf(s)
  PROVE  /\ Wait("main", l, f, e) \in Op /\ Planned(Wait("main", l, f, e))
         /\ Wait("main", l, f, e).n = Step /\ Wait("main", l, f, e).l = l
         /\ Wait("main", l, f, e).at = 0 /\ Wait("main", l, f, e).on = "main"
         /\ Wait("main", l, f, e).op = "wait" /\ Wait("main", l, f, e).fork = f
         /\ Wait("main", l, f, e).i = e
<1>1. Step \in Nat /\ l \in Nat /\ e \in Nat /\ "main" \in Streams
  BY SetupTypes DEF Types, EventOf, Streams
<1>2. /\ Wait("main", l, f, e) = [on |-> "main", op |-> "wait", n |-> Step, l |-> l,
                                  i |-> e, fork |-> f, at |-> 0]
      /\ Wait("main", l, f, e) \in Op
  BY <1>1, SyncIs
<1>. QED
  BY <1>2 DEF Planned, PlannedSync

\* The first fork, with the projections, is as planned.
LEMMA ProjectionsExact ==
  ASSUME Types, NEW l \in Layers
  PROVE  Exact(Projections(l), Step, l, 21, 34)
<1> DEFINE n == Step
           gemm == On("main", "qkv", l)
<1>0. /\ n \in Nat /\ l \in Nat /\ setup.auxStreams \in BOOLEAN
      /\ "main" \in Streams /\ "aux0" \in Streams /\ "aux1" \in Streams
      /\ "aux0" \in Aux /\ "aux1" \in Aux /\ 1 \in 1..3
      /\ EventOf("main") = 0 /\ EventOf("aux0") = 1 /\ EventOf("aux1") = 2
  BY SetupTypes, SetupAssumption DEF Types, Setup, Streams, Aux, EventOf
<1>g. /\ gemm \in Op /\ Planned(gemm) /\ gemm.n = n /\ gemm.l = l /\ gemm.at = 0
      /\ gemm.on = "main" /\ gemm.op = "qkv" /\ gemm.i = 0 /\ gemm.fork = 0
      /\ Place(gemm) = 30
  <2>1. PlannedWork(Work("qkv", n, l, 0)) /\ StreamOf("qkv", n) = "main"
    BY DEF PlannedWork, Work, StreamOf
  <2>2. "qkv" \in OpNames \ {"record", "wait"}
    BY DEF OpNames
  <2>3. /\ gemm \in Op /\ Planned(gemm) /\ gemm.n = n /\ gemm.l = l /\ gemm.at = 0
        /\ gemm.on = "main" /\ gemm.op = "qkv" /\ gemm.i = 0 /\ gemm.fork = 0
    BY <1>0, <2>1, <2>2, OnPlanned
  <2>. QED
    BY <2>3 DEF Place
<1>1. CASE Small(n)
  <2> DEFINE start == Record("main", l, 1, 0)
             fork(s, op, e) == <<Wait(s, l, 1, 0), On(s, op, l), Record(s, l, 1, e)>>
             join(e) == <<Wait("main", l, 1, e)>>
  <2>1. Exact(<<start>>, n, l, 21, 21)
    <3>1. Takes("main", n, l, 1)
      BY <1>1 DEF Takes
    <3>2. /\ start \in Op /\ Planned(start) /\ start.n = n /\ start.l = l /\ start.at = 0
          /\ start.on = "main" /\ start.op = "record" /\ start.fork = 1 /\ start.i = 0
      BY <1>0, <3>1, RecordPlanned, WaitPlanned
    <3>3. Place(start) = 21
      BY <3>2 DEF Place
    <3>4. ASSUME NEW y \in Op, Planned(y), y.n = n, y.l = l, 21 <= Place(y), Place(y) <= 21
          PROVE  Same(y, start) /\ y.on = start.on
      BY <3>2, <3>4, PlannedAt, SMTT(30) DEF SyncAt, WorkAt, Same
    <3> HIDE DEF start
    <3>. QED
      BY <3>2, <3>3, <3>4, OneExact
  <2>2. IsKVSource(l) => Exact(fork("aux0", "kvScore", 1), n, l, 22, 26)
    <3>. SUFFICES ASSUME IsKVSource(l) PROVE Exact(fork("aux0", "kvScore", 1), n, l, 22, 26)
      OBVIOUS
    <3> DEFINE a == Wait("aux0", l, 1, 0)
               b == On("aux0", "kvScore", l)
               c == Record("aux0", l, 1, 1)
    <3>1. Takes("aux0", n, l, 1)
      BY <1>1 DEF Takes
    <3>2. /\ a \in Op /\ Planned(a) /\ a.n = n /\ a.l = l /\ a.at = 0
          /\ a.on = "aux0" /\ a.op = "wait" /\ a.fork = 1 /\ a.i = 0
      BY <1>0, <3>1, RecordPlanned, WaitPlanned
    <3>3. /\ c \in Op /\ Planned(c) /\ c.n = n /\ c.l = l /\ c.at = 0
          /\ c.on = "aux0" /\ c.op = "record" /\ c.fork = 1 /\ c.i = 1
      BY <1>0, <3>1, RecordPlanned, WaitPlanned
    <3>4. PlannedWork(Work("kvScore", n, l, 0)) /\ StreamOf("kvScore", n) = "aux0"
          /\ "kvScore" \in OpNames \ {"record", "wait"}
      BY <1>1 DEF PlannedWork, Work, StreamOf, OpNames
    <3>5. /\ b \in Op /\ Planned(b) /\ b.n = n /\ b.l = l /\ b.at = 0
          /\ b.on = "aux0" /\ b.op = "kvScore" /\ b.fork = 0 /\ b.i = 0
      BY <1>0, <3>4, OnPlanned
    <3>6. 22 <= Place(a) /\ Place(a) < Place(b) /\ Place(b) < Place(c) /\ Place(c) <= 26
      BY <3>2, <3>3, <3>5 DEF Place
    <3>7. ASSUME NEW y \in Op, Planned(y), y.n = n, y.l = l, 22 <= Place(y), Place(y) <= 26
          PROVE  \E o \in {a, b, c} : Same(y, o) /\ y.on = o.on
      <4>1. \/ SyncAt(y, "aux0", "wait", 0, 1, 24) \/ WorkAt(y, "aux0", "kvScore", 25)
            \/ SyncAt(y, "aux0", "record", 1, 1, 26)
        BY <3>7, PlannedAt, SMTT(30) DEF SyncAt, WorkAt
      <4> HIDE DEF a, b, c
      <4>. QED
        BY <3>2, <3>3, <3>5, <3>7, <4>1 DEF SyncAt, WorkAt, Same
    <3> HIDE DEF a, b, c
    <3>8. Exact(<<a, b, c>>, n, l, 22, 26)
      BY <3>2, <3>3, <3>5, <3>6, <3>7, ThreeExact
    <3>. QED
      BY <3>8 DEF a, b, c
  <2>3. IsIndexSource(l) => Exact(fork("aux1", "weights", 2), n, l, 27, 29)
    <3>. SUFFICES ASSUME IsIndexSource(l) PROVE Exact(fork("aux1", "weights", 2), n, l, 27, 29)
      OBVIOUS
    <3> DEFINE a == Wait("aux1", l, 1, 0)
               b == On("aux1", "weights", l)
               c == Record("aux1", l, 1, 2)
    <3>1. Takes("aux1", n, l, 1)
      BY <1>1 DEF Takes
    <3>2. /\ a \in Op /\ Planned(a) /\ a.n = n /\ a.l = l /\ a.at = 0
          /\ a.on = "aux1" /\ a.op = "wait" /\ a.fork = 1 /\ a.i = 0
      BY <1>0, <3>1, RecordPlanned, WaitPlanned
    <3>3. /\ c \in Op /\ Planned(c) /\ c.n = n /\ c.l = l /\ c.at = 0
          /\ c.on = "aux1" /\ c.op = "record" /\ c.fork = 1 /\ c.i = 2
      BY <1>0, <3>1, RecordPlanned, WaitPlanned
    <3>4. PlannedWork(Work("weights", n, l, 0)) /\ StreamOf("weights", n) = "aux1"
          /\ "weights" \in OpNames \ {"record", "wait"}
      BY <1>1 DEF PlannedWork, Work, StreamOf, OpNames
    <3>5. /\ b \in Op /\ Planned(b) /\ b.n = n /\ b.l = l /\ b.at = 0
          /\ b.on = "aux1" /\ b.op = "weights" /\ b.fork = 0 /\ b.i = 0
      BY <1>0, <3>4, OnPlanned
    <3>6. Place(a) = 27 /\ Place(b) = 28 /\ Place(c) = 29
      BY <3>2, <3>3, <3>5 DEF Place
    <3>7. ASSUME NEW y \in Op, Planned(y), y.n = n, y.l = l, 27 <= Place(y), Place(y) <= 29
          PROVE  \E o \in {a, b, c} : Same(y, o) /\ y.on = o.on
      <4>1. \/ SyncAt(y, "aux1", "wait", 0, 1, 27) \/ WorkAt(y, "aux1", "weights", 28)
            \/ SyncAt(y, "aux1", "record", 2, 1, 29)
        BY <3>7, PlannedAt, SMTT(30) DEF SyncAt, WorkAt
      <4> HIDE DEF a, b, c
      <4>. QED
        BY <3>2, <3>3, <3>5, <3>7, <4>1 DEF SyncAt, WorkAt, Same
    <3> HIDE DEF a, b, c
    <3>8. Exact(<<a, b, c>>, n, l, 27, 29)
      BY <3>2, <3>3, <3>5, <3>6, <3>7, ThreeExact
    <3>. QED
      BY <3>8 DEF a, b, c
  <2>4. Exact(<<gemm>>, n, l, 30, 32)
    <3>1. ASSUME NEW y \in Op, Planned(y), y.n = n, y.l = l, 30 <= Place(y), Place(y) <= 32
          PROVE  Same(y, gemm) /\ y.on = gemm.on
      <4>1. WorkAt(y, "main", "qkv", 30)
        BY <1>1, <3>1, PlannedAt, SMTT(30) DEF SyncAt, WorkAt
      <4> HIDE DEF gemm
      <4>. QED
        BY <1>g, <3>1, <4>1 DEF WorkAt, Same
    <3> HIDE DEF gemm
    <3>. QED
      BY <1>g, <3>1, OneExact
  <2>0. ASSUME NEW y \in Op, Planned(y), y.n = n, y.l = l, Place(y) = 33
        PROVE  SyncAt(y, "main", "wait", 1, 1, 33)
    <3>1. \A f \in 1..3 : (20 * f + 13 = 33 => f = 1) /\ 20 * f + 4 # 33
                          /\ 20 * f + 6 # 33 /\ 20 * f + 1 # 33
      OBVIOUS
    <3>. QED
      BY <1>1, <2>0, <3>1, PlannedAt, SMTT(30) DEF SyncAt, WorkAt
  <2>0a. ASSUME NEW y \in Op, Planned(y), y.n = n, y.l = l, Place(y) = 34
         PROVE  SyncAt(y, "main", "wait", 2, 1, 34)
    <3>1. \A f \in 1..3 : 20 * f + 13 # 34 /\ 20 * f + 4 # 34
                          /\ 20 * f + 6 # 34 /\ 20 * f + 1 # 34
      OBVIOUS
    <3>. QED
      BY <1>1, <2>0a, <3>1, PlannedAt, SMTT(30) DEF SyncAt, WorkAt
  <2>5. ASSUME NEW s \in Aux, Takes(s, n, l, 1)
        PROVE  Exact(join(EventOf(s)), n, l, 32 + EventOf(s), 32 + EventOf(s))
    <3> DEFINE w == Wait("main", l, 1, EventOf(s))
    <3>0. s \in Streams /\ EventOf(s) \in 1..2
      BY <1>0 DEF Aux, Streams
    <3>1. /\ w \in Op /\ Planned(w) /\ w.n = n /\ w.l = l /\ w.at = 0
          /\ w.on = "main" /\ w.op = "wait" /\ w.fork = 1 /\ w.i = EventOf(s)
      BY <2>5, <3>0, <1>0, JoinPlanned
    <3>2. Place(w) = 32 + EventOf(s)
      BY <3>0, <3>1 DEF Place
    <3>3. ASSUME NEW y \in Op, Planned(y), y.n = n, y.l = l,
                 32 + EventOf(s) <= Place(y), Place(y) <= 32 + EventOf(s)
          PROVE  Same(y, w) /\ y.on = w.on
      <4>1. Place(y) = 32 + EventOf(s)
        BY <3>0, <3>3, PlaceNat
      <4>2. Place(y) = 33 => SyncAt(y, "main", "wait", 1, 1, 33)
        BY <2>0, <3>3
      <4>3. Place(y) = 34 => SyncAt(y, "main", "wait", 2, 1, 34)
        BY <2>0a, <3>3
      <4> HIDE DEF w
      <4>. QED
        BY <3>0, <3>1, <3>3, <4>1, <4>2, <4>3 DEF SyncAt, Same
    <3> HIDE DEF w
    <3>4. 32 + EventOf(s) \in Nat
      BY <3>0
    <3>5. Exact(<<w>>, n, l, 32 + EventOf(s), 32 + EventOf(s))
      BY <3>1, <3>2, <3>3, <3>4, OneExact
    <3>. QED
      BY <3>5 DEF w
  <2>6. IsKVSource(l) => Exact(join(1), n, l, 33, 33)
    <3>1. IsKVSource(l) => Takes("aux0", n, l, 1)
      BY <1>1 DEF Takes
    <3> HIDE DEF join, n
    <3>. QED
      BY <1>0, <2>5, <3>1
  <2>7. IsIndexSource(l) => Exact(join(2), n, l, 34, 34)
    <3>1. IsIndexSource(l) => Takes("aux1", n, l, 1)
      BY <1>1 DEF Takes
    <3> HIDE DEF join, n
    <3>. QED
      BY <1>0, <2>5, <3>1
  <2> DEFINE p1 == OnlyIf(IsKVSource(l), fork("aux0", "kvScore", 1))
             p2 == OnlyIf(IsIndexSource(l), fork("aux1", "weights", 2))
             p3 == OnlyIf(IsKVSource(l), join(1))
             p4 == OnlyIf(IsIndexSource(l), join(2))
  <2>8. Exact(p1, n, l, 22, 26)
    <3>1. ~IsKVSource(l) => \A y \in Op : Planned(y) /\ y.n = n /\ y.l = l
                             => ~(22 <= Place(y) /\ Place(y) <= 26)
      BY PlannedAt, SMTT(30) DEF SyncAt, WorkAt, Takes
    <3> HIDE DEF fork, n
    <3>. QED
      BY <2>2, <3>1, NoExact DEF OnlyIf
  <2>9. Exact(p2, n, l, 27, 29)
    <3>1. ~IsIndexSource(l) => \A y \in Op : Planned(y) /\ y.n = n /\ y.l = l
                             => ~(27 <= Place(y) /\ Place(y) <= 29)
      BY PlannedAt, SMTT(30) DEF SyncAt, WorkAt, Takes
    <3> HIDE DEF fork, n
    <3>. QED
      BY <2>3, <3>1, NoExact DEF OnlyIf
  <2>10. Exact(p3, n, l, 33, 33)
    <3>1. ~IsKVSource(l) => \A y \in Op : Planned(y) /\ y.n = n /\ y.l = l
                             => ~(33 <= Place(y) /\ Place(y) <= 33)
      BY PlannedAt, SMTT(30) DEF SyncAt, WorkAt, Takes
    <3> HIDE DEF join, n
    <3>. QED
      BY <2>6, <3>1, NoExact DEF OnlyIf
  <2>11. Exact(p4, n, l, 34, 34)
    <3>1. ~IsIndexSource(l) => \A y \in Op : Planned(y) /\ y.n = n /\ y.l = l
                             => ~(34 <= Place(y) /\ Place(y) <= 34)
      BY PlannedAt, SMTT(30) DEF SyncAt, WorkAt, Takes
    <3> HIDE DEF join, n
    <3>. QED
      BY <2>7, <3>1, NoExact DEF OnlyIf
  <2>12. Projections(l) = <<start>> \o p1 \o p2 \o <<gemm>> \o p3 \o p4
    <3>1. setup.auxStreams /\ HiddenRows(Now) <= Threshold
      BY <1>1 DEF Small, Now
    <3>. QED
      BY <3>1 DEF Projections
  <2> HIDE DEF start, p1, p2, p3, p4, gemm, n
  <2>13. Exact(<<start>> \o p1, n, l, 21, 26)
    BY <2>1, <2>8, NextExact
  <2>14. Exact(<<start>> \o p1 \o p2, n, l, 21, 29)
    BY <2>13, <2>9, NextExact
  <2>15. Exact(<<start>> \o p1 \o p2 \o <<gemm>>, n, l, 21, 32)
    BY <2>14, <2>4, NextExact
  <2>16. Exact(<<start>> \o p1 \o p2 \o <<gemm>> \o p3, n, l, 21, 33)
    BY <2>15, <2>10, NextExact
  <2>17. Exact(<<start>> \o p1 \o p2 \o <<gemm>> \o p3 \o p4, n, l, 21, 34)
    BY <2>16, <2>11, NextExact
  <2>. QED
    BY <2>12, <2>17 DEF n
<1>2. CASE ~Small(n)
  <2> DEFINE score == On("main", "kvScore", l)
             weigh == On("main", "weights", l)
             p1 == OnlyIf(IsKVSource(l), <<score>>)
             p2 == OnlyIf(IsIndexSource(l), <<weigh>>)
  <2>0. \A y \in Op : Planned(y) /\ y.n = n /\ y.l = l /\ 21 <= Place(y) /\ Place(y) <= 34 =>
          \/ WorkAt(y, "main", "qkv", 30)
          \/ IsKVSource(l) /\ WorkAt(y, "main", "kvScore", 31)
          \/ IsIndexSource(l) /\ WorkAt(y, "main", "weights", 32)
    BY <1>2, PlannedAt, SMTT(30) DEF SyncAt, WorkAt, Takes
  <2>1. Exact(<<gemm>>, n, l, 21, 30)
    <3>1. ASSUME NEW y \in Op, Planned(y), y.n = n, y.l = l, 21 <= Place(y), Place(y) <= 30
          PROVE  Same(y, gemm) /\ y.on = gemm.on
      <4> HIDE DEF gemm
      <4>. QED
        BY <1>g, <2>0, <3>1, PlaceNat DEF WorkAt, Same
    <3> HIDE DEF gemm
    <3>. QED
      BY <1>g, <3>1, OneExact
  <2>2. IsKVSource(l) => Exact(<<score>>, n, l, 31, 31)
    <3>. SUFFICES ASSUME IsKVSource(l) PROVE Exact(<<score>>, n, l, 31, 31)
      OBVIOUS
    <3>1. PlannedWork(Work("kvScore", n, l, 0)) /\ StreamOf("kvScore", n) = "main"
          /\ "kvScore" \in OpNames \ {"record", "wait"}
      BY <1>2 DEF PlannedWork, Work, StreamOf, OpNames
    <3>2. /\ score \in Op /\ Planned(score) /\ score.n = n /\ score.l = l /\ score.at = 0
          /\ score.on = "main" /\ score.op = "kvScore" /\ score.fork = 0 /\ score.i = 0
      BY <1>0, <3>1, OnPlanned
    <3>3. Place(score) = 31
      BY <3>2 DEF Place
    <3> HIDE DEF score
    <3>4. ASSUME NEW y \in Op, Planned(y), y.n = n, y.l = l, 31 <= Place(y), Place(y) <= 31
          PROVE  Same(y, score) /\ y.on = score.on
      BY <2>0, <3>2, <3>4, PlaceNat DEF WorkAt, Same
    <3>. QED
      BY <3>2, <3>3, <3>4, OneExact
  <2>3. IsIndexSource(l) => Exact(<<weigh>>, n, l, 32, 34)
    <3>. SUFFICES ASSUME IsIndexSource(l) PROVE Exact(<<weigh>>, n, l, 32, 34)
      OBVIOUS
    <3>1. PlannedWork(Work("weights", n, l, 0)) /\ StreamOf("weights", n) = "main"
          /\ "weights" \in OpNames \ {"record", "wait"}
      BY <1>2 DEF PlannedWork, Work, StreamOf, OpNames
    <3>2. /\ weigh \in Op /\ Planned(weigh) /\ weigh.n = n /\ weigh.l = l /\ weigh.at = 0
          /\ weigh.on = "main" /\ weigh.op = "weights" /\ weigh.fork = 0 /\ weigh.i = 0
      BY <1>0, <3>1, OnPlanned
    <3>3. Place(weigh) = 32
      BY <3>2 DEF Place
    <3> HIDE DEF weigh
    <3>4. ASSUME NEW y \in Op, Planned(y), y.n = n, y.l = l, 32 <= Place(y), Place(y) <= 34
          PROVE  Same(y, weigh) /\ y.on = weigh.on
      BY <2>0, <3>2, <3>4, PlaceNat DEF WorkAt, Same
    <3>. QED
      BY <3>2, <3>3, <3>4, OneExact
  <2>4. Exact(p1, n, l, 31, 31)
    <3>1. ~IsKVSource(l) => \A y \in Op : Planned(y) /\ y.n = n /\ y.l = l
                             => ~(31 <= Place(y) /\ Place(y) <= 31)
      BY <2>0, PlaceNat DEF WorkAt
    <3> HIDE DEF score, n
    <3>. QED
      BY <2>2, <3>1, NoExact DEF OnlyIf
  <2>5. Exact(p2, n, l, 32, 34)
    <3>1. ~IsIndexSource(l) => \A y \in Op : Planned(y) /\ y.n = n /\ y.l = l
                             => ~(32 <= Place(y) /\ Place(y) <= 34)
      BY <2>0, PlaceNat DEF WorkAt
    <3> HIDE DEF weigh, n
    <3>. QED
      BY <2>3, <3>1, NoExact DEF OnlyIf
  <2>6. Projections(l) = <<gemm>> \o p1 \o p2
    <3>1. ~(setup.auxStreams /\ HiddenRows(Now) <= Threshold)
      BY <1>2 DEF Small, Now
    <3>. QED
      BY <3>1 DEF Projections
  <2> HIDE DEF p1, p2, gemm, n
  <2>7. Exact(<<gemm>> \o p1, n, l, 21, 31)
    BY <2>1, <2>4, NextExact
  <2>8. Exact(<<gemm>> \o p1 \o p2, n, l, 21, 34)
    BY <2>5, <2>7, NextExact
  <2>. QED
    BY <2>6, <2>8 DEF n
<1>. QED
  BY <1>1, <1>2

\* What is planned about the second and the third join.
LEMMA AtJoin ==
  ASSUME NEW y \in Op, Planned(y), NEW f \in 2..3, NEW op,
         op = IF f = 2 THEN "compress" ELSE "insertCache",
         20 * f - 5 <= Place(y), Place(y) <= 20 * f + 14
  PROVE  \/ Place(y) = 20 * f + 2 \/ Place(y) = 20 * f + 3
         \/ /\ setup.auxStreams
            /\ \/ SyncAt(y, "main", "record", 0, f, 20 * f + 1)
               \/ SyncAt(y, "aux0", "wait", 0, f, 20 * f + 4)
               \/ WorkAt(y, "aux0", op, 20 * f + 5)
               \/ SyncAt(y, "aux0", "record", 1, f, 20 * f + 6)
               \/ SyncAt(y, "main", "wait", 1, f, 20 * f + 13)
         \/ ~setup.auxStreams /\ WorkAt(y, "main", op, 20 * f + 5)
<1>0. Place(y) \in Nat
  BY PlaceNat
<1>1. CASE f = 2
  <2>1. 35 <= Place(y) /\ Place(y) <= 54 /\ op = "compress"
    BY <1>1
  <2>2. \A g \in 1..3 : \A k \in {1, 4, 6, 13} : 35 <= 20 * g + k /\ 20 * g + k <= 54 => g = 2
    OBVIOUS
  <2>3. \/ Place(y) = 42 \/ Place(y) = 43
        \/ /\ setup.auxStreams
           /\ \/ SyncAt(y, "main", "record", 0, 2, 41)
              \/ SyncAt(y, "aux0", "wait", 0, 2, 44)
              \/ WorkAt(y, "aux0", op, 45)
              \/ SyncAt(y, "aux0", "record", 1, 2, 46)
              \/ SyncAt(y, "main", "wait", 1, 2, 53)
        \/ ~setup.auxStreams /\ WorkAt(y, "main", op, 45)
    <3>1. CASE y.op \in {"record", "wait"}
      BY <1>0, <2>1, <2>2, <3>1, PlannedAt, SMTT(30) DEF SyncAt, WorkAt, Takes
    <3>2. CASE y.op \notin {"record", "wait"}
      BY <1>0, <2>1, <3>2, PlannedAt, SMTT(30) DEF SyncAt, WorkAt
    <3>. QED
      BY <3>1, <3>2
  <2>. QED
    BY <1>1, <2>3
<1>2. CASE f = 3
  <2>1. 55 <= Place(y) /\ Place(y) <= 74 /\ op = "insertCache"
    BY <1>2
  <2>2. \A g \in 1..3 : \A k \in {1, 4, 6, 13} : 55 <= 20 * g + k /\ 20 * g + k <= 74 => g = 3
    OBVIOUS
  <2>3. \/ Place(y) = 62 \/ Place(y) = 63
        \/ /\ setup.auxStreams
           /\ \/ SyncAt(y, "main", "record", 0, 3, 61)
              \/ SyncAt(y, "aux0", "wait", 0, 3, 64)
              \/ WorkAt(y, "aux0", op, 65)
              \/ SyncAt(y, "aux0", "record", 1, 3, 66)
              \/ SyncAt(y, "main", "wait", 1, 3, 73)
        \/ ~setup.auxStreams /\ WorkAt(y, "main", op, 65)
    <3>1. CASE y.op \in {"record", "wait"}
      BY <1>0, <2>1, <2>2, <3>1, PlannedAt, SMTT(30) DEF SyncAt, WorkAt, Takes
    <3>2. CASE y.op \notin {"record", "wait"}
      BY <1>0, <2>1, <3>2, PlannedAt, SMTT(30) DEF SyncAt, WorkAt
    <3>. QED
      BY <3>1, <3>2
  <2>. QED
    BY <1>2, <2>3
<1>. QED
  BY <1>1, <1>2

\* So are the forks of a source's compressor and cache insert.
LEMMA ParallelExact ==
  ASSUME Types, NEW l \in Layers, IsKVSource(l), NEW f \in 2..3, NEW op,
         op = IF f = 2 THEN "compress" ELSE "insertCache",
         NEW ops, Exact(ops, Step, l, 20 * f + 2, 20 * f + 3)
  PROVE  Exact(Parallel(l, f, ops, op), Step, l, 20 * f - 5, 20 * f + 14)
<1> DEFINE n == Step
<1>0. /\ n \in Nat /\ l \in Nat /\ setup.auxStreams \in BOOLEAN
      /\ "main" \in Streams /\ "aux0" \in Streams /\ "aux0" \in Aux /\ f \in 1..3 /\ f # 1
      /\ EventOf("main") = 0 /\ EventOf("aux0") = 1
      /\ op \in OpNames \ {"record", "wait"}
  BY SetupTypes, SetupAssumption DEF Types, Setup, Streams, Aux, EventOf, OpNames
<1>a. /\ 20 * f - 5 \in Nat /\ 20 * f + 1 \in Nat /\ 20 * f + 2 \in Nat /\ 20 * f + 3 \in Nat
      /\ 20 * f + 4 \in Nat /\ 20 * f + 6 \in Nat /\ 20 * f + 7 \in Nat /\ 20 * f + 14 \in Nat
  OBVIOUS
<1>b. PlannedWork(Work(op, n, l, 0))
      /\ StreamOf(op, n) = IF setup.auxStreams THEN "aux0" ELSE "main"
  BY <1>0 DEF PlannedWork, Work, StreamOf
<1>1. CASE setup.auxStreams
  <2> DEFINE start == Record("main", l, f, 0)
             a == Wait("aux0", l, f, 0)
             b == On("aux0", op, l)
             c == Record("aux0", l, f, 1)
             d == Wait("main", l, f, 1)
  <2>0. Takes("main", n, l, f) /\ Takes("aux0", n, l, f)
    BY <1>0, <1>1 DEF Takes
  <2>1. /\ start \in Op /\ Planned(start) /\ start.n = n /\ start.l = l /\ start.at = 0
        /\ start.on = "main" /\ start.op = "record" /\ start.fork = f /\ start.i = 0
    BY <1>0, <2>0, RecordPlanned
  <2>2. /\ a \in Op /\ Planned(a) /\ a.n = n /\ a.l = l /\ a.at = 0
        /\ a.on = "aux0" /\ a.op = "wait" /\ a.fork = f /\ a.i = 0
    BY <1>0, <2>0, WaitPlanned
  <2>3. /\ b \in Op /\ Planned(b) /\ b.n = n /\ b.l = l /\ b.at = 0
        /\ b.on = "aux0" /\ b.op = op /\ b.fork = 0 /\ b.i = 0
    BY <1>0, <1>1, <1>b, OnPlanned
  <2>4. /\ c \in Op /\ Planned(c) /\ c.n = n /\ c.l = l /\ c.at = 0
        /\ c.on = "aux0" /\ c.op = "record" /\ c.fork = f /\ c.i = 1
    BY <1>0, <2>0, RecordPlanned
  <2>5. /\ d \in Op /\ Planned(d) /\ d.n = n /\ d.l = l /\ d.at = 0
        /\ d.on = "main" /\ d.op = "wait" /\ d.fork = f /\ d.i = 1
    BY <1>0, <2>0, JoinPlanned
  <2>6. Parallel(l, f, ops, op) = <<start>> \o ops \o <<a, b, c, d>>
    BY <1>1 DEF Parallel
  <2>7. <<a, b, c, d>> = <<a, b, c>> \o <<d>>
    OBVIOUS
  <2>8. /\ Place(start) = 20 * f + 1 /\ Place(a) = 20 * f + 4 /\ Place(c) = 20 * f + 6
        /\ Place(d) = 20 * f + 13
    <3> HIDE DEF start, a, b, c, d
    <3>. QED
      BY <2>1, <2>2, <2>4, <2>5 DEF Place
  <2>9. Place(b) = 20 * f + 5
    <3> HIDE DEF b
    <3>1. op = "compress" \/ op = "insertCache"
      OBVIOUS
    <3>. QED
      BY <2>3, <3>1 DEF Place
  <2> HIDE DEF start, a, b, c, d
  <2>10. \A y \in Op : Planned(y) /\ 20 * f - 5 <= Place(y) /\ Place(y) <= 20 * f + 14 =>
           \/ Place(y) = 20 * f + 2 \/ Place(y) = 20 * f + 3
           \/ SyncAt(y, "main", "record", 0, f, 20 * f + 1)
           \/ SyncAt(y, "aux0", "wait", 0, f, 20 * f + 4)
           \/ WorkAt(y, "aux0", op, 20 * f + 5)
           \/ SyncAt(y, "aux0", "record", 1, f, 20 * f + 6)
           \/ SyncAt(y, "main", "wait", 1, f, 20 * f + 13)
    BY <1>1, AtJoin
  <2>11. Exact(<<start>>, n, l, 20 * f - 5, 20 * f + 1)
    <3>1. ASSUME NEW y \in Op, Planned(y), y.n = n, y.l = l,
                 20 * f - 5 <= Place(y), Place(y) <= 20 * f + 1
          PROVE  Same(y, start) /\ y.on = start.on
      <4>1. SyncAt(y, "main", "record", 0, f, 20 * f + 1)
        BY <2>10, <3>1, PlaceNat DEF SyncAt, WorkAt
      <4>. QED
        BY <2>1, <3>1, <4>1 DEF SyncAt, Same
    <3>2. 20 * f - 5 <= Place(start) /\ Place(start) <= 20 * f + 1
      BY <2>8
    <3>. QED
      BY <1>a, <2>1, <3>1, <3>2, OneExact
  <2>12. Exact(<<a, b, c>>, n, l, 20 * f + 4, 20 * f + 6)
    <3>1. ASSUME NEW y \in Op, Planned(y), y.n = n, y.l = l,
                 20 * f + 4 <= Place(y), Place(y) <= 20 * f + 6
          PROVE  \E o \in {a, b, c} : Same(y, o) /\ y.on = o.on
      <4>1. \/ SyncAt(y, "aux0", "wait", 0, f, 20 * f + 4) \/ WorkAt(y, "aux0", op, 20 * f + 5)
            \/ SyncAt(y, "aux0", "record", 1, f, 20 * f + 6)
        BY <2>10, <3>1, PlaceNat DEF SyncAt, WorkAt
      <4>. QED
        BY <2>2, <2>3, <2>4, <3>1, <4>1 DEF SyncAt, WorkAt, Same
    <3>2. 20 * f + 4 <= Place(a) /\ Place(a) < Place(b) /\ Place(b) < Place(c)
          /\ Place(c) <= 20 * f + 6
      BY <2>8, <2>9
    <3>. QED
      BY <1>a, <2>2, <2>3, <2>4, <3>1, <3>2, ThreeExact
  <2>13. Exact(<<d>>, n, l, 20 * f + 7, 20 * f + 14)
    <3>1. ASSUME NEW y \in Op, Planned(y), y.n = n, y.l = l,
                 20 * f + 7 <= Place(y), Place(y) <= 20 * f + 14
          PROVE  Same(y, d) /\ y.on = d.on
      <4>1. SyncAt(y, "main", "wait", 1, f, 20 * f + 13)
        BY <2>10, <3>1, PlaceNat DEF SyncAt, WorkAt
      <4>. QED
        BY <2>5, <3>1, <4>1 DEF SyncAt, Same
    <3>2. 20 * f + 7 <= Place(d) /\ Place(d) <= 20 * f + 14
      BY <2>8
    <3>. QED
      BY <1>a, <2>5, <3>1, <3>2, OneExact
  <2>14. Exact(<<start>> \o ops, n, l, 20 * f - 5, 20 * f + 3)
    <3>1. 20 * f - 5 <= 20 * f + 1 /\ 20 * f + 1 < 20 * f + 3 /\ (20 * f + 1) + 1 = 20 * f + 2
      OBVIOUS
    <3>2. Exact(ops, n, l, (20 * f + 1) + 1, 20 * f + 3)
      BY <3>1
    <3>. QED
      BY <1>a, <2>11, <3>1, <3>2, NextExact
  <2>15. Exact(<<a, b, c>> \o <<d>>, n, l, 20 * f + 4, 20 * f + 14)
    <3>1. 20 * f + 4 <= 20 * f + 6 /\ 20 * f + 6 < 20 * f + 14 /\ (20 * f + 6) + 1 = 20 * f + 7
      OBVIOUS
    <3>2. Exact(<<d>>, n, l, (20 * f + 6) + 1, 20 * f + 14)
      BY <2>13, <3>1
    <3>. QED
      BY <1>a, <2>12, <3>1, <3>2, NextExact
  <2>16. Exact(<<start>> \o ops \o <<a, b, c, d>>, n, l, 20 * f - 5, 20 * f + 14)
    <3>1. 20 * f - 5 <= 20 * f + 3 /\ 20 * f + 3 < 20 * f + 14 /\ (20 * f + 3) + 1 = 20 * f + 4
      OBVIOUS
    <3>2. Exact(<<a, b, c, d>>, n, l, (20 * f + 3) + 1, 20 * f + 14)
      BY <2>7, <2>15, <3>1
    <3>. QED
      BY <1>a, <2>14, <3>1, <3>2, NextExact
  <2>. QED
    BY <2>6, <2>16
<1>2. CASE ~setup.auxStreams
  <2> DEFINE b == On("main", op, l)
  <2>1. /\ b \in Op /\ Planned(b) /\ b.n = n /\ b.l = l /\ b.at = 0
        /\ b.on = "main" /\ b.op = op /\ b.fork = 0 /\ b.i = 0
    BY <1>0, <1>2, <1>b, OnPlanned
  <2>2. Parallel(l, f, ops, op) = ops \o <<b>>
    BY <1>2 DEF Parallel
  <2> HIDE DEF b
  <2>3. Place(b) = 20 * f + 5
    <3>1. op = "compress" \/ op = "insertCache"
      OBVIOUS
    <3>. QED
      BY <2>1, <3>1 DEF Place
  <2>4. \A y \in Op : Planned(y) /\ 20 * f - 5 <= Place(y) /\ Place(y) <= 20 * f + 14 =>
           \/ Place(y) = 20 * f + 2 \/ Place(y) = 20 * f + 3
           \/ WorkAt(y, "main", op, 20 * f + 5)
    BY <1>2, AtJoin
  <2>5. Exact(ops, n, l, 20 * f - 5, 20 * f + 3)
    <3>1. ASSUME NEW y \in Op, Planned(y), y.n = n, y.l = l,
                 20 * f - 5 <= Place(y), Place(y) <= 20 * f + 3
          PROVE  20 * f + 2 <= Place(y) /\ Place(y) <= 20 * f + 3
      BY <2>4, <3>1, PlaceNat DEF WorkAt
    <3>2. 20 * f - 5 <= 20 * f + 2 /\ 20 * f + 3 <= 20 * f + 3
      OBVIOUS
    <3>. QED
      BY <1>a, <3>1, <3>2, WiderExact
  <2>6. Exact(<<b>>, n, l, 20 * f + 4, 20 * f + 14)
    <3>1. ASSUME NEW y \in Op, Planned(y), y.n = n, y.l = l,
                 20 * f + 4 <= Place(y), Place(y) <= 20 * f + 14
          PROVE  Same(y, b) /\ y.on = b.on
      <4>1. WorkAt(y, "main", op, 20 * f + 5)
        BY <2>4, <3>1, PlaceNat DEF WorkAt
      <4>. QED
        BY <2>1, <3>1, <4>1 DEF WorkAt, Same
    <3>2. 20 * f + 4 <= Place(b) /\ Place(b) <= 20 * f + 14
      BY <2>3
    <3>. QED
      BY <1>a, <2>1, <3>1, <3>2, OneExact
  <2>7. Exact(ops \o <<b>>, n, l, 20 * f - 5, 20 * f + 14)
    <3>1. 20 * f - 5 <= 20 * f + 3 /\ 20 * f + 3 < 20 * f + 14 /\ (20 * f + 3) + 1 = 20 * f + 4
      OBVIOUS
    <3>2. Exact(<<b>>, n, l, (20 * f + 3) + 1, 20 * f + 14)
      BY <2>6, <3>1
    <3>. QED
      BY <1>a, <2>5, <3>1, <3>2, NextExact
  <2>. QED
    BY <2>2, <2>7
<1>. QED
  BY <1>0, <1>1, <1>2

\* What is planned at a few places.
LEMMA AtInsert ==
  ASSUME NEW y \in Op, Planned(y), 42 <= Place(y), Place(y) <= 43
  PROVE  WorkAt(y, "main", "insert", 42)
<1>1. \A g \in 1..3 : \A k \in {1, 4, 6, 13} : ~(42 <= 20 * g + k /\ 20 * g + k <= 43)
  OBVIOUS
<1>2. CASE y.op \in {"record", "wait"}
  BY <1>1, <1>2, PlannedAt, PlaceNat, SMTT(30) DEF SyncAt, WorkAt
<1>3. CASE y.op \notin {"record", "wait"}
  BY <1>3, PlannedAt, PlaceNat, SMTT(30) DEF SyncAt, WorkAt
<1>. QED
  BY <1>2, <1>3

\* What is planned between those two.
LEMMA AtPrepare ==
  ASSUME NEW y \in Op, Planned(y), 62 <= Place(y), Place(y) <= 63
  PROVE  \/ IsKVSource(y.l) /\ IsIndexSource(y.l) /\ WorkAt(y, "main", "produceK", 62)
         \/ IsIndexSource(y.l) /\ ShortContext(y.l, batches[y.n]) /\ WorkAt(y, "main", "fill", 63)
         \/ Scoring(y.n, y.l) /\ WorkAt(y, "main", "indexQ", 63)
<1>1. \A g \in 1..3 : \A k \in {1, 4, 6, 13} : ~(62 <= 20 * g + k /\ 20 * g + k <= 63)
  OBVIOUS
<1>2. CASE y.op \in {"record", "wait"}
  BY <1>1, <1>2, PlannedAt, PlaceNat, SMTT(30) DEF SyncAt, WorkAt
<1>3. CASE y.op \notin {"record", "wait"}
  BY <1>3, PlannedAt, PlaceNat, SMTT(30) DEF SyncAt, WorkAt
<1>. QED
  BY <1>2, <1>3

\* Without a source there is no second or third join.
LEMMA AtNoJoin ==
  ASSUME NEW y \in Op, Planned(y), ~IsKVSource(y.l), 35 <= Place(y), Place(y) <= 74
  PROVE  Place(y) = 42 \/ Place(y) = 63
<1>1. \A g \in 1..3 : g # 1 => ~Takes("main", y.n, y.l, g) /\ ~Takes("aux0", y.n, y.l, g)
  BY DEF Takes
<1>2. ~Takes("aux0", y.n, y.l, 1)
  BY DEF Takes
<1>. QED
  BY <1>1, <1>2, PlannedAt, PlaceNat, SMTT(30) DEF SyncAt, WorkAt

\* What is planned after them.
LEMMA AtSelect ==
  ASSUME NEW y \in Op, Planned(y), 75 <= Place(y), Place(y) <= 84
  PROVE  \/ WorkAt(y, "main", "attend", 84)
         \/ Scoring(y.n, y.l) /\ WorkAt(y, "main", "clear", 80)
         \/ /\ Scoring(y.n, y.l) /\ y.on = "main" /\ y.op = "chunk" /\ y.fork = 0
            /\ y.i \in DOMAIN batches[y.n].chunks /\ Place(y) = 81
         \/ Scoring(y.n, y.l) /\ batches[y.n].decodes # << >> /\ WorkAt(y, "main", "decode", 82)
         \/ Scoring(y.n, y.l) /\ RequiresPadding(batches[y.n]) /\ WorkAt(y, "main", "unpack", 83)
<1>1. \A g \in 1..3 : \A k \in {1, 4, 6, 13} : 20 * g + k < 75
  OBVIOUS
<1>. QED
  BY <1>1, PlannedAt, PlaceNat, SMTT(30) DEF SyncAt, WorkAt

\* The plan has a first and a last place.
LEMMA AtSomewhere ==
  ASSUME NEW y \in Op, Planned(y)
  PROVE  21 <= Place(y) /\ Place(y) <= 84
<1>1. \A g \in 1..3 : \A k \in {1, 4, 6, 13} : 21 <= 20 * g + k /\ 20 * g + k <= 84
  OBVIOUS
<1>. QED
  BY <1>1, PlannedAt, PlaceNat, SMTT(30) DEF SyncAt, WorkAt

\* A single operation on the main stream.
LEMMA MainExact ==
  ASSUME Types, NEW l \in Layers, NEW op \in OpNames \ {"record", "wait"},
         PlannedWork(Work(op, Step, l, 0)), StreamOf(op, Step) = "main",
         NEW lo \in Nat, NEW hi \in Nat, NEW k, lo <= k, k <= hi,
         \A o \in Op : o.op = op /\ o.on = "main" => Place(o) = k,
         \A y \in Op : Planned(y) /\ y.n = Step /\ y.l = l /\ lo <= Place(y) /\ Place(y) <= hi
           => WorkAt(y, "main", op, k)
  PROVE  Exact(<<On("main", op, l)>>, Step, l, lo, hi)
<1> DEFINE o == On("main", op, l)
<1>1. /\ o \in Op /\ Planned(o) /\ o.n = Step /\ o.l = l /\ o.at = 0
      /\ o.on = "main" /\ o.op = op /\ o.fork = 0 /\ o.i = 0
  <2>1. "main" \in Streams
    BY DEF Streams
  <2>. QED
    BY <2>1, OnPlanned
<1> HIDE DEF o
<1>2. Place(o) = k
  BY <1>1
<1>3. ASSUME NEW y \in Op, Planned(y), y.n = Step, y.l = l, lo <= Place(y), Place(y) <= hi
      PROVE  Same(y, o) /\ y.on = o.on
  BY <1>1, <1>3 DEF WorkAt, Same
<1>4. Exact(<<o>>, Step, l, lo, hi)
  BY <1>1, <1>2, <1>3, OneExact
<1>. QED
  BY <1>4 DEF o

\* Keys, query and fill are as planned.
LEMMA PrepareExact ==
  ASSUME Types, NEW l \in Layers
  PROVE  Exact(PrepareIndexer(l), Step, l, 62, 63)
<1> DEFINE op == IF ShortContext(l, Now) THEN "fill" ELSE "indexQ"
           p1 == OnlyIf(IsKVSource(l), <<On("main", "produceK", l)>>)
           p2 == <<On("main", op, l)>>
<1>1. CASE IsIndexSource(l)
  <2>1. IsKVSource(l) => Exact(<<On("main", "produceK", l)>>, Step, l, 62, 62)
    <3>. SUFFICES ASSUME IsKVSource(l)
                  PROVE  Exact(<<On("main", "produceK", l)>>, Step, l, 62, 62)
      OBVIOUS
    <3>1. /\ PlannedWork(Work("produceK", Step, l, 0)) /\ StreamOf("produceK", Step) = "main"
          /\ "produceK" \in OpNames \ {"record", "wait"}
      BY <1>1 DEF PlannedWork, Work, StreamOf, OpNames
    <3>2. \A o \in Op : o.op = "produceK" /\ o.on = "main" => Place(o) = 62
      BY DEF Place
    <3>3. \A y \in Op : Planned(y) /\ y.n = Step /\ y.l = l /\ 62 <= Place(y) /\ Place(y) <= 62
            => WorkAt(y, "main", "produceK", 62)
      BY AtPrepare, PlaceNat DEF WorkAt
    <3>. QED
      BY <3>1, <3>2, <3>3, MainExact
  <2>2. Exact(p1, Step, l, 62, 62)
    <3>1. ~IsKVSource(l) => \A y \in Op : Planned(y) /\ y.n = Step /\ y.l = l
                             => ~(62 <= Place(y) /\ Place(y) <= 62)
      BY AtPrepare, PlaceNat DEF WorkAt
    <3>. QED
      BY <2>1, <3>1, NoExact DEF OnlyIf
  <2>3. Exact(p2, Step, l, 63, 63)
    <3>1. /\ PlannedWork(Work(op, Step, l, 0)) /\ StreamOf(op, Step) = "main"
          /\ op \in OpNames \ {"record", "wait"}
      BY <1>1 DEF PlannedWork, Work, StreamOf, OpNames, Scoring, Now
    <3>2. \A o \in Op : o.op = op /\ o.on = "main" => Place(o) = 63
      BY DEF Place
    <3>3. \A y \in Op : Planned(y) /\ y.n = Step /\ y.l = l /\ 63 <= Place(y) /\ Place(y) <= 63
            => WorkAt(y, "main", op, 63)
      BY AtPrepare, PlaceNat DEF WorkAt, Scoring, Now
    <3> HIDE DEF op
    <3>. QED
      BY <3>1, <3>2, <3>3, MainExact
  <2>4. Exact(p1 \o p2, Step, l, 62, 63)
    <3> HIDE DEF p1, p2
    <3>. QED
      BY <2>2, <2>3, NextExact
  <2>5. PrepareIndexer(l) = p1 \o p2
    BY <1>1 DEF PrepareIndexer, OnlyIf
  <2>. QED
    BY <2>4, <2>5
<1>2. CASE ~IsIndexSource(l)
  <2>1. PrepareIndexer(l) = << >>
    BY <1>2 DEF PrepareIndexer, OnlyIf
  <2>2. \A y \in Op : Planned(y) /\ y.n = Step /\ y.l = l
             => ~(62 <= Place(y) /\ Place(y) <= 63)
    BY <1>2, AtPrepare DEF Scoring
  <2>. QED
    BY <2>1, <2>2, NoExact
<1>. QED
  BY <1>1, <1>2

\* The chunks are enqueued in order, each once.
LEMMA ChunksExact ==
  ASSUME Types, NEW l \in Layers, Scoring(Step, l), Step \in 1..Step
  PROVE  Exact([i \in DOMAIN Now.chunks |-> Nth("main", "chunk", l, i)], Step, l, 81, 81)
<1> DEFINE n == Step
           cs == Now.chunks
           q == [i \in DOMAIN cs |-> Nth("main", "chunk", l, i)]
<1>0. /\ n \in Nat /\ l \in Nat /\ "main" \in Streams /\ "chunk" \in OpNames
      /\ cs \in Seq(Chunk) /\ Now = batches[n]
  <2>1. Now \in Batches
    BY DEF Now, Step, Types
  <2>2. Now.chunks \in Seq(Chunk)
    BY <2>1, BatchNumbers
  <2>. QED
    BY <2>2, SetupTypes DEF Types, Streams, OpNames, Now
<1>1. DOMAIN cs = 1..Len(cs) /\ Len(cs) \in Nat
  BY <1>0
<1>2. ASSUME NEW i \in DOMAIN cs
      PROVE  /\ q[i] = [on |-> "main", op |-> "chunk", n |-> n, l |-> l, i |-> i,
                        fork |-> 0, at |-> 0]
             /\ q[i] \in Op /\ i \in Nat
  <2>1. i \in Nat
    BY <1>1
  <2>2. /\ Nth("main", "chunk", l, i) = [on |-> "main", op |-> "chunk", n |-> n, l |-> l,
                                         i |-> i, fork |-> 0, at |-> 0]
        /\ Nth("main", "chunk", l, i) \in Op
    BY <1>0, <2>1, OnIs
  <2>. QED
    BY <2>1, <2>2
<1>3. DOMAIN q = 1..Len(cs)
  BY <1>1
<1>4. \A i \in DOMAIN q : /\ q[i] \in Op /\ i \in Nat
                         /\ q[i].on = "main" /\ q[i].op = "chunk" /\ q[i].n = n
                         /\ q[i].l = l /\ q[i].i = i /\ q[i].fork = 0 /\ q[i].at = 0
  <2> HIDE DEF q, n, cs
  <2>. QED
    BY <1>1, <1>2, <1>3
<1> HIDE DEF q
<1>5. q \in Seq(Op)
  <2>1. q \in [1..Len(cs) -> Op]
    BY <1>2, <1>1 DEF q
  <2>. QED
    BY <1>1, <2>1
<1>6. \A i \in DOMAIN q : Place(q[i]) = 81
  BY <1>4 DEF Place
<1>7. Sorted(q)
  BY <1>4, <1>6 DEF Sorted, Before
<1>8. ASSUME NEW i \in DOMAIN q
      PROVE  Planned(q[i])
  BY <1>0, <1>1, <1>3, <1>4, <1>8 DEF Planned, PlannedWork
<1>9. ASSUME NEW y \in Op, Planned(y), y.n = n, y.l = l, 81 <= Place(y), Place(y) <= 81
      PROVE  \E z \in Elements(q) : Same(y, z) /\ z.on = y.on
  <2>1. y.on = "main" /\ y.op = "chunk" /\ y.fork = 0 /\ y.i \in DOMAIN cs
    BY <1>0, <1>9, AtSelect, PlaceNat DEF WorkAt
  <2>2. y.i \in DOMAIN q
    BY <2>1, <1>1, <1>3
  <2>. QED
    BY <1>4, <1>9, <2>1, <2>2 DEF Same, Elements
<1>10. Piece(q, n, l, 81, 81, Elements(q))
  BY <1>4, <1>5, <1>6, <1>7 DEF Piece
<1>11. Exact(q, n, l, 81, 81)
  BY <1>8, <1>9, <1>10 DEF Exact, Elements
<1>. QED
  BY <1>11 DEF q

\* The indexer's selection is as planned.
LEMMA IndexerExact ==
  ASSUME Types, NEW l \in Layers, Step \in 1..Step
  PROVE  Exact(IndexerOp(l), Step, l, 75, 83)
<1> DEFINE n == Step
           p1 == <<On("main", "clear", l)>>
           p2 == [i \in DOMAIN Now.chunks |-> Nth("main", "chunk", l, i)]
           p3 == OnlyIf(Now.decodes # << >>, <<On("main", "decode", l)>>)
           p4 == OnlyIf(RequiresPadding(Now), <<On("main", "unpack", l)>>)
<1>0. Now = batches[n] /\ n \in Nat
  BY SetupTypes DEF Now, Types
<1>1. CASE Scoring(n, l)
  <2>1. Exact(p1, n, l, 75, 80)
    <3>1. /\ PlannedWork(Work("clear", n, l, 0)) /\ StreamOf("clear", n) = "main"
          /\ "clear" \in OpNames \ {"record", "wait"}
      BY <1>1 DEF PlannedWork, Work, StreamOf, OpNames
    <3>2. \A o \in Op : o.op = "clear" /\ o.on = "main" => Place(o) = 80
      BY DEF Place
    <3>3. \A y \in Op : Planned(y) /\ y.n = n /\ y.l = l /\ 75 <= Place(y) /\ Place(y) <= 80
            => WorkAt(y, "main", "clear", 80)
      BY AtSelect, PlaceNat DEF WorkAt
    <3>. QED
      BY <3>1, <3>2, <3>3, MainExact
  <2>2. Exact(p2, n, l, 81, 81)
    BY <1>1, ChunksExact
  <2>3. Now.decodes # << >> => Exact(<<On("main", "decode", l)>>, n, l, 82, 82)
    <3>. SUFFICES ASSUME Now.decodes # << >>
                  PROVE  Exact(<<On("main", "decode", l)>>, n, l, 82, 82)
      OBVIOUS
    <3>1. /\ PlannedWork(Work("decode", n, l, 0)) /\ StreamOf("decode", n) = "main"
          /\ "decode" \in OpNames \ {"record", "wait"}
      BY <1>0, <1>1 DEF PlannedWork, Work, StreamOf, OpNames
    <3>2. \A o \in Op : o.op = "decode" /\ o.on = "main" => Place(o) = 82
      BY DEF Place
    <3>3. \A y \in Op : Planned(y) /\ y.n = n /\ y.l = l /\ 82 <= Place(y) /\ Place(y) <= 82
            => WorkAt(y, "main", "decode", 82)
      BY AtSelect, PlaceNat DEF WorkAt
    <3>. QED
      BY <3>1, <3>2, <3>3, MainExact
  <2>4. RequiresPadding(Now) => Exact(<<On("main", "unpack", l)>>, n, l, 83, 83)
    <3>. SUFFICES ASSUME RequiresPadding(Now)
                  PROVE  Exact(<<On("main", "unpack", l)>>, n, l, 83, 83)
      OBVIOUS
    <3>1. /\ PlannedWork(Work("unpack", n, l, 0)) /\ StreamOf("unpack", n) = "main"
          /\ "unpack" \in OpNames \ {"record", "wait"}
      BY <1>0, <1>1 DEF PlannedWork, Work, StreamOf, OpNames
    <3>2. \A o \in Op : o.op = "unpack" /\ o.on = "main" => Place(o) = 83
      BY DEF Place
    <3>3. \A y \in Op : Planned(y) /\ y.n = n /\ y.l = l /\ 83 <= Place(y) /\ Place(y) <= 83
            => WorkAt(y, "main", "unpack", 83)
      BY AtSelect, PlaceNat DEF WorkAt
    <3>. QED
      BY <3>1, <3>2, <3>3, MainExact
  <2>5. Exact(p3, n, l, 82, 82)
    <3>1. Now.decodes = << >> => \A y \in Op : Planned(y) /\ y.n = n /\ y.l = l
                             => ~(82 <= Place(y) /\ Place(y) <= 82)
      BY <1>0, AtSelect, PlaceNat DEF WorkAt
    <3> HIDE DEF n
    <3>. QED
      BY <2>3, <3>1, NoExact DEF OnlyIf
  <2>6. Exact(p4, n, l, 83, 83)
    <3>1. ~RequiresPadding(Now) => \A y \in Op : Planned(y) /\ y.n = n /\ y.l = l
                             => ~(83 <= Place(y) /\ Place(y) <= 83)
      BY <1>0, AtSelect, PlaceNat DEF WorkAt
    <3> HIDE DEF n
    <3>. QED
      BY <2>4, <3>1, NoExact DEF OnlyIf
  <2>7. IndexerOp(l) = p1 \o p2 \o p3 \o p4
    BY <1>0, <1>1 DEF IndexerOp, Scoring, OnlyIf
  <2> HIDE DEF p1, p2, p3, p4, n
  <2>8. Exact(p1 \o p2, n, l, 75, 81)
    BY <2>1, <2>2, NextExact
  <2>9. Exact(p1 \o p2 \o p3, n, l, 75, 82)
    BY <2>5, <2>8, NextExact
  <2>10. Exact(p1 \o p2 \o p3 \o p4, n, l, 75, 83)
    BY <2>6, <2>9, NextExact
  <2>. QED
    BY <2>7, <2>10 DEF n
<1>2. CASE ~Scoring(n, l)
  <2>1. IndexerOp(l) = << >>
    BY <1>0, <1>2 DEF IndexerOp, Scoring, OnlyIf
  <2>2. \A y \in Op : Planned(y) /\ y.n = n /\ y.l = l
             => ~(75 <= Place(y) /\ Place(y) <= 83)
    BY <1>2, AtSelect, PlaceNat DEF WorkAt
  <2>. QED
    BY <2>1, <2>2, NoExact
<1>. QED
  BY <1>1, <1>2

\* The program of a layer is what is planned of it, in the order of the places.
LEMMA ProgramExact ==
  ASSUME Types, NEW l \in Layers, Step \in 1..Step
  PROVE  Exact(Program(l), Step, l, 21, 84)
<1> DEFINE n == Step
           insert == <<On("main", "insert", l)>>
           attend == <<On("main", "attend", l)>>
           p2 == IF IsKVSource(l) THEN Parallel(l, 2, insert, "compress") ELSE insert
           p3 == IF IsKVSource(l) THEN Parallel(l, 3, PrepareIndexer(l), "insertCache")
                                  ELSE PrepareIndexer(l)
<1>1. Exact(Projections(l), n, l, 21, 34)
  BY ProjectionsExact
<1>2. Exact(insert, n, l, 42, 43)
  <2>1. /\ PlannedWork(Work("insert", n, l, 0)) /\ StreamOf("insert", n) = "main"
        /\ "insert" \in OpNames \ {"record", "wait"}
    BY DEF PlannedWork, Work, StreamOf, OpNames
  <2>2. \A o \in Op : o.op = "insert" /\ o.on = "main" => Place(o) = 42
    BY DEF Place
  <2>3. \A y \in Op : Planned(y) /\ y.n = n /\ y.l = l /\ 42 <= Place(y) /\ Place(y) <= 43
          => WorkAt(y, "main", "insert", 42)
    BY AtInsert
  <2>. QED
    BY <2>1, <2>2, <2>3, MainExact
<1>3. Exact(PrepareIndexer(l), n, l, 62, 63)
  BY PrepareExact
<1>4. Exact(attend, n, l, 84, 84)
  <2>1. /\ PlannedWork(Work("attend", n, l, 0)) /\ StreamOf("attend", n) = "main"
        /\ "attend" \in OpNames \ {"record", "wait"}
    BY DEF PlannedWork, Work, StreamOf, OpNames
  <2>2. \A o \in Op : o.op = "attend" /\ o.on = "main" => Place(o) = 84
    BY DEF Place
  <2>3. \A y \in Op : Planned(y) /\ y.n = n /\ y.l = l /\ 84 <= Place(y) /\ Place(y) <= 84
          => WorkAt(y, "main", "attend", 84)
    BY AtSelect, PlaceNat DEF WorkAt
  <2>. QED
    BY <2>1, <2>2, <2>3, MainExact
<1> HIDE DEF insert, attend, n
<1>5. IsKVSource(l) => Exact(p2, n, l, 35, 54) /\ Exact(p3, n, l, 55, 74)
  <2>. SUFFICES ASSUME IsKVSource(l)
                PROVE  Exact(p2, n, l, 35, 54) /\ Exact(p3, n, l, 55, 74)
    OBVIOUS
  <2>1. Exact(Parallel(l, 2, insert, "compress"), Step, l, 20 * 2 - 5, 20 * 2 + 14)
    <3>1. Exact(insert, Step, l, 20 * 2 + 2, 20 * 2 + 3) /\ 2 \in 2..3
      BY <1>2 DEF n
    <3>. QED
      BY <3>1, ParallelExact
  <2>2. Exact(Parallel(l, 3, PrepareIndexer(l), "insertCache"), Step, l,
              20 * 3 - 5, 20 * 3 + 14)
    <3>1. Exact(PrepareIndexer(l), Step, l, 20 * 3 + 2, 20 * 3 + 3) /\ 3 \in 2..3
      BY <1>3 DEF n
    <3>. QED
      BY <3>1, ParallelExact
  <2>3. 20 * 2 - 5 = 35 /\ 20 * 2 + 14 = 54 /\ 20 * 3 - 5 = 55 /\ 20 * 3 + 14 = 74
    OBVIOUS
  <2>4. Exact(Parallel(l, 2, insert, "compress"), n, l, 35, 54)
    BY <2>1, <2>3 DEF n
  <2>5. Exact(Parallel(l, 3, PrepareIndexer(l), "insertCache"), n, l, 55, 74)
    BY <2>2, <2>3 DEF n
  <2>. QED
    BY <2>4, <2>5
<1>6. ~IsKVSource(l) => Exact(p2, n, l, 35, 54) /\ Exact(p3, n, l, 55, 74)
  <2>. SUFFICES ASSUME ~IsKVSource(l)
                PROVE  Exact(insert, n, l, 35, 54) /\ Exact(PrepareIndexer(l), n, l, 55, 74)
    OBVIOUS
  <2>1. \A y \in Op : Planned(y) /\ y.n = n /\ y.l = l /\ 35 <= Place(y) /\ Place(y) <= 54
          => 42 <= Place(y) /\ Place(y) <= 43
    BY AtNoJoin, PlaceNat
  <2>2. \A y \in Op : Planned(y) /\ y.n = n /\ y.l = l /\ 55 <= Place(y) /\ Place(y) <= 74
          => 62 <= Place(y) /\ Place(y) <= 63
    BY AtNoJoin, PlaceNat
  <2>3. Exact(insert, n, l, 35, 54)
    BY <1>2, <2>1, WiderExact
  <2>4. Exact(PrepareIndexer(l), n, l, 55, 74)
    BY <1>3, <2>2, WiderExact
  <2>. QED
    BY <2>3, <2>4
<1>7. Exact(IndexerOp(l), n, l, 75, 83)
  BY IndexerExact DEF n
<1>8. Program(l) = Projections(l) \o p2 \o p3 \o IndexerOp(l) \o attend
  BY DEF Program, insert, attend
<1>9. Exact(p2, n, l, 35, 54) /\ Exact(p3, n, l, 55, 74)
  BY <1>5, <1>6
<1> HIDE DEF p2, p3
<1>10. Exact(Projections(l) \o p2, n, l, 21, 54)
  BY <1>1, <1>9, NextExact
<1>11. Exact(Projections(l) \o p2 \o p3, n, l, 21, 74)
  BY <1>9, <1>10, NextExact
<1>12. Exact(Projections(l) \o p2 \o p3 \o IndexerOp(l), n, l, 21, 83)
  BY <1>7, <1>11, NextExact
<1>13. Exact(Projections(l) \o p2 \o p3 \o IndexerOp(l) \o attend, n, l, 21, 84)
  BY <1>4, <1>12, NextExact
<1>. QED
  BY <1>8, <1>13 DEF n

-----------------------------------------------------------------------------
(* Which record of its event an operation is, or waits for *)

\* The records of an event among the first p operations.
RecordsTo(q, p, e) == {j \in 1..p : q[j].op = "record" /\ q[j].i = e}

\* Records counts the records of an event.
LEMMA RecordsIs ==
  ASSUME NEW q \in Seq(Op), NEW p \in 1..Len(q), NEW e
  PROVE  Records(SubSeq(q, 1, p), e) = Cardinality(RecordsTo(q, p, e))
<1> DEFINE t == SubSeq(q, 1, p)
<1>1. DOMAIN t = 1..p /\ \A j \in 1..p : t[j] = q[j]
  OBVIOUS
<1> HIDE DEF t
<1>2. {j \in DOMAIN t : t[j].op = "record" /\ t[j].i = e} = RecordsTo(q, p, e)
  BY <1>1 DEF RecordsTo
<1>3. Records(t, e) = Cardinality(RecordsTo(q, p, e))
  BY <1>2 DEF Records
<1>. QED
  BY <1>3 DEF t

\* The count grows with every record.
LEMMA RecordsNat ==
  ASSUME NEW q \in Seq(Op), NEW e
  PROVE  /\ Records(q, e) = Cardinality(RecordsTo(q, Len(q), e)) /\ Records(q, e) \in Nat
         /\ \A p \in 1..Len(q) : Cardinality(RecordsTo(q, p, e)) \in Nat
                                 /\ Cardinality(RecordsTo(q, p, e)) <= Records(q, e)
         /\ \A p, r \in 1..Len(q) : p < r /\ q[r].op = "record" /\ q[r].i = e
              => Cardinality(RecordsTo(q, p, e)) < Cardinality(RecordsTo(q, r, e))
         /\ \A p \in 1..Len(q) : q[p].op = "record" /\ q[p].i = e
              => 0 < Cardinality(RecordsTo(q, p, e))
<1>1. DOMAIN q = 1..Len(q) /\ Len(q) \in Nat
  OBVIOUS
<1>2. Records(q, e) = Cardinality(RecordsTo(q, Len(q), e))
  BY <1>1 DEF Records, RecordsTo
<1>3. \A p \in Nat : IsFiniteSet(RecordsTo(q, p, e)) /\ Cardinality(RecordsTo(q, p, e)) \in Nat
  <2>. TAKE p \in Nat
  <2>1. IsFiniteSet(1..p)
    BY FS_Interval
  <2>2. IsFiniteSet(RecordsTo(q, p, e))
    BY <2>1, FS_Subset DEF RecordsTo
  <2>. QED
    BY <2>2, FS_CardinalityType
<1>4. \A p, r \in Nat : p <= r =>
        /\ RecordsTo(q, p, e) \subseteq RecordsTo(q, r, e)
        /\ Cardinality(RecordsTo(q, p, e)) <= Cardinality(RecordsTo(q, r, e))
  <2>. SUFFICES ASSUME NEW p \in Nat, NEW r \in Nat, p <= r
                PROVE  /\ RecordsTo(q, p, e) \subseteq RecordsTo(q, r, e)
                       /\ Cardinality(RecordsTo(q, p, e)) <= Cardinality(RecordsTo(q, r, e))
    OBVIOUS
  <2>1. RecordsTo(q, p, e) \subseteq RecordsTo(q, r, e)
    BY DEF RecordsTo
  <2>. QED
    BY <1>3, <2>1, FS_Subset
<1>5. ASSUME NEW p \in 1..Len(q), NEW r \in 1..Len(q), p < r,
             q[r].op = "record", q[r].i = e
      PROVE  Cardinality(RecordsTo(q, p, e)) < Cardinality(RecordsTo(q, r, e))
  <2>0. p \in Nat /\ r \in Nat /\ p <= r
    BY <1>1, <1>5
  <2>1. r \in RecordsTo(q, r, e) /\ r \notin RecordsTo(q, p, e)
    BY <1>5, <2>0 DEF RecordsTo
  <2>2. /\ Cardinality(RecordsTo(q, p, e)) <= Cardinality(RecordsTo(q, r, e))
        /\ RecordsTo(q, p, e) \in SUBSET RecordsTo(q, r, e)
    BY <1>4, <2>0
  <2>3. Cardinality(RecordsTo(q, p, e)) # Cardinality(RecordsTo(q, r, e))
    <3>1. IsFiniteSet(RecordsTo(q, r, e))
      BY <1>3, <2>0
    <3>2. Cardinality(RecordsTo(q, r, e)) = Cardinality(RecordsTo(q, p, e))
            => RecordsTo(q, r, e) = RecordsTo(q, p, e)
      BY <2>2, <3>1, FS_Subset
    <3>. QED
      BY <2>1, <3>2
  <2>. QED
    BY <1>3, <2>0, <2>2, <2>3
<1>6. ASSUME NEW p \in 1..Len(q), q[p].op = "record", q[p].i = e
      PROVE  0 < Cardinality(RecordsTo(q, p, e))
  <2>1. p \in Nat /\ p \in RecordsTo(q, p, e)
    BY <1>1, <1>6 DEF RecordsTo
  <2>2. Cardinality(RecordsTo(q, p, e)) # 0
    BY <1>3, <2>1, FS_EmptySet
  <2>. QED
    BY <1>3, <2>1, <2>2
<1>7. \A p \in 1..Len(q) : p \in Nat /\ p <= Len(q)
  BY <1>1
<1>. QED
  BY <1>1, <1>2, <1>3, <1>4, <1>5, <1>6, <1>7

\* A join's record and wait stand together: no other record of the event is between.
LEMMA Joins ==
  ASSUME NEW r \in Op, Planned(r), r.op = "record", NEW w \in Op, Planned(w), w.op = "wait",
         r.fork = w.fork, r.i = w.i
  PROVE  /\ Place(r) < Place(w)
         /\ \A x \in Op : Planned(x) /\ x.op = "record" /\ x.i = w.i =>
              (Place(x) <= Place(r) \/ Place(w) < Place(x))
<1> DEFINE k(e) == IF e = 0 THEN 1 ELSE IF e = 1 THEN 6 ELSE 9
<1>1. \A x \in Op : Planned(x) /\ x.op = "record" =>
        /\ x.fork \in 1..3 /\ x.i \in 0..2 /\ Place(x) = 20 * x.fork + k(x.i)
        /\ x.i = 2 => x.fork = 1
  BY DEF Planned, PlannedSync, PlannedWork, Place, EventOf, Op, Streams, Takes
<1>2. /\ w.fork \in 1..3
      /\ w.i = 0 => Place(w) \in {20 * w.fork + 4, 20 * w.fork + 7}
      /\ w.i # 0 => Place(w) = 20 * w.fork + 12 + w.i
  BY DEF Planned, PlannedSync, PlannedWork, Place, EventOf, Op, Streams, Aux
<1>3. Place(r) = 20 * w.fork + k(w.i) /\ w.i \in 0..2
  BY <1>1
<1>4. Place(r) < Place(w)
  BY <1>2, <1>3
<1>5. ASSUME NEW x \in Op, Planned(x), x.op = "record", x.i = w.i
      PROVE  Place(x) <= Place(r) \/ Place(w) < Place(x)
  <2>1. x.fork \in 1..3 /\ Place(x) = 20 * x.fork + k(w.i)
    BY <1>1, <1>5
  <2>2. CASE w.i = 0
    BY <1>2, <1>3, <2>1, <2>2
  <2>3. CASE w.i = 1
    BY <1>2, <1>3, <2>1, <2>3
  <2>4. CASE w.i = 2
    BY <1>2, <1>3, <2>1, <2>4
  <2>. QED
    BY <1>3, <2>2, <2>3, <2>4
<1>. QED
  BY <1>4, <1>5

\* Resolving sets the counts and nothing else.
LEMMA ResolvedAt ==
  ASSUME Types, NEW l \in Layers, NEW q, Exact(q, Step, l, 21, 84)
  PROVE  /\ q \in Seq(Op) /\ DOMAIN q = 1..Len(q) /\ Len(q) \in Nat
         /\ Resolved(q) \in Seq(Op) /\ Len(Resolved(q)) = Len(q)
         /\ \A p \in 1..Len(q) :
              /\ q[p] \in Op /\ q[p].n = Step /\ q[p].l = l /\ Planned(q[p])
              /\ Same(Resolved(q)[p], q[p]) /\ Resolved(q)[p].on = q[p].on
              /\ Resolved(q)[p] \in Op /\ Place(Resolved(q)[p]) = Place(q[p])
              /\ q[p].op \in {"record", "wait"} =>
                   Resolved(q)[p].at = recorded[l][q[p].i]
                                       + Cardinality(RecordsTo(q, p, q[p].i))
<1> DEFINE t == Resolved(q)
<1>1. /\ q \in Seq(Op) /\ DOMAIN q = 1..Len(q) /\ Len(q) \in Nat
      /\ \A p \in 1..Len(q) : q[p] \in Op /\ q[p].n = Step /\ q[p].l = l /\ Planned(q[p])
  BY DEF Exact, Piece, Elements
<1>2. /\ DOMAIN t = 1..Len(q)
      /\ \A p \in 1..Len(q) : t[p] = IF q[p].op \in {"record", "wait"}
                                     THEN [q[p] EXCEPT !.at = Target(q, p)] ELSE q[p]
  BY <1>1 DEF Resolved
<1>3. ASSUME NEW p \in 1..Len(q), q[p].op \in {"record", "wait"}
      PROVE  /\ Target(q, p) = recorded[l][q[p].i] + Cardinality(RecordsTo(q, p, q[p].i))
             /\ Target(q, p) \in Nat
  <2>1. Records(SubSeq(q, 1, p), q[p].i) = Cardinality(RecordsTo(q, p, q[p].i))
    BY <1>1, RecordsIs
  <2>2. Cardinality(RecordsTo(q, p, q[p].i)) \in Nat
    BY <1>1, RecordsNat
  <2>3. q[p].i \in Events
    BY <1>1, <1>3, PlannedInRange
  <2>4. recorded[l][q[p].i] \in Nat
    BY <2>3 DEF Types
  <2>. QED
    BY <1>1, <2>1, <2>2, <2>4 DEF Target
<1> HIDE DEF t
<1>4. ASSUME NEW p \in 1..Len(q)
      PROVE  /\ Same(t[p], q[p]) /\ t[p].on = q[p].on /\ t[p] \in Op
             /\ Place(t[p]) = Place(q[p])
             /\ q[p].op \in {"record", "wait"} => t[p].at = Target(q, p)
  <2>1. q[p] \in Op
    BY <1>1
  <2>2. CASE q[p].op \in {"record", "wait"}
    <3>1. t[p] = [q[p] EXCEPT !.at = Target(q, p)] /\ Target(q, p) \in Nat
      BY <1>2, <1>3, <2>2
    <3>. QED
      BY <2>1, <2>2, <3>1 DEF Op, Same, Place
  <2>3. CASE q[p].op \notin {"record", "wait"}
    <3>1. t[p] = q[p]
      BY <1>2, <2>3
    <3>. QED
      BY <2>1, <2>3, <3>1 DEF Same
  <2>. QED
    BY <2>2, <2>3
<1>5. t \in Seq(Op) /\ Len(t) = Len(q)
  <2>1. t = [p \in 1..Len(q) |-> t[p]]
    BY <1>1 DEF t, Resolved
  <2>2. t \in [1..Len(q) -> Op]
    BY <1>4, <2>1
  <2>. QED
    BY <1>1, <1>2, <2>2
<1>. QED
  BY <1>1, <1>3, <1>4, <1>5 DEF t

\* It keeps the order and the plan.
LEMMA ResolvedSorted ==
  ASSUME Types, NEW l \in Layers, NEW q, Exact(q, Step, l, 21, 84)
  PROVE  /\ Resolved(q) \in Seq(Op) /\ Sorted(Resolved(q))
         /\ \A o \in Elements(Resolved(q)) : o \in Op /\ o.n = Step /\ o.l = l /\ Planned(o)
         /\ \A y \in Op : Planned(y) /\ y.n = Step /\ y.l = l =>
              \E z \in Elements(Resolved(q)) : Same(y, z) /\ z.on = y.on
<1> DEFINE t == Resolved(q)
<1>1. /\ q \in Seq(Op) /\ DOMAIN q = 1..Len(q) /\ t \in Seq(Op) /\ DOMAIN t = 1..Len(q)
      /\ \A p \in 1..Len(q) :
           /\ q[p] \in Op /\ q[p].n = Step /\ q[p].l = l /\ Planned(q[p])
           /\ Same(t[p], q[p]) /\ t[p].on = q[p].on
           /\ t[p] \in Op /\ Place(t[p]) = Place(q[p])
  BY ResolvedAt
<1> HIDE DEF t
<1>2. Sorted(q) /\ \A y \in Op : Planned(y) /\ y.n = Step /\ y.l = l =>
                     \E z \in Elements(q) : Same(y, z) /\ z.on = y.on
  BY AtSomewhere DEF Exact, Piece
<1>3. Sorted(t)
  <2>. SUFFICES ASSUME NEW i \in 1..Len(q), NEW j \in 1..Len(q), i < j
                PROVE  Before(t[i], t[j])
    BY <1>1 DEF Sorted
  <2>1. Before(q[i], q[j])
    BY <1>1, <1>2 DEF Sorted
  <2>. QED
    BY <1>1, <2>1 DEF Before, LayerBefore, Same
<1>4. \A p \in 1..Len(q) : Planned(t[p]) /\ t[p].n = Step /\ t[p].l = l
  <2>. TAKE p \in 1..Len(q)
  <2>1. PlannedSync(t[p]) <=> PlannedSync(q[p])
    BY <1>1 DEF PlannedSync, Same
  <2>2. PlannedWork(t[p]) <=> PlannedWork(q[p])
    BY <1>1 DEF PlannedWork, Same
  <2>. QED
    BY <1>1, <2>1, <2>2 DEF Planned, Same
<1>5. \A y \in Op : Planned(y) /\ y.n = Step /\ y.l = l =>
              \E z \in Elements(t) : Same(y, z) /\ z.on = y.on
  <2>. SUFFICES ASSUME NEW y \in Op, Planned(y), y.n = Step, y.l = l
                PROVE  \E z \in Elements(t) : Same(y, z) /\ z.on = y.on
    OBVIOUS
  <2>1. PICK p \in 1..Len(q) : Same(y, q[p]) /\ q[p].on = y.on
    <3>1. PICK z \in Elements(q) : Same(y, z) /\ z.on = y.on
      BY <1>2
    <3>2. PICK p \in 1..Len(q) : z = q[p]
      BY <1>1 DEF Elements
    <3>. QED
      BY <3>1, <3>2
  <2>2. t[p] \in Elements(t) /\ Same(y, t[p]) /\ t[p].on = y.on
    BY <1>1, <2>1 DEF Elements, Same
  <2>. QED
    BY <2>2
<1>6. \A o \in Elements(t) : o \in Op /\ o.n = Step /\ o.l = l /\ Planned(o)
  BY <1>1, <1>4 DEF Elements
<1>. QED
  BY <1>1, <1>3, <1>5, <1>6 DEF t

\* A wait gets the count of the record of its own fork.
LEMMA ResolvedCounts ==
  ASSUME Types, NEW l \in Layers, NEW q, Exact(q, Step, l, 21, 84)
  PROVE  /\ \A e \in Events : Records(q, e) \in Nat
         /\ \A r \in Elements(Resolved(q)) : r.op = "record" =>
              /\ recorded[l][r.i] < r.at
              /\ r.at <= recorded[l][r.i] + Records(q, r.i)
         /\ \A x, y \in Elements(Resolved(q)) :
              x.op = "record" /\ y.op = "record" /\ x.i = y.i /\ Before(x, y) => x.at < y.at
         /\ \A r, w \in Elements(Resolved(q)) :
              r.op = "record" /\ w.op = "wait" /\ r.fork = w.fork /\ r.i = w.i => r.at = w.at
<1> DEFINE t == Resolved(q)
           c(p, e) == Cardinality(RecordsTo(q, p, e))
<1>1. /\ q \in Seq(Op) /\ DOMAIN q = 1..Len(q) /\ t \in Seq(Op) /\ DOMAIN t = 1..Len(q)
      /\ Len(q) \in Nat
      /\ \A p \in 1..Len(q) :
           /\ q[p] \in Op /\ q[p].n = Step /\ q[p].l = l /\ Planned(q[p])
           /\ Same(t[p], q[p]) /\ t[p].on = q[p].on
           /\ t[p] \in Op /\ Place(t[p]) = Place(q[p])
           /\ q[p].op \in {"record", "wait"} => t[p].at = recorded[l][q[p].i] + c(p, q[p].i)
  BY ResolvedAt
<1> HIDE DEF t
<1>2. Sorted(q) /\ \A p \in 1..Len(q) : p \in Nat
  BY <1>1 DEF Exact, Piece
<1>3. \A p \in 1..Len(q) : q[p].op \in {"record", "wait"} => recorded[l][q[p].i] \in Nat
  <2>1. \A p \in 1..Len(q) : q[p].op \in {"record", "wait"} => q[p].i \in Events
    BY <1>1, PlannedInRange
  <2>. QED
    BY <2>1 DEF Types
<1>4. \A e : /\ Records(q, e) \in Nat
             /\ \A p \in 1..Len(q) : c(p, e) \in Nat /\ c(p, e) <= Records(q, e)
             /\ \A p, r \in 1..Len(q) : p < r /\ q[r].op = "record" /\ q[r].i = e
                  => c(p, e) < c(r, e)
             /\ \A p \in 1..Len(q) : q[p].op = "record" /\ q[p].i = e => 0 < c(p, e)
  BY <1>1, RecordsNat
<1>5. ASSUME NEW a \in 1..Len(q), t[a].op = "record"
      PROVE  /\ recorded[l][t[a].i] < t[a].at
             /\ t[a].at <= recorded[l][t[a].i] + Records(q, t[a].i)
  <2>1. q[a].op = "record" /\ q[a].i = t[a].i
    BY <1>1, <1>5 DEF Same
  <2>2. t[a].at = recorded[l][q[a].i] + c(a, q[a].i) /\ recorded[l][q[a].i] \in Nat
        /\ c(a, q[a].i) \in Nat /\ 0 < c(a, q[a].i) /\ c(a, q[a].i) <= Records(q, q[a].i)
        /\ Records(q, q[a].i) \in Nat
    BY <1>1, <1>3, <1>4, <2>1
  <2> HIDE DEF c
  <2>. QED
    BY <2>1, <2>2
<1>6. ASSUME NEW a \in 1..Len(q), NEW b \in 1..Len(q), t[a].op = "record", t[b].op = "record",
             t[a].i = t[b].i, Before(t[a], t[b])
      PROVE  t[a].at < t[b].at
  <2>1. q[a].op = "record" /\ q[a].i = t[a].i /\ q[b].op = "record" /\ q[b].i = t[a].i
    BY <1>1, <1>6 DEF Same
  <2>2. Before(q[a], q[b])
    BY <1>1, <1>6 DEF Before, LayerBefore, Same
  <2>3. a < b
    <3>1. ~(b < a) /\ a # b
      BY <1>1, <1>2, <2>2, BeforeOrder DEF Sorted
    <3>. QED
      BY <1>2, <3>1
  <2>4. /\ t[a].at = recorded[l][q[a].i] + c(a, q[a].i) /\ recorded[l][q[a].i] \in Nat
        /\ t[b].at = recorded[l][q[a].i] + c(b, q[a].i)
        /\ c(a, q[a].i) \in Nat /\ c(b, q[a].i) \in Nat /\ c(a, q[a].i) < c(b, q[a].i)
    BY <1>1, <1>3, <1>4, <2>1, <2>3
  <2> HIDE DEF c
  <2>. QED
    BY <2>4
<1>7. ASSUME NEW a \in 1..Len(q), NEW b \in 1..Len(q), t[a].op = "record", t[b].op = "wait",
             t[a].fork = t[b].fork, t[a].i = t[b].i
      PROVE  t[a].at = t[b].at
  <2>1. /\ q[a].op = "record" /\ q[a].i = t[a].i /\ q[b].op = "wait" /\ q[b].i = t[a].i
        /\ q[a].fork = q[b].fork
    BY <1>1, <1>7 DEF Same
  <2> DEFINE e == q[b].i
  <2>2. /\ Place(q[a]) < Place(q[b])
        /\ \A x \in Op : Planned(x) /\ x.op = "record" /\ x.i = e =>
             (Place(x) <= Place(q[a]) \/ Place(q[b]) < Place(x))
    BY <1>1, <2>1, Joins
  <2>3. \A i, j \in 1..Len(q) : i < j => Place(q[i]) <= Place(q[j])
    <3>. SUFFICES ASSUME NEW i \in 1..Len(q), NEW j \in 1..Len(q), i < j
                  PROVE  Place(q[i]) <= Place(q[j])
      OBVIOUS
    <3>1. Before(q[i], q[j]) /\ q[i] \in Op /\ q[j] \in Op /\ q[i].n = q[j].n /\ q[i].l = q[j].l
      BY <1>1, <1>2 DEF Sorted
    <3>. QED
      BY <3>1, PlaceNat DEF Before, LayerBefore
  <2>4. a < b
    <3>1. ~(b < a) /\ a # b
      BY <1>1, <2>2, <2>3, PlaceNat
    <3>. QED
      BY <1>2, <3>1
  <2>5. ASSUME NEW j \in 1..b, q[j].op = "record", q[j].i = e
        PROVE  j <= a
    <3>1. j \in 1..Len(q) /\ j \in Nat /\ b \in Nat /\ a \in Nat /\ j <= b
      BY <1>1, <2>5
    <3>2. j # b
      BY <2>1, <2>5
    <3>3. Place(q[j]) <= Place(q[b]) /\ Place(q[j]) \in Nat /\ Place(q[b]) \in Nat
          /\ Place(q[a]) \in Nat
      <4>1. j < b
        BY <3>1, <3>2
      <4>. QED
        BY <1>1, <2>3, <3>1, <4>1, PlaceNat
    <3>4. Place(q[j]) <= Place(q[a])
      BY <1>1, <2>2, <2>5, <3>1, <3>3
    <3>5. ASSUME a < j
          PROVE  FALSE
      <4>1. Before(q[a], q[j])
        BY <1>1, <1>2, <3>1, <3>5 DEF Sorted
      <4>2. Place(q[a]) < Place(q[j])
        BY <1>1, <2>1, <2>5, <3>1, <3>3, <4>1, PlaceNat DEF Before, LayerBefore
      <4>. QED
        BY <3>3, <3>4, <4>2
    <3>. QED
      BY <3>1, <3>5
  <2>6. RecordsTo(q, a, e) = RecordsTo(q, b, e)
    <3> HIDE DEF e
    <3>1. a \in Nat /\ b \in Nat
      BY <1>1
    <3>. QED
      BY <2>4, <2>5, <3>1 DEF RecordsTo
  <2>. QED
    BY <1>1, <2>1, <2>6
<1>8. Elements(t) = {t[a] : a \in 1..Len(q)}
  BY <1>1, Zenon DEF Elements
<1>9. \A r \in Elements(t) : r.op = "record" =>
        recorded[l][r.i] < r.at /\ r.at <= recorded[l][r.i] + Records(q, r.i)
  BY <1>5, <1>8
<1>10. \A x, y \in Elements(t) :
         x.op = "record" /\ y.op = "record" /\ x.i = y.i /\ Before(x, y) => x.at < y.at
  BY <1>6, <1>8
<1>11. \A r, w \in Elements(t) :
         r.op = "record" /\ w.op = "wait" /\ r.fork = w.fork /\ r.i = w.i => r.at = w.at
  BY <1>7, <1>8
<1>. QED
  BY <1>4, <1>9, <1>10, <1>11 DEF t

-----------------------------------------------------------------------------
(* The host goes on: what is planned and selected for a batch stays *)

LEMMA PlanStays ==
  ASSUME setup' = setup, NEW n, batches'[n] = batches[n]
  PROVE  /\ \A o : o.n = n => (Planned(o)' <=> Planned(o))
         /\ \A s \in Streams : \A l, f : Takes(s, n, l, f)' <=> Takes(s, n, l, f)
<1>1. \A s \in Streams : \A l, f : Takes(s, n, l, f)' <=> Takes(s, n, l, f)
  BY DEF Takes, Small, IsKVSource, IsIndexSource
<1>2. ASSUME NEW o, o.n = n
      PROVE  Planned(o)' <=> Planned(o)
  <2>1. PlannedWork(o)' <=> PlannedWork(o)
    BY <1>2 DEF PlannedWork, Small, Scoring, IsKVSource, IsIndexSource, ShortContext,
                CompressRatio
  <2>2. PlannedSync(o)' <=> PlannedSync(o)
    BY <1>2 DEF PlannedSync, Takes, Small, IsKVSource, IsIndexSource
  <2>. QED
    BY <2>1, <2>2 DEF Planned
<1>. QED
  BY <1>1, <1>2

\* The deployment never changes.
LEMMA SetupStays ==
  ASSUME setup' = setup
  PROVE  /\ \A x : /\ CompressRatio(x)' = CompressRatio(x) /\ KVSource(x)' = KVSource(x)
                   /\ IndexSource(x)' = IndexSource(x) /\ (IsKVSource(x)' <=> IsKVSource(x))
                   /\ (IsIndexSource(x)' <=> IsIndexSource(x))
                   /\ (UsesCandidates(x)' <=> UsesCandidates(x))
         /\ \A x, b : ShortContext(x, b)' <=> ShortContext(x, b)
         /\ \A x, l : IsSourceOf(x, l)' <=> IsSourceOf(x, l)
         /\ Layers' = Layers
<1>1. \A x : /\ CompressRatio(x)' = CompressRatio(x) /\ KVSource(x)' = KVSource(x)
             /\ IndexSource(x)' = IndexSource(x) /\ (IsKVSource(x)' <=> IsKVSource(x))
             /\ (IsIndexSource(x)' <=> IsIndexSource(x))
             /\ (UsesCandidates(x)' <=> UsesCandidates(x))
  BY DEF CompressRatio, KVSource, IndexSource, IsKVSource, IsIndexSource, UsesCandidates
<1>2. \A x, b : ShortContext(x, b)' <=> ShortContext(x, b)
  BY DEF ShortContext, CompressRatio
<1>3. \A x, l : IsSourceOf(x, l)' <=> IsSourceOf(x, l)
  BY DEF IsSourceOf
<1>. QED
  BY <1>1, <1>2, <1>3 DEF Layers

\* A good row stays good while its batch stays.
LEMMA GoodStays ==
  ASSUME setup' = setup, NEW n, batches'[n] = batches[n]
  PROVE  \A row, x, t : GoodRow(row, n, x, t)' <=> GoodRow(row, n, x, t)
  BY DEF GoodRow, Everything, ShortContext, CompressRatio, KVSource, UsesCandidates

\* Selections stay while buffers and what is to come stay.
LEMMA SelectionStays ==
  ASSUME setup' = setup, topk' = topk, cand' = cand, NEW n, batches'[n] = batches[n],
         NEW x, \A op, i : PendingAt(op, n, x, i)' <=> PendingAt(op, n, x, i)
  PROVE  /\ RowsOf(n, x)' <=> RowsOf(n, x)
         /\ CandsOf(n, x)' <=> CandsOf(n, x)
<1>1. /\ \A row, t : GoodRow(row, n, x, t)' <=> GoodRow(row, n, x, t)
      /\ \A b : ShortContext(x, b)' <=> ShortContext(x, b)
  BY GoodStays, SetupStays
<1>2. CandsOf(n, x)' <=> CandsOf(n, x)
  BY DEF CandsOf
<1>3. RowsOf(n, x)' <=> RowsOf(n, x)
  BY <1>1 DEF RowsOf
<1>. QED
  BY <1>2, <1>3

\* Nothing is promised of a source whose operations are all to come.
LEMMA SelectionFresh ==
  ASSUME setup' = setup, NEW n, batches'[n] = batches[n], batches[n] \in Batches,
         NEW x, \A op, i : Selecting(op, n, x, i) => PendingAt(op, n, x, i)'
  PROVE  RowsOf(n, x)' /\ (~ShortContext(x, batches[n]) => CandsOf(n, x)')
<1> DEFINE b == batches[n]
<1>1. /\ ShortContext(x, b) => PendingAt("fill", n, x, 0)'
      /\ ~ShortContext(x, b) =>
         /\ \A i \in DOMAIN b.chunks : PendingAt("chunk", n, x, i)'
         /\ b.decodes # << >> => PendingAt("decode", n, x, 0)'
         /\ RequiresPadding(b) => PendingAt("unpack", n, x, 0)'
  BY DEF Selecting
<1>2. b.decodes = << >> => DecodeTokens(b) = 0 /\ ~RequiresPadding(b)
  BY BatchNumbers
<1>3. 1..0 = {}
  OBVIOUS
<1>4. ShortContext(x, b)' <=> ShortContext(x, b)
  BY SetupStays
<1>5. b' = b
  OBVIOUS
<1>6. Slots(b) = DecodeTokens(b) \/ RequiresPadding(b)
  BY SlotsAlike
<1> HIDE DEF b
<1>7. /\ ShortContext(x, b)' => PendingAt("fill", n, x, 0)'
      /\ ~ShortContext(x, b)' =>
         /\ \A i \in DOMAIN b.chunks : PendingAt("chunk", n, x, i)'
         /\ ~RequiresPadding(b) /\ ~PendingAt("decode", n, x, 0)' => 1..DecodeTokens(b) = {}
         /\ RequiresPadding(b) => PendingAt("decode", n, x, 0)' /\ PendingAt("unpack", n, x, 0)'
         /\ ~PendingAt("decode", n, x, 0)' => 1..Slots(b) = {}
  BY <1>1, <1>2, <1>3, <1>4, <1>6
<1>8. RowsOf(n, x)'
  BY <1>5, <1>7 DEF RowsOf, b
<1>9. ~ShortContext(x, b) => CandsOf(n, x)'
  BY <1>4, <1>5, <1>7 DEF CandsOf, b
<1>. QED
  BY <1>8, <1>9 DEF b

\* Ordered sequences follow each other.
LEMMA SortedNext ==
  ASSUME NEW a \in Seq(Op), NEW b \in Seq(Op), Sorted(a), Sorted(b),
         \A x \in Elements(a), y \in Elements(b) : Before(x, y)
  PROVE  a \o b \in Seq(Op) /\ Sorted(a \o b) /\ Elements(a \o b) = Elements(a) \cup Elements(b)
<1> DEFINE q == a \o b
<1>1. /\ Len(a) \in Nat /\ Len(b) \in Nat
      /\ DOMAIN a = 1..Len(a) /\ DOMAIN b = 1..Len(b)
  OBVIOUS
<1>2. /\ q \in Seq(Op) /\ DOMAIN q = 1..(Len(a) + Len(b))
      /\ \A i \in 1..(Len(a) + Len(b)) :
           q[i] = IF i <= Len(a) THEN a[i] ELSE b[i - Len(a)]
  BY <1>1
<1>3. \A i \in 1..(Len(a) + Len(b)) :
        /\ i <= Len(a) => i \in DOMAIN a /\ q[i] = a[i]
        /\ ~(i <= Len(a)) => i - Len(a) \in DOMAIN b /\ q[i] = b[i - Len(a)]
  BY <1>1, <1>2
<1>4. \A i \in DOMAIN a : i \in DOMAIN q /\ q[i] = a[i]
  BY <1>1, <1>2
<1>5. \A i \in DOMAIN b : i + Len(a) \in DOMAIN q /\ q[i + Len(a)] = b[i]
  <2>. TAKE i \in DOMAIN b
  <2>1. i + Len(a) \in 1..(Len(a) + Len(b)) /\ ~(i + Len(a) <= Len(a)) /\ (i + Len(a)) - Len(a) = i
    BY <1>1
  <2>. QED
    BY <1>2, <2>1
<1> HIDE DEF q
<1>6. Elements(q) = Elements(a) \cup Elements(b)
  <2>2. ASSUME NEW o \in Elements(q) PROVE o \in Elements(a) \cup Elements(b)
    BY <1>2, <1>3, <2>2 DEF Elements
  <2>3. ASSUME NEW o \in Elements(a) \cup Elements(b) PROVE o \in Elements(q)
    BY <1>4, <1>5, <2>3 DEF Elements
  <2>. QED
    BY <2>2, <2>3
<1>7. Sorted(q)
  <2>. SUFFICES ASSUME NEW i \in DOMAIN q, NEW j \in DOMAIN q, i < j PROVE Before(q[i], q[j])
    BY DEF Sorted
  <2>1. CASE j <= Len(a)
    <3>1. i \in DOMAIN a /\ j \in DOMAIN a /\ q[i] = a[i] /\ q[j] = a[j]
      BY <1>1, <1>2, <1>3, <2>1
    <3>. QED
      BY <3>1 DEF Sorted
  <2>2. CASE ~(i <= Len(a))
    <3>1. i - Len(a) \in DOMAIN b /\ j - Len(a) \in DOMAIN b /\ i - Len(a) < j - Len(a)
          /\ q[i] = b[i - Len(a)] /\ q[j] = b[j - Len(a)]
      BY <1>1, <1>2, <1>3, <2>2
    <3>. QED
      BY <3>1 DEF Sorted
  <2>3. CASE i <= Len(a) /\ ~(j <= Len(a))
    <3>1. q[i] \in Elements(a) /\ q[j] \in Elements(b)
      BY <1>2, <1>3, <2>3 DEF Elements
    <3>. QED
      BY <3>1
  <2>. QED
    BY <1>1, <1>2, <2>1, <2>2, <2>3
<1>. QED
  BY <1>2, <1>6, <1>7 DEF q

-----------------------------------------------------------------------------
(* A layer is enqueued *)

Added == Elements(Resolved(Program(layer)))

\* Enqueueing adds the layer's operations at the streams' ends.
LEMMA AddedIs ==
  ASSUME Types, StreamInv, EnqueueLayer
  PROVE  /\ layer \in Layers /\ Step \in 1..Step /\ Step \in Nat /\ layer \in Nat
         /\ setup' = setup /\ batches' = batches /\ layer' = layer + 1 /\ fired' = fired
         /\ act' = act /\ UNCHANGED shared /\ out' = out /\ Layers' = Layers /\ Step' = Step
         /\ Exact(Program(layer), Step, layer, 21, 84)
         /\ queue' \in [Streams -> Seq(Op)]
         /\ \A s \in Streams :
              /\ queue'[s] = queue[s] \o OnStream(Resolved(Program(layer)), s)
              /\ OnStream(Resolved(Program(layer)), s) \in Seq(Op)
              /\ Sorted(queue'[s])
              /\ Pend(s)' = Pend(s) \cup {o \in Added : o.on = s}
              /\ \A o \in Pend(s) : o \in Op /\ LayerBefore(o.n, o.l, Step, layer)
         /\ \A o \in Added : o \in Op /\ o.n = Step /\ o.l = layer /\ Planned(o)
         /\ \A y \in Op : Planned(y) /\ y.n = Step /\ y.l = layer =>
              \E z \in Added : Same(y, z) /\ z.on = y.on
<1>1. /\ layer \in Layers
      /\ setup' = setup /\ batches' = batches /\ layer' = layer + 1 /\ fired' = fired
      /\ act' = act /\ UNCHANGED shared /\ out' = out
      /\ \A s \in Streams : queue'[s] = queue[s] \o OnStream(Resolved(Program(layer)), s)
      /\ queue' = [s \in Streams |-> queue[s] \o OnStream(Resolved(Program(layer)), s)]
  BY DEF EnqueueLayer, Fill
<1>2. Step \in 1..Step /\ Step \in Nat /\ layer \in Nat
  <2>1. Step \in Nat /\ layer \in Nat /\ layer # Len(setup.ratio) + 1
    BY <1>1, SetupTypes DEF Types
  <2>2. batches # << >> /\ batches \in Seq(Batches)
    BY <2>1 DEF Types
  <2>3. Len(batches) # 0
    BY <2>2
  <2>. QED
    BY <2>1, <2>3 DEF Step
<1>3. Exact(Program(layer), Step, layer, 21, 84)
  BY <1>1, <1>2, ProgramExact
<1> DEFINE r == Resolved(Program(layer))
<1>4. /\ r \in Seq(Op) /\ Sorted(r)
      /\ \A o \in Added : o \in Op /\ o.n = Step /\ o.l = layer /\ Planned(o)
      /\ \A y \in Op : Planned(y) /\ y.n = Step /\ y.l = layer =>
              \E z \in Added : Same(y, z) /\ z.on = y.on
  BY <1>1, <1>3, ResolvedSorted DEF Added
<1>5. \A s \in Streams : /\ OnStream(r, s) \in Seq(Op) /\ Sorted(OnStream(r, s))
                         /\ Elements(OnStream(r, s)) = {o \in Added : o.on = s}
  BY <1>4, OnStreamIs DEF Added
<1>6. \A s \in Streams : /\ queue[s] \in Seq(Op) /\ Sorted(queue[s])
                         /\ Elements(queue[s]) = Pend(s)
  BY DEF Types, StreamInv, Ordered, Sorted, Elements, Pend
<1>7. ASSUME NEW s \in Streams, NEW o \in Pend(s)
      PROVE  o \in Op /\ LayerBefore(o.n, o.l, Step, layer)
  <2>1. o \in Op /\ Enqueued(o.n, o.l)
    BY <1>7, PendingFrom DEF StreamInv, OnPlan
  <2>. QED
    BY <1>2, <2>1 DEF Enqueued, LayerBefore, Op
<1>8. ASSUME NEW s \in Streams
      PROVE  /\ queue[s] \o OnStream(r, s) \in Seq(Op) /\ Sorted(queue[s] \o OnStream(r, s))
             /\ Elements(queue[s] \o OnStream(r, s)) = Pend(s) \cup {o \in Added : o.on = s}
  <2>1. \A x \in Elements(queue[s]), y \in Elements(OnStream(r, s)) : Before(x, y)
    <3>. SUFFICES ASSUME NEW x \in Pend(s), NEW y \in Added PROVE Before(x, y)
      BY <1>5, <1>6
    <3>. QED
      BY <1>4, <1>7 DEF Before
  <2>. QED
    BY <1>5, <1>6, <2>1, SortedNext
<1>9. /\ \A s \in Streams : Sorted(queue'[s]) /\ Elements(queue'[s]) = Pend(s)'
      /\ queue' \in [Streams -> Seq(Op)]
  <2>1. \A s \in Streams : Elements(queue'[s]) = Pend(s)'
    BY DEF Elements, Pend
  <2>2. queue' \in [Streams -> Seq(Op)]
    BY <1>1, <1>8
  <2>. QED
    BY <1>1, <1>8, <2>1, <2>2
<1>10. Layers' = Layers /\ Step' = Step
  BY <1>1 DEF Layers, Step
<1>. QED
  BY <1>1, <1>2, <1>3, <1>4, <1>5, <1>7, <1>8, <1>9, <1>10

\* All that is planned for the layer is added.
LEMMA AddedPending ==
  ASSUME Types, StreamInv, EnqueueLayer, NEW y \in Op, Planned(y), y.n = Step, y.l = layer
  PROVE  \E z \in Pend(y.on)' : Same(y, z) /\ z \in Added /\ z.on = y.on
<1>1. PICK z \in Added : Same(y, z) /\ z.on = y.on
  BY AddedIs
<1>2. y.on \in Streams
  BY DEF Op
<1>. QED
  BY <1>1, <1>2, AddedIs

\* One more layer is enqueued.
LEMMA EnqueuedNext ==
  ASSUME Types, StreamInv, EnqueueLayer
  PROVE  \A n, l : Enqueued(n, l)' <=> Enqueued(n, l) \/ (n = Step /\ l = layer)
<1>1. /\ layer \in Layers /\ Step \in 1..Step /\ Step \in Nat /\ layer \in Nat
      /\ layer' = layer + 1 /\ Layers' = Layers /\ Step' = Step /\ Layers \subseteq Nat
  BY AddedIs, SetupTypes
<1>2. ASSUME NEW n, NEW l
      PROVE  Enqueued(n, l)' <=> Enqueued(n, l) \/ (n = Step /\ l = layer)
  <2>1. Enqueued(n, l)' <=> n \in 1..Step /\ l \in Layers /\ (n < Step \/ l < layer + 1)
    BY <1>1 DEF Enqueued
  <2>2. n \in 1..Step /\ l \in Layers => n \in Nat /\ l \in Nat /\ n <= Step
    BY <1>1
  <2>. QED
    BY <1>1, <2>1, <2>2 DEF Enqueued
<1>. QED
  BY <1>2

\* The streams stay the rest of the plan, one layer longer.
LEMMA EnqueueKeepsOrder ==
  ASSUME Types, StreamInv, EnqueueLayer
  PROVE  Ordered' /\ OnPlan' /\ Complete'
<1>1. /\ layer \in Layers /\ Step \in Nat /\ layer \in Nat /\ Step \in 1..Step
      /\ setup' = setup /\ batches' = batches
      /\ \A s \in Streams :
              /\ Sorted(queue'[s])
              /\ Pend(s)' = Pend(s) \cup {o \in Added : o.on = s}
              /\ \A o \in Pend(s) : o \in Op /\ LayerBefore(o.n, o.l, Step, layer)
      /\ \A o \in Added : o \in Op /\ o.n = Step /\ o.l = layer /\ Planned(o)
  BY AddedIs
<1>2. \A o : Planned(o)' <=> Planned(o)
  BY <1>1, PlanStays
<1>3. Ordered'
  BY <1>1 DEF Ordered, Sorted, Before, LayerBefore, Place
<1>4. OnPlan'
  <2>. SUFFICES ASSUME NEW s \in Streams, NEW o \in Pend(s)'
                PROVE  o.on = s /\ Planned(o) /\ Enqueued(o.n, o.l)'
    BY <1>2 DEF OnPlan
  <2>1. CASE o \in Pend(s)
    BY <2>1, EnqueuedNext DEF StreamInv, OnPlan
  <2>2. CASE o \in Added /\ o.on = s
    BY <1>1, <2>2, EnqueuedNext
  <2>. QED
    BY <1>1, <2>1, <2>2
<1>5. Complete'
  <2>. SUFFICES ASSUME NEW s \in Streams, NEW x \in Pend(s)', NEW y \in Op,
                       y.on = s, Planned(y), Enqueued(y.n, y.l)', Before(x, y)
                PROVE  \E z \in Pend(s)' : Same(y, z)
    BY <1>2 DEF Complete, Before, LayerBefore, Place, Same
  <2>1. CASE Enqueued(y.n, y.l)
    <3>1. x \in Pend(s)
      <4>1. LayerBefore(y.n, y.l, Step, layer) /\ y.n \in Nat /\ y.l \in Nat
        BY <1>1, <2>1 DEF Enqueued, LayerBefore, Op
      <4>2. ASSUME x \in Added PROVE FALSE
        <5>1. x.n = Step /\ x.l = layer
          BY <1>1, <4>2
        <5>. QED
          BY <1>1, <4>1, <5>1 DEF Before, LayerBefore
      <4>. QED
        BY <1>1, <4>2
    <3>. QED
      BY <1>1, <2>1, <3>1 DEF StreamInv, Complete
  <2>2. CASE y.n = Step /\ y.l = layer
    BY <2>2, AddedPending
  <2>. QED
    BY <2>1, <2>2, EnqueuedNext
<1>. QED
  BY <1>3, <1>4, <1>5

\* A layer is enqueued with its forks and joins together.
LEMMA EnqueueKeepsForks ==
  ASSUME Types, StreamInv, EnqueueLayer
  PROVE  Forked' /\ Joined'
<1>1. /\ layer \in Layers /\ Step \in Nat /\ layer \in Nat /\ Step \in 1..Step
      /\ setup' = setup /\ batches' = batches
      /\ \A s \in Streams : Pend(s)' = Pend(s) \cup {o \in Added : o.on = s}
      /\ \A o \in Added : o \in Op /\ o.n = Step /\ o.l = layer /\ Planned(o)
      /\ "main" \in Streams /\ \A s \in Aux : s \in Streams /\ s # "main"
  BY AddedIs DEF Streams, Aux
<1>2. \A s \in Streams : \A n, l, f : Takes(s, n, l, f)' <=> Takes(s, n, l, f)
  BY <1>1, PlanStays
<1>3. Forked'
  <2>. SUFFICES ASSUME NEW r \in Pend("main")', r.op = "record", NEW s \in Aux,
                       Takes(s, r.n, r.l, r.fork)
                PROVE  \E w \in Pend(s)' : w.op = "wait" /\ w.n = r.n /\ w.l = r.l
                                           /\ w.fork = r.fork
    BY <1>1, <1>2 DEF Forked
  <2>1. CASE r \in Pend("main")
    BY <1>1, <2>1 DEF StreamInv, Forked
  <2>2. CASE r \in Added
    <3>1. r \in Op /\ r.n = Step /\ r.l = layer /\ r.fork \in 1..3
      BY <1>1, <2>2, PlannedInRange
    <3> DEFINE w == [on |-> s, op |-> "wait", n |-> Step, l |-> layer, i |-> 0,
                     fork |-> r.fork, at |-> 0]
    <3>2. /\ w \in Op /\ Planned(w)
          /\ w.on = s /\ w.op = "wait" /\ w.n = Step /\ w.l = layer /\ w.fork = r.fork
      BY <1>1, <3>1 DEF Op, OpNames, Planned, PlannedSync
    <3> HIDE DEF w
    <3>. QED
      BY <3>1, <3>2, AddedPending DEF Same
  <2>. QED
    BY <1>1, <2>1, <2>2
<1>4. Joined'
  <2>. SUFFICES ASSUME NEW s \in Aux, NEW r \in Pend(s)', r.op = "record"
                PROVE  \E w \in Pend("main")' :
                         /\ w.op = "wait" /\ w.n = r.n /\ w.l = r.l
                         /\ w.fork = r.fork /\ w.i = r.i
    BY DEF Joined
  <2>1. CASE r \in Pend(s)
    BY <1>1, <2>1 DEF StreamInv, Joined
  <2>2. CASE r \in Added /\ r.on = s
    <3>1. /\ r \in Op /\ r.n = Step /\ r.l = layer /\ r.fork \in 1..3
          /\ r.i = EventOf(s) /\ r.i \in Nat
          /\ Takes(s, r.n, r.l, r.fork)
      BY <1>1, <2>2 DEF Planned, PlannedSync, PlannedWork, Op
    <3> DEFINE w == [on |-> "main", op |-> "wait", n |-> Step, l |-> layer, i |-> r.i,
                     fork |-> r.fork, at |-> 0]
    <3>2. /\ w \in Op /\ Planned(w) /\ w.i = r.i
          /\ w.on = "main" /\ w.op = "wait" /\ w.n = Step /\ w.l = layer /\ w.fork = r.fork
      BY <1>1, <3>1 DEF Op, OpNames, Planned, PlannedSync
    <3> HIDE DEF w
    <3>. QED
      BY <3>1, <3>2, AddedPending DEF Same
  <2>. QED
    BY <1>1, <2>1, <2>2
<1>. QED
  BY <1>3, <1>4

\* Its records count on from those of the step before.
LEMMA EnqueueKeepsCounts ==
  ASSUME Types, StreamInv, EnqueueLayer
  PROVE  Counted' /\ Matched' /\ recorded' \in [Layers -> [Events -> Nat]]
<1> DEFINE q == Program(layer)
<1>1. /\ layer \in Layers /\ Step \in Nat /\ layer \in Nat
      /\ setup' = setup /\ batches' = batches /\ fired' = fired /\ Layers' = Layers
      /\ \A s \in Streams :
              /\ Pend(s)' = Pend(s) \cup {o \in Added : o.on = s}
              /\ \A o \in Pend(s) : o \in Op /\ LayerBefore(o.n, o.l, Step, layer)
      /\ \A o \in Added : o \in Op /\ o.n = Step /\ o.l = layer /\ Planned(o)
      /\ Exact(q, Step, layer, 21, 84)
  BY AddedIs
<1>2. /\ \A e \in Events : Records(q, e) \in Nat
      /\ \A r \in Added : r.op = "record" =>
              /\ recorded[layer][r.i] < r.at
              /\ r.at <= recorded[layer][r.i] + Records(q, r.i)
      /\ \A x, y \in Added :
              x.op = "record" /\ y.op = "record" /\ x.i = y.i /\ Before(x, y) => x.at < y.at
      /\ \A r, w \in Added :
              r.op = "record" /\ w.op = "wait" /\ r.fork = w.fork /\ r.i = w.i => r.at = w.at
  BY <1>1, ResolvedCounts DEF Added
<1>3. \A l \in Layers, e \in Events : recorded[l][e] \in Nat /\ fired[l][e] \in Nat
  BY DEF Types
<1>4. /\ recorded' = [recorded EXCEPT ![layer] = [e \in Events |-> @[e] + Records(q, e)]]
  BY DEF EnqueueLayer
<1> HIDE DEF q
<1>5. /\ \A e \in Events : recorded'[layer][e] = recorded[layer][e] + Records(q, e)
      /\ \A l \in Layers : l # layer => recorded'[l] = recorded[l]
      /\ recorded' \in [Layers -> [Events -> Nat]]
  <2>1. recorded'[layer] = [e \in Events |-> recorded[layer][e] + Records(q, e)]
    BY <1>1, <1>4 DEF Types
  <2>2. recorded'[layer] \in [Events -> Nat]
    BY <1>1, <1>2, <1>3, <2>1
  <2>3. \A l \in Layers : l # layer => recorded'[l] = recorded[l]
    BY <1>4 DEF Types
  <2>4. recorded' \in [Layers -> [Events -> Nat]]
    <3>1. DOMAIN recorded' = Layers /\ recorded' = [l \in Layers |-> recorded'[l]]
      BY <1>4 DEF Types
    <3>2. \A l \in Layers : recorded'[l] \in [Events -> Nat]
      BY <2>2, <2>3 DEF Types
    <3>. QED
      BY <3>1, <3>2
  <2>. QED
    BY <2>1, <2>3, <2>4
<1>6. \A l \in Layers, e \in Events : recorded[l][e] <= recorded'[l][e]
                                      /\ recorded'[l][e] \in Nat
  <2>. TAKE l \in Layers, e \in Events
  <2>1. CASE l = layer
    BY <1>2, <1>3, <1>5, <2>1
  <2>2. CASE l # layer
    BY <1>3, <1>5, <2>2
  <2>. QED
    BY <2>1, <2>2
<1>7. \A s \in Streams : \A r \in Pend(s)' : r \in Op /\ (r.op = "record" => r.i \in Events)
                                            /\ r.l \in Layers /\ r.n \in Nat /\ r.at \in Nat
  <2>. SUFFICES ASSUME NEW s \in Streams, NEW r \in Pend(s)'
                PROVE  r \in Op /\ (r.op = "record" => r.i \in Events) /\ r.l \in Layers
    BY DEF Op
  <2>1. r \in Op /\ Planned(r) /\ r.l \in Layers
    <3>1. CASE r \in Pend(s)
      BY <1>1, <3>1 DEF StreamInv, OnPlan, Enqueued
    <3>2. CASE r \in Added
      BY <1>1, <3>2
    <3>. QED
      BY <1>1, <3>1, <3>2
  <2>. QED
    BY <2>1, PlannedInRange
<1>8. Counted'
  <2>1. \A l \in Layers : \A e \in Events : fired[l][e] <= recorded'[l][e]
    BY <1>3, <1>6 DEF StreamInv, Counted
  <2>2. ASSUME NEW s \in Streams, NEW r \in Pend(s)', r.op = "record"
        PROVE  fired[r.l][r.i] < r.at /\ r.at <= recorded'[r.l][r.i]
    <3>1. CASE r \in Pend(s)
      <4>1. fired[r.l][r.i] < r.at /\ r.at <= recorded[r.l][r.i]
        BY <2>2, <3>1 DEF StreamInv, Counted
      <4>2. recorded[r.l][r.i] <= recorded'[r.l][r.i] /\ recorded[r.l][r.i] \in Nat
            /\ recorded'[r.l][r.i] \in Nat /\ r.at \in Nat
        BY <1>3, <1>6, <1>7, <2>2
      <4>. QED
        BY <4>1, <4>2
    <3>2. CASE r \in Added
      <4>1. /\ recorded[layer][r.i] < r.at /\ r.at <= recorded[layer][r.i] + Records(q, r.i)
            /\ r.l = layer /\ r.i \in Events /\ r.at \in Nat
        BY <1>1, <1>2, <1>7, <2>2, <3>2
      <4>2. fired[layer][r.i] <= recorded[layer][r.i]
            /\ fired[layer][r.i] \in Nat /\ recorded[layer][r.i] \in Nat
            /\ recorded'[layer][r.i] = recorded[layer][r.i] + Records(q, r.i)
        BY <1>1, <1>3, <1>5, <4>1 DEF StreamInv, Counted
      <4>. QED
        BY <4>1, <4>2
    <3>. QED
      BY <1>1, <2>2, <3>1, <3>2
  <2>3. ASSUME NEW s \in Streams, NEW x \in Pend(s)', NEW y \in Pend(s)',
               x.op = "record", y.op = "record", x.l = y.l, x.i = y.i, Before(x, y)
        PROVE  x.at < y.at
    <3>1. CASE x \in Pend(s) /\ y \in Pend(s)
      BY <2>3, <3>1 DEF StreamInv, Counted
    <3>2. CASE x \in Added /\ y \in Added
      BY <1>2, <2>3, <3>2
    <3>3. CASE x \in Pend(s) /\ y \in Added
      <4>1. x.at <= recorded[x.l][x.i]
        BY <2>3, <3>3 DEF StreamInv, Counted
      <4>2. recorded[layer][y.i] < y.at /\ y.l = layer
        BY <1>1, <1>2, <2>3, <3>3
      <4>3. recorded[layer][y.i] \in Nat /\ x.at \in Nat /\ y.at \in Nat
        BY <1>1, <1>3, <1>7, <2>3
      <4>. QED
        BY <2>3, <4>1, <4>2, <4>3
    <3>4. CASE x \in Added /\ y \in Pend(s)
      <4>1. x.n = Step /\ x.l = layer /\ LayerBefore(y.n, y.l, Step, layer)
        BY <1>1, <3>4
      <4>2. y.n \in Nat /\ y.l \in Nat
        BY <1>7 DEF Op
      <4>. QED
        BY <1>1, <2>3, <4>1, <4>2 DEF Before, LayerBefore
    <3>. QED
      BY <1>1, <2>3, <3>1, <3>2, <3>3, <3>4
  <2>4. \A x, y : Before(x, y)' <=> Before(x, y)
    BY DEF Before, LayerBefore, Place
  <2>. QED
    BY <1>1, <2>1, <2>2, <2>3, <2>4 DEF Counted
<1>9. Matched'
  <2>. SUFFICES ASSUME NEW s \in Streams, NEW t \in Streams, NEW r \in Pend(s)',
                       NEW w \in Pend(t)', r.op = "record", w.op = "wait",
                       r.n = w.n, r.l = w.l, r.fork = w.fork, r.i = w.i
                PROVE  r.at = w.at
    BY DEF Matched
  <2>1. CASE r \in Pend(s) /\ w \in Pend(t)
    BY <2>1 DEF StreamInv, Matched
  <2>2. CASE r \in Added /\ w \in Added
    BY <1>2, <2>2
  <2>3. CASE r \in Pend(s) /\ w \in Added
    <3>1. LayerBefore(r.n, r.l, Step, layer) /\ r.n = Step /\ r.l = layer
      BY <1>1, <2>3
    <3>. QED
      BY <1>1, <3>1 DEF LayerBefore
  <2>4. CASE r \in Added /\ w \in Pend(t)
    <3>1. LayerBefore(w.n, w.l, Step, layer) /\ w.n = Step /\ w.l = layer
      BY <1>1, <2>4
    <3>. QED
      BY <1>1, <3>1 DEF LayerBefore
  <2>. QED
    BY <1>1, <2>1, <2>2, <2>3, <2>4
<1>. QED
  BY <1>5, <1>8, <1>9

\* The main stream stays in its layer, the one enqueued if it had run dry.
LEMMA AtStays ==
  ASSUME Types, StreamInv, EnqueueLayer
  PROVE  AtN' = AtN /\ AtL' = AtL
<1>1. /\ "main" \in Streams /\ queue["main"] \in Seq(Op) /\ queue'["main"] \in Seq(Op)
      /\ queue'["main"] = queue["main"] \o OnStream(Resolved(Program(layer)), "main")
      /\ OnStream(Resolved(Program(layer)), "main") \in Seq(Op)
      /\ Pend("main")' = Pend("main") \cup {o \in Added : o.on = "main"}
      /\ \A o \in Added : o \in Op /\ o.n = Step /\ o.l = layer /\ Planned(o)
      /\ layer \in Layers /\ Step \in Nat /\ layer \in Nat
  BY AddedIs DEF Streams, Types
<1> DEFINE a == queue["main"]
           b == OnStream(Resolved(Program(layer)), "main")
<1>2. CASE a # << >>
  <2>1. a \o b # << >> /\ Head(a \o b) = Head(a)
    <3> HIDE DEF a, b
    <3>1. a \in Seq(Op) /\ b \in Seq(Op)
      BY <1>1 DEF a, b
    <3>. QED
      BY <1>2, <3>1
  <2>. QED
    BY <1>1, <1>2, <2>1 DEF AtN, AtL
<1>3. CASE a = << >>
  <2>1. Pend("main") = {}
    BY <1>3 DEF Pend
  <2>2. \E z \in Pend("main")' : TRUE
    <3>1. WriterPlanned("qkv", layer) /\ "qkv" \in OpNames /\ StreamOf("qkv", Step) = "main"
      BY DEF WriterPlanned, OpNames, StreamOf
    <3>2. Work("qkv", Step, layer, 0) \in Op /\ Planned(Work("qkv", Step, layer, 0))
          /\ Work("qkv", Step, layer, 0).on = "main"
          /\ Work("qkv", Step, layer, 0).n = Step /\ Work("qkv", Step, layer, 0).l = layer
      BY <1>1, <3>1, WorkPlanned
    <3>. QED
      BY <3>2, AddedPending
  <2>3. queue'["main"] # << >>
    BY <2>2 DEF Pend
  <2>4. Head(queue'["main"]) \in Pend("main")'
    <3>1. \A q \in Seq(Op) : q # << >> => 1 \in DOMAIN q /\ Head(q) = q[1]
      OBVIOUS
    <3>2. 1 \in DOMAIN queue'["main"] /\ Head(queue'["main"]) = queue'["main"][1]
      BY <1>1, <2>3, <3>1
    <3>. QED
      BY <3>2 DEF Pend
  <2>5. Head(queue'["main"]).n = Step /\ Head(queue'["main"]).l = layer
    BY <1>1, <2>1, <2>4
  <2>. QED
    BY <1>3, <2>3, <2>5 DEF AtN, AtL
<1>. QED
  BY <1>2, <1>3

\* Its readers wait for writers of its own.
LEMMA EnqueueKeepsActs ==
  ASSUME Types, StreamInv, ActInv, EnqueueLayer
  PROVE  ActInv'
<1>1. /\ layer \in Layers /\ Step \in Nat /\ layer \in Nat /\ act' = act
      /\ \A s \in Streams : Pend(s)' = Pend(s) \cup {o \in Added : o.on = s}
      /\ \A o \in Added : o \in Op /\ o.n = Step /\ o.l = layer /\ Planned(o)
  BY AddedIs
<1>2. \A op, n, l : Pending(op, n, l) => Pending(op, n, l)'
  BY <1>1 DEF Pending
<1>3. ASSUME NEW op \in OpNames, NEW n, NEW l, n = Step, l = layer, WriterPlanned(op, l)
      PROVE  Pending(op, n, l)'
  <2>1. PICK w : w = Work(op, n, l, 0)
    OBVIOUS
  <2>2. w \in Op /\ Planned(w) /\ w.op = op /\ w.n = Step /\ w.l = layer /\ w.on \in Streams
    BY <1>1, <1>3, <2>1, WorkPlanned DEF Op
  <2>3. PICK z \in Pend(w.on)' : Same(w, z)
    BY <2>2, AddedPending
  <2>. QED
    BY <1>3, <2>2, <2>3 DEF Pending, Same
<1>4. ASSUME NEW c \in Added
      PROVE  /\ c.op = "insert" => Pending("qkv", c.n, c.l)'
             /\ c.op = "compress" => Pending("kvScore", c.n, c.l)'
             /\ c.op \in {"insertCache", "produceK"} => Pending("compress", c.n, c.l)'
             /\ c.op = "indexQ" => Pending("weights", c.n, c.l)'
             /\ c.op \in {"chunk", "decode"} => Pending("indexQ", c.n, c.l)'
  <2>1. c \in Op /\ c.n = Step /\ c.l = layer /\ Planned(c)
    BY <1>1, <1>4
  <2>2. /\ c.op = "insert" => WriterPlanned("qkv", layer)
        /\ c.op = "compress" => WriterPlanned("kvScore", layer)
        /\ c.op \in {"insertCache", "produceK"} => WriterPlanned("compress", layer)
        /\ c.op = "indexQ" => WriterPlanned("weights", layer)
        /\ c.op \in {"chunk", "decode"} => Scoring(Step, layer)
    BY <2>1 DEF Planned, PlannedWork, PlannedSync, WriterPlanned, Scoring
  <2>3. Scoring(Step, layer) => Pending("indexQ", c.n, c.l)'
    <3>. SUFFICES ASSUME Scoring(Step, layer) PROVE Pending("indexQ", c.n, c.l)'
      OBVIOUS
    <3>1. PICK w : w = [on |-> "main", op |-> "indexQ", n |-> Step, l |-> layer, i |-> 0,
                        fork |-> 0, at |-> 0]
      OBVIOUS
    <3>2. w \in Op /\ Planned(w)
      BY <1>1, <3>1 DEF Op, OpNames, Streams, Planned, PlannedWork
    <3>3. w.op = "indexQ" /\ w.n = Step /\ w.l = layer /\ w.on \in Streams
      BY <3>1 DEF Streams
    <3>4. PICK z \in Pend(w.on)' : Same(w, z)
      BY <3>2, <3>3, AddedPending
    <3>. QED
      BY <2>1, <3>3, <3>4 DEF Pending, Same
  <2>4. ASSUME NEW op \in OpNames, WriterPlanned(op, layer)
        PROVE  Pending(op, c.n, c.l)'
    BY <1>3, <2>1, <2>4
  <2>5. {"qkv", "kvScore", "compress", "weights"} \subseteq OpNames
    BY DEF OpNames
  <2>. QED
    BY <2>2, <2>3, <2>4, <2>5
<1>5. ASSUME NEW readers, NEW writer, NEW cell, Fed(readers, writer, cell),
             \A c \in Added : c.op \in readers => Pending(writer, c.n, c.l)'
      PROVE  Fed(readers, writer, cell)'
  BY <1>1, <1>2, <1>5 DEF Fed
<1>6. Fed({"insert"}, "qkv", "qkv")'
  BY <1>4, <1>5 DEF ActInv
<1>7. Fed({"compress"}, "kvScore", "kvScore")'
  BY <1>4, <1>5 DEF ActInv
<1>8. Fed({"insertCache", "produceK"}, "compress", "latent")'
  BY <1>4, <1>5 DEF ActInv
<1>9. Fed({"indexQ"}, "weights", "weights")'
  BY <1>4, <1>5 DEF ActInv
<1>10. Fed({"chunk", "decode"}, "indexQ", "indexQ")'
  BY <1>4, <1>5 DEF ActInv
<1>. QED
  BY <1>6, <1>7, <1>8, <1>9, <1>10 DEF ActInv

\* So do those of its caches.
LEMMA EnqueueKeepsCaches ==
  ASSUME Types, StreamInv, CacheInv, EnqueueLayer
  PROVE  CacheInv'
<1>1. /\ layer \in Layers /\ Step \in Nat /\ layer \in Nat /\ Layers' = Layers
      /\ swa' = swa /\ comp' = comp /\ indexK' = indexK /\ setup' = setup
      /\ \A s \in Streams : Pend(s)' = Pend(s) \cup {o \in Added : o.on = s}
      /\ AtN' = AtN
  BY AddedIs, AtStays DEF shared
<1>2. \A op, n, l : Pending(op, n, l) => Pending(op, n, l)'
  BY <1>1 DEF Pending
<1>3. ASSUME NEW op \in OpNames, NEW n, NEW l, n = Step, l = layer, WriterPlanned(op, l)
      PROVE  Pending(op, n, l)'
  <2>1. PICK w : w = Work(op, n, l, 0)
    OBVIOUS
  <2>2. w \in Op /\ Planned(w) /\ w.op = op /\ w.n = Step /\ w.l = layer /\ w.on \in Streams
    BY <1>1, <1>3, <2>1, WorkPlanned DEF Op
  <2>3. PICK z \in Pend(w.on)' : Same(w, z)
    BY <2>2, AddedPending
  <2>. QED
    BY <1>3, <2>2, <2>3 DEF Pending, Same
<1>4. ASSUME NEW l \in Layers, NEW old, NEW new, NEW writer \in OpNames, old = new,
             WriterPlanned(writer, l),
             Enqueued(AtN, l) /\ ~Pending(writer, AtN, l) => old = <<AtN, l>>
      PROVE  Enqueued(AtN, l)' /\ ~Pending(writer, AtN, l)' => new = <<AtN', l>>
  <2>1. CASE Enqueued(AtN, l)
    BY <1>1, <1>2, <1>4, <2>1
  <2>2. CASE AtN = Step /\ l = layer
    <3>1. PICK n : n = AtN
      OBVIOUS
    <3>2. Pending(writer, n, l)' /\ n = AtN'
      BY <1>1, <1>3, <1>4, <2>2, <3>1
    <3>. QED
      BY <3>2
  <2>3. Enqueued(AtN, l)' => Enqueued(AtN, l) \/ (AtN = Step /\ l = layer)
    BY <1>1, EnqueuedNext
  <2>. QED
    BY <2>1, <2>2, <2>3
<1>5. ASSUME NEW l \in Layers
      PROVE  /\ Written(swa, "insert", l)'
             /\ IsKVSource(l) => Written(indexK, "produceK", l)' /\ Written(comp, "insertCache", l)'
  <2>1. IsKVSource(l) => IsIndexSource(l)
    BY SetupTypes, TopologyAssumption DEF IsKVSource, IsIndexSource
  <2>2. /\ WriterPlanned("insert", l)
        /\ IsKVSource(l) => WriterPlanned("produceK", l) /\ WriterPlanned("insertCache", l)
        /\ {"insert", "produceK", "insertCache"} \subseteq OpNames
    BY <2>1 DEF WriterPlanned, OpNames
  <2>3. /\ Written(swa, "insert", l)
        /\ IsKVSource(l) => Written(indexK, "produceK", l) /\ Written(comp, "insertCache", l)
    BY DEF CacheInv
  <2>4. Written(swa, "insert", l)'
    BY <1>1, <1>4, <2>2, <2>3 DEF Written
  <2>5. IsKVSource(l) => Written(indexK, "produceK", l)'
    BY <1>1, <1>4, <2>2, <2>3 DEF Written
  <2>6. IsKVSource(l) => Written(comp, "insertCache", l)'
    BY <1>1, <1>4, <2>2, <2>3 DEF Written
  <2>. QED
    BY <2>4, <2>5, <2>6
<1>6. \A l : IsKVSource(l)' <=> IsKVSource(l)
  BY <1>1 DEF IsKVSource
<1>. QED
  BY <1>1, <1>5, <1>6 DEF CacheInv

\* What is to come of other layers does not change.
LEMMA EnqueuePending ==
  ASSUME Types, StreamInv, EnqueueLayer
  PROVE  /\ \A op, n, l, i : PendingAt(op, n, l, i) => PendingAt(op, n, l, i)'
         /\ \A op, n, l, i : ~(n = Step /\ l = layer)
              => (PendingAt(op, n, l, i)' <=> PendingAt(op, n, l, i))
         /\ \A op, n, l, i : n = Step /\ l = layer /\ IsIndexSource(l) /\ Selecting(op, n, l, i)
              => PendingAt(op, n, l, i)'
<1>1. /\ layer \in Layers /\ Step \in Nat /\ layer \in Nat /\ "main" \in Streams
      /\ \A s \in Streams : Pend(s)' = Pend(s) \cup {o \in Added : o.on = s}
      /\ \A o \in Added : o \in Op /\ o.n = Step /\ o.l = layer /\ Planned(o)
      /\ Step \in 1..Step
  BY AddedIs DEF Streams
<1>2. /\ \A op, n, l, i : PendingAt(op, n, l, i) => PendingAt(op, n, l, i)'
      /\ \A op, n, l, i : ~(n = Step /\ l = layer)
              => (PendingAt(op, n, l, i)' <=> PendingAt(op, n, l, i))
  BY <1>1 DEF PendingAt
<1>3. ASSUME NEW op, NEW i, NEW n, NEW l, n = Step, l = layer,
             IsIndexSource(l), Selecting(op, n, l, i)
      PROVE  PendingAt(op, n, l, i)'
  <2>0. PICK w : w = [on |-> "main", op |-> op, n |-> n, l |-> l, i |-> i,
                      fork |-> 0, at |-> 0]
    OBVIOUS
  <2>1. i \in Nat /\ op \in OpNames
    <3>1. batches[n] \in Batches
      BY <1>1, <1>3 DEF Types, Step
    <3>2. batches[n].chunks \in Seq(Chunk)
      BY <3>1, BatchNumbers
    <3>3. DOMAIN batches[n].chunks \subseteq Nat
      BY <3>2
    <3>. QED
      BY <1>3, <3>3 DEF Selecting, OpNames
  <2>2. /\ w \in Op /\ w.on = "main" /\ w.op = op /\ w.n = n /\ w.l = l /\ w.i = i
        /\ w.fork = 0
    BY <1>1, <1>3, <2>0, <2>1 DEF Op
  <2>3. Planned(w)
    BY <1>3, <2>2 DEF Planned, PlannedWork, Selecting, Scoring
  <2>4. PICK z \in Pend(w.on)' : Same(w, z)
    BY <1>3, <2>2, <2>3, AddedPending
  <2>. QED
    BY <2>2, <2>4 DEF PendingAt, Same
<1>. QED
  BY <1>2, <1>3

\* Selections in use are of layers enqueued before.
LEMMA EnqueueKeepsSelections ==
  ASSUME Types, StreamInv, GatherInv, RowsInv, CandInv, EnqueueLayer
  PROVE  GatherInv' /\ RowsInv' /\ CandInv'
<1>1. /\ layer \in Layers /\ Step \in Nat /\ layer \in Nat /\ Step \in 1..Step
      /\ setup' = setup /\ batches' = batches /\ Layers' = Layers /\ Step' = Step
      /\ topk' = topk /\ cand' = cand /\ ws' = ws /\ "main" \in Streams
      /\ \A s \in Streams : Pend(s)' = Pend(s) \cup {o \in Added : o.on = s}
      /\ \A o \in Added : o \in Op /\ o.n = Step /\ o.l = layer /\ Planned(o)
      /\ AtN' = AtN /\ AtL' = AtL
  BY AddedIs, AtStays DEF shared, Streams
<1>2. /\ \A x : CompressRatio(x)' = CompressRatio(x) /\ KVSource(x)' = KVSource(x)
      /\ \A x, b : ShortContext(x, b)' <=> ShortContext(x, b)
      /\ \A x, l : IsSourceOf(x, l)' <=> IsSourceOf(x, l)
  BY <1>1, SetupStays
<1>3. /\ \A op, n, l, i : PendingAt(op, n, l, i) => PendingAt(op, n, l, i)'
      /\ \A op, n, l, i : ~(n = Step /\ l = layer)
              => (PendingAt(op, n, l, i)' <=> PendingAt(op, n, l, i))
      /\ \A op, n, l, i : n = Step /\ l = layer /\ IsIndexSource(l) /\ Selecting(op, n, l, i)
              => PendingAt(op, n, l, i)'
  BY EnqueuePending
<1>4. batches[Step] \in Batches
  BY <1>1 DEF Types, Step
<1>5. \A n, x : Enqueued(n, x)' => Enqueued(n, x) \/ (n = Step /\ x = layer)
  BY EnqueuedNext
<1>6. ~Enqueued(Step, layer)
  BY <1>1 DEF Enqueued
<1>7. GatherInv'
  <2>. SUFFICES ASSUME NEW c \in Pend("main")', c.op = "chunk", c.i > 1,
                       ~PendingAt("chunk", c.n, c.l, c.i - 1)', CompressRatio(c.l) > 0
                PROVE  ws = [k |-> <<c.n, KVSource(c.l)>>,
                             group |-> batches[c.n].chunks[c.i - 1].group]
    BY <1>1, <1>2 DEF GatherInv
  <2>1. CASE c \in Pend("main")
    BY <1>3, <2>1 DEF GatherInv
  <2>2. CASE c \in Added
    <3>1. /\ c \in Op /\ c.n = Step /\ c.l = layer /\ c.i \in DOMAIN batches[Step].chunks
          /\ Scoring(Step, layer)
      BY <1>1, <2>2 DEF Planned, PlannedWork, PlannedSync
    <3>2. batches[Step].chunks \in Seq(Chunk)
      BY <1>4, BatchNumbers
    <3>3. c.i - 1 \in DOMAIN batches[Step].chunks
      BY <3>1, <3>2
    <3>4. IsIndexSource(c.l) /\ Selecting("chunk", c.n, c.l, c.i - 1)
      BY <3>1, <3>3 DEF Selecting, Scoring
    <3>. QED
      BY <1>3, <3>1, <3>4
  <2>. QED
    BY <1>1, <2>1, <2>2
<1>8. RowsInv'
  <2>. SUFFICES ASSUME NEW n \in 1..Step, NEW x \in Layers, n = AtN, IsSourceOf(x, AtL),
                       CompressRatio(x) > 0, Enqueued(n, x)', Whole(batches[n])
                PROVE  RowsOf(n, x)'
    BY <1>1, <1>2 DEF RowsInv
  <2>1. CASE Enqueued(n, x)
    <3>1. RowsOf(n, x) /\ ~(n = Step /\ x = layer)
      BY <1>6, <2>1 DEF RowsInv
    <3>2. \A op, i : PendingAt(op, n, x, i)' <=> PendingAt(op, n, x, i)
      BY <1>3, <3>1
    <3>. QED
      BY <1>1, <3>1, <3>2, SelectionStays
  <2>2. CASE n = Step /\ x = layer
    <3>1. IsIndexSource(x)
      BY <2>2 DEF IsSourceOf, IsIndexSource
    <3>2. \A op, i : Selecting(op, n, x, i) => PendingAt(op, n, x, i)'
      BY <1>3, <2>2, <3>1
    <3>. QED
      BY <1>1, <1>4, <2>2, <3>2, SelectionFresh
  <2>. QED
    BY <1>5, <2>1, <2>2
<1>9. CandInv'
  <2>. SUFFICES ASSUME NEW n \in 1..Step, NEW x \in Layers, n = AtN, x = setup.candidateSource,
                       CompressRatio(x) > 0, Enqueued(n, x)', Whole(batches[n]),
                       ~ShortContext(x, batches[n])
                PROVE  CandsOf(n, x)'
    BY <1>1, <1>2 DEF CandInv
  <2>1. CASE Enqueued(n, x)
    <3>1. CandsOf(n, x) /\ ~(n = Step /\ x = layer)
      BY <1>6, <2>1 DEF CandInv
    <3>2. \A op, i : PendingAt(op, n, x, i)' <=> PendingAt(op, n, x, i)
      BY <1>3, <3>1
    <3>. QED
      BY <1>1, <3>1, <3>2, SelectionStays
  <2>2. CASE n = Step /\ x = layer
    <3>1. IsIndexSource(x)
      <4>1. setup \in Setups /\ x # 0
        BY <1>1, <2>2, SetupTypes
      <4>. QED
        BY <4>1, TopologyAssumption DEF IsIndexSource
    <3>2. \A op, i : Selecting(op, n, x, i) => PendingAt(op, n, x, i)'
      BY <1>3, <2>2, <3>1
    <3>. QED
      BY <1>1, <1>4, <2>2, <3>2, SelectionFresh
  <2>. QED
    BY <1>5, <2>1, <2>2
<1>. QED
  BY <1>7, <1>8, <1>9

\* What attention has read stays.
LEMMA OutStays ==
  ASSUME Types, OutInv, setup' = setup, out' = out, Step' \in Nat, Step <= Step',
         \A n \in 1..Step : batches'[n] = batches[n]
  PROVE  OutInv'
<1>1. /\ \A x : CompressRatio(x)' = CompressRatio(x) /\ KVSource(x)' = KVSource(x)
                /\ IndexSource(x)' = IndexSource(x)
      /\ Layers' = Layers /\ Step \in Nat
  BY SetupStays DEF Types
<1>2. ASSUME NEW l \in Layers, Attended(l)
      PROVE  /\ out[l].n \in 1..Step'
             /\ out[l].swa = <<out[l].n, l>>
             /\ CompressRatio(l) > 0 =>
                  /\ out[l].comp = <<out[l].n, KVSource(l)>>
                  /\ DOMAIN out[l].rows = 1..NumTokens(batches'[out[l].n])
                  /\ Whole(batches'[out[l].n]) =>
                       \A t \in 1..NumTokens(batches'[out[l].n]) :
                         GoodRow(out[l].rows[t], out[l].n, IndexSource(l), t)'
  <2>1. PICK n : n = out[l].n
    OBVIOUS
  <2>2. n \in 1..Step /\ batches'[n] = batches[n] /\ n \in 1..Step'
    BY <1>1, <1>2, <2>1 DEF OutInv
  <2>3. \A row, x, t : GoodRow(row, n, x, t)' <=> GoodRow(row, n, x, t)
    BY <2>2, GoodStays
  <2>4. \A t : GoodRow(out[l].rows[t], out[l].n, IndexSource(l), t)'
               <=> GoodRow(out[l].rows[t], n, IndexSource(l), t)
    <3>. TAKE t
    <3>1. PICK row : row = out[l].rows[t]
      OBVIOUS
    <3>2. PICK x : x = IndexSource(l)
      OBVIOUS
    <3>3. row = (out[l].rows[t])' /\ x = IndexSource(l)' /\ n = (out[l].n)'
      BY <1>1, <2>1, <3>1, <3>2
    <3>4. GoodRow(row, n, x, t)' <=> GoodRow(row, n, x, t)
      BY <2>3
    <3>. QED
      BY <3>1, <3>2, <3>3, <3>4
  <2>. QED
    BY <1>2, <2>1, <2>2, <2>4 DEF OutInv
<1>. QED
  BY <1>1, <1>2 DEF OutInv, Attended

\* Enqueueing a layer keeps the invariant.
LEMMA EnqueueInv ==
  ASSUME IInv, EnqueueLayer
  PROVE  IInv'
<1>. USE DEF IInv
<1>1. /\ layer \in Layers /\ Step \in Nat /\ layer \in Nat /\ Step \in 1..Step
      /\ setup' = setup /\ batches' = batches /\ layer' = layer + 1 /\ fired' = fired
      /\ act' = act /\ UNCHANGED shared /\ out' = out /\ Layers' = Layers /\ Step' = Step
      /\ queue' \in [Streams -> Seq(Op)]
  BY AddedIs
<1>2. StreamInv' /\ recorded' \in [Layers -> [Events -> Nat]]
  BY EnqueueKeepsOrder, EnqueueKeepsForks, EnqueueKeepsCounts DEF StreamInv
<1>3. ActInv'
  BY EnqueueKeepsActs
<1>4. CacheInv'
  BY EnqueueKeepsCaches
<1>5. GatherInv' /\ RowsInv' /\ CandInv'
  BY EnqueueKeepsSelections
<1>6. OutInv'
  BY <1>1, OutStays
<1>7. Types'
  <2>1. Layers = 1..Len(setup.ratio) /\ Len(setup.ratio) \in Nat
    BY SetupTypes
  <2>2. layer' \in 1..(Len(setup.ratio) + 1) /\ batches # << >>
    <3>1. batches = << >> => Step = 0
      BY DEF Step
    <3>. QED
      BY <1>1, <2>1, <3>1
  <2>. QED
    BY <1>1, <1>2, <2>1, <2>2 DEF Types, shared
<1>. QED
  BY <1>2, <1>3, <1>4, <1>5, <1>6, <1>7

-----------------------------------------------------------------------------
(* A step begins *)

LEMMA BeginIs ==
  ASSUME Types, StreamInv, NEW b \in Batches, BeginStep(b)
  PROVE  /\ setup' = setup /\ queue' = queue /\ recorded' = recorded /\ fired' = fired
         /\ act' = act /\ UNCHANGED shared /\ out' = out
         /\ layer' = 1 /\ Step \in Nat /\ Step' = Step + 1 /\ Layers' = Layers
         /\ batches' \in Seq(Batches) /\ batches' # << >>
         /\ \A n \in 1..Step : batches'[n] = batches[n]
         /\ \A s \in Streams : Pend(s)' = Pend(s)
         /\ \A n, l : Enqueued(n, l)' <=> Enqueued(n, l)
         /\ \A s \in Streams : \A o \in Pend(s) : o \in Op /\ o.n \in 1..Step
<1>1. /\ setup' = setup /\ queue' = queue /\ recorded' = recorded /\ fired' = fired
      /\ act' = act /\ UNCHANGED shared /\ out' = out /\ batches' = Append(batches, b)
      /\ layer' = 1 /\ layer = Len(setup.ratio) + 1
  BY DEF BeginStep
<1>2. batches \in Seq(Batches) /\ Step \in Nat /\ Step = Len(batches)
  BY DEF Types, Step
<1>3. /\ Len(batches') = Len(batches) + 1 /\ batches' \in Seq(Batches) /\ batches' # << >>
      /\ \A n \in 1..Len(batches) : batches'[n] = batches[n]
  BY <1>1, <1>2
<1>4. Step' = Step + 1 /\ Layers' = Layers
  BY <1>1, <1>2, <1>3 DEF Step, Layers
<1>5. \A s \in Streams : Pend(s)' = Pend(s)
  BY <1>1 DEF Pend
<1>6. ASSUME NEW n, NEW l
      PROVE  Enqueued(n, l)' <=> Enqueued(n, l)
  <2>1. Enqueued(n, l)' <=> n \in 1..(Step + 1) /\ l \in Layers /\ (n < Step + 1 \/ l < 1)
    BY <1>1, <1>4 DEF Enqueued
  <2>2. l \in Layers => l \in Nat /\ ~(l < 1) /\ l < layer
    <3>1. Layers = 1..Len(setup.ratio) /\ Len(setup.ratio) \in Nat
      BY SetupTypes
    <3>. QED
      BY <1>1, <3>1
  <2>. QED
    BY <1>2, <2>1, <2>2 DEF Enqueued
<1>7. \A s \in Streams : \A o \in Pend(s) : o \in Op /\ o.n \in 1..Step
  BY PendingFrom DEF StreamInv, OnPlan, Enqueued
<1>. QED
  BY <1>1, <1>2, <1>3, <1>4, <1>5, <1>6, <1>7

\* A new batch leaves the streams alone.
LEMMA BeginKeepsStreams ==
  ASSUME Types, StreamInv, NEW b \in Batches, BeginStep(b)
  PROVE  StreamInv'
<1>1. /\ setup' = setup /\ queue' = queue /\ recorded' = recorded /\ fired' = fired
      /\ Layers' = Layers /\ \A n \in 1..Step : batches'[n] = batches[n]
      /\ \A s \in Streams : Pend(s)' = Pend(s)
      /\ \A n, l : Enqueued(n, l)' <=> Enqueued(n, l)
      /\ \A s \in Streams : \A o \in Pend(s) : o \in Op /\ o.n \in 1..Step
  BY BeginIs
<1>2. \A o : o.n \in 1..Step => (Planned(o)' <=> Planned(o))
  <2>. SUFFICES ASSUME NEW o, o.n \in 1..Step PROVE Planned(o)' <=> Planned(o)
    OBVIOUS
  <2>1. PICK n : n = o.n
    OBVIOUS
  <2>2. batches'[n] = batches[n]
    BY <1>1, <2>1
  <2>. QED
    BY <1>1, <2>1, <2>2, PlanStays
<1>3. \A n \in 1..Step : \A s \in Streams : \A l, f : Takes(s, n, l, f)' <=> Takes(s, n, l, f)
  BY <1>1, PlanStays
<1>4. /\ \A x, y : Before(x, y)' <=> Before(x, y)
      /\ \A x, y : Same(x, y)' <=> Same(x, y)
  BY DEF Before, LayerBefore, Place, Same
<1>5. Ordered'
  BY <1>1, <1>4 DEF StreamInv, Ordered
<1>6. OnPlan'
  BY <1>1, <1>2 DEF StreamInv, OnPlan
<1>7. Complete'
  <2>1. \A n, l : Enqueued(n, l) => n \in 1..Step
    BY DEF Enqueued
  <2>. QED
    BY <1>1, <1>2, <1>4, <2>1 DEF StreamInv, Complete
<1>8. Forked'
  <2>1. "main" \in Streams /\ Aux \subseteq Streams
    BY DEF Streams, Aux
  <2>. QED
    BY <1>1, <1>3, <2>1 DEF StreamInv, Forked
<1>9. Joined'
  <2>1. "main" \in Streams /\ Aux \subseteq Streams
    BY DEF Streams, Aux
  <2>. QED
    BY <1>1, <2>1 DEF StreamInv, Joined
<1>10. Counted' /\ Matched'
  BY <1>1, <1>4 DEF StreamInv, Counted, Matched
<1>. QED
  BY <1>5, <1>6, <1>7, <1>8, <1>9, <1>10 DEF StreamInv

\* A step begins: the invariant holds on.
LEMMA BeginInv ==
  ASSUME IInv, NEW b \in Batches, BeginStep(b)
  PROVE  IInv'
<1>. USE DEF IInv
<1>1. /\ setup' = setup /\ queue' = queue /\ recorded' = recorded /\ fired' = fired
      /\ act' = act /\ UNCHANGED shared /\ out' = out
      /\ layer' = 1 /\ Step \in Nat /\ Step' = Step + 1 /\ Layers' = Layers
      /\ batches' \in Seq(Batches) /\ batches' # << >>
      /\ \A n \in 1..Step : batches'[n] = batches[n]
      /\ \A s \in Streams : Pend(s)' = Pend(s)
      /\ \A n, l : Enqueued(n, l)' <=> Enqueued(n, l)
      /\ \A s \in Streams : \A o \in Pend(s) : o \in Op /\ o.n \in 1..Step
      /\ "main" \in Streams
  BY BeginIs DEF Streams
<1>2. /\ \A x : /\ CompressRatio(x)' = CompressRatio(x) /\ KVSource(x)' = KVSource(x)
                /\ (IsKVSource(x)' <=> IsKVSource(x))
      /\ \A x, b_1 : ShortContext(x, b_1)' <=> ShortContext(x, b_1)
      /\ \A x, l : IsSourceOf(x, l)' <=> IsSourceOf(x, l)
  BY <1>1, SetupStays
<1>3. /\ \A op, n, l : Pending(op, n, l)' <=> Pending(op, n, l)
      /\ \A op, n, l, i : PendingAt(op, n, l, i)' <=> PendingAt(op, n, l, i)
  BY <1>1 DEF Pending, PendingAt
<1>4. StreamInv'
  BY BeginKeepsStreams
<1>5. ActInv'
  <2>1. ASSUME NEW readers, NEW writer, NEW cell, Fed(readers, writer, cell)
        PROVE  Fed(readers, writer, cell)'
    BY <1>1, <1>3, <2>1 DEF Fed
  <2>. QED
    BY <2>1 DEF ActInv
<1>6. (AtN' = AtN /\ AtL' = AtL) \/ \A l : ~Enqueued(AtN, l)'
  <2>1. CASE queue["main"] # << >>
    BY <1>1, <2>1 DEF AtN, AtL
  <2>2. CASE queue["main"] = << >>
    <3>1. AtN' = Step + 1
      BY <1>1, <2>2 DEF AtN
    <3>2. \A l : ~Enqueued(AtN, l)'
      <4>1. \A l : Enqueued(AtN, l)' => AtN' \in 1..Step' /\ l \in Layers /\ (AtN' < Step' \/ l < 1)
        BY <1>1 DEF Enqueued
      <4>2. \A l \in Layers : ~(l < 1)
        <5>1. Layers = 1..Len(setup.ratio) /\ Len(setup.ratio) \in Nat
          BY SetupTypes
        <5>. QED
          BY <5>1
      <4>. QED
        BY <1>1, <3>1, <4>1, <4>2
    <3>. QED
      BY <3>2
  <2>. QED
    BY <2>1, <2>2
<1>7. CacheInv'
  <2>1. ASSUME NEW l \in Layers, NEW writer
        PROVE  /\ Written(swa, writer, l) => Written(swa, writer, l)'
               /\ Written(comp, writer, l) => Written(comp, writer, l)'
               /\ Written(indexK, writer, l) => Written(indexK, writer, l)'
    <3>1. CASE AtN' = AtN
      <4>1. PICK n : n = AtN
        OBVIOUS
      <4>2. (Enqueued(n, l)' <=> Enqueued(n, l)) /\ (Pending(writer, n, l)' <=> Pending(writer, n, l))
        BY <1>1, <1>3
      <4>. QED
        BY <1>1, <3>1, <4>1, <4>2 DEF Written, shared
    <3>2. CASE \A k : ~Enqueued(AtN, k)'
      BY <3>2 DEF Written
    <3>. QED
      BY <1>6, <3>1, <3>2
  <2>. QED
    BY <1>1, <1>2, <2>1 DEF CacheInv
<1>8. GatherInv'
  <2>. SUFFICES ASSUME NEW c \in Pend("main"), c.op = "chunk", c.i > 1,
                       ~PendingAt("chunk", c.n, c.l, c.i - 1), CompressRatio(c.l) > 0
                PROVE  ws' = [k |-> <<c.n, KVSource(c.l)>>,
                              group |-> batches'[c.n].chunks[c.i - 1].group]
    BY <1>1, <1>2, <1>3 DEF GatherInv
  <2>1. batches'[c.n] = batches[c.n]
    BY <1>1
  <2>. QED
    BY <1>1, <2>1 DEF GatherInv, shared
<1>9. ASSUME NEW n \in 1..Step', n = AtN', NEW x, Enqueued(n, x)'
      PROVE  /\ n \in 1..Step /\ n = AtN /\ AtL' = AtL /\ Enqueued(n, x)
             /\ batches'[n] = batches[n]
             /\ (RowsOf(n, x)' <=> RowsOf(n, x)) /\ (CandsOf(n, x)' <=> CandsOf(n, x))
  <2>1. Enqueued(n, x) /\ n \in 1..Step
    BY <1>1, <1>9 DEF Enqueued
  <2>2. AtN' = AtN /\ AtL' = AtL
    BY <1>6, <1>9
  <2>3. (RowsOf(n, x)' <=> RowsOf(n, x)) /\ (CandsOf(n, x)' <=> CandsOf(n, x))
    BY <1>1, <1>3, <2>1, SelectionStays DEF shared
  <2>. QED
    BY <1>1, <1>9, <2>1, <2>2, <2>3
<1>10. RowsInv'
  <2>. SUFFICES ASSUME NEW n \in 1..Step', NEW x \in Layers, n = AtN', IsSourceOf(x, AtL)',
                       CompressRatio(x) > 0, Enqueued(n, x)', Whole(batches'[n])
                PROVE  RowsOf(n, x)'
    BY <1>1, <1>2 DEF RowsInv
  <2>1. IsSourceOf(x, AtL)
    BY <1>1, <1>9 DEF IsSourceOf
  <2>. QED
    BY <1>9, <2>1 DEF RowsInv
<1>11. CandInv'
  <2>. SUFFICES ASSUME NEW n \in 1..Step', NEW x \in Layers, n = AtN',
                       x = setup.candidateSource,
                       CompressRatio(x) > 0, Enqueued(n, x)', Whole(batches'[n]),
                       ~ShortContext(x, batches'[n])
                PROVE  CandsOf(n, x)'
    BY <1>1, <1>2 DEF CandInv
  <2>. QED
    BY <1>9 DEF CandInv
<1>12. OutInv'
  BY <1>1, OutStays
<1>13. Types'
  <2>1. 1 \in 1..(Len(setup.ratio) + 1)
    BY SetupTypes
  <2>. QED
    BY <1>1, <2>1 DEF Types, shared
<1>. QED
  BY <1>4, <1>5, <1>7, <1>8, <1>10, <1>11, <1>12, <1>13

-----------------------------------------------------------------------------
(* The theorems *)

LEMMA InitInv ==
  ASSUME Init
  PROVE  IInv
<1>1. /\ setup \in Setups /\ batches = << >> /\ layer = Len(setup.ratio) + 1
      /\ queue = [s \in Streams |-> << >>]
      /\ \A s \in Streams : Pend(s) = {}
      /\ setup.ratio \in Seq(0..2) /\ Len(setup.ratio) \in Nat
      /\ "main" \in Streams /\ Aux \subseteq Streams
  BY SetupAssumption DEF Init, Setup, Pend, Streams, Aux
<1>2. /\ Step = 0 /\ AtN = 0 /\ 1..Step = {}
      /\ \A n, l : ~Enqueued(n, l)
  BY <1>1 DEF Step, AtN, Enqueued
<1>3. Types
  <2>1. batches \in Seq(Batches) /\ Step \in Nat /\ layer \in 1..(Len(setup.ratio) + 1)
    BY <1>1, <1>2
  <2>2. queue \in [Streams -> Seq(Op)]
    BY <1>1
  <2>3. /\ recorded \in [Layers -> [Events -> Nat]] /\ fired \in [Layers -> [Events -> Nat]]
        /\ DOMAIN act = {"qkv", "kvScore", "weights", "latent", "indexQ"}
    BY DEF Init
  <2>4. /\ DOMAIN swa = Layers /\ DOMAIN comp = Layers /\ DOMAIN indexK = Layers
        /\ DOMAIN topk = 1..MaxRows /\ DOMAIN cand = 1..MaxRows /\ DOMAIN out = Layers
    BY DEF Init
  <2>. QED
    BY <1>1, <2>1, <2>2, <2>3, <2>4 DEF Types
<1>4. StreamInv
  <2>1. \A l \in Layers : \A e \in Events : fired[l][e] <= recorded[l][e]
    BY DEF Init
  <2>2. Counted
    BY <1>1, <2>1 DEF Counted
  <2>3. Ordered
    BY <1>1 DEF Ordered
  <2>4. OnPlan /\ Complete /\ Forked /\ Joined /\ Matched
    BY <1>1 DEF OnPlan, Complete, Forked, Joined, Matched
  <2>. QED
    BY <2>2, <2>3, <2>4 DEF StreamInv
<1>5. ActInv
  BY <1>1 DEF ActInv, Fed
<1>6. CacheInv
  BY <1>2 DEF CacheInv, Written
<1>7. GatherInv
  BY <1>1 DEF GatherInv
<1>8. RowsInv /\ CandInv
  BY <1>2 DEF RowsInv, CandInv
<1>9. OutInv
  BY DEF Init, OutInv, Attended
<1>. QED
  BY <1>3, <1>4, <1>5, <1>6, <1>7, <1>8, <1>9 DEF IInv

\* Stuttering keeps the invariant.
LEMMA StutterInv ==
  ASSUME IInv, UNCHANGED vars
  PROVE  IInv'
<1>1. /\ setup' = setup /\ batches' = batches /\ layer' = layer /\ queue' = queue
      /\ recorded' = recorded /\ fired' = fired /\ act' = act /\ swa' = swa /\ comp' = comp
      /\ indexK' = indexK /\ ws' = ws /\ topk' = topk /\ cand' = cand /\ out' = out
  BY DEF vars, host, shared
<1>2. /\ \A s \in Streams : Pend(s)' = Pend(s)
      /\ \A n, l : Enqueued(n, l)' <=> Enqueued(n, l)
      /\ Step' = Step /\ Layers' = Layers /\ AtN' = AtN /\ AtL' = AtL
      /\ "main" \in Streams /\ Aux \subseteq Streams
  BY <1>1 DEF Pend, Enqueued, Step, Layers, AtN, AtL, Streams, Aux
<1>3. /\ \A o : Planned(o)' <=> Planned(o)
      /\ \A s \in Streams : \A n, l, f : Takes(s, n, l, f)' <=> Takes(s, n, l, f)
  BY <1>1, PlanStays
<1>4. /\ \A x : /\ CompressRatio(x)' = CompressRatio(x) /\ KVSource(x)' = KVSource(x)
                /\ (IsKVSource(x)' <=> IsKVSource(x))
      /\ \A x, b : ShortContext(x, b)' <=> ShortContext(x, b)
      /\ \A x, l : IsSourceOf(x, l)' <=> IsSourceOf(x, l)
  BY <1>1, SetupStays
<1>5. /\ \A op, n, l : Pending(op, n, l)' <=> Pending(op, n, l)
      /\ \A op, n, l, i : PendingAt(op, n, l, i)' <=> PendingAt(op, n, l, i)
      /\ \A x, y : Before(x, y)' <=> Before(x, y)
      /\ \A x, y : Same(x, y)' <=> Same(x, y)
  BY <1>2 DEF Pending, PendingAt, Before, LayerBefore, Place, Same
<1>6. \A n, x : (RowsOf(n, x)' <=> RowsOf(n, x)) /\ (CandsOf(n, x)' <=> CandsOf(n, x))
  BY <1>1, <1>5, SelectionStays
<1>7. Types'
  BY <1>1, <1>2 DEF IInv, Types
<1>8. StreamInv'
  <2>1. Ordered' /\ OnPlan' /\ Complete'
    BY <1>1, <1>2, <1>3, <1>5 DEF IInv, StreamInv, Ordered, OnPlan, Complete
  <2>2. Forked' /\ Joined'
    BY <1>1, <1>2, <1>3 DEF IInv, StreamInv, Forked, Joined
  <2>3. Counted' /\ Matched'
    BY <1>1, <1>2, <1>5 DEF IInv, StreamInv, Counted, Matched
  <2>. QED
    BY <2>1, <2>2, <2>3 DEF StreamInv
<1>9. ActInv'
  <2>1. ASSUME NEW readers, NEW writer, NEW cell, Fed(readers, writer, cell)
        PROVE  Fed(readers, writer, cell)'
    BY <1>1, <1>2, <1>5, <2>1 DEF Fed
  <2>. QED
    BY <2>1 DEF IInv, ActInv
<1>10. CacheInv'
  BY <1>1, <1>2, <1>4, <1>5 DEF IInv, CacheInv, Written
<1>11. GatherInv'
  BY <1>1, <1>2, <1>4, <1>5 DEF IInv, GatherInv
<1>12. RowsInv' /\ CandInv'
  BY <1>1, <1>2, <1>4, <1>6 DEF IInv, RowsInv, CandInv
<1>13. OutInv'
  <2>1. Step \in Nat
    BY DEF IInv, Types
  <2>. QED
    BY <1>1, <1>2, <2>1, OutStays DEF IInv
<1>. QED
  BY <1>7, <1>8, <1>9, <1>10, <1>11, <1>12, <1>13 DEF IInv

\* Every step keeps the invariant.
LEMMA StepInv ==
  ASSUME IInv, [Next]_vars
  PROVE  IInv'
<1>1. CASE \E b \in Batches : BeginStep(b)
  BY <1>1, BeginInv
<1>2. CASE EnqueueLayer
  BY <1>2, EnqueueInv
<1>3. CASE \E s \in Streams : GpuStep(s)
  BY <1>3, GpuStepInv
<1>4. CASE UNCHANGED vars
  BY <1>4, StutterInv
<1>. QED
  BY <1>1, <1>2, <1>3, <1>4 DEF Next

\* Whatever the streams do, the work pending is the rest of each layer's plan in
\* order, joined by events that count its records, and every cell holds what the
\* operations no longer pending wrote there.
THEOREM LayersInvariant == Spec => []IInv
<1>1. Init => IInv
  BY InitInv
<1>2. IInv /\ [Next]_vars => IInv'
  BY StepInv
<1>. QED
  BY <1>1, <1>2, PTL DEF Spec

\* Attention reads its window and its source's compressed cache of this step:
\* the joins order the auxiliary stream's writes before every later reader.
THEOREM CachesCorrect == Spec => []CachesWritten
<1>1. IInv => CachesWritten
  BY DEF IInv, OutInv, CachesWritten
<1>. QED
  BY <1>1, LayersInvariant, PTL

\* What the rows attention has read are.
LEMMA AttendedRows ==
  ASSUME IInv, NEW l \in Layers, Selected(l), NEW r \in Rows(l)
  PROVE  /\ batches[out[l].n] \in Batches
         /\ CompressRatio(IndexSource(l)) = CompressRatio(l)
         /\ Whole(batches[out[l].n]) => GoodRow(r[2], out[l].n, IndexSource(l), r[1])
<1>1. /\ out[l].n \in 1..Step /\ CompressRatio(l) > 0
      /\ DOMAIN out[l].rows = 1..NumTokens(batches[out[l].n])
      /\ Whole(batches[out[l].n]) =>
           \A t \in 1..NumTokens(batches[out[l].n]) :
              GoodRow(out[l].rows[t], out[l].n, IndexSource(l), t)
  BY DEF IInv, OutInv, Selected
<1>2. batches[out[l].n] \in Batches
  BY <1>1 DEF IInv, Types, Step
<1>3. CompressRatio(IndexSource(l)) = CompressRatio(l)
  BY <1>1, Sources DEF IInv
<1>4. PICK t \in DOMAIN out[l].rows : r = <<t, out[l].rows[t]>>
  BY DEF Rows
<1>. QED
  BY <1>1, <1>2, <1>3, <1>4

\* Decodes of one length are scored with their own query and weights, whether
\* or not a prefill comes with them.
THEOREM ScoresCorrect == Spec => []ScoresOwn
<1>1. IInv => ScoresOwn
  <2>. SUFFICES ASSUME IInv, NEW l \in Layers, Selected(l), ~Short(l),
                       ~RequiresPadding(batches[out[l].n]), NEW r \in Rows(l)
                PROVE  r[2].q = <<out[l].n, IndexSource(l)>> /\ r[2].w = r[1]
    BY DEF ScoresOwn, ScoredAlike
  <2>1. GoodRow(r[2], out[l].n, IndexSource(l), r[1])
    BY AttendedRows DEF Whole
  <2>. QED
    BY <2>1 DEF GoodRow, Short
<1>. QED
  BY <1>1, LayersInvariant, PTL

\* Each row attention reads is the selection its index source made this step for
\* that token, from keys this step extended; unless decodes of different lengths
\* share the step with a prefill, whose rows the packed decodes overwrite.
THEOREM RowsCorrect ==
  ASSUME UnevenAlone
  PROVE  Spec => []RowsOwn
<1>1. IInv => RowsOwn
  <2>. SUFFICES ASSUME IInv, NEW l \in Layers, Selected(l), NEW r \in Rows(l)
                PROVE  /\ r[2].tok = <<out[l].n, r[1]>>
                       /\ IF Short(l) THEN r[2] = Everything(r[2].tok, l)
                          ELSE r[2].k = <<out[l].n, KVSource(IndexSource(l))>>
    BY DEF RowsOwn
  <2>1. GoodRow(r[2], out[l].n, IndexSource(l), r[1])
    BY AttendedRows DEF UnevenAlone
  <2>2. CASE Short(l)
    <3>1. r[2] = Everything(<<out[l].n, r[1]>>, IndexSource(l))
      BY <2>1, <2>2 DEF GoodRow, Short
    <3>2. r[2].tok = <<out[l].n, r[1]>>
      BY <3>1 DEF Everything, Selection
    <3>3. CompressRatio(IndexSource(l)) = CompressRatio(l)
      BY AttendedRows
    <3>. QED
      BY <2>2, <3>1, <3>2, <3>3 DEF Everything
  <2>3. CASE ~Short(l)
    BY <2>1, <2>3 DEF GoodRow, Short
  <2>. QED
    BY <2>2, <2>3
<1>. QED
  BY <1>1, LayersInvariant, PTL

\* A row is masked by its own token's candidate blocks of this step, under the
\* same condition.
THEOREM MasksCorrect ==
  ASSUME UnevenAlone
  PROVE  Spec => []MasksOwn
<1>1. IInv => MasksOwn
  <2>. SUFFICES ASSUME IInv, NEW l \in Layers, Selected(l), ~Short(l), NEW r \in Rows(l)
                PROVE  r[2].m = IF UsesCandidates(IndexSource(l)) THEN <<out[l].n, r[1]>>
                                ELSE None
    BY DEF MasksOwn
  <2>1. GoodRow(r[2], out[l].n, IndexSource(l), r[1])
    BY AttendedRows DEF UnevenAlone
  <2>. QED
    BY <2>1 DEF GoodRow, Short
<1>. QED
  BY <1>1, LayersInvariant, PTL

-----------------------------------------------------------------------------
(* Selections merged under decode context parallelism *)

USE DcpAssumption

-----------------------------------------------------------------------------
(* Pieces *)

LEMMA DivMod ==
  ASSUME NEW p \in Nat, NEW d \in Nat \ {0}
  PROVE  /\ p \div d \in Nat /\ p % d \in 0..(d - 1)
         /\ p = (p \div d) * d + (p % d)
  BY SMT

\* The global id of a token is the position it was dealt out from.
LEMMA GlobalIdOfLocal ==
  ASSUME NEW p \in Nat
  PROVE  RankOf(p) \in DcpRanks /\ GlobalId(RankOf(p), LocalIndex(p)) = p
<1>. DEFINE q == p \div cp_interleave
            s == p % cp_interleave
            a == q \div dcp_world_size
            r == q % dcp_world_size
            i == a * cp_interleave + s
<1>1. cp_interleave \in Nat \ {0} /\ dcp_world_size \in Nat \ {0}
  OBVIOUS
<1>2. q \in Nat /\ s \in 0..(cp_interleave - 1) /\ p = q * cp_interleave + s
  BY <1>1, DivMod
<1>3. RankOf(p) = r /\ LocalIndex(p) = i
  BY DEF RankOf, LocalIndex
<1>. HIDE DEF q, s
<1>4. a \in Nat /\ r \in DcpRanks /\ q = a * dcp_world_size + r
  BY <1>1, <1>2, DivMod DEF DcpRanks
<1>. HIDE DEF a, r
<1>5. i \div cp_interleave = a /\ i % cp_interleave = s
  BY <1>1, <1>2, <1>4, DivModOf
<1>. HIDE DEF i
<1>6. GlobalId(r, i) = p
  BY <1>2, <1>4, <1>5 DEF GlobalId
<1>. QED
  BY <1>3, <1>4, <1>6

\* So a rank sends the positions it has selected.
LEMMA PackedSame ==
  ASSUME NEW n \in Nat, NEW r \in DcpRanks, NEW T \in SUBSET Owned(r, n)
  PROVE  Packed(r, T) = T
<1>1. \A p \in T : p \in Nat /\ RankOf(p) = r
  BY DEF Owned
<1>2. \A p \in T : GlobalId(r, LocalIndex(p)) = p
  BY <1>1, GlobalIdOfLocal
<1>. QED
  BY <1>2 DEF Packed

-----------------------------------------------------------------------------
(* Best selections *)

LEMMA TopKSize ==
  ASSUME NEW S, IsFiniteSet(S), NEW T, IsTopK(T, S)
  PROVE  /\ IsFiniteSet(T) /\ Cardinality(T) \in Nat /\ Cardinality(S) \in Nat
         /\ Cardinality(T) <= topk_tokens
         /\ T # S => Cardinality(T) = topk_tokens
<1>1. IsFiniteSet(T) /\ (Cardinality(S) = Cardinality(T) => S = T)
  BY FS_Subset DEF IsTopK
<1>2. Cardinality(T) \in Nat /\ Cardinality(S) \in Nat
  BY <1>1, FS_CardinalityType
<1>. QED
  BY <1>1, <1>2 DEF IsTopK, Least

\* S: what a row sees; Own: the ranks' parts of it; L: what they sent; M: the
\* best of that.
LEMMA BestOfBest ==
  ASSUME NEW S, IsFiniteSet(S), \A p \in S : logit[p] \in Int,
         NEW Own, \A r \in DcpRanks : Own[r] \subseteq S,
         \A p \in S : \E r \in DcpRanks : p \in Own[r],
         NEW L, \A r \in DcpRanks : IsTopK(L[r], Own[r]),
         NEW M, IsTopK(M, UNION {L[r] : r \in DcpRanks})
  PROVE  IsTopK(M, S)
<1>. DEFINE U == UNION {L[r] : r \in DcpRanks}
<1>1. U \subseteq S /\ M \subseteq U
  BY DEF IsTopK
<1>2. IsFiniteSet(U) /\ Cardinality(U) <= Cardinality(S)
      /\ Cardinality(U) \in Nat /\ Cardinality(S) \in Nat
  BY <1>1, FS_Subset, FS_CardinalityType
<1>3. IsFiniteSet(M) /\ Cardinality(M) \in Nat /\ Cardinality(M) <= topk_tokens
  BY <1>2, TopKSize
\* A position that was not sent was beaten by topk_tokens of its rank.
<1>4. ASSUME NEW p \in S, p \notin U
      PROVE  \E r \in DcpRanks :
               /\ IsFiniteSet(L[r]) /\ Cardinality(L[r]) = topk_tokens
               /\ L[r] \subseteq U /\ \A l \in L[r] : logit[p] <= logit[l]
  <2>1. PICK r \in DcpRanks : p \in Own[r]
    OBVIOUS
  <2>2. p \notin L[r] /\ L[r] \subseteq U /\ L[r] # Own[r]
    BY <1>4, <2>1
  <2>3. IsFiniteSet(Own[r])
    BY FS_Subset
  <2>4. IsFiniteSet(L[r]) /\ Cardinality(L[r]) = topk_tokens
    BY <2>2, <2>3, TopKSize
  <2>5. \A l \in L[r] : logit[p] <= logit[l]
    BY <2>1, <2>2 DEF IsTopK
  <2>. QED
    BY <2>2, <2>4, <2>5
<1>5. Cardinality(M) = Least(topk_tokens, Cardinality(S))
  <2>1. CASE U = S
    BY <2>1 DEF IsTopK
  <2>2. CASE U # S
    <3>1. PICK p \in S : p \notin U
      BY <1>1, <2>2
    <3>2. PICK r \in DcpRanks : IsFiniteSet(L[r]) /\ L[r] \subseteq U
                                /\ Cardinality(L[r]) = topk_tokens
      BY <1>4, <3>1
    <3>3. topk_tokens <= Cardinality(U)
      BY <1>2, <3>2, FS_Subset
    <3>4. Cardinality(M) = Least(topk_tokens, Cardinality(U))
      BY DEF IsTopK
    <3>. QED
      BY <1>2, <3>3, <3>4 DEF Least
  <2>. QED
    BY <2>1, <2>2
<1>6. ASSUME NEW t \in M, NEW p \in S \ M
      PROVE  logit[p] <= logit[t]
  <2>1. CASE p \in U
    BY <2>1 DEF IsTopK
  <2>2. CASE p \notin U
    <3>1. PICK r \in DcpRanks :
            /\ IsFiniteSet(L[r]) /\ Cardinality(L[r]) = topk_tokens
            /\ L[r] \subseteq U /\ \A l \in L[r] : logit[p] <= logit[l]
      BY <1>4, <2>2
    <3>2. CASE L[r] \subseteq M
      <4>1. Cardinality(L[r]) <= Cardinality(M)
            /\ (Cardinality(M) = Cardinality(L[r]) => M = L[r])
        BY <1>3, <3>2, FS_Subset
      <4>2. M = L[r]
        BY <1>3, <3>1, <4>1
      <4>. QED
        BY <3>1, <4>2
    <3>3. CASE ~(L[r] \subseteq M)
      <4>1. PICK l \in L[r] : l \notin M
        BY <3>3
      <4>2. l \in U \ M
        BY <3>1, <4>1
      <4>3. logit[p] <= logit[l] /\ logit[l] <= logit[t]
        BY <3>1, <4>1, <4>2 DEF IsTopK
      <4>4. logit[p] \in Int /\ logit[l] \in Int /\ logit[t] \in Int
        BY <1>1, <4>2
      <4>. QED
        BY <4>3, <4>4
    <3>. QED
      BY <3>2, <3>3
  <2>. QED
    BY <2>1, <2>2
<1>. QED
  BY <1>1, <1>5, <1>6 DEF IsTopK

-----------------------------------------------------------------------------
(* The invariant *)

LEMMA DcpInitInv == DcpInit => DcpInv
<1>. SUFFICES ASSUME DcpInit PROVE DcpInv
  OBVIOUS
<1>1. \A r \in DcpRanks : sent[r] = << >> /\ merged[r] = << >>
  BY DEF DcpInit
<1>2. logit \in [Positions -> Int]
  BY DEF DcpInit
<1>3. seqLens \in Seq(0..MaxSeqLen)
  BY DEF DcpInit
<1>4. DcpTypes
  BY <1>1, <1>2, <1>3 DEF DcpInit, DcpTypes
<1>5. Len(seqLens) \in Nat
  BY <1>3
<1>. QED
  BY <1>1, <1>4, <1>5 DEF DcpInv, SentBest, MergedOfSent

\* What a rank holds are positions.
LEMMA OwnedPositions ==
  ASSUME NEW n \in 0..MaxSeqLen, NEW r \in DcpRanks
  PROVE  Owned(r, n) \subseteq 0..(n - 1) /\ 0..(n - 1) \subseteq Positions
  BY DEF Owned, Positions

\* A rank's selection keeps the invariant.
LEMMA SelectOwnInv ==
  ASSUME DcpInv, NEW r \in DcpRanks, SelectOwn(r)
  PROVE  DcpInv'
<1>. DEFINE g == At(r)
<1>0. PICK T \in SUBSET Owned(r, seqLens[g]) :
               /\ IsTopK(T, Owned(r, seqLens[g]))
               /\ sent' = [sent EXCEPT ![r] = Append(@, Packed(r, T))]
  BY DEF SelectOwn
<1>2. /\ UNCHANGED <<seqLens, logit, merged>> /\ g <= Len(seqLens) /\ Len(sent[r]) < g
  BY DEF SelectOwn
<1>3. /\ \A q \in DcpRanks : sent[q] \in Seq(SUBSET Positions) /\ Len(sent[q]) \in Nat
      /\ \A q \in DcpRanks : merged[q] \in Seq(SUBSET Positions) /\ Len(merged[q]) \in Nat
      /\ Len(seqLens) \in Nat
  BY DEF DcpInv, DcpTypes
<1>4. g \in 1..Len(seqLens) /\ Len(sent[r]) = g - 1 /\ Len(merged[r]) = g - 1
  BY <1>2, <1>3 DEF DcpInv, SentBest, At
<1>5. seqLens[g] \in 0..MaxSeqLen
  BY <1>4 DEF DcpInv, DcpTypes
<1>1. /\ IsTopK(T, Owned(r, seqLens[g]))
      /\ sent' = [sent EXCEPT ![r] = Append(@, T)]
  <2>1. seqLens[g] \in Nat
    BY <1>5
  <2>2. Packed(r, T) = T
    BY <2>1, PackedSame
  <2>. QED
    BY <1>0, <2>2
<1>6. T \in SUBSET Positions
  BY <1>1, <1>5, OwnedPositions DEF IsTopK
<1>7. \A q \in DcpRanks : q # r => sent'[q] = sent[q]
  BY <1>1 DEF DcpInv, DcpTypes
<1>8. sent'[r] = Append(sent[r], T)
  BY <1>1 DEF DcpInv, DcpTypes
<1>9. sent' \in [DcpRanks -> Seq(SUBSET Positions)]
  BY <1>1, <1>3, <1>6 DEF DcpInv, DcpTypes
<1>10. DcpTypes'
  BY <1>2, <1>9 DEF DcpInv, DcpTypes
<1>11. \A q \in DcpRanks : /\ Len(sent'[q]) \in Nat /\ Len(sent[q]) <= Len(sent'[q])
                            /\ \A n \in 1..Len(sent[q]) : sent'[q][n] = sent[q][n]
  <2>. TAKE q \in DcpRanks
  <2>1. CASE q = r
    <3>1. sent[q] \in Seq(SUBSET Positions) /\ sent'[q] = Append(sent[q], T)
      BY <1>3, <1>8, <2>1
    <3>. QED
      BY <1>6, <3>1
  <2>2. CASE q # r
    BY <1>3, <1>7, <2>2
  <2>. QED
    BY <2>1, <2>2
<1>. HIDE DEF g
<1>12. SentBest'
  <2>. SUFFICES ASSUME NEW q \in DcpRanks
                PROVE  /\ Len(sent'[q]) <= Len(seqLens) /\ Len(merged[q]) <= Len(sent'[q])
                       /\ \A n \in 1..Len(sent'[q]) : IsTopK(sent'[q][n], Owned(q, seqLens[n]))
    BY <1>2 DEF SentBest, IsTopK
  <2>1. CASE q # r
    BY <2>1, <1>7 DEF DcpInv, SentBest
  <2>2. CASE q = r
    <3>1. Len(sent'[r]) = g /\ sent'[r][g] = T
      BY <1>3, <1>4, <1>6, <1>8
    <3>2. \A n \in 1..(g - 1) : IsTopK(sent'[r][n], Owned(r, seqLens[n]))
      BY <1>4, <1>11 DEF DcpInv, SentBest
    <3>. QED
      BY <2>2, <1>1, <1>4, <3>1, <3>2
  <2>. QED
    BY <2>1, <2>2
<1>13. MergedOfSent'
  <2>. SUFFICES ASSUME NEW q \in DcpRanks, NEW n \in 1..Len(merged[q])
                PROVE  /\ \A p \in DcpRanks : n <= Len(sent'[p])
                       /\ Gathered(n)' = Gathered(n)
    BY <1>2 DEF DcpInv, MergedOfSent, Stable, IsTopK
  <2>1. \A p \in DcpRanks : n \in 1..Len(sent[p])
    BY <1>3 DEF DcpInv, MergedOfSent
  <2>2. \A p \in DcpRanks : n <= Len(sent'[p]) /\ sent'[p][n] = sent[p][n]
    BY <1>3, <1>11, <2>1
  <2>. QED
    BY <2>2 DEF Gathered
<1>. QED
  BY <1>10, <1>12, <1>13 DEF DcpInv

\* A merge keeps the invariant.
LEMMA MergeInv ==
  ASSUME DcpInv, NEW r \in DcpRanks, Merge(r)
  PROVE  DcpInv'
<1>. DEFINE g == At(r)
<1>1. PICK T : /\ IsTopK(T, Gathered(g)) /\ T = Stable(Gathered(g))
               /\ merged' = [merged EXCEPT ![r] = Append(@, T)]
  BY DEF Merge
<1>2. /\ UNCHANGED <<seqLens, logit, sent>>
      /\ Len(sent[r]) = g /\ \A q \in DcpRanks : g <= Len(sent[q])
  BY DEF Merge
<1>3. /\ \A q \in DcpRanks : sent[q] \in Seq(SUBSET Positions) /\ Len(sent[q]) \in Nat
      /\ \A q \in DcpRanks : merged[q] \in Seq(SUBSET Positions) /\ Len(merged[q]) \in Nat
  BY DEF DcpInv, DcpTypes
<1>4. g \in Nat \ {0} /\ Len(merged[r]) = g - 1
  BY <1>3 DEF At
<1>5. \A q \in DcpRanks : sent[q][g] \in SUBSET Positions
  BY <1>2, <1>3, <1>4
<1>6. T \in SUBSET Positions
  BY <1>1, <1>5 DEF IsTopK, Gathered
<1>7. /\ \A q \in DcpRanks : q # r => merged'[q] = merged[q]
      /\ merged'[r] = Append(merged[r], T)
      /\ merged' \in [DcpRanks -> Seq(SUBSET Positions)]
  BY <1>1, <1>3, <1>6 DEF DcpInv, DcpTypes
<1>8. Len(merged'[r]) = g /\ merged'[r][g] = T
      /\ \A n \in 1..(g - 1) : merged'[r][n] = merged[r][n]
  BY <1>3, <1>4, <1>6, <1>7
<1>. HIDE DEF g
<1>9. DcpTypes'
  BY <1>2, <1>7 DEF DcpInv, DcpTypes
<1>10. SentBest'
  BY <1>2, <1>7, <1>8 DEF DcpInv, SentBest, IsTopK
<1>11. MergedOfSent'
  <2>. SUFFICES ASSUME NEW q \in DcpRanks, NEW n \in 1..Len(merged'[q])
                PROVE  /\ \A p \in DcpRanks : n <= Len(sent[p])
                       /\ merged'[q][n] = Stable(Gathered(n))
                       /\ IsTopK(merged'[q][n], Gathered(n))
    <3>1. \A n \in Nat : Gathered(n)' = Gathered(n)
      BY <1>2 DEF Gathered
    <3>2. \A q \in DcpRanks : Len(merged'[q]) \in Nat
      BY <1>7
    <3>. QED
      BY <1>2, <3>1, <3>2 DEF MergedOfSent, Stable, IsTopK
  <2>1. CASE q # r
    BY <2>1, <1>7 DEF DcpInv, MergedOfSent
  <2>2. CASE q = r /\ n = g
    BY <2>2, <1>1, <1>2, <1>8
  <2>3. CASE q = r /\ n # g
    <3>1. n \in 1..Len(merged[r]) /\ merged'[r][n] = merged[r][n]
      BY <2>3, <1>4, <1>8
    <3>. QED
      BY <2>3, <3>1 DEF DcpInv, MergedOfSent
  <2>. QED
    BY <2>1, <2>2, <2>3
<1>. QED
  BY <1>9, <1>10, <1>11 DEF DcpInv

\* From the invariant to the property: BestOfBest for every merge.
LEMMA InvExact == DcpInv => MergeExact
<1>. SUFFICES ASSUME DcpInv, NEW r \in DcpRanks, NEW n \in 1..Len(merged[r])
              PROVE  /\ IsTopK(merged[r][n], 0..(seqLens[n] - 1))
                     /\ \A q \in DcpRanks : n <= Len(merged[q]) => merged[q][n] = merged[r][n]
  BY DEF MergeExact
<1>1. /\ \A q \in DcpRanks : Len(sent[q]) \in Nat /\ Len(merged[q]) \in Nat
      /\ Len(seqLens) \in Nat
  BY DEF DcpInv, DcpTypes
<1>2. \A q \in DcpRanks : n \in 1..Len(sent[q])
  BY <1>1 DEF DcpInv, MergedOfSent
<1>3. n \in 1..Len(seqLens)
  BY <1>1, <1>2 DEF DcpInv, SentBest
<1>4. seqLens[n] \in 0..MaxSeqLen
  BY <1>3 DEF DcpInv, DcpTypes
<1>. DEFINE S   == 0..(seqLens[n] - 1)
            Own == [q \in DcpRanks |-> Owned(q, seqLens[n])]
            L   == [q \in DcpRanks |-> sent[q][n]]
<1>5. IsFiniteSet(S)
  <2>1. 0 \in Int /\ seqLens[n] - 1 \in Int
    BY <1>4
  <2>. QED
    BY <2>1, FS_Interval
<1>6. S \subseteq Positions /\ \A q \in DcpRanks : Own[q] \subseteq S
  BY <1>4, OwnedPositions
<1>7. \A p \in S : \E q \in DcpRanks : p \in Own[q]
  BY <1>4, GlobalIdOfLocal DEF Owned
<1>8. \A q \in DcpRanks : IsTopK(L[q], Own[q])
  BY <1>2 DEF DcpInv, SentBest
<1>9. IsTopK(merged[r][n], UNION {L[q] : q \in DcpRanks})
  <2>1. UNION {L[q] : q \in DcpRanks} = Gathered(n)
    BY DEF Gathered
  <2>. QED
    BY <2>1 DEF DcpInv, MergedOfSent
<1>. HIDE DEF S, Own, L
<1>10. \A p \in S : logit[p] \in Int
  BY <1>6 DEF DcpInv, DcpTypes
<1>11. IsTopK(merged[r][n], S)
  BY <1>5, <1>6, <1>7, <1>8, <1>9, <1>10, BestOfBest
<1>12. \A q \in DcpRanks : n <= Len(merged[q]) => merged[q][n] = merged[r][n]
  BY <1>1 DEF DcpInv, MergedOfSent
<1>. QED
  BY <1>11, <1>12 DEF S

\* Every selection a rank merges is a best selection of all positions the row
\* sees, and all ranks merge the same, for any number of ranks, piece size,
\* topk_tokens, lengths and scores.
THEOREM MergedIsExact == DcpSpec => []MergeExact
<1>1. DcpInv /\ [DcpNext]_dcpVars => DcpInv'
  <2>. SUFFICES ASSUME DcpInv, [DcpNext]_dcpVars PROVE DcpInv'
    OBVIOUS
  <2>1. CASE UNCHANGED dcpVars
    <3>1. UNCHANGED <<seqLens, logit, sent, merged>>
      BY <2>1 DEF dcpVars
    <3>2. DcpTypes' /\ SentBest'
      BY <3>1 DEF DcpInv, DcpTypes, SentBest, IsTopK
    <3>3. \A n : Gathered(n)' = Gathered(n)
      BY <3>1 DEF Gathered
    <3>4. MergedOfSent'
      BY <3>1, <3>3 DEF DcpInv, MergedOfSent, Stable, IsTopK
    <3>. QED
      BY <3>2, <3>4 DEF DcpInv
  <2>2. CASE DcpNext
    BY <2>2, SelectOwnInv, MergeInv DEF DcpNext
  <2>. QED
    BY <2>1, <2>2
<1>. QED
  BY DcpInitInv, InvExact, <1>1, PTL DEF DcpSpec
=============================================================================
