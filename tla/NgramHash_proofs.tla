--------------------------- MODULE NgramHash_proofs ---------------------------
(***************************************************************************)
(* Proofs about NgramHash.  The inductive invariant IInv (NgramHash) ties  *)
(* the slot cache to the block tables: blocks that are not cached have one *)
(* holder, a table entry the lookback still reaches is not the null block, *)
(* and every computed token with a block is in its slot -- but for prompt  *)
(* tokens where a connector may have loaded their KV, which the lookback   *)
(* takes from the window.  The hypothesis LoadOrPreempt leaves out the     *)
(* deployments in which a V1 request whose KV was loaded is preempted and  *)
(* readmitted: there the code itself loses the history (run ngram_reload). *)
(***************************************************************************)
EXTENDS NgramHash, SequenceTheorems, TLAPS

-----------------------------------------------------------------------------
(* Blocks and positions *)

LEMMA DivMod ==
  ASSUME NEW p \in Nat, NEW d \in Nat \ {0}
  PROVE  /\ p \div d \in Nat /\ p % d \in 0..(d - 1)
         /\ p = (p \div d) * d + (p % d)
  BY SMT

LEMMA Multiples ==
  ASSUME NEW a \in Nat, NEW b \in Nat, NEW d \in Nat \ {0}
  PROVE  /\ a * d \in Nat /\ b * d \in Nat
         /\ a <= b => a * d <= b * d
         /\ a < b => a * d + d <= b * d
<1>1. a * d \in Nat /\ b * d \in Nat
  BY SMT
<1>2. ASSUME a < b PROVE a * d + d <= b * d
  <2>1. PICK e \in Nat : b = a + 1 + e
    <3>1. b - a - 1 \in Nat /\ b = a + 1 + (b - a - 1)
      BY <1>2
    <3>. QED
      BY <3>1
  <2>2. b * d = a * d + d + e * d /\ e * d \in Nat
    BY <2>1
  <2>. QED
    BY <1>1, <2>2
<1>3. a = b => a * d <= b * d
  BY <1>1
<1>. QED
  BY <1>1, <1>2, <1>3

\* A position lies in a block, and in no other.
LEMMA Within ==
  ASSUME NEW p \in Nat, NEW d \in Nat \ {0}
  PROVE  /\ p \div d + 1 \in Nat \ {0} /\ p % d \in 0..(d - 1)
         /\ p = (p \div d + 1) * d - d + (p % d)
         /\ \A i \in Nat : p < i * d <=> p \div d + 1 <= i
<1>1. /\ p \div d \in Nat /\ p % d \in 0..(d - 1)
      /\ p = (p \div d) * d + (p % d)
  BY DivMod
<1> DEFINE q == p \div d
           m == p % d
<1>2. q \in Nat /\ m \in 0..(d - 1) /\ p = q * d + m
  BY <1>1
<1> HIDE DEF q, m
<1>3. (q + 1) * d = q * d + d /\ q * d \in Nat
  BY <1>2
<1>4. ASSUME NEW i \in Nat PROVE p < i * d <=> q + 1 <= i
  <2>1. CASE q + 1 <= i
    <3>1. (q + 1) * d <= i * d /\ i * d \in Nat
      BY <1>2, <2>1, Multiples
    <3>. QED
      BY <1>2, <1>3, <2>1, <3>1
  <2>2. CASE i <= q
    <3>1. i * d <= q * d /\ i * d \in Nat
      BY <1>2, <2>2, Multiples
    <3>. QED
      BY <1>2, <1>3, <2>2, <3>1
  <2>. QED
    BY <1>2, <2>1, <2>2
<1>5. /\ q + 1 \in Nat \ {0} /\ m \in 0..(d - 1)
      /\ p = (q + 1) * d - d + m
  BY <1>2, <1>3
<1>. QED
  BY <1>4, <1>5 DEF q, m

LEMMA OneSlot ==
  ASSUME NEW b \in Nat, NEW c \in Nat, NEW d \in Nat \ {0},
         NEW o \in 0..(d - 1), NEW p \in 0..(d - 1), b * d + o = c * d + p
  PROVE  b = c /\ o = p
<1>1. ~(b < c) /\ ~(c < b)
  BY Multiples
<1>2. b = c
  BY <1>1
<1>3. b * d \in Nat
  BY Multiples
<1>. QED
  BY <1>2, <1>3

\* The slots of a block.
LEMMA SlotInRange ==
  ASSUME NEW n \in Nat, NEW b \in 0..n, NEW d \in Nat \ {0}, NEW o \in 0..(d - 1)
  PROVE  /\ b * d + o \in 0..((n + 1) * d - 1)
         /\ (b * d + o) \div d = b /\ (b * d + o) % d = o
         /\ b # 0 => b * d + o >= d
<1>1. b * d \in Nat /\ n * d \in Nat /\ b * d <= n * d
  BY Multiples
<1>2. (n + 1) * d = n * d + d
  BY <1>1
<1>3. b * d + o \in Nat
  BY <1>1
<1>4. (b * d + o) \div d = b /\ (b * d + o) % d = o
  <2> DEFINE q == (b * d + o) \div d
             m == (b * d + o) % d
  <2>1. q \in Nat /\ m \in 0..(d - 1) /\ b * d + o = q * d + m
    BY <1>3, DivMod
  <2> HIDE DEF q, m
  <2>2. b \in Nat
    OBVIOUS
  <2>3. b = q /\ o = m
    BY <2>1, <2>2, OneSlot
  <2>. QED
    BY <2>3 DEF q, m
<1>5. ASSUME b # 0 PROVE b * d >= d
  <2>1. b - 1 \in Nat /\ b - 1 < b
    BY <1>5
  <2>2. (b - 1) * d + d <= b * d /\ (b - 1) * d \in Nat
    BY <2>1, Multiples
  <2>. QED
    BY <2>2, <1>1
<1>. QED
  BY <1>1, <1>2, <1>4, <1>5
-----------------------------------------------------------------------------
(* Tokens, prefixes and slots *)

LEMMA Sizes ==
  /\ BlockSize \in Nat \ {0} /\ NumBlocks \in Nat /\ Depth \in Nat \ {0}
  /\ WindowSize \in Nat /\ Depth < WindowSize /\ MaxLen \in Nat /\ ProfileBlocks \in Nat
  BY SizeAssumption, WindowAssumption

LEMMA ValueFacts ==
  ASSUME NEW token \in TokenIds
  PROVE  /\ Value(token) \in Values /\ token # NoToken
         /\ Value(token) = DeadId <=> token = ImageToken
         /\ token # ImageToken => Value(token) = TokenMap[token]
<1>1. TokenMap[token] \in Nat /\ token \in Nat
  BY TokenAssumption
<1>. QED
  BY <1>1 DEF Value, Values, DeadId, NoToken

LEMMA SubSeqAt ==
  ASSUME NEW S, NEW s \in Seq(S), NEW m \in Nat \ {0}, NEW n \in Nat,
         m <= n + 1, n <= Len(s)
  PROVE  /\ SubSeq(s, m, n) \in Seq(S) /\ Len(SubSeq(s, m, n)) = n - m + 1
         /\ \A k \in 1..(n - m + 1) : SubSeq(s, m, n)[k] = s[m + k - 1]
<1>1. \A k \in m..n : s[k] \in S
  BY ElementOfSeq, LenProperties
<1>2. Len(SubSeq(s, m, n)) = IF m <= n THEN n - m + 1 ELSE 0
  BY <1>1, SubSeqProperties
<1>3. SubSeq(s, m, n) \in Seq(S)
      /\ \A k \in 1..(n - m + 1) : SubSeq(s, m, n)[k] = s[m + k - 1]
  BY <1>1, SubSeqProperties
<1>. QED
  BY <1>2, <1>3

LEMMA PrefixFacts ==
  ASSUME NEW ids \in Seq(TokenIds), NEW i \in Nat, i * BlockSize <= Len(ids)
  PROVE  /\ PrefixTo(ids, i) \in Seq(TokenIds) /\ i * BlockSize \in Nat
         /\ Len(PrefixTo(ids, i)) = i * BlockSize
         /\ \A k \in 1..(i * BlockSize) : PrefixTo(ids, i)[k] = ids[k]
<1>1. i * BlockSize \in Nat
  BY Sizes, Multiples
<1> DEFINE n == i * BlockSize
<1>2. PrefixTo(ids, i) = SubSeq(ids, 1, n) /\ n <= Len(ids) /\ n \in Nat
  BY <1>1 DEF PrefixTo
<1> HIDE DEF n
<1>3. /\ SubSeq(ids, 1, n) \in Seq(TokenIds) /\ Len(SubSeq(ids, 1, n)) = n - 1 + 1
      /\ \A k \in 1..(n - 1 + 1) : SubSeq(ids, 1, n)[k] = ids[1 + k - 1]
  BY <1>2, SubSeqAt
<1>4. n - 1 + 1 = n /\ \A k \in 1..n : 1 + k - 1 = k
  BY <1>2
<1>5. /\ PrefixTo(ids, i) \in Seq(TokenIds) /\ n \in Nat
      /\ Len(PrefixTo(ids, i)) = n
      /\ \A k \in 1..n : PrefixTo(ids, i)[k] = ids[k]
  BY <1>2, <1>3, <1>4
<1>. QED
  BY <1>5 DEF n

\* Texts that go on from one another have the same prefixes.
Extends(new, ids) ==
  Len(ids) <= Len(new) /\ \A k \in 1..Len(ids) : new[k] = ids[k]

LEMMA PrefixesAgree ==
  ASSUME NEW ids \in Seq(TokenIds), NEW new \in Seq(TokenIds), Extends(new, ids),
         NEW i \in Nat, i * BlockSize <= Len(ids)
  PROVE  PrefixTo(new, i) = PrefixTo(ids, i)
<1>1. Len(ids) \in Nat /\ Len(new) \in Nat /\ i * BlockSize \in Nat
  BY LenProperties, Sizes, Multiples
<1>2. i * BlockSize <= Len(new)
  BY <1>1 DEF Extends
<1>3. \A k \in 1..(i * BlockSize) : PrefixTo(new, i)[k] = PrefixTo(ids, i)[k]
  <2>1. \A k \in 1..(i * BlockSize) : PrefixTo(new, i)[k] = new[k]
    BY <1>2, PrefixFacts
  <2>2. \A k \in 1..(i * BlockSize) : PrefixTo(ids, i)[k] = ids[k]
    BY PrefixFacts
  <2>. QED
    BY <1>1, <2>1, <2>2 DEF Extends
<1>. QED
  BY <1>1, <1>2, <1>3, PrefixFacts, SeqEqual

LEMMA PrefixesDiffer ==
  ASSUME NEW ids \in Seq(TokenIds), NEW i \in Nat, NEW j \in Nat,
         i * BlockSize <= Len(ids), j * BlockSize <= Len(ids),
         PrefixTo(ids, i) = PrefixTo(ids, j)
  PROVE  i = j
<1>1. i * BlockSize = j * BlockSize
  BY PrefixFacts
<1>2. i * BlockSize + 0 = j * BlockSize + 0 /\ 0 \in 0..(BlockSize - 1)
  BY <1>1, Sizes, Multiples
<1>. QED
  BY <1>2, Sizes, OneSlot

LEMMA PrefixNotEmpty ==
  ASSUME NEW ids \in Seq(TokenIds), NEW i \in Nat \ {0}, i * BlockSize <= Len(ids)
  PROVE  PrefixTo(ids, i) # << >>
<1>1. 0 * BlockSize + BlockSize <= i * BlockSize /\ i * BlockSize \in Nat
  BY Sizes, Multiples
<1>2. Len(PrefixTo(ids, i)) # 0
  BY <1>1, PrefixFacts, Sizes
<1>. QED
  BY <1>2, EmptySeq

LEMMA RequestFacts ==
  ASSUME NEW q \in Request
  PROVE  /\ q.ids \in Seq(TokenIds) /\ Len(q.ids) \in Nat
         /\ \A k \in 1..Len(q.ids) : q.ids[k] \in TokenIds
         /\ q.prompt \in Nat /\ q.computed \in Nat
         /\ q.table \in Seq(Blocks \cup {NullBlock}) /\ Len(q.table) \in Nat
         /\ DOMAIN q.table = 1..Len(q.table)
         /\ \A i \in DOMAIN q.table : i \in Nat \ {0} /\ q.table[i] \in 0..NumBlocks
<1>1. q.ids \in Seq(TokenIds) /\ q.prompt \in Nat /\ q.computed \in Nat
      /\ q.table \in Seq(Blocks \cup {NullBlock})
  BY DEF Request
<1>2. Len(q.ids) \in Nat /\ \A k \in 1..Len(q.ids) : q.ids[k] \in TokenIds
  BY <1>1, LenProperties, ElementOfSeq
<1>3. Len(q.table) \in Nat /\ DOMAIN q.table = 1..Len(q.table)
      /\ \A i \in 1..Len(q.table) : q.table[i] \in Blocks \cup {NullBlock}
  BY <1>1, LenProperties, ElementOfSeq
<1>4. Blocks \cup {NullBlock} = 0..NumBlocks
  BY Sizes DEF Blocks, NullBlock
<1>. QED
  BY <1>1, <1>2, <1>3, <1>4

\* Where a position of a request is kept.
PlaceOf(table, pos, i) ==
  /\ i = pos \div BlockSize + 1 /\ i \in DOMAIN table /\ i \in Nat \ {0}
  /\ table[i] \in 0..NumBlocks /\ BlockAt(table, pos) = table[i]
  /\ pos % BlockSize \in 0..(BlockSize - 1)
  /\ pos = i * BlockSize - BlockSize + (pos % BlockSize) /\ pos < i * BlockSize
  /\ i * BlockSize \in Nat
  /\ \A k \in Nat : pos < k * BlockSize <=> i <= k
  /\ SlotOf(table, pos) = table[i] * BlockSize + (pos % BlockSize)
  /\ SlotOf(table, pos) \in SlotsOf(NumBlocks + 1)
  /\ SlotOf(table, pos) \div BlockSize = table[i]
  /\ table[i] # NullBlock => SlotOf(table, pos) >= BlockSize

LEMMA Place ==
  ASSUME NEW q \in Request, NEW pos \in Nat, pos < Len(q.table) * BlockSize
  PROVE  PlaceOf(q.table, pos, pos \div BlockSize + 1)
<1> DEFINE i == pos \div BlockSize + 1
           o == pos % BlockSize
<1>1. /\ i \in Nat \ {0} /\ o \in 0..(BlockSize - 1)
      /\ pos = i * BlockSize - BlockSize + o
      /\ \A k \in Nat : pos < k * BlockSize <=> i <= k
  BY Sizes, Within
<1>2. SlotOf(q.table, pos) = q.table[i] * BlockSize + o
      /\ BlockAt(q.table, pos) = q.table[i] /\ i = pos \div BlockSize + 1
      /\ o = pos % BlockSize
  BY DEF SlotOf, BlockAt
<1> HIDE DEF i, o
<1>3. i \in DOMAIN q.table /\ q.table[i] \in 0..NumBlocks
  BY <1>1, RequestFacts
<1>4. pos < i * BlockSize /\ i * BlockSize \in Nat
  BY <1>1, Sizes, Multiples
<1> DEFINE b == q.table[i]
<1>5. b \in 0..NumBlocks /\ b * BlockSize + o \in 0..((NumBlocks + 1) * BlockSize - 1)
      /\ (b * BlockSize + o) \div BlockSize = b
      /\ (b # 0 => b * BlockSize + o >= BlockSize)
  <2>1. b \in 0..NumBlocks
    BY <1>3
  <2> HIDE DEF b
  <2>. QED
    BY <2>1, <1>1, Sizes, SlotInRange
<1>. QED
  BY <1>1, <1>2, <1>3, <1>4, <1>5 DEF PlaceOf, SlotsOf, NullBlock

LEMMA SlotsMeet ==
  ASSUME NEW q \in Request, NEW pos \in Nat, NEW i, PlaceOf(q.table, pos, i),
         NEW p \in Request, NEW at \in Nat, NEW j, PlaceOf(p.table, at, j),
         SlotOf(q.table, pos) = SlotOf(p.table, at)
  PROVE  q.table[i] = p.table[j] /\ (i = j => pos = at)
<1>1. /\ q.table[i] \in Nat /\ p.table[j] \in Nat
      /\ pos % BlockSize \in 0..(BlockSize - 1) /\ at % BlockSize \in 0..(BlockSize - 1)
      /\ q.table[i] * BlockSize + (pos % BlockSize)
           = p.table[j] * BlockSize + (at % BlockSize)
      /\ pos = i * BlockSize - BlockSize + (pos % BlockSize)
      /\ at = j * BlockSize - BlockSize + (at % BlockSize)
  BY Sizes DEF PlaceOf
<1>2. q.table[i] = p.table[j] /\ pos % BlockSize = at % BlockSize
  BY <1>1, Sizes, OneSlot
<1>. QED
  BY <1>1, <1>2
-----------------------------------------------------------------------------
(* Rows of a step and the slots they write *)

LEMMA RequestTyped ==
  ASSUME TypeOK, NEW r \in Requests
  PROVE  reqs[r] \in Request /\ reqs[r].computed <= Len(reqs[r].ids)
  BY DEF TypeOK

LEMMA RowTyped ==
  ASSUME TypeOK, NEW n \in DOMAIN batch
  PROVE  /\ n \in 1..Len(batch) /\ Len(batch) \in Nat /\ DOMAIN batch = 1..Len(batch)
         /\ batch[n].req \in Requests /\ batch[n].start \in Nat
         /\ batch[n].ids \in Seq(TokenIds) /\ Len(batch[n].ids) \in Nat
         /\ \A pos \in RowPositions(batch[n]) :
              pos \in Nat /\ TokenAt(batch[n], pos) \in TokenIds
<1>1. /\ batch \in Seq([req : Requests, start : Nat, ids : Seq(TokenIds)])
      /\ Len(batch) \in Nat /\ DOMAIN batch = 1..Len(batch)
  BY LenProperties DEF TypeOK
<1>2. batch[n] \in [req : Requests, start : Nat, ids : Seq(TokenIds)]
  BY <1>1, ElementOfSeq
<1>3. /\ batch[n].req \in Requests /\ batch[n].start \in Nat
      /\ batch[n].ids \in Seq(TokenIds) /\ Len(batch[n].ids) \in Nat
  BY <1>2, LenProperties
<1>4. ASSUME NEW pos \in RowPositions(batch[n])
      PROVE  pos \in Nat /\ TokenAt(batch[n], pos) \in TokenIds
  <2>1. pos \in Nat /\ pos - batch[n].start + 1 \in 1..Len(batch[n].ids)
    BY <1>3, <1>4 DEF RowPositions
  <2>. QED
    BY <1>3, <2>1, ElementOfSeq DEF TokenAt
<1>. QED
  BY <1>1, <1>3, <1>4

\* Positions at or past the computed ones have a block nobody shares.
LEMMA OpenBlock ==
  ASSUME TypeOK, NEW r \in Requests, RequestInv(r),
         NEW pos \in Nat, NEW i, PlaceOf(reqs[r].table, pos, i)
  PROVE  /\ reqs[r].table[i] = NullBlock => pos < reqs[r].computed - Depth
         /\ reqs[r].table[i] # NullBlock /\ kept[reqs[r].table[i]] # << >>
              => pos < reqs[r].computed
<1>1. reqs[r].computed \in Nat /\ i \in Nat \ {0} /\ i \in DOMAIN reqs[r].table
      /\ pos < i * BlockSize /\ i * BlockSize \in Nat
  BY RequestTyped, RequestFacts DEF PlaceOf
<1>2. CASE reqs[r].table[i] = NullBlock
  <2>1. BlockOut(i, reqs[r].computed)
    BY <1>1, <1>2 DEF RequestInv
  <2>2. i * BlockSize - 1 <= reqs[r].computed - WindowSize
    BY <2>1, <1>1, Sizes DEF BlockOut, InWindow
  <2>. QED
    BY <1>1, <1>2, <2>2, Sizes
<1>3. CASE reqs[r].table[i] # NullBlock
  <2>1. ASSUME kept[reqs[r].table[i]] # << >> PROVE i * BlockSize <= reqs[r].computed
    BY <1>1, <1>3, <2>1 DEF RequestInv
  <2>. QED
    BY <1>1, <1>3, <2>1
<1>. QED
  BY <1>2, <1>3

\* A cell of the batch: a position of a row, in a block of the row's own.
CellAt(n, pos, i) ==
  /\ n \in DOMAIN batch /\ batch[n].req \in Requests /\ pos \in RowPositions(batch[n])
  /\ pos \in 0..MaxLen /\ reqs[batch[n].req].computed <= pos
  /\ PlaceOf(TableOf(batch[n]), pos, i)
  /\ TableOf(batch[n])[i] # NullBlock /\ kept[TableOf(batch[n])[i]] = << >>
  /\ TokenAt(batch[n], pos) \in TokenIds

LEMMA CellFacts ==
  ASSUME IInv, NEW n \in DOMAIN batch, NEW pos \in RowPositions(batch[n])
  PROVE  CellAt(n, pos, pos \div BlockSize + 1)
<1> DEFINE row == batch[n]
           q == reqs[row.req]
           i == pos \div BlockSize + 1
<1>1. TypeOK /\ RowInv(row)
  BY DEF IInv
<1>2. /\ row.req \in Requests /\ row.start \in Nat /\ Len(row.ids) \in Nat
      /\ pos \in Nat /\ TokenAt(row, pos) \in TokenIds
  BY <1>1, RowTyped
<1>3. q \in Request /\ RequestInv(row.req) /\ q.computed \in Nat
      /\ Len(q.table) * BlockSize \in Nat
  BY <1>1, <1>2, RequestTyped, RequestFacts, Sizes, Multiples DEF IInv
<1>4. /\ row.start = q.computed /\ row.start + Len(row.ids) <= Len(q.table) * BlockSize
      /\ row.start + Len(row.ids) <= MaxLen
  BY <1>1 DEF RowInv
<1>5. q.computed <= pos /\ pos < Len(q.table) * BlockSize /\ pos \in 0..MaxLen
  <2>1. row.start <= pos /\ pos <= row.start + Len(row.ids) - 1
    BY <1>2 DEF RowPositions
  <2> HIDE DEF q, row
  <2>. QED
    BY <1>2, <1>3, <1>4, <2>1, Sizes
<1>6. PlaceOf(q.table, pos, i)
  BY <1>2, <1>3, <1>5, Place
<1> HIDE DEF i
<1>7. q.table[i] # NullBlock /\ kept[q.table[i]] = << >>
  <2> HIDE DEF row
  <2>1. /\ q.table[i] = NullBlock => pos < q.computed - Depth
        /\ q.table[i] # NullBlock /\ kept[q.table[i]] # << >> => pos < q.computed
    BY <1>1, <1>2, <1>3, <1>6, OpenBlock
  <2> HIDE DEF q
  <2>. QED
    BY <1>2, <1>3, <1>5, <2>1, Sizes
<1>8. CellAt(n, pos, i)
  BY <1>2, <1>5, <1>6, <1>7 DEF CellAt, TableOf
<1>. QED
  BY <1>8 DEF i

\* No two cells have the same slot.
LEMMA CellsApart ==
  ASSUME IInv, NEW n, NEW pos, NEW i, CellAt(n, pos, i),
         NEW m, NEW at, NEW j, CellAt(m, at, j),
         SlotOf(TableOf(batch[n]), pos) = SlotOf(TableOf(batch[m]), at)
  PROVE  n = m /\ pos = at
<1> DEFINE r == batch[n].req
           x == batch[m].req
<1>1. /\ r \in Requests /\ x \in Requests /\ TypeOK /\ Alone /\ RowsApart
      /\ n \in DOMAIN batch /\ m \in DOMAIN batch
      /\ TableOf(batch[n]) = reqs[r].table /\ TableOf(batch[m]) = reqs[x].table
  BY DEF CellAt, IInv, TableOf
<1>2. reqs[r] \in Request /\ reqs[x] \in Request /\ pos \in Nat /\ at \in Nat
  BY <1>1, RequestTyped DEF CellAt
<1>3. PlaceOf(reqs[r].table, pos, i) /\ PlaceOf(reqs[x].table, at, j)
      /\ reqs[r].table[i] # NullBlock /\ kept[reqs[r].table[i]] = << >>
  BY <1>1 DEF CellAt
<1>4. reqs[r].table[i] = reqs[x].table[j] /\ (i = j => pos = at)
  BY <1>1, <1>2, <1>3, SlotsMeet
<1>5. i \in DOMAIN reqs[r].table /\ j \in DOMAIN reqs[x].table
  BY <1>3 DEF PlaceOf
<1>6. r = x /\ i = j
  BY <1>1, <1>3, <1>4, <1>5 DEF Alone
<1>. QED
  BY <1>1, <1>4, <1>6 DEF RowsApart

LEMMA CellsOfBatch ==
  ASSUME IInv
  PROVE  /\ \A c \in Cells : CellAt(c[1], c[2], c[2] \div BlockSize + 1)
         /\ \A n \in DOMAIN batch : \A pos \in RowPositions(batch[n]) :
              <<n, pos>> \in Cells
<1>1. DOMAIN batch = 1..Len(batch)
  BY LenProperties DEF IInv, TypeOK
<1>2. ASSUME NEW c \in Cells PROVE CellAt(c[1], c[2], c[2] \div BlockSize + 1)
  <2>1. c[1] \in DOMAIN batch /\ c[2] \in RowPositions(batch[c[1]])
    BY <1>1 DEF Cells
  <2>. QED
    BY <2>1, CellFacts
<1>3. ASSUME NEW n \in DOMAIN batch, NEW pos \in RowPositions(batch[n])
      PROVE  <<n, pos>> \in Cells
  <2>1. pos \in 0..MaxLen
    BY CellFacts DEF CellAt
  <2>. QED
    BY <1>1, <2>1 DEF Cells
<1>. QED
  BY <1>2, <1>3

\* _write_hash_cache_kernel: each token of the batch in its slot, every other
\* slot as it was.
LEMMA Written ==
  ASSUME IInv, NEW cache
  PROVE  /\ DOMAIN WrittenSlots(cache) = DOMAIN cache
         /\ \A n \in DOMAIN batch : \A pos \in RowPositions(batch[n]) :
              SlotOf(TableOf(batch[n]), pos) \in DOMAIN cache =>
                WrittenSlots(cache)[SlotOf(TableOf(batch[n]), pos)]
                  = Value(TokenAt(batch[n], pos))
         /\ \A s \in DOMAIN cache :
              \/ WrittenSlots(cache)[s] = cache[s]
              \/ \E n, pos, i : /\ CellAt(n, pos, i) /\ SlotOf(TableOf(batch[n]), pos) = s
                                /\ WrittenSlots(cache)[s] = Value(TokenAt(batch[n], pos))
<1> DEFINE Hits(s) == {c \in Cells : CellSlot(c) = s}
<1>1. /\ DOMAIN WrittenSlots(cache) = DOMAIN cache
      /\ \A s \in DOMAIN cache :
           WrittenSlots(cache)[s] =
             IF Hits(s) = {} THEN cache[s] ELSE CellValue(CHOOSE c \in Hits(s) : TRUE)
  BY DEF WrittenSlots, Stored
<1>2. \A c \in Cells : /\ CellSlot(c) = SlotOf(TableOf(batch[c[1]]), c[2])
                       /\ CellValue(c) = Value(TokenAt(batch[c[1]], c[2]))
  BY DEF CellSlot, CellValue
<1>3. ASSUME NEW s, Hits(s) # {}
      PROVE  (CHOOSE c \in Hits(s) : TRUE) \in Hits(s)
  BY <1>3
<1>4. ASSUME NEW n \in DOMAIN batch, NEW pos \in RowPositions(batch[n]),
             SlotOf(TableOf(batch[n]), pos) \in DOMAIN cache
      PROVE  WrittenSlots(cache)[SlotOf(TableOf(batch[n]), pos)]
               = Value(TokenAt(batch[n], pos))
  <2> DEFINE s == SlotOf(TableOf(batch[n]), pos)
             d == CHOOSE c \in Hits(s) : TRUE
  <2>1. <<n, pos>> \in Hits(s)
    BY <1>2, CellsOfBatch
  <2>2. d \in Cells /\ CellSlot(d) = s
    BY <2>1, <1>3
  <2>3. WrittenSlots(cache)[s] = CellValue(d)
    BY <1>1, <1>4, <2>1
  <2> HIDE DEF d
  <2>4. CellAt(d[1], d[2], d[2] \div BlockSize + 1)
        /\ SlotOf(TableOf(batch[d[1]]), d[2]) = s
    BY <2>2, <1>2, CellsOfBatch
  <2>5. n = d[1] /\ pos = d[2]
    BY <2>4, CellFacts, CellsApart
  <2>. QED
    BY <1>2, <2>2, <2>3, <2>5
<1>5. ASSUME NEW s \in DOMAIN cache, WrittenSlots(cache)[s] # cache[s]
      PROVE  \E n, pos, i : /\ CellAt(n, pos, i) /\ SlotOf(TableOf(batch[n]), pos) = s
                            /\ WrittenSlots(cache)[s] = Value(TokenAt(batch[n], pos))
  <2> DEFINE d == CHOOSE c \in Hits(s) : TRUE
  <2>1. Hits(s) # {} /\ WrittenSlots(cache)[s] = CellValue(d)
    BY <1>1, <1>5
  <2>2. d \in Cells /\ CellSlot(d) = s
    BY <2>1, <1>3
  <2> HIDE DEF d
  <2>3. CellAt(d[1], d[2], d[2] \div BlockSize + 1)
    BY <2>2, CellsOfBatch
  <2>. QED
    BY <1>2, <2>1, <2>2, <2>3
<1>. QED
  BY <1>1, <1>4, <1>5
-----------------------------------------------------------------------------
(* The hash kernel *)

\* A position of a row's text: known before the chunk, or of the chunk.
TextAt(row, pos) ==
  /\ Text(row)[pos + 1] =
       IF pos < row.start THEN reqs[row.req].ids[pos + 1] ELSE TokenAt(row, pos)
  /\ Text(row)[pos + 1] \in TokenIds

LEMMA TextFacts ==
  ASSUME IInv, NEW n \in DOMAIN batch
  PROVE  \A pos \in 0..(batch[n].start + Len(batch[n].ids) - 1) : TextAt(batch[n], pos)
<1> DEFINE row == batch[n]
           q == reqs[row.req]
<1>1. /\ row.req \in Requests /\ row.start \in Nat
      /\ row.ids \in Seq(TokenIds) /\ Len(row.ids) \in Nat
  BY RowTyped DEF IInv
<1>2. q.ids \in Seq(TokenIds) /\ Len(q.ids) \in Nat /\ row.start <= Len(q.ids)
      /\ \A k \in 1..Len(q.ids) : q.ids[k] \in TokenIds
  <2>1. q \in Request /\ q.computed <= Len(q.ids) /\ row.start = q.computed
    BY <1>1, RequestTyped DEF IInv, RowInv
  <2>. QED
    BY <2>1, RequestFacts
<1> DEFINE known == SubSeq(q.ids, 1, row.start)
<1> HIDE DEF row, q
<1>3. /\ known \in Seq(TokenIds) /\ Len(known) = row.start
      /\ \A k \in 1..row.start : known[k] = q.ids[k]
  <2>1. /\ known \in Seq(TokenIds) /\ Len(known) = row.start - 1 + 1
        /\ \A k \in 1..(row.start - 1 + 1) : known[k] = q.ids[1 + k - 1]
    BY <1>1, <1>2, SubSeqAt
  <2>2. row.start - 1 + 1 = row.start /\ \A k \in 1..row.start : 1 + k - 1 = k
    BY <1>1
  <2>. QED
    BY <2>1, <2>2
<1> HIDE DEF known
<1> DEFINE whole == known \o row.ids
<1>4. \A k \in 1..(row.start + Len(row.ids)) :
        whole[k] = IF k <= row.start THEN known[k]
                                ELSE row.ids[k - row.start]
  BY <1>1, <1>3, ConcatProperties
<1>5. Text(row) = whole
  BY DEF Text, known, q, row
<1> HIDE DEF whole
<1>6. ASSUME NEW pos \in 0..(row.start + Len(row.ids) - 1)
      PROVE  /\ Text(row)[pos + 1] =
                  IF pos < row.start THEN q.ids[pos + 1] ELSE TokenAt(row, pos)
             /\ Text(row)[pos + 1] \in TokenIds
  <2>1. pos \in Nat /\ pos + 1 \in Nat /\ pos + 1 \in 1..(row.start + Len(row.ids))
    BY <1>1
  <2>2. Text(row)[pos + 1] = IF pos + 1 <= row.start THEN known[pos + 1]
                             ELSE row.ids[pos + 1 - row.start]
    <3> DEFINE k == pos + 1
    <3> HIDE DEF k, row
    <3>1. k \in 1..(row.start + Len(row.ids))
      BY <2>1 DEF k
    <3>2. Text(row)[k] = IF k <= row.start THEN known[k] ELSE row.ids[k - row.start]
      BY <1>4, <1>5, <3>1
    <3>. QED
      BY <1>1, <2>1, <3>2, SMTT(30) DEF k
  <2>3. CASE pos < row.start
    BY <1>1, <1>2, <1>3, <2>2, <2>3
  <2>4. CASE row.start <= pos
    <3>1. pos + 1 - row.start = pos - row.start + 1
          /\ pos - row.start + 1 \in 1..Len(row.ids)
      BY <1>1, <2>4
    <3>2. row.ids[pos - row.start + 1] \in TokenIds
      BY <1>1, <3>1, ElementOfSeq
    <3>. QED
      BY <1>1, <2>2, <2>4, <3>1, <3>2 DEF TokenAt
  <2>. QED
    BY <1>1, <2>3, <2>4
<1>. QED
  BY <1>6 DEF row, q, TextAt

HeldIn(cache, q) ==
  \A at \in 0..(q.computed - 1) :
    (~AllowLoad \/ at >= q.prompt) /\ BlockAt(q.table, at) # NullBlock
      => cache[SlotOf(q.table, at)] = Value(q.ids[at + 1])

\* Whichever source it comes from, the kernel finds the token of the text.
LEMMA SourceRight ==
  ASSUME IInv, NEW n \in DOMAIN batch, NEW p \in RowPositions(batch[n]),
         NEW pos \in Nat, p - Depth <= pos, pos <= p, NEW cache,
         UseSlotCache => /\ DOMAIN cache = SlotsOf(NumBlocks + 1)
                         /\ HeldIn(cache, reqs[batch[n].req])
  PROVE  /\ Source(batch[n], pos, cache) = Value(Text(batch[n])[pos + 1])
         /\ Text(batch[n])[pos + 1] \in TokenIds
<1> DEFINE row == batch[n]
           q == reqs[row.req]
           end == row.start + Len(row.ids)
<1>1. /\ row.req \in Requests /\ row.start \in Nat /\ Len(row.ids) \in Nat
      /\ p \in row.start..(end - 1) /\ TypeOK
  BY RowTyped DEF IInv, RowPositions
<1>2. /\ q \in Request /\ q.computed \in Nat /\ q.prompt \in Nat
      /\ row.start = q.computed /\ end <= Len(q.table) * BlockSize
      /\ RequestInv(row.req) /\ Len(q.table) * BlockSize \in Nat
  BY <1>1, RequestTyped, RequestFacts, Sizes, Multiples DEF IInv, RowInv
<1>3. /\ Text(row)[pos + 1] =
           IF pos < row.start THEN q.ids[pos + 1] ELSE TokenAt(row, pos)
      /\ Text(row)[pos + 1] \in TokenIds
  <2>1. pos \in 0..(row.start + Len(row.ids) - 1)
    BY <1>1
  <2>2. TextAt(row, pos)
    BY <2>1, TextFacts
  <2>. QED
    BY <2>2 DEF TextAt
<1>4. CASE pos >= row.start
  <2>1. ~(pos < row.start)
    BY <1>1, <1>4
  <2>2. Source(row, pos, cache) = Value(TokenAt(row, pos))
    BY <1>4 DEF Source
  <2>. QED
    BY <1>3, <2>1, <2>2
<1>5. CASE pos < row.start
  <2> DEFINE col == row.start - 1 - pos
  <2>1. col \in 0..(Depth - 1) /\ ~(pos >= row.start) /\ q.computed - 1 - col = pos
        /\ pos < q.computed /\ ~(pos < 0)
    <3> HIDE DEF q, row, end
    <3>1. p \in Nat /\ p <= pos + Depth /\ pos < row.start /\ p >= row.start
          /\ Depth \in Nat /\ row.start \in Nat
      BY <1>1, <1>5, Sizes
    <3>2. col \in 0..(Depth - 1) /\ ~(pos >= row.start) /\ ~(pos < 0)
          /\ row.start - 1 - col = pos
      BY <3>1
    <3>. QED
      BY <1>2, <1>5, <3>2
  <2>2. q.ids[pos + 1] \in TokenIds /\ q.ids[pos + 1] # NoToken
        /\ Text(row)[pos + 1] = q.ids[pos + 1]
    BY <1>3, <1>5, ValueFacts
  <2>3. WindowToken(row, col) =
          IF UseSlotCache => pos < q.prompt THEN q.ids[pos + 1] ELSE NoToken
    BY <2>1, Sizes DEF WindowToken
  <2> DEFINE slot == SlotOf(TableOf(row), pos)
  <2>4. Source(row, pos, cache) =
          IF WindowToken(row, col) # NoToken THEN Value(WindowToken(row, col))
          ELSE IF ~UseSlotCache THEN PadId
          ELSE cache[IF slot \in DOMAIN cache THEN slot ELSE Cardinality(DOMAIN cache) - 1]
    BY <2>1 DEF Source
  <2>5. CASE UseSlotCache => pos < q.prompt
    BY <2>2, <2>3, <2>4, <2>5
  <2>6. CASE UseSlotCache /\ ~(pos < q.prompt)
    <3>1. WindowToken(row, col) = NoToken
      BY <2>3, <2>6
    <3>2. PlaceOf(q.table, pos, pos \div BlockSize + 1)
      <4>1. pos < Len(q.table) * BlockSize
        BY <1>1, <1>2
      <4>. QED
        BY <1>2, <4>1, Place
    <3>3. slot \in DOMAIN cache /\ BlockAt(q.table, pos) = q.table[pos \div BlockSize + 1]
      BY <2>6, <3>2 DEF PlaceOf, TableOf
    <3>4. BlockAt(q.table, pos) # NullBlock
      <4>1. q.table[pos \div BlockSize + 1] = NullBlock => pos < q.computed - Depth
        BY <1>1, <1>2, <3>2, OpenBlock
      <4>. QED
        <5>1. pos >= q.computed - Depth
          BY <1>1, <1>2, Sizes
        <5>. QED
          BY <1>2, <3>3, <4>1, <5>1, Sizes
    <3>5. pos \in 0..(q.computed - 1) /\ pos >= q.prompt
      BY <1>2, <2>1, <2>6
    <3>6. cache[slot] = Value(q.ids[pos + 1])
      BY <2>6, <3>4, <3>5 DEF HeldIn, TableOf
    <3>. QED
      BY <2>2, <2>4, <2>6, <3>1, <3>3, <3>6
  <2>. QED
    BY <2>5, <2>6
<1>. QED
  BY <1>1, <1>4, <1>5

LEMMA NgramsRight ==
  ASSUME IInv, NEW n \in DOMAIN batch, NEW p \in RowPositions(batch[n]), NEW cache,
         UseSlotCache => /\ DOMAIN cache = SlotsOf(NumBlocks + 1)
                         /\ HeldIn(cache, reqs[batch[n].req])
  PROVE  NgramValues(batch[n], p, cache) = Due(batch[n], p)
<1> DEFINE row == batch[n]
           text(x) == Text(row)[x + 1]
<1>1. p \in Nat /\ Depth \in Nat
  BY RowTyped, Sizes DEF IInv
<1>2. ASSUME NEW j \in 0..Depth, ~(p - j < 0)
      PROVE  /\ Source(row, p - j, cache) = Value(text(p - j))
             /\ Value(text(p - j)) = DeadId <=> text(p - j) = ImageToken
             /\ text(p - j) # ImageToken => Value(text(p - j)) = TokenMap[text(p - j)]
  <2>1. p - j \in Nat /\ p - Depth <= p - j /\ p - j <= p
    BY <1>1, <1>2
  <2>2. Source(row, p - j, cache) = Value(text(p - j)) /\ text(p - j) \in TokenIds
    BY <2>1, SourceRight
  <2>. QED
    BY <2>2, ValueFacts
<1> DEFINE a(s) == IF \E j \in 0..s : p - j < 0 \/ Source(row, p - j, cache) = DeadId
                   THEN PadId ELSE Source(row, p - s, cache)
           b(s) == IF \E j \in 0..s : p - j < 0 \/ text(p - j) = ImageToken
                   THEN PadId ELSE TokenMap[text(p - s)]
<1>3. ASSUME NEW s \in 0..Depth PROVE a(s) = b(s)
  <2> HIDE DEF row, text
  <2>1. \A j \in 0..s : /\ j \in 0..Depth
                        /\ (p - j < 0 \/ Source(row, p - j, cache) = DeadId)
                             <=> (p - j < 0 \/ text(p - j) = ImageToken)
    BY <1>1, <1>2
  <2>2. s \in 0..s /\ s \in 0..Depth
    BY <1>1
  <2>3. CASE \E j \in 0..s : p - j < 0 \/ text(p - j) = ImageToken
    BY <2>1, <2>3
  <2>4. CASE ~ \E j \in 0..s : p - j < 0 \/ text(p - j) = ImageToken
    <3>1. ~(p - s < 0) /\ text(p - s) # ImageToken
      BY <2>2, <2>4
    <3>2. a(s) = Source(row, p - s, cache) /\ b(s) = TokenMap[text(p - s)]
      BY <2>1, <2>4
    <3>. QED
      BY <1>2, <2>2, <3>1, <3>2
  <2>. QED
    BY <2>3, <2>4
<1>4. NgramValues(row, p, cache) = [s \in 0..Depth |-> a(s)]
  BY DEF NgramValues
<1>5. Due(row, p) = [s \in 0..Depth |-> b(s)]
  BY DEF Due
<1> HIDE DEF a, b
<1>. QED
  BY <1>3, <1>4, <1>5
-----------------------------------------------------------------------------
(* NgramHashState: ensure_cache and forward *)

LEMMA EngineSame ==
  ASSUME IInv, UNCHANGED <<setup, reqs, kept, kv, batch>>
  PROVE  /\ KeptInv' /\ Alone' /\ RowsApart'
         /\ (\A r \in Requests : RequestInv(r))'
         /\ (\A i \in DOMAIN batch : RowInv(batch[i]))'
<1>1. KeptInv'
  BY DEF IInv, KeptInv
<1>2. Alone' /\ RowsApart'
  BY DEF IInv, Alone, RowsApart
<1>3. ASSUME NEW r \in Requests PROVE RequestInv(r)'
  <2>1. RequestInv(r)
    BY DEF IInv
  <2>. QED
    BY <2>1 DEF RequestInv, Live, UseSlotCache, AllowLoad
<1>4. ASSUME NEW i \in DOMAIN batch PROVE RowInv(batch[i])'
  <2>1. RowInv(batch[i])
    BY DEF IInv
  <2>. QED
    BY <2>1 DEF RowInv, Live
<1>. QED
  BY <1>1, <1>2, <1>3, <1>4

LEMMA Ensured ==
  ASSUME IInv
  PROVE  /\ EnsuredCache.of \in 0..kv.id
         /\ DOMAIN EnsuredCache.slots
              \in {SlotsOf(n) : n \in {0, ProfileBlocks, NumBlocks + 1}}
         /\ \A s \in DOMAIN EnsuredCache.slots : EnsuredCache.slots[s] \in Values
         /\ UseSlotCache /\ EnsuredCache.of = kv.id
              => DOMAIN EnsuredCache.slots = SlotsOf(kv.blocks)
         /\ kv.blocks = NumBlocks + 1 /\ UseSlotCache => EnsuredCache.of = kv.id
         /\ kv.blocks = NumBlocks + 1 /\ cacheOf = kv.id
              => EnsuredCache.of = cacheOf /\ EnsuredCache.slots = slots
<1>1. /\ kv.id \in Nat /\ kv.blocks \in {0, ProfileBlocks, NumBlocks + 1}
      /\ cacheOf \in 0..kv.id /\ NumBlocks + 1 # 0
      /\ DOMAIN slots \in {SlotsOf(n) : n \in {0, ProfileBlocks, NumBlocks + 1}}
      /\ \A s \in DOMAIN slots : slots[s] \in Values
      /\ UseSlotCache /\ cacheOf = kv.id => DOMAIN slots = SlotsOf(kv.blocks)
  BY Sizes, SizeAssumption DEF IInv, TypeOK
<1>2. CASE kv.blocks = 0
  <2>1. EnsuredCache = [of |-> 0, slots |-> << >>]
    BY <1>2 DEF EnsuredCache
  <2>2. DOMAIN << >> = {} /\ SlotsOf(0) = {}
    BY Sizes DEF SlotsOf
  <2>. QED
    BY <1>1, <1>2, <2>1, <2>2
<1>3. CASE kv.blocks # 0 /\ (~UseSlotCache \/ cacheOf = kv.id)
  <2>1. EnsuredCache = [of |-> cacheOf, slots |-> slots]
    BY <1>3 DEF EnsuredCache
  <2>. QED
    BY <1>1, <1>3, <2>1
<1>4. CASE kv.blocks # 0 /\ ~(~UseSlotCache \/ cacheOf = kv.id)
  <2>1. EnsuredCache = [of |-> kv.id, slots |-> [s \in SlotsOf(kv.blocks) |-> 0]]
    BY <1>4 DEF EnsuredCache
  <2>2. 0 \in Values
    BY DEF Values
  <2>. QED
    BY <1>1, <1>4, <2>1, <2>2
<1>. QED
  BY <1>2, <1>3, <1>4

LEMMA SlotsStay ==
  ASSUME IInv, UNCHANGED <<setup, reqs, kept, kv, batch, ngrams>>,
         kv.blocks = NumBlocks + 1 /\ cacheOf = kv.id => UNCHANGED <<cacheOf, slots>>
  PROVE  SlotInv'
<1>. SUFFICES ASSUME UseSlotCache PROVE SlotInv'
  BY DEF SlotInv, UseSlotCache
<1>1. TypeOK /\ SlotInv
  BY DEF IInv
<1>2. ASSUME NEW r \in Requests PROVE Held(r)'
  <2>1. RequestInv(r) /\ Held(r)
    BY <1>1 DEF IInv, SlotInv
  <2>2. ASSUME NEW pos \in 0..(reqs[r].computed - 1),
               ~AllowLoad \/ pos >= reqs[r].prompt,
               BlockAt(reqs[r].table, pos) # NullBlock
        PROVE  Holds(SlotOf(reqs[r].table, pos), reqs[r].ids[pos + 1])'
    <3>1. reqs[r].computed # 0
      BY <2>2, <1>1, RequestTyped, RequestFacts
    <3>2. kv.blocks = NumBlocks + 1
      BY <2>1, <3>1 DEF RequestInv
    <3>3. Holds(SlotOf(reqs[r].table, pos), reqs[r].ids[pos + 1])
      BY <2>1, <2>2 DEF Held
    <3>. QED
      BY <3>2, <3>3 DEF Holds, SlotOf
  <2>. QED
    BY <2>2 DEF Held, AllowLoad, BlockAt
<1>3. ASSUME ngrams # << >>, NEW i \in DOMAIN batch PROVE RowHeld(batch[i])'
  <2>1. RowHeld(batch[i]) /\ RowInv(batch[i]) /\ batch[i].req \in Requests
    BY <1>1, <1>3, RowTyped DEF IInv, SlotInv
  <2>2. kv.blocks = NumBlocks + 1
    <3>1. RequestInv(batch[i].req)
      BY <2>1 DEF IInv
    <3>. QED
      BY <2>1, <3>1 DEF RowInv, RequestInv
  <2>. QED
    BY <2>1, <2>2 DEF RowHeld, Holds, SlotOf, TableOf, TokenAt, RowPositions
<1>4. ASSUME ~AllowLoad PROVE KeptHeld'
  <2>1. KeptHeld /\ KeptInv
    BY <1>1, <1>4 DEF IInv, SlotInv
  <2>2. ASSUME NEW b \in Blocks, kept[b] # << >>, NEW j \in 1..BlockSize
        PROVE  Holds(b * BlockSize + j - 1, kept[b][Len(kept[b]) - BlockSize + j])'
    <3>1. kv.blocks = NumBlocks + 1
          /\ Holds(b * BlockSize + j - 1, kept[b][Len(kept[b]) - BlockSize + j])
      BY <2>1, <2>2 DEF KeptInv, KeptHeld
    <3>. QED
      BY <3>1 DEF Holds
  <2>. QED
    BY <2>2 DEF KeptHeld
<1>. QED
  BY <1>2, <1>3, <1>4 DEF SlotInv, AllowLoad

LEMMA DummyRunKeeps ==
  ASSUME IInv, DummyRun
  PROVE  IInv'
<1>1. /\ UNCHANGED <<setup, reqs, kept, kv, batch, ngrams, preempts>>
      /\ cacheOf' = EnsuredCache.of /\ slots' = EnsuredCache.slots
  BY DEF DummyRun
<1>2. kv.blocks = NumBlocks + 1 /\ cacheOf = kv.id => UNCHANGED <<cacheOf, slots>>
  BY <1>1, Ensured
<1>3. SlotInv'
  BY <1>1, <1>2, SlotsStay
<1>4. TypeOK'
  <2>1. TypeOK
    BY DEF IInv
  <2>2. /\ cacheOf' \in 0..kv.id
        /\ DOMAIN slots' \in {SlotsOf(n) : n \in {0, ProfileBlocks, NumBlocks + 1}}
        /\ \A s \in DOMAIN slots' : slots'[s] \in Values
        /\ UseSlotCache /\ cacheOf' = kv.id => DOMAIN slots' = SlotsOf(kv.blocks)
    BY <1>1, Ensured
  <2>. QED
    BY <1>1, <2>1, <2>2 DEF TypeOK, UseSlotCache, MaxPreempts
<1>5. NgramsMatchHistory'
  <2>1. batch' = << >> /\ 1..Len(<< >>) = {}
    BY <1>1 DEF DummyRun, Idle
  <2>. QED
    BY <2>1 DEF NgramsMatchHistory
<1>6. NgramsInv'
  BY <1>1 DEF IInv, NgramsInv
<1>. QED
  BY <1>1, <1>3, <1>4, <1>5, <1>6, EngineSame DEF IInv

\* NgramHashState.forward, at the state the row's requests are in.
LEMMA ForwardSlots ==
  ASSUME IInv, Forward, UseSlotCache
  PROVE  /\ cacheOf' = kv.id /\ kv.blocks = NumBlocks + 1
         /\ DOMAIN slots' = SlotsOf(NumBlocks + 1)
         /\ slots' = WrittenSlots(EnsuredCache.slots)
         /\ \A n \in DOMAIN batch : \A pos \in RowPositions(batch[n]) :
              slots'[SlotOf(TableOf(batch[n]), pos)] = Value(TokenAt(batch[n], pos))
         /\ \A s \in SlotsOf(NumBlocks + 1) :
              \/ cacheOf = kv.id => slots'[s] = slots[s]
              \/ \E n, pos, i : CellAt(n, pos, i) /\ SlotOf(TableOf(batch[n]), pos) = s
         /\ \A s \in DOMAIN slots' : slots'[s] \in Values
<1> DEFINE cache == EnsuredCache.slots
<1>1. kv.blocks = NumBlocks + 1
  <2>1. batch # << >> /\ Len(batch) # 0 /\ Len(batch) \in Nat /\ DOMAIN batch = 1..Len(batch)
    BY LenProperties, EmptySeq DEF Forward, Idle, IInv, TypeOK
  <2>2. 1 \in DOMAIN batch
    BY <2>1
  <2>3. RowInv(batch[1]) /\ batch[1].req \in Requests
    BY <2>2, RowTyped DEF IInv
  <2>4. RequestInv(batch[1].req)
    BY <2>3 DEF IInv
  <2>. QED
    BY <2>3, <2>4 DEF RowInv, RequestInv
<1>2. cacheOf' = kv.id /\ slots' = WrittenSlots(cache)
  BY <1>1, Ensured DEF Forward
<1>3. /\ DOMAIN cache = SlotsOf(NumBlocks + 1) /\ \A s \in DOMAIN cache : cache[s] \in Values
      /\ cacheOf = kv.id => cache = slots
  BY <1>1, Ensured
<1> HIDE DEF cache
<1>4. ASSUME NEW n \in DOMAIN batch, NEW pos \in RowPositions(batch[n])
      PROVE  slots'[SlotOf(TableOf(batch[n]), pos)] = Value(TokenAt(batch[n], pos))
  <2>1. SlotOf(TableOf(batch[n]), pos) \in DOMAIN cache
    BY <1>3, CellFacts DEF CellAt, PlaceOf
  <2>. QED
    BY <1>2, <2>1, Written
<1>5. ASSUME NEW s \in DOMAIN cache
      PROVE  \/ slots'[s] = cache[s]
             \/ \E n, pos, i : /\ CellAt(n, pos, i) /\ SlotOf(TableOf(batch[n]), pos) = s
                               /\ slots'[s] = Value(TokenAt(batch[n], pos))
  BY <1>2, Written
<1>6. \A s \in DOMAIN cache : slots'[s] \in Values
  <2>1. ASSUME NEW n, NEW pos, NEW i, CellAt(n, pos, i)
        PROVE  Value(TokenAt(batch[n], pos)) \in Values
    BY <2>1, ValueFacts DEF CellAt
  <2>. QED
    BY <1>3, <1>5, <2>1
<1>7. DOMAIN slots' = DOMAIN cache
  BY <1>2, Written
<1>8. slots' = WrittenSlots(EnsuredCache.slots)
  BY <1>2 DEF cache
<1>. QED
  BY <1>1, <1>2, <1>3, <1>4, <1>5, <1>6, <1>7, <1>8

LEMMA ForwardHolds ==
  ASSUME IInv, Forward
  PROVE  SlotInv' /\ (UseSlotCache => \A r \in Requests : HeldIn(slots', reqs[r]))
<1>. SUFFICES ASSUME UseSlotCache
              PROVE  SlotInv' /\ \A r \in Requests : HeldIn(slots', reqs[r])
  BY DEF SlotInv, UseSlotCache, Forward
<1>0. UNCHANGED <<setup, reqs, kept, kv, batch>> /\ TypeOK /\ SlotInv
  BY DEF Forward, IInv
<1>1. /\ cacheOf' = kv.id /\ kv.blocks = NumBlocks + 1
      /\ \A n \in DOMAIN batch : \A pos \in RowPositions(batch[n]) :
           slots'[SlotOf(TableOf(batch[n]), pos)] = Value(TokenAt(batch[n], pos))
      /\ \A s \in SlotsOf(NumBlocks + 1) :
           \/ cacheOf = kv.id => slots'[s] = slots[s]
           \/ \E n, pos, i : CellAt(n, pos, i) /\ SlotOf(TableOf(batch[n]), pos) = s
  BY ForwardSlots
<1>2. ASSUME NEW r \in Requests, NEW at \in 0..(reqs[r].computed - 1),
             ~AllowLoad \/ at >= reqs[r].prompt,
             BlockAt(reqs[r].table, at) # NullBlock
      PROVE  slots'[SlotOf(reqs[r].table, at)] = Value(reqs[r].ids[at + 1])
  <2> DEFINE q == reqs[r]
             i == at \div BlockSize + 1
  <2>1. /\ q \in Request /\ q.computed \in Nat /\ RequestInv(r) /\ at \in Nat
        /\ at < q.computed /\ Len(q.table) * BlockSize \in Nat
    BY <1>0, RequestTyped, RequestFacts, Sizes, Multiples DEF IInv
  <2>2. q.computed <= Len(q.table) * BlockSize
    BY <2>1 DEF RequestInv
  <2>3. at < Len(q.table) * BlockSize
    BY <2>1, <2>2
  <2>4. PlaceOf(q.table, at, i)
    BY <2>1, <2>3, Place
  <2> HIDE DEF i
  <2>5. cacheOf = kv.id /\ slots[SlotOf(q.table, at)] = Value(q.ids[at + 1])
    BY <1>0, <1>2 DEF SlotInv, Held, Holds
  <2>6. SlotOf(q.table, at) \in SlotsOf(NumBlocks + 1) /\ q.table[i] # NullBlock
        /\ i \in DOMAIN q.table
    BY <1>2, <2>4 DEF PlaceOf
  <2>7. ASSUME NEW n, NEW pos, NEW j, CellAt(n, pos, j),
               SlotOf(TableOf(batch[n]), pos) = SlotOf(q.table, at)
        PROVE  FALSE
    <3> DEFINE x == batch[n].req
    <3>1. /\ x \in Requests /\ TableOf(batch[n]) = reqs[x].table /\ pos \in Nat
          /\ PlaceOf(reqs[x].table, pos, j) /\ reqs[x].computed <= pos
          /\ reqs[x].table[j] # NullBlock /\ kept[reqs[x].table[j]] = << >>
          /\ j \in DOMAIN reqs[x].table
      BY <2>7 DEF CellAt, TableOf, PlaceOf
    <3>2. reqs[x] \in Request
      BY <1>0, <3>1, RequestTyped
    <3>3. reqs[x].table[j] = q.table[i] /\ (j = i => pos = at)
      <4>1. SlotOf(reqs[x].table, pos) = SlotOf(q.table, at)
        BY <2>7, <3>1
      <4> HIDE DEF x, q
      <4>. QED
        BY <2>1, <2>4, <3>1, <3>2, <4>1, SlotsMeet
    <3>4. x = r /\ j = i
      BY <2>6, <3>1, <3>3 DEF IInv, Alone
    <3>. QED
      BY <2>1, <3>1, <3>3, <3>4
  <2>. QED
    BY <1>1, <2>5, <2>6, <2>7
<1>3. \A r \in Requests : HeldIn(slots', reqs[r])
  BY <1>2 DEF HeldIn
<1>4. ASSUME NEW r \in Requests PROVE Held(r)'
  BY <1>0, <1>1, <1>2 DEF Held, Holds, BlockAt, SlotOf, AllowLoad
<1>5. ASSUME NEW n \in DOMAIN batch PROVE RowHeld(batch[n])'
  BY <1>0, <1>1, <1>5 DEF RowHeld, Holds, SlotOf, TableOf, TokenAt, RowPositions
<1>6. ASSUME ~AllowLoad PROVE KeptHeld'
  <2>1. ASSUME NEW b \in Blocks, kept[b] # << >>, NEW j \in 1..BlockSize
        PROVE  slots'[b * BlockSize + j - 1] = Value(kept[b][Len(kept[b]) - BlockSize + j])
    <3>1. cacheOf = kv.id
          /\ slots[b * BlockSize + j - 1] = Value(kept[b][Len(kept[b]) - BlockSize + j])
      BY <1>0, <1>6, <2>1 DEF SlotInv, KeptHeld, Holds
    <3> DEFINE o == j - 1
    <3>2. o \in 0..(BlockSize - 1) /\ b \in 0..NumBlocks /\ b \in Nat
          /\ b * BlockSize + j - 1 = b * BlockSize + o
      BY Sizes, Multiples DEF Blocks
    <3> HIDE DEF o
    <3>3. b * BlockSize + o \in SlotsOf(NumBlocks + 1) /\ (b * BlockSize + o) \div BlockSize = b
      BY <3>2, Sizes, SlotInRange DEF SlotsOf
    <3>4. ASSUME NEW n, NEW pos, NEW i, CellAt(n, pos, i),
                 SlotOf(TableOf(batch[n]), pos) = b * BlockSize + o
          PROVE  FALSE
      BY <2>1, <3>3, <3>4 DEF CellAt, PlaceOf
    <3>. QED
      BY <1>1, <3>1, <3>2, <3>3, <3>4
  <2>. QED
    BY <1>0, <1>1, <2>1 DEF KeptHeld, Holds
<1>. QED
  BY <1>0, <1>3, <1>4, <1>5, <1>6 DEF SlotInv, AllowLoad

LEMMA ForwardKeeps ==
  ASSUME IInv, Forward
  PROVE  IInv'
<1>1. UNCHANGED <<setup, reqs, kept, kv, batch, preempts>> /\ TypeOK /\ ngrams = << >>
  BY DEF Forward, IInv
<1>2. /\ Len(batch) \in Nat /\ DOMAIN batch = 1..Len(batch)
      /\ ngrams' = [i \in 1..Len(batch) |->
                     [p \in RowPositions(batch[i]) |-> NgramValues(batch[i], p, slots')]]
  BY <1>1, LenProperties DEF Forward, TypeOK
<1>3. Len(ngrams') = Len(batch)
  <2> DEFINE S == {ngrams'[i] : i \in 1..Len(batch)}
  <2>1. ngrams' \in [1..Len(batch) -> S]
    BY <1>2
  <2>2. ngrams' \in Seq(S)
    BY <1>2, <2>1, SeqDef
  <2>3. DOMAIN ngrams' = 1..Len(ngrams') /\ Len(ngrams') \in Nat
    BY <2>2, LenProperties
  <2>. QED
    BY <1>2, <2>3
<1>4. TypeOK'
  <2>1. /\ cacheOf' \in 0..kv.id
        /\ DOMAIN slots' \in {SlotsOf(n) : n \in {0, ProfileBlocks, NumBlocks + 1}}
        /\ \A s \in DOMAIN slots' : slots'[s] \in Values
        /\ UseSlotCache /\ cacheOf' = kv.id => DOMAIN slots' = SlotsOf(kv.blocks)
    <3>1. CASE UseSlotCache
      <4>1. /\ cacheOf' = kv.id /\ kv.blocks = NumBlocks + 1 /\ kv.id \in Nat
            /\ DOMAIN slots' = SlotsOf(NumBlocks + 1)
            /\ \A s \in DOMAIN slots' : slots'[s] \in Values
        BY <1>1, <3>1, ForwardSlots DEF TypeOK
      <4>. QED
        BY <4>1
    <3>2. CASE ~UseSlotCache
      BY <3>2, Ensured DEF Forward
    <3>. QED
      BY <3>1, <3>2
  <2>. QED
    BY <1>1, <1>3, <2>1 DEF TypeOK, UseSlotCache, MaxPreempts
<1>5. ASSUME NEW i \in 1..Len(batch), NEW p \in RowPositions(batch[i])
      PROVE  ngrams'[i][p] = Due(batch[i], p)
  <2>1. ngrams'[i][p] = NgramValues(batch[i], p, slots')
    BY <1>2
  <2>2. i \in DOMAIN batch /\ batch[i].req \in Requests
    BY <1>1, <1>2, RowTyped
  <2>3. UseSlotCache => /\ DOMAIN slots' = SlotsOf(NumBlocks + 1)
                        /\ HeldIn(slots', reqs[batch[i].req])
    BY <2>2, ForwardSlots, ForwardHolds
  <2>. QED
    BY <2>1, <2>2, <2>3, NgramsRight
<1>6. NgramsMatchHistory'
  <2>1. \A i, p : Due(batch[i], p)' = Due(batch[i], p)
    BY <1>1 DEF Due, Text
  <2>2. ASSUME NEW i \in 1..Len(batch), NEW p \in RowPositions(batch[i])
        PROVE  ngrams'[i][p] = Due(batch[i], p)'
    BY <1>5, <2>1, <2>2
  <2>3. \A i : RowPositions(batch[i])' = RowPositions(batch[i])
    BY <1>1 DEF RowPositions
  <2>. QED
    BY <1>1, <2>2, <2>3 DEF NgramsMatchHistory
<1>7. NgramsInv'
  BY <1>1, <1>2 DEF NgramsInv
<1>. QED
  BY <1>1, <1>4, <1>6, <1>7, ForwardHolds, EngineSame DEF IInv
-----------------------------------------------------------------------------
(* Requests and the blocks they hold *)

\* No other request sees what its blocks are cached for change.
Others(r, k) ==
  \A x \in Requests : x # r =>
    \A j \in DOMAIN reqs[x].table :
      reqs[x].table[j] # NullBlock => k[reqs[x].table[j]] = kept[reqs[x].table[j]]

\* Blocks of a table that are not cached are in no other place.
Own(r, table, k) ==
  \A i \in DOMAIN table :
    table[i] # NullBlock /\ k[table[i]] = << >> =>
      /\ \A x \in Requests : x # r => \A j \in DOMAIN reqs[x].table : reqs[x].table[j] # table[i]
      /\ \A j \in DOMAIN table : table[j] = table[i] => i = j

LEMMA OneRequestMoves ==
  ASSUME IInv, NEW r \in Requests, NEW q, reqs' = [reqs EXCEPT ![r] = q],
         UNCHANGED <<setup, kv, cacheOf, slots>>,
         Others(r, kept'), Own(r, q.table, kept'), RequestInv(r)',
         UseSlotCache => Held(r)'
  PROVE  /\ \A x \in Requests : RequestInv(x)'
         /\ Alone'
         /\ UseSlotCache => \A x \in Requests : Held(x)'
<1>1. reqs'[r] = q /\ \A x \in Requests : x # r => reqs'[x] = reqs[x]
  BY DEF IInv, TypeOK
<1>2. ASSUME NEW x \in Requests, x # r PROVE RequestInv(x)'
  <2>1. RequestInv(x) /\ reqs'[x] = reqs[x]
    BY <1>1, <1>2 DEF IInv
  <2>2. \A j \in DOMAIN reqs[x].table :
          reqs[x].table[j] # NullBlock => kept'[reqs[x].table[j]] = kept[reqs[x].table[j]]
    BY <1>2 DEF Others
  <2>. QED
    BY <2>1, <2>2 DEF RequestInv, Live, UseSlotCache, AllowLoad
<1>3. ASSUME UseSlotCache, NEW x \in Requests, x # r PROVE Held(x)'
  <2>1. Held(x) /\ reqs'[x] = reqs[x]
    BY <1>1, <1>3 DEF IInv, SlotInv
  <2>. QED
    BY <2>1 DEF Held, Holds, BlockAt, SlotOf, AllowLoad
<1>4. ASSUME NEW x \in Requests, NEW y \in Requests,
             NEW i \in DOMAIN reqs'[x].table, NEW j \in DOMAIN reqs'[y].table,
             reqs'[x].table[i] = reqs'[y].table[j], reqs'[x].table[i] # NullBlock,
             kept'[reqs'[x].table[i]] = << >>
      PROVE  x = y /\ i = j
  <2>1. CASE x # r /\ y # r
    <3>1. reqs'[x] = reqs[x] /\ reqs'[y] = reqs[y]
      BY <1>1, <2>1
    <3>2. kept[reqs[x].table[i]] = << >>
      BY <1>4, <2>1, <3>1 DEF Others
    <3>. QED
      BY <1>4, <3>1, <3>2 DEF IInv, Alone
  <2>2. CASE x = r /\ y # r
    BY <1>1, <1>4, <2>2 DEF Own
  <2>3. CASE x # r /\ y = r
    BY <1>1, <1>4, <2>3 DEF Own
  <2>4. CASE x = r /\ y = r
    BY <1>1, <1>4, <2>4 DEF Own
  <2>. QED
    BY <2>1, <2>2, <2>3, <2>4
<1>5. Alone'
  BY <1>4 DEF Alone
<1>. QED
  BY <1>2, <1>3, <1>5

LEMMA NoRows ==
  ASSUME IInv, Idle, UNCHANGED <<batch, ngrams>>
  PROVE  /\ RowsApart' /\ NgramsMatchHistory' /\ NgramsInv'
         /\ (\A i \in DOMAIN batch : RowInv(batch[i]))'
         /\ (\A i \in DOMAIN batch : RowHeld(batch[i]))'
<1>1. batch = << >> /\ batch' = << >> /\ DOMAIN << >> = {} /\ 1..Len(<< >>) = {}
  BY DEF Idle
<1>2. NgramsInv'
  BY DEF IInv, NgramsInv
<1>. QED
  BY <1>1, <1>2 DEF RowsApart, NgramsMatchHistory

\* Between steps one request moves, and with it what its blocks are cached for.
LEMMA IdleMoves ==
  ASSUME IInv, Idle, NEW r \in Requests, NEW q \in Request,
         q.computed <= Len(q.ids), reqs' = [reqs EXCEPT ![r] = q],
         UNCHANGED <<setup, kv, cacheOf, slots, batch, ngrams>>,
         preempts' \in 0..MaxPreempts, kept' \in [Blocks -> Seq(TokenIds)],
         Others(r, kept'), Own(r, q.table, kept'), RequestInv(r)', KeptInv',
         UseSlotCache => Held(r)',
         UseSlotCache /\ ~AllowLoad => KeptHeld'
  PROVE  IInv'
<1>1. TypeOK'
  <2>1. TypeOK
    BY DEF IInv
  <2>2. reqs' \in [Requests -> Request]
    BY <2>1 DEF TypeOK
  <2>3. \A x \in Requests : reqs'[x].computed <= Len(reqs'[x].ids)
    BY <2>1 DEF TypeOK
  <2>. QED
    BY <2>1, <2>2, <2>3 DEF TypeOK, UseSlotCache, MaxPreempts
<1>2. /\ \A x \in Requests : RequestInv(x)'
      /\ Alone' /\ (UseSlotCache => \A x \in Requests : Held(x)')
  BY OneRequestMoves
<1>3. SlotInv'
  BY <1>2, NoRows DEF SlotInv, UseSlotCache, AllowLoad
<1>. QED
  BY <1>1, <1>2, <1>3, NoRows DEF IInv

\* What Keep does when a request goes on to have more tokens computed: blocks
\* cached before stay what they were, and only its own become cached.
KeptBy(r, ids, table, computed, k) ==
  /\ k \in [Blocks -> Seq(TokenIds)] /\ Others(r, k) /\ Own(r, table, k)
  /\ \A i \in DOMAIN table : table[i] # NullBlock /\ k[table[i]] # << >> =>
       k[table[i]] = PrefixTo(ids, i) /\ i * BlockSize <= computed
  /\ \A b \in Blocks :
       \/ k[b] = kept[b]
       \/ \E i \in DOMAIN table : /\ table[i] = b /\ i * BlockSize <= computed
                                  /\ k[b] = PrefixTo(ids, i)

LEMMA KeepFacts ==
  ASSUME IInv, NEW r \in Requests, Live(r),
         NEW ids \in Seq(TokenIds), Extends(ids, reqs[r].ids),
         NEW table \in Seq(Blocks \cup {NullBlock}),
         DOMAIN table = DOMAIN reqs[r].table,
         \A i \in DOMAIN table : table[i] \in {reqs[r].table[i], NullBlock},
         NEW computed \in Nat, reqs[r].computed <= computed, computed <= Len(ids)
  PROVE  KeptBy(r, ids, table, computed, Keep(kept, ids, table, computed))
<1> DEFINE q == reqs[r]
           full(b) == {i \in DOMAIN table : table[i] = b /\ i * BlockSize <= computed}
           at(b) == CHOOSE i \in full(b) : TRUE
           k == Keep(kept, ids, table, computed)
<1>1. /\ q \in Request /\ RequestInv(r) /\ Alone /\ kept \in [Blocks -> Seq(TokenIds)]
  BY DEF IInv, TypeOK
<1>2. /\ q.computed \in Nat /\ q.computed < Len(q.ids) /\ Len(q.ids) \in Nat
      /\ q.ids \in Seq(TokenIds) /\ Len(ids) \in Nat
      /\ \A i \in DOMAIN q.table : i \in Nat \ {0} /\ i * BlockSize \in Nat
  BY <1>1, RequestFacts, LenProperties, Sizes, Multiples DEF RequestInv
<1>3. k = [b \in Blocks |-> IF full(b) = {} THEN kept[b] ELSE PrefixTo(ids, at(b))]
  BY DEF Keep
<1>4. ASSUME NEW b \in Blocks, full(b) # {}
      PROVE  /\ at(b) \in DOMAIN table /\ table[at(b)] = b /\ at(b) * BlockSize <= computed
             /\ q.table[at(b)] = b /\ b # NullBlock
             /\ k[b] = PrefixTo(ids, at(b))
  <2>1. at(b) \in full(b)
    BY <1>4
  <2>2. b # NullBlock
    BY Sizes DEF Blocks, NullBlock
  <2>3. k[b] = PrefixTo(ids, at(b))
    BY <1>3, <1>4
  <2> HIDE DEF at
  <2>. QED
    BY <2>1, <2>2, <2>3
<1>5. ASSUME NEW b \in Blocks, full(b) = {} PROVE k[b] = kept[b]
  BY <1>3, <1>5
<1> HIDE DEF k, at, full
<1>6. ASSUME NEW i \in DOMAIN q.table, q.table[i] # NullBlock,
             kept[q.table[i]] # << >>
      PROVE  /\ kept[q.table[i]] = PrefixTo(q.ids, i) /\ i * BlockSize <= q.computed
             /\ PrefixTo(ids, i) = PrefixTo(q.ids, i)
  <2>1. kept[q.table[i]] = PrefixTo(q.ids, i) /\ i * BlockSize <= q.computed
    BY <1>1, <1>6 DEF RequestInv
  <2>2. i \in Nat /\ i * BlockSize <= Len(q.ids)
    BY <1>2, <2>1
  <2>. QED
    BY <1>2, <2>1, <2>2, PrefixesAgree
<1>7. ASSUME NEW b \in Blocks, kept[b] # << >> PROVE k[b] = kept[b]
  <2>1. CASE full(b) = {}
    BY <1>5, <2>1
  <2>2. CASE full(b) # {}
    <3>1. at(b) \in DOMAIN q.table /\ q.table[at(b)] = b /\ b # NullBlock
          /\ k[b] = PrefixTo(ids, at(b))
      BY <1>4, <2>2
    <3>. QED
      BY <1>6, <1>7, <3>1
  <2>. QED
    BY <2>1, <2>2
<1>8. ASSUME NEW x \in Requests, NEW j \in DOMAIN reqs[x].table,
             NEW b \in Blocks, reqs[x].table[j] = b, kept[b] = << >>, full(b) # {}
      PROVE  x = r /\ j = at(b)
  <2>1. at(b) \in DOMAIN reqs[r].table /\ reqs[r].table[at(b)] = b /\ b # NullBlock
    BY <1>4, <1>8
  <2>. QED
    BY <1>1, <1>8, <2>1 DEF Alone
<1>9. ASSUME NEW x \in Requests, NEW j \in DOMAIN reqs[x].table,
             reqs[x].table[j] # NullBlock
      PROVE  reqs[x].table[j] \in Blocks
  <2>1. reqs[x].table[j] \in 0..NumBlocks
    BY <1>9, RequestTyped, RequestFacts DEF IInv
  <2>. QED
    BY <1>9, <2>1, Sizes DEF Blocks, NullBlock
<1>10. Others(r, k)
  <2>1. ASSUME NEW x \in Requests, x # r, NEW j \in DOMAIN reqs[x].table,
               reqs[x].table[j] # NullBlock
        PROVE  k[reqs[x].table[j]] = kept[reqs[x].table[j]]
    <3>1. reqs[x].table[j] \in Blocks
      BY <1>9, <2>1
    <3>. QED
      BY <1>5, <1>7, <1>8, <2>1, <3>1
  <2>. QED
    BY <2>1 DEF Others
<1>11. ASSUME NEW i \in DOMAIN table, table[i] # NullBlock
       PROVE  table[i] = q.table[i] /\ i \in DOMAIN q.table /\ table[i] \in Blocks
  BY <1>9, <1>11
<1>12. Own(r, table, k)
  <2>1. ASSUME NEW i \in DOMAIN table, table[i] # NullBlock, k[table[i]] = << >>
        PROVE  /\ \A x \in Requests : x # r =>
                    \A j \in DOMAIN reqs[x].table : reqs[x].table[j] # table[i]
               /\ \A j \in DOMAIN table : table[j] = table[i] => i = j
    <3>1. table[i] = q.table[i] /\ i \in DOMAIN q.table /\ kept[q.table[i]] = << >>
      BY <1>7, <1>11, <2>1
    <3>. QED
      BY <1>1, <1>11, <2>1, <3>1 DEF Alone
  <2>. QED
    BY <2>1 DEF Own
<1>13. ASSUME NEW i \in DOMAIN table, table[i] # NullBlock, k[table[i]] # << >>
       PROVE  k[table[i]] = PrefixTo(ids, i) /\ i * BlockSize <= computed
  <2>1. table[i] = q.table[i] /\ i \in DOMAIN q.table /\ table[i] \in Blocks
    BY <1>11, <1>13
  <2>2. CASE kept[table[i]] # << >>
    <3>1. k[table[i]] = kept[table[i]]
      BY <1>7, <2>1, <2>2
    <3>2. kept[table[i]] = PrefixTo(q.ids, i) /\ i * BlockSize <= q.computed
          /\ PrefixTo(ids, i) = PrefixTo(q.ids, i)
      BY <1>6, <1>13, <2>1, <2>2
    <3>. QED
      BY <1>2, <2>1, <3>1, <3>2
  <2>3. CASE kept[table[i]] = << >>
    <3>1. full(table[i]) # {}
      BY <1>5, <1>13, <2>1, <2>3
    <3>2. i = at(table[i])
      BY <1>8, <2>1, <2>3, <3>1
    <3>3. k[table[i]] = PrefixTo(ids, at(table[i])) /\ at(table[i]) * BlockSize <= computed
      BY <1>4, <2>1, <3>1
    <3>. QED
      BY <3>2, <3>3
  <2>. QED
    BY <2>2, <2>3
<1>14. \A b \in Blocks :
         \/ k[b] = kept[b]
         \/ \E i \in DOMAIN table : /\ table[i] = b /\ i * BlockSize <= computed
                                    /\ k[b] = PrefixTo(ids, i)
  BY <1>4, <1>5
<1>15. k \in [Blocks -> Seq(TokenIds)]
  <2>1. ASSUME NEW b \in Blocks PROVE k[b] \in Seq(TokenIds)
    <3>1. CASE k[b] = kept[b]
      BY <1>1, <3>1
    <3>2. ASSUME NEW i \in DOMAIN table, i * BlockSize <= computed, k[b] = PrefixTo(ids, i)
          PROVE  k[b] \in Seq(TokenIds)
      <4>1. i \in Nat /\ i * BlockSize <= Len(ids)
        BY <1>2, <3>2
      <4>. QED
        BY <3>2, <4>1, PrefixFacts
    <3>. QED
      BY <1>14, <3>1, <3>2
  <2>2. k = [b \in Blocks |-> k[b]]
    BY DEF k, Keep
  <2>. QED
    BY <2>1, <2>2
<1>. QED
  BY <1>10, <1>12, <1>13, <1>14, <1>15 DEF KeptBy, k

\* Position o of block i.
LEMMA PlaceInBlock ==
  ASSUME NEW q \in Request, NEW i \in Nat \ {0}, NEW o \in 0..(BlockSize - 1),
         i <= Len(q.table)
  PROVE  LET pos == i * BlockSize - BlockSize + o
         IN  /\ pos \in Nat /\ pos < i * BlockSize /\ i * BlockSize \in Nat
             /\ PlaceOf(q.table, pos, i) /\ pos % BlockSize = o
<1>0. (i - 1) * BlockSize = i * BlockSize - BlockSize /\ i - 1 \in Nat
      /\ i * BlockSize \in Nat /\ (i - 1) * BlockSize \in Nat
  BY Sizes, Multiples
<1> DEFINE pos == i * BlockSize - BlockSize + o
<1>1. pos \in Nat /\ pos < i * BlockSize /\ pos = (i - 1) * BlockSize + o
  BY <1>0, Sizes
<1> HIDE DEF pos
<1>2. Len(q.table) \in Nat /\ i * BlockSize <= Len(q.table) * BlockSize
      /\ Len(q.table) * BlockSize \in Nat
  BY RequestFacts, Sizes, Multiples
<1>3. pos < Len(q.table) * BlockSize
  BY <1>0, <1>1, <1>2
<1>4. PlaceOf(q.table, pos, pos \div BlockSize + 1)
  BY <1>1, <1>3, Place
<1>5. /\ pos \div BlockSize \in Nat /\ pos % BlockSize \in 0..(BlockSize - 1)
      /\ pos = (pos \div BlockSize) * BlockSize + (pos % BlockSize)
  BY <1>1, Sizes, DivMod
<1>6. pos \div BlockSize = i - 1 /\ pos % BlockSize = o
  <2> DEFINE b == pos \div BlockSize
             m == pos % BlockSize
  <2> HIDE DEF b, m
  <2>1. b \in Nat /\ m \in 0..(BlockSize - 1) /\ b * BlockSize + m = (i - 1) * BlockSize + o
    BY <1>1, <1>5 DEF b, m
  <2>2. b = i - 1 /\ m = o
    BY <1>0, <2>1, Sizes, OneSlot
  <2>. QED
    BY <2>2 DEF b, m
<1>7. pos \div BlockSize + 1 = i
  BY <1>6
<1>8. pos \in Nat /\ pos < i * BlockSize /\ i * BlockSize \in Nat
      /\ PlaceOf(q.table, pos, i) /\ pos % BlockSize = o
  BY <1>0, <1>1, <1>4, <1>6, <1>7
<1>. QED
  BY <1>8 DEF pos

\* The tokens a request has in a full block are the last ones of its prefix.
LEMMA BlockHeld ==
  ASSUME NEW q \in Request, q.computed <= Len(q.ids),
         q.computed <= Len(q.table) * BlockSize,
         ~AllowLoad, NEW cache, HeldIn(cache, q),
         NEW b \in Blocks, NEW i \in DOMAIN q.table, q.table[i] = b,
         i * BlockSize <= q.computed, NEW j \in 1..BlockSize
  PROVE  cache[b * BlockSize + j - 1]
           = Value(PrefixTo(q.ids, i)[Len(PrefixTo(q.ids, i)) - BlockSize + j])
<1> DEFINE o == j - 1
           pos == i * BlockSize - BlockSize + o
<1>1. /\ q.ids \in Seq(TokenIds) /\ Len(q.ids) \in Nat /\ q.computed \in Nat
      /\ Len(q.table) \in Nat /\ DOMAIN q.table = 1..Len(q.table)
  BY RequestFacts
<1>2. o \in 0..(BlockSize - 1) /\ i \in Nat \ {0} /\ i <= Len(q.table)
  BY <1>1, Sizes
<1>3. /\ pos \in Nat /\ pos < i * BlockSize /\ i * BlockSize \in Nat
      /\ PlaceOf(q.table, pos, i) /\ pos % BlockSize = o
  <2> HIDE DEF o
  <2>. QED
    BY <1>2, PlaceInBlock
<1>4. pos + 1 = i * BlockSize - BlockSize + j /\ b \in Nat /\ b # NullBlock
      /\ b * BlockSize + j - 1 = b * BlockSize + o
  <2>1. b \in Nat /\ b # NullBlock /\ BlockSize \in Nat
    BY Sizes DEF Blocks, NullBlock
  <2>2. b * BlockSize \in Nat
    BY <2>1, Sizes, Multiples
  <2>. QED
    BY <1>3, <2>1, <2>2
<1> HIDE DEF o, pos
<1>5. i * BlockSize <= Len(q.ids)
  BY <1>1, <1>3
<1>6. Len(PrefixTo(q.ids, i)) = i * BlockSize
      /\ \A n \in 1..(i * BlockSize) : PrefixTo(q.ids, i)[n] = q.ids[n]
  BY <1>1, <1>2, <1>5, PrefixFacts
<1>7. pos \in 0..(q.computed - 1) /\ pos + 1 \in 1..(i * BlockSize)
  BY <1>1, <1>3
<1>8. BlockAt(q.table, pos) # NullBlock /\ SlotOf(q.table, pos) = b * BlockSize + o
  BY <1>3, <1>4 DEF PlaceOf
<1>9. cache[b * BlockSize + o] = Value(q.ids[pos + 1])
  BY <1>7, <1>8 DEF HeldIn
<1>10. PrefixTo(q.ids, i)[pos + 1] = q.ids[pos + 1]
  BY <1>6, <1>7
<1>. QED
  BY <1>4, <1>6, <1>9, <1>10

\* Blocks that become cached hold the tokens of the request they belong to.
LEMMA KeptHeldMoves ==
  ASSUME IInv, UseSlotCache, ~AllowLoad, NEW q \in Request,
         q.computed <= Len(q.ids), q.computed <= Len(q.table) * BlockSize,
         UNCHANGED <<setup, kv, cacheOf, slots>>, cacheOf = kv.id, HeldIn(slots, q),
         \A b \in Blocks :
           \/ kept'[b] = kept[b]
           \/ \E i \in DOMAIN q.table :
                /\ q.table[i] = b /\ i * BlockSize <= q.computed
                /\ kept'[b] = PrefixTo(q.ids, i)
  PROVE  KeptHeld'
<1>1. KeptHeld
  BY DEF IInv, SlotInv
<1>2. ASSUME NEW b \in Blocks, kept'[b] # << >>, NEW j \in 1..BlockSize
      PROVE  Holds(b * BlockSize + j - 1, kept[b][Len(kept[b]) - BlockSize + j])'
  <2>1. CASE kept'[b] = kept[b]
    BY <1>1, <1>2, <2>1 DEF KeptHeld, Holds
  <2>2. ASSUME NEW i \in DOMAIN q.table, q.table[i] = b, i * BlockSize <= q.computed,
               kept'[b] = PrefixTo(q.ids, i)
        PROVE  Holds(b * BlockSize + j - 1, kept[b][Len(kept[b]) - BlockSize + j])'
    <3>1. slots[b * BlockSize + j - 1] = Value(kept'[b][Len(kept'[b]) - BlockSize + j])
      BY <2>2, BlockHeld
    <3>. QED
      BY <3>1 DEF Holds
  <2>. QED
    BY <2>1, <2>2
<1>. QED
  BY <1>2 DEF KeptHeld-----------------------------------------------------------------------------
(* The engine's steps between forward passes *)

LEMMA KeptHeldStays ==
  ASSUME IInv, UseSlotCache, ~AllowLoad, UNCHANGED <<setup, kv, cacheOf, slots>>,
         \A b \in Blocks : kept'[b] \in {kept[b], << >>}
  PROVE  KeptHeld'
<1>1. KeptHeld
  BY DEF IInv, SlotInv
<1>. QED
  BY <1>1 DEF KeptHeld, Holds

LEMMA IdleFacts ==
  ASSUME IInv
  PROVE  /\ Idle \/ \E r \in Requests : Live(r)
         /\ preempts \in 0..MaxPreempts /\ kept \in [Blocks -> Seq(TokenIds)]
<1>1. TypeOK
  BY DEF IInv
<1>2. ASSUME ~Idle PROVE \E r \in Requests : Live(r)
  <2>1. batch # << >> /\ Len(batch) # 0 /\ Len(batch) \in Nat /\ DOMAIN batch = 1..Len(batch)
    BY <1>1, <1>2, LenProperties, EmptySeq DEF Idle, TypeOK
  <2>2. 1 \in DOMAIN batch
    BY <2>1
  <2>3. RowInv(batch[1]) /\ batch[1].req \in Requests
    BY <1>1, <2>2, RowTyped DEF IInv
  <2>. QED
    BY <2>3 DEF RowInv
<1>. QED
  BY <1>1, <1>2 DEF TypeOK

LEMMA BindKVKeeps ==
  ASSUME IInv, NEW n \in {0, ProfileBlocks, NumBlocks + 1}, BindKV(n)
  PROVE  IInv'
<1>1. /\ \A r \in Requests : reqs[r] = NoRequest
      /\ kv.id < MaxBinds /\ kv' = [id |-> kv.id + 1, blocks |-> n]
      /\ kept' = [b \in Blocks |-> << >>]
      /\ UNCHANGED <<setup, reqs, cacheOf, slots, batch, ngrams, preempts>>
  BY DEF BindKV
<1>2. Idle /\ TypeOK
  BY <1>1, IdleFacts DEF Live, NoRequest, IInv
<1>3. TypeOK'
  <2>1. kv.id \in 0..MaxBinds /\ MaxBinds \in Nat /\ cacheOf \in 0..kv.id
    BY <1>2, SizeAssumption DEF TypeOK
  <2>2. kv'.id = kv.id + 1 /\ kv'.blocks = n
    BY <1>1
  <2>3. kv'.id \in 0..MaxBinds /\ cacheOf \in 0..kv'.id /\ cacheOf # kv'.id
    BY <1>1, <2>1, <2>2
  <2>4. << >> \in Seq(TokenIds)
    BY EmptySeq
  <2>5. kept' \in [Blocks -> Seq(TokenIds)]
    BY <1>1, <2>4
  <2>. QED
    BY <1>1, <1>2, <2>2, <2>3, <2>5 DEF TypeOK, UseSlotCache, MaxPreempts
<1>4. KeptInv'
  BY <1>1 DEF KeptInv
<1>5. \A r \in Requests : reqs'[r] = NoRequest /\ DOMAIN reqs'[r].table = {}
  BY <1>1 DEF NoRequest
<1>6. Alone'
  BY <1>5 DEF Alone
<1>7. ASSUME NEW r \in Requests PROVE RequestInv(r)'
  <2>1. /\ reqs'[r].phase = "waiting" /\ reqs'[r].table = << >> /\ reqs'[r].computed = 0
        /\ reqs'[r].ids = << >> /\ DOMAIN reqs'[r].table = {}
    BY <1>5 DEF NoRequest
  <2>. QED
    BY <2>1 DEF RequestInv, Live
<1>8. ASSUME NEW r \in Requests PROVE Held(r)'
  <2>1. reqs'[r].computed = 0 /\ 0..(0 - 1) = {}
    BY <1>5 DEF NoRequest
  <2>. QED
    BY <2>1 DEF Held
<1>9. KeptHeld'
  BY <1>1 DEF KeptHeld
<1>10. SlotInv'
  BY <1>1, <1>2, <1>8, <1>9, NoRows DEF SlotInv
<1>. QED
  BY <1>1, <1>2, <1>3, <1>4, <1>6, <1>7, <1>10, NoRows DEF IInv

LEMMA StartKeeps ==
  ASSUME IInv, NEW r \in Requests, NEW prompt \in Prompts, NEW k \in 0..NumBlocks,
         Start(r, prompt, k)
  PROVE  IInv'
<1> DEFINE ids == IF reqs[r].ids = << >> THEN prompt ELSE reqs[r].ids
           size == IF reqs[r].ids = << >> THEN Len(prompt) ELSE reqs[r].prompt
           known == k * BlockSize
<1>1. PICK table \in [1..k -> Blocks \cup {NullBlock}] :
        /\ \A i \in 1..k :
             IF BlockOut(i, known) THEN table[i] = NullBlock
             ELSE table[i] # NullBlock /\ kept[table[i]] = PrefixTo(ids, i)
        /\ reqs' = [reqs EXCEPT ![r] =
             [phase |-> "fresh", ids |-> ids, prompt |-> size,
              computed |-> known, table |-> table]]
  BY DEF Start
<1> DEFINE q == [phase |-> "fresh", ids |-> ids, prompt |-> size,
                 computed |-> known, table |-> table]
<1>2. /\ Idle /\ kv.blocks = NumBlocks + 1 /\ reqs[r].phase = "waiting"
      /\ known < Len(ids) /\ reqs' = [reqs EXCEPT ![r] = q]
      /\ UNCHANGED <<setup, kept, kv, cacheOf, slots, batch, ngrams, preempts>>
  BY <1>1 DEF Start
<1>3. TypeOK /\ RequestInv(r) /\ reqs[r] \in Request
  BY RequestTyped DEF IInv
<1>4. /\ ids \in Seq(TokenIds) /\ Len(ids) \in Nat /\ size \in Nat
      /\ reqs[r].ids = << >> => size = Len(ids)
  BY <1>3, RequestFacts, TokenAssumption, LenProperties
<1>5. k \in Nat /\ known \in Nat
  BY Sizes, Multiples
<1>6. table \in Seq(Blocks \cup {NullBlock}) /\ Len(table) = k /\ DOMAIN table = 1..k
  BY <1>5, SeqDef, LenProperties
<1>7. q \in Request /\ reqs'[r] = q
  BY <1>2, <1>3, <1>4, <1>5, <1>6 DEF Request, TypeOK
<1>8. q.phase = "fresh" /\ q.ids = ids /\ q.prompt = size /\ q.computed = known
      /\ q.table = table
  OBVIOUS
<1>9. ASSUME NEW i \in 1..k
      PROVE  i \in Nat \ {0} /\ i * BlockSize \in Nat /\ i * BlockSize <= known
             /\ i * BlockSize <= Len(ids)
  <2>1. i \in Nat /\ i <= k
    BY <1>5
  <2>2. i * BlockSize \in Nat /\ i * BlockSize <= k * BlockSize
    BY <1>5, <2>1, Sizes, Multiples
  <2>. QED
    BY <1>2, <1>4, <1>5, <2>1, <2>2
<1> HIDE DEF q, ids, size, known
<1>10. ASSUME NEW i \in DOMAIN table, table[i] # NullBlock
       PROVE  /\ kept[table[i]] = PrefixTo(ids, i) /\ kept[table[i]] # << >>
              /\ table[i] \in Blocks
  <2>1. i \in 1..k /\ kept[table[i]] = PrefixTo(ids, i) /\ table[i] \in Blocks
    BY <1>1, <1>6, <1>10
  <2>. QED
    BY <1>4, <1>9, <2>1, PrefixNotEmpty
<1>11. RequestInv(r)'
  <2>1. known <= Len(table) * BlockSize
    BY <1>5, <1>6 DEF known
  <2>2. \A i \in DOMAIN table :
          IF table[i] = NullBlock THEN BlockOut(i, known)
          ELSE kept[table[i]] # << >> =>
                 kept[table[i]] = PrefixTo(ids, i) /\ i * BlockSize <= known
    BY <1>1, <1>6, <1>9, <1>10
  <2>. QED
    BY <1>2, <1>7, <1>8, <2>1, <2>2 DEF RequestInv, Live
<1>12. Own(r, q.table, kept') /\ Others(r, kept')
  BY <1>2, <1>8, <1>10 DEF Own, Others
<1>13. ASSUME UseSlotCache PROVE Held(r)'
  <2>1. CASE AllowLoad
    <3>1. reqs[r].ids = << >>
      BY <1>2, <1>3, <1>13, <2>1 DEF RequestInv
    <3>2. size = Len(ids)
      BY <1>4, <3>1
    <3>3. \A pos \in 0..(known - 1) : ~(pos >= size)
      BY <1>2, <1>4, <1>5, <3>2
    <3>. QED
      BY <1>2, <1>7, <1>8, <2>1, <3>3 DEF Held, AllowLoad
  <2>2. CASE ~AllowLoad
    <3>1. ASSUME NEW pos \in 0..(known - 1), BlockAt(table, pos) # NullBlock
          PROVE  Holds(SlotOf(table, pos), ids[pos + 1])
      <4> DEFINE i == pos \div BlockSize + 1
                 o == pos % BlockSize
                 b == table[i]
      <4>1. pos \in Nat /\ pos < Len(table) * BlockSize
        BY <1>5, <1>6 DEF known
      <4>2. PlaceOf(table, pos, i)
        BY <1>7, <1>8, <4>1, Place
      <4>3. /\ i \in 1..k /\ b # NullBlock /\ SlotOf(table, pos) = b * BlockSize + o
            /\ o \in 0..(BlockSize - 1) /\ pos = i * BlockSize - BlockSize + o
            /\ pos < i * BlockSize
        BY <1>6, <3>1, <4>2 DEF PlaceOf
      <4> HIDE DEF i, o
      <4>4. /\ b \in Blocks /\ kept[b] # << >> /\ kept[b] = PrefixTo(ids, i)
        BY <1>6, <1>10, <4>3
      <4> HIDE DEF b
      <4>5. o + 1 \in 1..BlockSize
        BY <4>3, Sizes
      <4>6. Holds(b * BlockSize + (o + 1) - 1,
                  kept[b][Len(kept[b]) - BlockSize + (o + 1)])
        BY <1>13, <2>2, <4>4, <4>5 DEF IInv, SlotInv, KeptHeld
      <4>7. /\ Len(PrefixTo(ids, i)) = i * BlockSize
            /\ \A n \in 1..(i * BlockSize) : PrefixTo(ids, i)[n] = ids[n]
        BY <1>4, <1>9, <4>3, PrefixFacts
      <4>8. b \in Nat /\ b * BlockSize \in Nat
        BY <4>4, Sizes, Multiples DEF Blocks
      <4>9. b * BlockSize + (o + 1) - 1 = b * BlockSize + o
        BY <4>3, <4>8, Sizes
      <4>10. Len(kept[b]) - BlockSize + (o + 1) = pos + 1 /\ pos + 1 \in 1..(i * BlockSize)
        <5>1. i * BlockSize \in Nat /\ Len(kept[b]) = i * BlockSize
          BY <1>9, <4>3, <4>4, <4>7
        <5>. QED
          BY <4>1, <4>3, <5>1, Sizes
      <4>11. kept[b][pos + 1] = ids[pos + 1]
        BY <4>4, <4>7, <4>10
      <4>. QED
        BY <4>3, <4>6, <4>9, <4>10, <4>11
    <3>. QED
      BY <1>2, <1>7, <1>8, <3>1 DEF Held, Holds, BlockAt, SlotOf
  <2>. QED
    BY <2>1, <2>2
<1>14. KeptInv'
  BY <1>2 DEF KeptInv
<1>15. UseSlotCache /\ ~AllowLoad => KeptHeld'
  BY <1>2, KeptHeldStays
<1>16. q.computed <= Len(q.ids) /\ preempts' \in 0..MaxPreempts
       /\ kept' \in [Blocks -> Seq(TokenIds)]
  BY <1>2, <1>4, <1>5, <1>8, IdleFacts
<1>. QED
  BY <1>2, <1>7, <1>11, <1>12, <1>13, <1>14, <1>15, <1>16, IdleMoves

LEMMA AllocateKeeps ==
  ASSUME IInv, NEW r \in Requests, NEW b \in Blocks, Allocate(r, b)
  PROVE  IInv'
<1> DEFINE p == reqs[r]
           q == [p EXCEPT !.table = Append(p.table, b)]
           m == Len(p.table)
<1>1. /\ Idle /\ Live(r) /\ b \in FreeBlocks
      /\ reqs' = [reqs EXCEPT ![r] = q] /\ kept' = [kept EXCEPT ![b] = << >>]
      /\ UNCHANGED <<setup, kv, cacheOf, slots, batch, ngrams, preempts>>
  BY DEF Allocate
<1>2. /\ TypeOK /\ RequestInv(r) /\ p \in Request /\ p.computed <= Len(p.ids)
      /\ kept \in [Blocks -> Seq(TokenIds)]
  BY RequestTyped, IdleFacts DEF IInv
<1>3. /\ p.table \in Seq(Blocks \cup {NullBlock}) /\ m \in Nat /\ DOMAIN p.table = 1..m
      /\ p.computed \in Nat /\ p.prompt \in Nat /\ p.ids \in Seq(TokenIds)
      /\ b # NullBlock
  BY <1>2, RequestFacts, Sizes DEF Blocks, NullBlock
<1>4. /\ q.phase = p.phase /\ q.ids = p.ids /\ q.prompt = p.prompt
      /\ q.computed = p.computed /\ q.table = Append(p.table, b)
  BY <1>2 DEF Request
<1>5. /\ q.table \in Seq(Blocks \cup {NullBlock}) /\ Len(q.table) = m + 1
      /\ DOMAIN q.table = 1..(m + 1)
      /\ (\A i \in 1..m : q.table[i] = p.table[i]) /\ q.table[m + 1] = b
  BY <1>3, <1>4, AppendProperties, LenProperties
<1>6. q \in Request
  BY <1>2, <1>5 DEF Request
<1>7. reqs'[r] = q /\ p = reqs[r]
  BY <1>1, <1>2 DEF TypeOK
<1>8. \A x \in Requests : \A i \in DOMAIN reqs[x].table : reqs[x].table[i] # b
  BY <1>1 DEF FreeBlocks, InTable
<1>9. /\ kept' \in [Blocks -> Seq(TokenIds)] /\ kept'[b] = << >>
      /\ \A c \in Blocks : c # b => kept'[c] = kept[c]
  <2>1. << >> \in Seq(TokenIds)
    BY EmptySeq
  <2>. QED
    BY <1>1, <1>2, <2>1
<1> HIDE DEF q, m, p
<1>10. ASSUME NEW x \in Requests, NEW i \in DOMAIN reqs[x].table, reqs[x].table[i] # NullBlock
       PROVE  reqs[x].table[i] \in Blocks /\ kept'[reqs[x].table[i]] = kept[reqs[x].table[i]]
  <2>1. reqs[x].table[i] \in 0..NumBlocks
    BY <1>2, <1>10, RequestTyped, RequestFacts
  <2>2. reqs[x].table[i] \in Blocks
    BY <1>10, <2>1, Sizes DEF Blocks, NullBlock
  <2>. QED
    BY <1>8, <1>9, <2>2
<1>11. Others(r, kept')
  BY <1>10 DEF Others
<1>12. ASSUME NEW i \in DOMAIN q.table, q.table[i] # NullBlock, kept'[q.table[i]] = << >>
       PROVE  /\ \A x \in Requests : x # r =>
                   \A j \in DOMAIN reqs[x].table : reqs[x].table[j] # q.table[i]
              /\ \A j \in DOMAIN q.table : q.table[j] = q.table[i] => i = j
  <2>1. CASE i = m + 1
    <3>1. q.table[i] = b /\ \A j \in 1..m : q.table[j] # b
      BY <1>3, <1>5, <1>7, <1>8, <2>1
    <3>. QED
      BY <1>3, <1>5, <1>8, <2>1, <3>1
  <2>2. CASE i # m + 1
    <3>1. i \in 1..m /\ q.table[i] = reqs[r].table[i] /\ i \in DOMAIN reqs[r].table
      BY <1>3, <1>5, <1>7, <2>2
    <3>2. kept[reqs[r].table[i]] = << >> /\ reqs[r].table[i] # b
      BY <1>8, <1>10, <1>12, <3>1
    <3>3. ASSUME NEW j \in DOMAIN q.table, q.table[j] = q.table[i] PROVE i = j
      <4>1. j \in 1..m
        BY <1>3, <1>5, <3>1, <3>2, <3>3
      <4>2. q.table[j] = reqs[r].table[j] /\ j \in DOMAIN reqs[r].table
        BY <1>3, <1>5, <1>7, <4>1
      <4>. QED
        BY <1>12, <3>1, <3>2, <3>3, <4>2 DEF IInv, Alone
    <3>. QED
      BY <1>12, <3>1, <3>2, <3>3 DEF IInv, Alone
  <2>. QED
    BY <2>1, <2>2
<1>13. Own(r, q.table, kept')
  BY <1>12 DEF Own
<1>14. RequestInv(r)'
  <2>1. m * BlockSize \in Nat /\ (m + 1) * BlockSize = m * BlockSize + BlockSize
    BY <1>3, Sizes, Multiples
  <2>2. /\ kv.blocks = NumBlocks + 1 /\ p.computed < Len(p.ids)
        /\ p.computed <= m * BlockSize
    BY <1>1, <1>2 DEF RequestInv, m, p
  <2>3. p.computed <= (m + 1) * BlockSize
    BY <1>3, <2>1, <2>2, Sizes
  <2>4. ASSUME NEW i \in DOMAIN q.table
        PROVE  IF q.table[i] = NullBlock THEN BlockOut(i, p.computed)
               ELSE kept'[q.table[i]] # << >> =>
                      kept'[q.table[i]] = PrefixTo(p.ids, i) /\ i * BlockSize <= p.computed
    <3>1. CASE i = m + 1
      BY <1>3, <1>5, <1>9, <3>1
    <3>2. CASE i # m + 1
      <4>1. i \in 1..m /\ q.table[i] = reqs[r].table[i] /\ i \in DOMAIN reqs[r].table
        BY <1>3, <1>5, <1>7, <3>2
      <4>2. IF reqs[r].table[i] = NullBlock THEN BlockOut(i, p.computed)
            ELSE kept[reqs[r].table[i]] # << >> =>
                   kept[reqs[r].table[i]] = PrefixTo(p.ids, i)
                   /\ i * BlockSize <= p.computed
        BY <1>2, <1>7, <4>1 DEF RequestInv
      <4>. QED
        BY <1>10, <4>1, <4>2
    <3>. QED
      BY <3>1, <3>2
  <2>5. /\ reqs'[r].phase \in {"fresh", "running"} /\ reqs'[r].ids = p.ids
        /\ reqs'[r].computed = p.computed /\ reqs'[r].table = q.table
        /\ kv'.blocks = NumBlocks + 1 /\ Len(q.table) = m + 1
    BY <1>1, <1>4, <1>5, <1>7, <2>2 DEF Live
  <2>. QED
    BY <2>2, <2>3, <2>4, <2>5 DEF RequestInv, Live
<1>15. ASSUME UseSlotCache PROVE Held(r)'
  <2>1. ASSUME NEW pos \in 0..(p.computed - 1), ~AllowLoad \/ pos >= p.prompt,
               BlockAt(q.table, pos) # NullBlock
        PROVE  Holds(SlotOf(q.table, pos), p.ids[pos + 1])
    <3>1. p.computed <= m * BlockSize /\ m * BlockSize \in Nat
      BY <1>1, <1>2, <1>3, Sizes, Multiples DEF RequestInv, m, p
    <3>2. pos \in Nat /\ pos < m * BlockSize
      BY <1>3, <3>1
    <3>3. pos \div BlockSize + 1 \in 1..m
      BY <1>2, <1>3, <3>2, Place DEF PlaceOf, m
    <3>4. BlockAt(q.table, pos) = BlockAt(p.table, pos)
          /\ SlotOf(q.table, pos) = SlotOf(p.table, pos)
      BY <1>5, <3>3 DEF BlockAt, SlotOf
    <3>. QED
      BY <1>7, <1>15, <2>1, <3>4 DEF IInv, SlotInv, Held
  <2>. QED
    BY <1>1, <1>4, <1>7, <2>1 DEF Held, Holds, BlockAt, SlotOf, AllowLoad
<1>16. KeptInv'
  BY <1>1, <1>9 DEF KeptInv, IInv
<1>17. UseSlotCache /\ ~AllowLoad => KeptHeld'
  BY <1>1, <1>9, KeptHeldStays
<1>18. q.computed <= Len(q.ids) /\ preempts' \in 0..MaxPreempts
  BY <1>1, <1>2, <1>4, IdleFacts
<1>. QED
  BY <1>1, <1>6, <1>9, <1>11, <1>13, <1>14, <1>15, <1>16, <1>17, <1>18, IdleMoves

\* What has passed the window stays passed.
LEMMA OutStaysOut ==
  ASSUME NEW i \in Nat, NEW a \in Nat, NEW c \in Nat, a <= c, BlockOut(i, a)
  PROVE  BlockOut(i, c)
<1>1. i * BlockSize \in Nat /\ WindowSize \in Nat
  BY Sizes, Multiples
<1>. QED
  BY <1>1 DEF BlockOut, InWindow

LEMMA LoadKeeps ==
  ASSUME IInv, NEW r \in Requests, NEW n \in 1..MaxLen, Load(r, n)
  PROVE  IInv'
<1> DEFINE p == reqs[r]
           q == [p EXCEPT !.phase = "running", !.computed = n]
<1>1. /\ AllowLoad /\ Idle /\ p.phase = "fresh" /\ p.computed < n /\ n <= p.prompt
      /\ n < Len(p.ids) /\ n <= Len(p.table) * BlockSize
      /\ kept' = Keep(kept, p.ids, p.table, n)
      /\ UNCHANGED <<setup, kv, cacheOf, slots, batch, ngrams, preempts>>
  BY DEF Load
<1>2. /\ TypeOK /\ RequestInv(r) /\ p \in Request /\ p.computed <= Len(p.ids)
  BY RequestTyped DEF IInv
<1>3. /\ p.table \in Seq(Blocks \cup {NullBlock}) /\ p.computed \in Nat
      /\ p.prompt \in Nat /\ p.ids \in Seq(TokenIds) /\ Len(p.ids) \in Nat
      /\ \A i \in DOMAIN p.table : i \in Nat
  BY <1>2, RequestFacts
<1>4. reqs' = [reqs EXCEPT ![r] = q]
  <2>1. reqs' = [reqs EXCEPT ![r].phase = "running", ![r].computed = n]
    BY DEF Load
  <2>2. reqs \in [Requests -> Request]
    BY <1>2 DEF TypeOK
  <2>. QED
    BY <2>1, <2>2 DEF Request
<1>5. /\ q.phase = "running" /\ q.ids = p.ids /\ q.prompt = p.prompt
      /\ q.computed = n /\ q.table = p.table /\ n \in Nat /\ q \in Request
  <2>1. n \in Nat
    BY Sizes
  <2>. QED
    BY <1>2, <2>1 DEF Request
<1>6. reqs'[r] = q /\ p = reqs[r]
  BY <1>2, <1>4 DEF TypeOK
<1>7. Live(r) /\ kv.blocks = NumBlocks + 1
  BY <1>1, <1>2 DEF Live, RequestInv
<1> HIDE DEF q, p
<1>8. KeptBy(r, p.ids, p.table, n, kept')
  <2>1. Extends(p.ids, p.ids)
    BY <1>3 DEF Extends
  <2>2. p.computed <= n /\ n <= Len(p.ids)
    BY <1>1, <1>3, <1>5
  <2>. QED
    BY <1>1, <1>3, <1>5, <1>6, <1>7, <2>1, <2>2, KeepFacts
<1>9. RequestInv(r)'
  <2>1. ASSUME NEW i \in DOMAIN p.table
        PROVE  IF p.table[i] = NullBlock THEN BlockOut(i, n)
               ELSE kept'[p.table[i]] # << >> =>
                      kept'[p.table[i]] = PrefixTo(p.ids, i) /\ i * BlockSize <= n
    <3>1. CASE p.table[i] = NullBlock
      <4>1. BlockOut(i, p.computed)
        BY <1>2, <1>6, <3>1 DEF RequestInv
      <4>2. p.computed <= n
        BY <1>1, <1>3, <1>5
      <4>3. BlockOut(i, n)
        BY <1>3, <1>5, <4>1, <4>2, OutStaysOut
      <4>. QED
        BY <3>1, <4>3
    <3>2. CASE p.table[i] # NullBlock
      BY <1>8, <3>2 DEF KeptBy
    <3>. QED
      BY <3>1, <3>2
  <2>. QED
    BY <1>1, <1>5, <1>6, <1>7, <2>1 DEF RequestInv, Live
<1>10. Held(r)'
  <2>1. \A pos \in 0..(n - 1) : ~(pos >= p.prompt)
    BY <1>1, <1>3, <1>5
  <2>. QED
    BY <1>1, <1>5, <1>6, <2>1 DEF Held, AllowLoad
<1>11. KeptInv'
  BY <1>1, <1>7 DEF KeptInv
<1>12. /\ kept' \in [Blocks -> Seq(TokenIds)] /\ Others(r, kept') /\ Own(r, q.table, kept')
  BY <1>5, <1>8 DEF KeptBy
<1>13. q.computed <= Len(q.ids) /\ preempts' \in 0..MaxPreempts
  BY <1>1, <1>3, <1>5, IdleFacts
<1>. QED
  BY <1>1, <1>4, <1>5, <1>9, <1>10, <1>11, <1>12, <1>13, IdleMoves

LEMMA FinishKeeps ==
  ASSUME IInv, NEW r \in Requests, Finish(r)
  PROVE  IInv'
<1> DEFINE q == [NoRequest EXCEPT !.phase = "done"]
<1>1. /\ Idle /\ reqs' = [reqs EXCEPT ![r] = q]
      /\ UNCHANGED <<setup, kept, kv, cacheOf, slots, batch, ngrams, preempts>>
  BY DEF Finish
<1>2. /\ << >> \in Seq(TokenIds) /\ << >> \in Seq(Blocks \cup {NullBlock})
      /\ Len(<< >>) = 0 /\ DOMAIN << >> = {}
  BY EmptySeq
<1>3. /\ q.phase = "done" /\ q.ids = << >> /\ q.prompt = 0 /\ q.computed = 0
      /\ q.table = << >> /\ q \in Request
  BY <1>2 DEF NoRequest, Request
<1>4. DOMAIN q.table = {} /\ q.computed <= Len(q.ids)
  BY <1>2, <1>3
<1>5. reqs'[r] = q
  BY <1>1 DEF IInv, TypeOK
<1> HIDE DEF q
<1>6. Others(r, kept') /\ Own(r, q.table, kept')
  BY <1>1, <1>4 DEF Others, Own
<1>7. RequestInv(r)'
  BY <1>3, <1>4, <1>5 DEF RequestInv, Live
<1>8. Held(r)'
  <2>1. 0..(0 - 1) = {}
    OBVIOUS
  <2>. QED
    BY <1>3, <1>5, <2>1 DEF Held
<1>9. KeptInv' /\ kept' \in [Blocks -> Seq(TokenIds)] /\ preempts' \in 0..MaxPreempts
  BY <1>1, IdleFacts DEF KeptInv, IInv
<1>10. UseSlotCache /\ ~AllowLoad => KeptHeld'
  BY <1>1, KeptHeldStays
<1>. QED
  BY <1>1, <1>3, <1>4, <1>6, <1>7, <1>8, <1>9, <1>10, IdleMoves

\* Where a connector may have loaded KV of a V1 request, none is preempted.
LoadOrPreempt == \A s \in Setups : s.slotCache /\ s.load => s.preempts = 0

LEMMA PreemptKeeps ==
  ASSUME LoadOrPreempt, IInv, NEW r \in Requests, Preempt(r)
  PROVE  IInv'
<1> DEFINE p == reqs[r]
           q == [p EXCEPT !.phase = "waiting", !.computed = 0, !.table = << >>]
<1>1. /\ preempts < MaxPreempts /\ Idle /\ preempts' = preempts + 1
      /\ reqs' = [reqs EXCEPT ![r] = q]
      /\ UNCHANGED <<setup, kept, kv, cacheOf, slots, batch, ngrams>>
  BY DEF Preempt
<1>2. TypeOK /\ p \in Request /\ setup \in Setups
  BY RequestTyped DEF IInv, TypeOK
<1>3. /\ MaxPreempts \in Nat /\ preempts \in 0..MaxPreempts
  BY <1>2, SetupAssumption DEF TypeOK, MaxPreempts
<1>4. ~(UseSlotCache /\ AllowLoad) /\ preempts' \in 0..MaxPreempts
  BY <1>1, <1>2, <1>3 DEF LoadOrPreempt, UseSlotCache, AllowLoad, MaxPreempts
<1>5. << >> \in Seq(Blocks \cup {NullBlock}) /\ p.ids \in Seq(TokenIds) /\ Len(p.ids) \in Nat
  BY <1>2, EmptySeq, RequestFacts
<1>6. /\ q.phase = "waiting" /\ q.ids = p.ids /\ q.computed = 0
      /\ q.table = << >> /\ DOMAIN q.table = {} /\ q \in Request
  <2>1. /\ q.phase = "waiting" /\ q.ids = p.ids /\ q.computed = 0
        /\ q.table = << >> /\ q \in Request
    BY <1>2, <1>5 DEF Request
  <2>2. DOMAIN << >> = {}
    OBVIOUS
  <2>. QED
    BY <2>1, <2>2
<1>7. reqs'[r] = q
  BY <1>1, <1>2 DEF TypeOK
<1> HIDE DEF p, q
<1>8. Others(r, kept') /\ Own(r, q.table, kept')
  BY <1>1, <1>6 DEF Others, Own
<1>9. RequestInv(r)'
  BY <1>1, <1>4, <1>6, <1>7 DEF RequestInv, Live, UseSlotCache, AllowLoad
<1>10. Held(r)'
  <2>1. 0..(0 - 1) = {}
    OBVIOUS
  <2>. QED
    BY <1>6, <1>7, <2>1 DEF Held
<1>11. KeptInv' /\ kept' \in [Blocks -> Seq(TokenIds)]
  BY <1>1, IdleFacts DEF KeptInv, IInv
<1>12. UseSlotCache /\ ~AllowLoad => KeptHeld'
  BY <1>1, KeptHeldStays
<1>13. q.computed <= Len(q.ids)
  BY <1>5, <1>6
<1>. QED
  BY <1>1, <1>4, <1>6, <1>8, <1>9, <1>10, <1>11, <1>12, <1>13, IdleMoves
-----------------------------------------------------------------------------
(* Rows join a step and leave it *)

\* What AddRow takes into the step is the text that follows what is computed.
Chunk(ids, known, n, drafts) == SubSeq(ids, known + 1, known + n) \o drafts
Follows(chunk, ids, known) ==
  /\ chunk \in Seq(TokenIds) /\ Len(chunk) \in Nat /\ chunk # << >>
  /\ \A k \in 1..Len(chunk) : known + k <= Len(ids) => chunk[k] = ids[known + k]

LEMMA ChunkFacts ==
  ASSUME NEW ids \in Seq(TokenIds), NEW known \in Nat, NEW n \in Nat \ {0},
         known + n <= Len(ids), NEW drafts \in Seq(TokenIds),
         drafts # << >> => known + n = Len(ids)
  PROVE  Follows(Chunk(ids, known, n, drafts), ids, known)
<1> DEFINE a == SubSeq(ids, known + 1, known + n)
           chunk == Chunk(ids, known, n, drafts)
<1>1. /\ a \in Seq(TokenIds) /\ Len(a) = n
      /\ \A k \in 1..n : a[k] = ids[known + k]
  <2>1. known + 1 \in Nat \ {0} /\ known + n \in Nat /\ known + 1 <= known + n + 1
        /\ (known + n) - (known + 1) + 1 = n /\ Len(ids) \in Nat
    BY LenProperties
  <2>2. /\ a \in Seq(TokenIds) /\ Len(a) = (known + n) - (known + 1) + 1
        /\ \A k \in 1..((known + n) - (known + 1) + 1) : a[k] = ids[(known + 1) + k - 1]
    <3> DEFINE from == known + 1
               to == known + n
    <3>1. from \in Nat \ {0} /\ to \in Nat /\ from <= to + 1 /\ to <= Len(ids)
          /\ a = SubSeq(ids, from, to)
      BY <2>1
    <3> HIDE DEF from, to, a
    <3>2. /\ SubSeq(ids, from, to) \in Seq(TokenIds)
          /\ Len(SubSeq(ids, from, to)) = to - from + 1
          /\ \A k \in 1..(to - from + 1) : SubSeq(ids, from, to)[k] = ids[from + k - 1]
      BY <3>1, SubSeqAt
    <3>3. /\ a \in Seq(TokenIds) /\ Len(a) = to - from + 1
          /\ \A k \in 1..(to - from + 1) : a[k] = ids[from + k - 1]
      BY <3>1, <3>2
    <3>. QED
      BY <3>3 DEF from, to
  <2> HIDE DEF a
  <2>3. ASSUME NEW k \in 1..n PROVE a[k] = ids[known + k]
    <3>1. (known + 1) + k - 1 = known + k
      OBVIOUS
    <3>2. a[k] = ids[(known + 1) + k - 1]
      BY <2>1, <2>2
    <3>. QED
      BY <3>1, <3>2
  <2>. QED
    BY <2>1, <2>2, <2>3
<1>2. chunk = a \o drafts
  BY DEF Chunk
<1> HIDE DEF a, chunk
<1>3. Len(drafts) \in Nat /\ (Len(drafts) = 0 => drafts = << >>) /\ Len(ids) \in Nat
  <2>1. Len(drafts) = 0 => drafts = << >>
    BY EmptySeq
  <2>. QED
    BY <2>1, LenProperties
<1>4. /\ chunk \in Seq(TokenIds) /\ Len(chunk) = n + Len(drafts)
      /\ \A k \in 1..n : chunk[k] = a[k]
  <2>1. /\ a \o drafts \in Seq(TokenIds) /\ Len(a \o drafts) = Len(a) + Len(drafts)
        /\ \A k \in 1..(Len(a) + Len(drafts)) :
             (a \o drafts)[k] = IF k <= Len(a) THEN a[k] ELSE drafts[k - Len(a)]
    <3>1. a \in Seq(TokenIds) /\ drafts \in Seq(TokenIds)
      BY <1>1
    <3> HIDE DEF a
    <3>2. a \o drafts \in Seq(TokenIds) /\ Len(a \o drafts) = Len(a) + Len(drafts)
      BY <3>1, ConcatProperties
    <3>3. ASSUME NEW k \in 1..(Len(a) + Len(drafts))
          PROVE  (a \o drafts)[k] = IF k <= Len(a) THEN a[k] ELSE drafts[k - Len(a)]
      BY <3>1, ConcatProperties
    <3>. QED
      BY <3>2, <3>3
  <2>2. \A k \in 1..n : k \in 1..(n + Len(drafts)) /\ k <= n
    BY <1>3
  <2>. QED
    BY <1>1, <1>2, <2>1, <2>2
<1>5. ASSUME NEW k \in 1..Len(chunk), known + k <= Len(ids)
      PROVE  chunk[k] = ids[known + k]
  <2>1. k \in 1..n
    <3>1. CASE drafts = << >>
      <4>1. Len(drafts) = 0
        BY <3>1, EmptySeq
      <4>. QED
        BY <1>4, <4>1
    <3>2. CASE drafts # << >>
      BY <1>4, <1>5, <1>3, <3>2
    <3>. QED
      BY <3>1, <3>2
  <2>. QED
    BY <1>1, <1>4, <2>1
<1>6. chunk # << >> /\ Len(chunk) \in Nat
  <2>1. Len(chunk) \in Nat /\ Len(chunk) # 0
    BY <1>4, <1>3
  <2>. QED
    BY <1>4, <2>1, EmptySeq
<1>. QED
  BY <1>4, <1>5, <1>6 DEF Follows, chunk

LEMMA AddRowKeeps ==
  ASSUME IInv, NEW r \in Requests, NEW n \in 1..MaxChunk, NEW drafts \in DraftSeqs,
         AddRow(r, n, drafts)
  PROVE  IInv'
<1> DEFINE p == reqs[r]
           chunk == Chunk(p.ids, p.computed, n, drafts)
           row == [req |-> r, start |-> p.computed, ids |-> chunk]
<1>1. /\ ngrams = << >> /\ Live(r) /\ ~InBatch(r)
      /\ p.computed + n <= Len(p.ids)
      /\ drafts # << >> => p.computed + n = Len(p.ids)
      /\ p.computed + Len(chunk) <= Len(p.table) * BlockSize
      /\ p.computed + Len(chunk) < MaxLen
      /\ batch' = Append(batch, row)
      /\ UNCHANGED <<setup, reqs, kept, kv, cacheOf, slots, ngrams, preempts>>
  BY DEF AddRow, Chunk
<1>2. TypeOK /\ p \in Request
  BY RequestTyped DEF IInv
<1>3. p.ids \in Seq(TokenIds) /\ p.computed \in Nat /\ Len(p.ids) \in Nat
  BY <1>2, RequestFacts
<1>4. n \in Nat \ {0} /\ drafts \in Seq(TokenIds)
  <2>1. MaxChunk \in Nat /\ MaxDrafts \in Nat /\ Sampled \subseteq TokenIds
    BY SizeAssumption, TokenAssumption
  <2>2. PICK d \in 0..MaxDrafts : drafts \in [1..d -> Sampled]
    BY DEF DraftSeqs
  <2>3. d \in Nat /\ drafts \in [1..d -> TokenIds]
    BY <2>1, <2>2
  <2>4. drafts \in Seq(TokenIds)
    BY <2>3, SeqDef
  <2>. QED
    BY <2>1, <2>4
<1>5. /\ chunk \in Seq(TokenIds) /\ Len(chunk) \in Nat /\ chunk # << >>
      /\ \A k \in 1..Len(chunk) :
           p.computed + k <= Len(p.ids) => chunk[k] = p.ids[p.computed + k]
  <2>1. /\ p.computed + n <= Len(p.ids)
        /\ (drafts # << >> => p.computed + n = Len(p.ids))
    BY <1>1
  <2>2. Follows(chunk, p.ids, p.computed)
    <3> HIDE DEF row, p
    <3>. QED
      BY <1>3, <1>4, <2>1, ChunkFacts
  <2>. QED
    BY <2>2 DEF Follows
<1> HIDE DEF chunk
<1>6. /\ row \in [req : Requests, start : Nat, ids : Seq(TokenIds)]
      /\ row.req = r /\ row.start = p.computed /\ row.ids = chunk
  BY <1>3, <1>5
<1> HIDE DEF row
<1>7. /\ batch' \in Seq([req : Requests, start : Nat, ids : Seq(TokenIds)])
      /\ Len(batch') = Len(batch) + 1 /\ Len(batch) \in Nat
      /\ DOMAIN batch = 1..Len(batch) /\ DOMAIN batch' = 1..(Len(batch) + 1)
      /\ (\A i \in 1..Len(batch) : batch'[i] = batch[i]) /\ batch'[Len(batch) + 1] = row
  <2>1. batch \in Seq([req : Requests, start : Nat, ids : Seq(TokenIds)])
    BY <1>2 DEF TypeOK
  <2>. QED
    BY <1>1, <1>6, <2>1, AppendProperties, LenProperties
<1>8. TypeOK'
  <2>1. Len(ngrams) = 0
    BY <1>1, EmptySeq
  <2>. QED
    BY <1>1, <1>2, <1>7, <2>1 DEF TypeOK, UseSlotCache, MaxPreempts
<1>9. ASSUME NEW x \in Requests PROVE RequestInv(x)'
  <2>1. RequestInv(x)
    BY DEF IInv
  <2>. QED
    BY <1>1, <2>1 DEF RequestInv, Live, UseSlotCache, AllowLoad
<1>10. KeptInv' /\ Alone'
  BY <1>1 DEF IInv, KeptInv, Alone
<1>11. RowsApart'
  <2>1. ASSUME NEW i \in DOMAIN batch', NEW j \in DOMAIN batch',
               batch'[i].req = batch'[j].req
        PROVE  i = j
    <3>1. \A m \in 1..Len(batch) : batch[m].req # r
      BY <1>1, <1>7 DEF InBatch
    <3>2. CASE i \in 1..Len(batch) /\ j \in 1..Len(batch)
      BY <1>7, <2>1, <3>2 DEF IInv, RowsApart
    <3>3. CASE i = Len(batch) + 1 \/ j = Len(batch) + 1
      <4>1. \A m \in 1..Len(batch) : batch'[m].req # r
        BY <1>7, <3>1
      <4>2. batch'[Len(batch) + 1].req = r
        BY <1>6, <1>7
      <4>. QED
        BY <1>7, <2>1, <3>3, <4>1, <4>2
    <3>. QED
      BY <1>7, <3>2, <3>3
  <2>. QED
    BY <2>1 DEF RowsApart
<1>12. ASSUME NEW i \in DOMAIN batch' PROVE RowInv(batch[i])'
  <2>1. CASE i \in 1..Len(batch)
    <3>1. RowInv(batch[i]) /\ batch'[i] = batch[i]
      BY <1>7, <2>1 DEF IInv
    <3>. QED
      BY <1>1, <3>1 DEF RowInv, Live
  <2>2. CASE i = Len(batch) + 1
    <3>1. batch'[i] = row
      BY <1>7, <2>2
    <3>2. p.computed + Len(chunk) <= MaxLen
      BY <1>1, <1>3, <1>5, Sizes
    <3>3. /\ batch'[i].req = r /\ batch'[i].start = p.computed /\ batch'[i].ids = chunk
          /\ reqs'[r] = p /\ reqs' = reqs
      BY <1>1, <1>6, <3>1
    <3>. QED
      BY <1>1, <1>5, <3>2, <3>3 DEF RowInv, Live
  <2>. QED
    BY <1>7, <2>1, <2>2
<1>13. SlotInv'
  <2>1. ASSUME UseSlotCache, NEW x \in Requests PROVE Held(x)'
    <3>1. Held(x)
      BY <2>1 DEF IInv, SlotInv
    <3>. QED
      BY <1>1, <3>1 DEF Held, Holds, BlockAt, SlotOf, AllowLoad
  <2>2. UseSlotCache /\ ~AllowLoad => KeptHeld'
    BY <1>1, KeptHeldStays
  <2>. QED
    BY <1>1, <2>1, <2>2 DEF SlotInv, UseSlotCache, AllowLoad
<1>14. NgramsMatchHistory' /\ NgramsInv'
  BY <1>1 DEF NgramsMatchHistory, NgramsInv
<1>. QED
  BY <1>8, <1>9, <1>10, <1>11, <1>12, <1>13, <1>14 DEF IInv

\* What CommitRow makes of a request's text and of how much of it is computed.
NewText(row, ids, accepted, token) ==
  IF row.start + Len(row.ids) >= Len(ids)
  THEN Append(ids \o SubSeq(row.ids, Len(ids) - row.start + 1,
                                     Len(ids) - row.start + accepted), token)
  ELSE ids
NewComputed(row, ids, accepted, token) ==
  IF row.start + Len(row.ids) >= Len(ids)
  THEN Len(NewText(row, ids, accepted, token)) - 1 ELSE row.start + Len(row.ids)

\* The text goes on from the one before, and agrees with the row where computed.
GoesOn(row, ids, new, computed) ==
  /\ new \in Seq(TokenIds) /\ Len(new) \in Nat /\ Extends(new, ids)
  /\ computed \in Nat /\ row.start <= computed /\ computed < Len(new)
  /\ computed <= row.start + Len(row.ids)
  /\ \A pos \in row.start .. (computed - 1) : new[pos + 1] = TokenAt(row, pos)

LEMMA TextGoesOn ==
  ASSUME NEW row, row.start \in Nat, row.ids \in Seq(TokenIds),
         NEW ids \in Seq(TokenIds), row.start < Len(ids),
         \A k \in 1..Len(row.ids) :
           row.start + k <= Len(ids) => row.ids[k] = ids[row.start + k],
         NEW accepted \in Nat, NEW token \in TokenIds,
         accepted <= IF row.start + Len(row.ids) - Len(ids) > 0
                     THEN row.start + Len(row.ids) - Len(ids) ELSE 0
  PROVE  GoesOn(row, ids, NewText(row, ids, accepted, token),
                NewComputed(row, ids, accepted, token))
<1> DEFINE new == NewText(row, ids, accepted, token)
           computed == NewComputed(row, ids, accepted, token)
           L == Len(ids)
           s == row.start
           chunk == row.ids
           n == Len(chunk)
<1>1. /\ L \in Nat /\ n \in Nat /\ s \in Nat /\ chunk \in Seq(TokenIds) /\ s < L
      /\ accepted <= IF s + n - L > 0 THEN s + n - L ELSE 0
  BY LenProperties
<1>2. CASE ~(s + n >= L)
  <2>1. new = ids /\ computed = s + n
    BY <1>2 DEF NewText, NewComputed
  <2> HIDE DEF new, computed
  <2>2. ASSUME NEW pos \in s .. (computed - 1) PROVE new[pos + 1] = TokenAt(row, pos)
    <3>1. pos - s + 1 \in 1..n /\ s + (pos - s + 1) = pos + 1 /\ pos + 1 <= L
      <4> HIDE DEF L, s, n
      <4>. QED
        BY <1>1, <1>2, <2>1
    <3>. QED
      BY <2>1, <3>1 DEF TokenAt
  <2>3. Extends(new, ids)
    BY <1>1, <2>1 DEF Extends
  <2>. QED
    BY <1>1, <1>2, <2>1, <2>2, <2>3 DEF GoesOn, new, computed
<1>3. CASE s + n >= L
  <2> DEFINE a == SubSeq(chunk, L - s + 1, L - s + accepted)
             b == ids \o a
  <2>1. new = Append(b, token) /\ computed = Len(new) - 1
    BY <1>3 DEF NewText, NewComputed
  <2> HIDE DEF new, computed
  <2>2. /\ L - s + 1 \in Nat \ {0} /\ L - s + accepted \in Nat
        /\ L - s + 1 <= L - s + accepted + 1 /\ L - s + accepted <= n
        /\ (L - s + accepted) - (L - s + 1) + 1 = accepted
    <3> HIDE DEF L, s, n
    <3>. QED
      BY <1>1, <1>3
  <2>3. /\ a \in Seq(TokenIds) /\ Len(a) = accepted
        /\ \A k \in 1..accepted : a[k] = chunk[(L - s + 1) + k - 1]
    <3> DEFINE from == L - s + 1
               to == L - s + accepted
    <3>1. from \in Nat \ {0} /\ to \in Nat /\ from <= to + 1 /\ to <= Len(chunk)
          /\ to - from + 1 = accepted /\ a = SubSeq(chunk, from, to)
      BY <2>2
    <3> HIDE DEF from, to, a
    <3>2. /\ SubSeq(chunk, from, to) \in Seq(TokenIds)
          /\ Len(SubSeq(chunk, from, to)) = to - from + 1
          /\ \A k \in 1..(to - from + 1) : SubSeq(chunk, from, to)[k] = chunk[from + k - 1]
      BY <1>1, <3>1, SubSeqAt
    <3>3. /\ a \in Seq(TokenIds) /\ Len(a) = accepted
          /\ \A k \in 1..accepted : a[k] = chunk[from + k - 1]
      BY <3>1, <3>2
    <3>. QED
      BY <3>3 DEF from
  <2>4. /\ ids \o a \in Seq(TokenIds) /\ Len(ids \o a) = Len(ids) + Len(a)
        /\ \A k \in 1..(Len(ids) + Len(a)) :
             (ids \o a)[k] = IF k <= Len(ids) THEN ids[k] ELSE a[k - Len(ids)]
    <3> HIDE DEF a
    <3>1. a \in Seq(TokenIds)
      BY <2>3
    <3>2. ids \o a \in Seq(TokenIds) /\ Len(ids \o a) = Len(ids) + Len(a)
      BY <3>1, ConcatProperties
    <3>3. ASSUME NEW k \in 1..(Len(ids) + Len(a))
          PROVE  (ids \o a)[k] = IF k <= Len(ids) THEN ids[k] ELSE a[k - Len(ids)]
      BY <3>1, ConcatProperties
    <3>. QED
      BY <3>2, <3>3
  <2>5. /\ b \in Seq(TokenIds) /\ Len(b) = L + accepted
        /\ \A k \in 1..(L + accepted) : b[k] = IF k <= L THEN ids[k] ELSE a[k - L]
    BY <2>3, <2>4
  <2> HIDE DEF a, b
  <2>6. /\ new \in Seq(TokenIds) /\ Len(new) = L + accepted + 1
        /\ \A k \in 1..(L + accepted) : new[k] = b[k]
    <3>1. /\ Append(b, token) \in Seq(TokenIds) /\ Len(Append(b, token)) = Len(b) + 1
          /\ \A k \in 1..Len(b) : Append(b, token)[k] = b[k]
      BY <2>5, AppendProperties
    <3>. QED
      BY <2>1, <2>5, <3>1
  <2>7. computed = L + accepted /\ computed \in Nat /\ computed <= s + n /\ s <= computed
        /\ computed < Len(new) /\ Len(new) \in Nat
    <3> HIDE DEF L, s, n
    <3>. QED
      BY <1>1, <2>1, <2>2, <2>6
  <2>8. ASSUME NEW pos \in s .. (computed - 1) PROVE new[pos + 1] = TokenAt(row, pos)
    <3>1. /\ pos \in Nat /\ pos + 1 \in 1..(L + accepted) /\ pos - s + 1 \in 1..n
          /\ s + (pos - s + 1) = pos + 1
      <4> HIDE DEF L, s, n
      <4>. QED
        BY <1>1, <2>7
    <3>2. CASE pos + 1 <= L
      <4>1. new[pos + 1] = ids[pos + 1]
        BY <2>5, <2>6, <3>1, <3>2
      <4>2. chunk[pos - s + 1] = ids[s + (pos - s + 1)]
        BY <3>1, <3>2
      <4>. QED
        BY <3>1, <4>1, <4>2 DEF TokenAt
    <3>3. CASE ~(pos + 1 <= L)
      <4>1. new[pos + 1] = a[pos + 1 - L] /\ pos + 1 - L \in 1..accepted
        BY <1>1, <2>5, <2>6, <3>1, <3>3
      <4>2. (L - s + 1) + (pos + 1 - L) - 1 = pos - s + 1
        BY <1>1, <3>1
      <4>3. a[pos + 1 - L] = chunk[(L - s + 1) + (pos + 1 - L) - 1]
        BY <2>3, <4>1
      <4>. QED
        BY <4>1, <4>2, <4>3 DEF TokenAt
    <3>. QED
      BY <3>2, <3>3
  <2>9. Extends(new, ids)
    <3>1. \A k \in 1..L : k \in 1..(L + accepted) /\ k <= L
      BY <1>1
    <3>2. \A k \in 1..L : new[k] = ids[k]
      BY <2>5, <2>6, <3>1
    <3>3. Len(ids) <= Len(new)
      BY <1>1, <2>6
    <3>. QED
      BY <3>2, <3>3 DEF Extends
  <2>. QED
    BY <2>6, <2>7, <2>8, <2>9 DEF GoesOn, new, computed
<1>. QED
  BY <1>2, <1>3

\* What CommitRow does to the request of the head row.
Commits(r, ids, computed, table) ==
  /\ 1 \in DOMAIN batch /\ r = batch[1].req /\ r \in Requests /\ Live(r)
  /\ batch[1].start = reqs[r].computed /\ batch[1].ids # << >>
  /\ batch[1].start + Len(batch[1].ids) <= Len(reqs[r].table) * BlockSize
  /\ GoesOn(batch[1], reqs[r].ids, ids, computed)
  /\ table = [i \in DOMAIN reqs[r].table |->
                IF BlockOut(i, computed) THEN NullBlock ELSE reqs[r].table[i]]
  /\ reqs' = [reqs EXCEPT ![r] =
                [reqs[r] EXCEPT !.phase = "running", !.ids = ids,
                                !.computed = computed, !.table = table]]
  /\ kept' = Keep(kept, ids, table, computed)
  /\ batch' = Tail(batch) /\ ngrams # << >>
  /\ ngrams' = IF Len(batch) = 1 THEN << >> ELSE Tail(ngrams)
  /\ UNCHANGED <<setup, kv, cacheOf, slots, preempts>>

LEMMA CommitRowFacts ==
  ASSUME IInv, NEW token \in Sampled, NEW accepted \in 0..MaxDrafts,
         CommitRow(accepted, token)
  PROVE  \E r, ids, computed, table : Commits(r, ids, computed, table)
<1> DEFINE row == Head(batch)
           q == reqs[row.req]
           ids == NewText(row, q.ids, accepted, token)
           computed == NewComputed(row, q.ids, accepted, token)
           table == [i \in DOMAIN q.table |->
                       IF BlockOut(i, computed) THEN NullBlock ELSE q.table[i]]
<1>1. TypeOK /\ batch # << >> /\ ngrams # << >>
  BY DEF IInv, CommitRow, Idle
<1>2. 1 \in DOMAIN batch /\ row = batch[1]
  <2>1. /\ batch \in Seq([req : Requests, start : Nat, ids : Seq(TokenIds)])
        /\ Len(batch) \in Nat \ {0} /\ DOMAIN batch = 1..Len(batch)
    BY <1>1, LenProperties, EmptySeq DEF TypeOK
  <2>. QED
    BY <2>1
<1>3. /\ row.req \in Requests /\ row.start \in Nat /\ row.ids \in Seq(TokenIds)
      /\ RowInv(row)
  BY <1>1, <1>2, RowTyped DEF IInv
<1>4. q \in Request /\ q.ids \in Seq(TokenIds) /\ RequestInv(row.req)
  BY <1>1, <1>3, RequestTyped, RequestFacts DEF IInv
<1>5. /\ Live(row.req) /\ row.start = q.computed /\ row.ids # << >>
      /\ row.start + Len(row.ids) <= Len(q.table) * BlockSize
      /\ \A k \in 1..Len(row.ids) :
           row.start + k <= Len(q.ids) => row.ids[k] = q.ids[row.start + k]
  BY <1>3 DEF RowInv
<1>6. row.start < Len(q.ids)
  BY <1>4, <1>5 DEF RequestInv
<1>7. /\ accepted <= IF row.start + Len(row.ids) - Len(q.ids) > 0
                     THEN row.start + Len(row.ids) - Len(q.ids) ELSE 0
      /\ reqs' = [reqs EXCEPT ![row.req] =
                    [q EXCEPT !.phase = "running", !.ids = ids,
                              !.computed = computed, !.table = table]]
      /\ kept' = Keep(kept, ids, table, computed)
      /\ batch' = Tail(batch)
      /\ ngrams' = IF Len(batch) = 1 THEN << >> ELSE Tail(ngrams)
      /\ UNCHANGED <<setup, kv, cacheOf, slots, preempts>>
  BY DEF CommitRow, NewText, NewComputed
<1> HIDE DEF ids, computed
<1>8. GoesOn(row, q.ids, ids, computed)
  <2>1. accepted \in Nat /\ token \in TokenIds
    BY SizeAssumption, TokenAssumption
  <2> HIDE DEF row, q
  <2>. QED
    BY <1>3, <1>4, <1>5, <1>6, <1>7, <2>1, TextGoesOn DEF ids, computed
<1> HIDE DEF table
<1>9. Commits(row.req, ids, computed, table)
  BY <1>1, <1>2, <1>3, <1>5, <1>7, <1>8 DEF Commits, table
<1>. QED
  BY <1>9

LEMMA CommitRequest ==
  ASSUME IInv, NEW r, NEW ids, NEW computed, NEW table,
         Commits(r, ids, computed, table)
  PROVE  /\ \A x \in Requests : RequestInv(x)'
         /\ Alone' /\ KeptInv'
         /\ UseSlotCache => \A x \in Requests : Held(x)'
         /\ UseSlotCache /\ ~AllowLoad => KeptHeld'
         /\ reqs' \in [Requests -> Request] /\ kept' \in [Blocks -> Seq(TokenIds)]
         /\ \A x \in Requests : reqs'[x].computed <= Len(reqs'[x].ids)
<1> DEFINE row == batch[1]
           p == reqs[r]
           q == [p EXCEPT !.phase = "running", !.ids = ids,
                          !.computed = computed, !.table = table]
<1>1. /\ 1 \in DOMAIN batch /\ r = row.req /\ r \in Requests /\ Live(r)
      /\ row.start = p.computed /\ row.ids # << >>
      /\ row.start + Len(row.ids) <= Len(p.table) * BlockSize
      /\ GoesOn(row, p.ids, ids, computed)
      /\ table = [i \in DOMAIN p.table |->
                    IF BlockOut(i, computed) THEN NullBlock ELSE p.table[i]]
      /\ reqs' = [reqs EXCEPT ![r] = q] /\ kept' = Keep(kept, ids, table, computed)
      /\ UNCHANGED <<setup, kv, cacheOf, slots>> /\ ngrams # << >>
  BY DEF Commits
<1>2. TypeOK /\ p \in Request /\ RequestInv(r)
  BY <1>1, RequestTyped DEF IInv
<1>3. /\ p.table \in Seq(Blocks \cup {NullBlock}) /\ Len(p.table) \in Nat
      /\ DOMAIN p.table = 1..Len(p.table) /\ p.computed \in Nat /\ p.prompt \in Nat
      /\ (\A i \in DOMAIN p.table : i \in Nat /\ p.table[i] \in Blocks \cup {NullBlock})
      /\ row.ids \in Seq(TokenIds) /\ Len(row.ids) \in Nat \ {0}
  <2>1. row.ids \in Seq(TokenIds)
    BY <1>1, <1>2, RowTyped
  <2>2. Len(row.ids) \in Nat \ {0}
    BY <1>1, <2>1, EmptySeq
  <2>3. \A i \in DOMAIN p.table : p.table[i] \in Blocks \cup {NullBlock}
    BY <1>2, RequestFacts, ElementOfSeq
  <2>. QED
    BY <1>2, <2>1, <2>2, <2>3, RequestFacts
<1>4. /\ ids \in Seq(TokenIds) /\ Len(ids) \in Nat /\ Extends(ids, p.ids)
      /\ computed \in Nat /\ p.computed <= computed /\ computed < Len(ids)
      /\ \A pos \in row.start .. (computed - 1) : ids[pos + 1] = TokenAt(row, pos)
      /\ computed <= row.start + Len(row.ids)
  BY <1>1 DEF GoesOn
<1>5. /\ table \in Seq(Blocks \cup {NullBlock}) /\ Len(table) = Len(p.table)
      /\ DOMAIN table = DOMAIN p.table
      /\ \A i \in DOMAIN table : table[i] \in {p.table[i], NullBlock}
      /\ \A i \in DOMAIN table : table[i] = NullBlock =>
           BlockOut(i, computed) \/ p.table[i] = NullBlock
  <2>1. table \in [1..Len(p.table) -> Blocks \cup {NullBlock}]
    BY <1>1, <1>3
  <2>2. table \in Seq(Blocks \cup {NullBlock})
    <3>1. Len(p.table) \in Nat
      BY <1>3
    <3>. QED
      BY <2>1, <3>1, SeqDef
  <2>3. DOMAIN table = 1..Len(table) /\ Len(table) \in Nat /\ DOMAIN table = 1..Len(p.table)
    BY <2>1, <2>2, LenProperties
  <2>4. Len(table) = Len(p.table)
    BY <1>3, <2>3
  <2>. QED
    BY <1>1, <1>3, <2>2, <2>3, <2>4
<1>6. computed <= Len(p.table) * BlockSize
  <2>1. Len(p.table) * BlockSize \in Nat
    BY <1>3, Sizes, Multiples
  <2>. QED
    BY <1>1, <1>3, <1>4, <2>1
<1>7. /\ q \in Request /\ q.phase = "running" /\ q.ids = ids /\ q.prompt = p.prompt
      /\ q.computed = computed /\ q.table = table
  BY <1>2, <1>4, <1>5 DEF Request
<1>8. reqs'[r] = q /\ \A x \in Requests : x # r => reqs'[x] = reqs[x]
  BY <1>1, <1>2 DEF TypeOK
<1> HIDE DEF q
<1>9. KeptBy(r, ids, table, computed, kept')
  <2>1. computed <= Len(ids)
    BY <1>4
  <2>. QED
    BY <1>1, <1>4, <1>5, <2>1, KeepFacts
<1>10. kv.blocks = NumBlocks + 1
  BY <1>1, <1>2 DEF RequestInv
<1>11. RequestInv(r)'
  <2>1. ASSUME NEW i \in DOMAIN table
        PROVE  IF table[i] = NullBlock THEN BlockOut(i, computed)
               ELSE kept'[table[i]] # << >> =>
                      kept'[table[i]] = PrefixTo(ids, i) /\ i * BlockSize <= computed
    <3>1. CASE table[i] = NullBlock /\ p.table[i] = NullBlock
      <4>1. BlockOut(i, p.computed)
        BY <1>2, <1>5, <3>1 DEF RequestInv
      <4>2. BlockOut(i, computed)
        BY <1>3, <1>4, <1>5, <4>1, OutStaysOut
      <4>. QED
        BY <3>1, <4>2
    <3>2. CASE table[i] = NullBlock /\ p.table[i] # NullBlock
      BY <1>5, <3>2
    <3>3. CASE table[i] # NullBlock
      BY <1>9, <3>3 DEF KeptBy
    <3>. QED
      BY <3>1, <3>2, <3>3
  <2>2. /\ reqs'[r].phase = "running" /\ reqs'[r].ids = ids
        /\ reqs'[r].computed = computed /\ reqs'[r].table = table
        /\ kv'.blocks = NumBlocks + 1
    BY <1>1, <1>7, <1>8, <1>10
  <2>3. computed < Len(ids) /\ computed <= Len(table) * BlockSize
    BY <1>4, <1>5, <1>6
  <2>. QED
    BY <2>1, <2>2, <2>3 DEF RequestInv, Live
<1>12. ASSUME UseSlotCache, NEW pos \in 0..(computed - 1),
              ~AllowLoad \/ pos >= p.prompt, BlockAt(table, pos) # NullBlock
       PROVE  Holds(SlotOf(table, pos), ids[pos + 1])
  <2>1. Held(r) /\ RowHeld(row)
    BY <1>1, <1>12 DEF IInv, SlotInv
  <2>2. pos \in Nat /\ pos < Len(p.table) * BlockSize
    <3>1. Len(p.table) * BlockSize \in Nat
      BY <1>3, Sizes, Multiples
    <3>. QED
      BY <1>4, <1>6, <3>1
  <2>3. PlaceOf(p.table, pos, pos \div BlockSize + 1)
    BY <1>2, <2>2, Place
  <2> DEFINE i == pos \div BlockSize + 1
  <2>4. i \in DOMAIN table /\ BlockAt(table, pos) = table[i] /\ BlockAt(p.table, pos) = p.table[i]
        /\ SlotOf(table, pos) = table[i] * BlockSize + (pos % BlockSize)
        /\ SlotOf(p.table, pos) = p.table[i] * BlockSize + (pos % BlockSize)
    BY <1>5, <2>3 DEF PlaceOf, BlockAt, SlotOf
  <2> HIDE DEF i
  <2>5. table[i] = p.table[i]
    BY <1>5, <1>12, <2>4
  <2>6. CASE pos < p.computed
    <3>1. pos \in 0..(p.computed - 1)
      BY <1>3, <2>2, <2>6
    <3>2. Holds(SlotOf(p.table, pos), p.ids[pos + 1])
      BY <1>12, <2>1, <2>4, <2>5, <3>1 DEF Held
    <3>3. pos + 1 \in 1..Len(p.ids)
      <4>1. p.computed < Len(p.ids) /\ Len(p.ids) \in Nat
        BY <1>1, <1>2, RequestFacts DEF RequestInv
      <4>. QED
        BY <1>3, <3>1, <4>1
    <3>4. ids[pos + 1] = p.ids[pos + 1]
      BY <1>4, <3>3 DEF Extends
    <3>. QED
      BY <2>4, <2>5, <3>2, <3>4
  <2>7. CASE ~(pos < p.computed)
    <3>1. pos \in row.start .. (computed - 1) /\ pos \in RowPositions(row)
      BY <1>1, <1>3, <1>4, <2>2, <2>7 DEF RowPositions
    <3>2. Holds(SlotOf(p.table, pos), TokenAt(row, pos))
      BY <1>1, <2>1, <3>1 DEF RowHeld, TableOf
    <3>. QED
      BY <1>4, <2>4, <2>5, <3>1, <3>2
  <2>. QED
    BY <2>6, <2>7
<1>13. UseSlotCache => Held(r)'
  <2>1. /\ reqs'[r].ids = ids /\ reqs'[r].computed = computed
        /\ reqs'[r].table = table /\ reqs'[r].prompt = p.prompt
        /\ UNCHANGED <<setup, kv, cacheOf, slots>>
    BY <1>1, <1>7, <1>8
  <2>. QED
    BY <1>12, <2>1 DEF Held, Holds, BlockAt, SlotOf, AllowLoad
<1>14. Others(r, kept') /\ Own(r, q.table, kept')
  BY <1>7, <1>9 DEF KeptBy
<1>15. /\ \A x \in Requests : RequestInv(x)'
       /\ Alone' /\ (UseSlotCache => \A x \in Requests : Held(x)')
  BY <1>1, <1>11, <1>13, <1>14, OneRequestMoves
<1>16. ASSUME UseSlotCache, ~AllowLoad PROVE KeptHeld'
  <2>1. cacheOf = kv.id
    <3>1. row.start \in RowPositions(row)
      BY <1>1, <1>3 DEF RowPositions
    <3>. QED
      BY <1>1, <1>16, <3>1 DEF IInv, SlotInv, RowHeld, Holds
  <2>2. HeldIn(slots, q)
    BY <1>7, <1>12, <1>16 DEF HeldIn, Holds
  <2>3. \A b \in Blocks :
          \/ kept'[b] = kept[b]
          \/ \E i \in DOMAIN q.table : /\ q.table[i] = b /\ i * BlockSize <= q.computed
                                       /\ kept'[b] = PrefixTo(q.ids, i)
    BY <1>7, <1>9 DEF KeptBy
  <2>4. q.computed <= Len(q.ids) /\ q.computed <= Len(q.table) * BlockSize
    BY <1>4, <1>5, <1>6, <1>7
  <2>. QED
    BY <1>1, <1>7, <1>16, <2>1, <2>2, <2>3, <2>4, KeptHeldMoves
<1>17. KeptInv'
  BY <1>1, <1>10 DEF KeptInv
<1>18. reqs' \in [Requests -> Request]
  BY <1>1, <1>2, <1>7 DEF TypeOK
<1>19. \A x \in Requests : reqs'[x].computed <= Len(reqs'[x].ids)
  BY <1>2, <1>4, <1>7, <1>8, RequestTyped
<1>. QED
  BY <1>9, <1>15, <1>16, <1>17, <1>18, <1>19 DEF KeptBy

\* The other rows, one place further to the front.
LEMMA RowsLeft ==
  ASSUME IInv, NEW r, NEW ids, NEW computed, NEW table,
         Commits(r, ids, computed, table)
  PROVE  /\ batch' \in Seq([req : Requests, start : Nat, ids : Seq(TokenIds)])
         /\ Len(ngrams') \in {0, Len(batch')}
         /\ \A i \in DOMAIN batch' :
              /\ i + 1 \in DOMAIN batch /\ batch'[i] = batch[i + 1]
              /\ reqs'[batch[i + 1].req] = reqs[batch[i + 1].req]
              /\ ngrams' # << >> => ngrams'[i] = ngrams[i + 1]
         /\ DOMAIN batch' = 1..Len(batch') /\ NgramsInv'
<1> DEFINE Row == [req : Requests, start : Nat, ids : Seq(TokenIds)]
           entries == {ngrams[i] : i \in DOMAIN batch}
           m == Len(batch)
<1>1. /\ 1 \in DOMAIN batch /\ r = batch[1].req /\ batch' = Tail(batch)
      /\ ngrams # << >> /\ ngrams' = IF m = 1 THEN << >> ELSE Tail(ngrams)
      /\ \A x \in Requests : x # r => reqs'[x] = reqs[x]
  BY DEF Commits, IInv, TypeOK
<1>2. /\ batch \in Seq(Row) /\ m \in Nat \ {0} /\ DOMAIN batch = 1..m
      /\ batch # << >> /\ Len(ngrams) \in {0, m}
  <2>1. batch \in Seq(Row) /\ Len(ngrams) \in {0, m}
    BY DEF IInv, TypeOK
  <2>2. m \in Nat /\ DOMAIN batch = 1..m
    BY <2>1, LenProperties
  <2>3. m # 0
    BY <1>1, <2>2
  <2>4. batch # << >>
    BY <2>3, EmptySeq
  <2>. QED
    BY <2>1, <2>2, <2>3, <2>4
<1>3. /\ batch' \in Seq(Row) /\ Len(batch') = m - 1 /\ DOMAIN batch' = 1..(m - 1)
      /\ \A i \in 1..(m - 1) : batch'[i] = batch[i + 1]
  <2>1. /\ Tail(batch) \in Seq(Row) /\ Len(Tail(batch)) = m - 1
        /\ \A i \in 1..Len(Tail(batch)) : Tail(batch)[i] = batch[i + 1]
    BY <1>2, HeadTailProperties
  <2>2. DOMAIN Tail(batch) = 1..Len(Tail(batch))
    BY <2>1, LenProperties
  <2>. QED
    BY <1>1, <2>1, <2>2
<1>4. ngrams \in Seq(entries) /\ Len(ngrams) = m
  <2>1. ngrams = [i \in DOMAIN batch |-> ngrams[i]]
    BY <1>1 DEF IInv, NgramsInv
  <2>2. ngrams \in [1..m -> entries]
    BY <1>2, <2>1
  <2> HIDE DEF entries, m
  <2>3. ngrams \in Seq(entries)
    BY <1>2, <2>2, SeqDef
  <2>4. DOMAIN ngrams = 1..Len(ngrams) /\ Len(ngrams) \in Nat /\ DOMAIN ngrams = 1..m
    <3>1. DOMAIN ngrams = 1..m
      BY <2>2
    <3>. QED
      BY <2>3, <3>1, LenProperties
  <2>5. 1 \in 1..m
    BY <1>2
  <2>6. Len(ngrams) # 0
    <3>1. 1 \in DOMAIN ngrams
      BY <2>4, <2>5
    <3>2. 1 \in 1..Len(ngrams)
      BY <2>4, <3>1
    <3>. QED
      BY <2>4, <3>2
  <2>. QED
    BY <1>2, <2>3, <2>6
<1> HIDE DEF entries, m
<1>5. /\ Tail(ngrams) \in Seq(entries) /\ Len(Tail(ngrams)) = m - 1
      /\ DOMAIN Tail(ngrams) = 1..(m - 1)
      /\ \A i \in 1..(m - 1) : Tail(ngrams)[i] = ngrams[i + 1]
  <2>1. /\ Tail(ngrams) \in Seq(entries) /\ Len(Tail(ngrams)) = m - 1
        /\ \A i \in 1..Len(Tail(ngrams)) : Tail(ngrams)[i] = ngrams[i + 1]
    BY <1>1, <1>4, HeadTailProperties
  <2>2. DOMAIN Tail(ngrams) = 1..Len(Tail(ngrams))
    BY <2>1, LenProperties
  <2>. QED
    BY <2>1, <2>2
<1>6. Len(ngrams') \in {0, Len(batch')}
  <2>1. Len(<< >>) = 0
    BY EmptySeq
  <2>. QED
    BY <1>1, <1>3, <1>5, <2>1
<1>7. NgramsInv'
  <2>1. ASSUME ngrams' # << >> PROVE ngrams' = [i \in DOMAIN batch' |-> ngrams'[i]]
    <3>1. ngrams' = Tail(ngrams)
      BY <1>1, <2>1
    <3>2. Tail(ngrams) \in [1..(m - 1) -> entries]
      BY <1>5, LenProperties
    <3>. QED
      BY <1>3, <3>1, <3>2
  <2>. QED
    BY <2>1 DEF NgramsInv
<1>8. ASSUME NEW i \in DOMAIN batch'
      PROVE  /\ i + 1 \in DOMAIN batch /\ batch'[i] = batch[i + 1]
             /\ reqs'[batch[i + 1].req] = reqs[batch[i + 1].req]
             /\ ngrams' # << >> => ngrams'[i] = ngrams[i + 1]
  <2>1. i \in 1..(m - 1) /\ i + 1 \in 1..m /\ i + 1 # 1
    <3>1. i \in 1..(m - 1) /\ m \in Nat \ {0}
      BY <1>2, <1>3
    <3>. QED
      BY <3>1
  <2>2. batch[i + 1].req \in Requests
    BY <1>2, <2>1, RowTyped DEF IInv
  <2>3. batch[i + 1].req # r
    BY <1>1, <1>2, <2>1 DEF IInv, RowsApart
  <2>. QED
    BY <1>1, <1>2, <1>3, <1>5, <2>1, <2>2, <2>3
<1>. QED
  BY <1>3, <1>6, <1>7, <1>8

LEMMA CommitRowKeeps ==
  ASSUME IInv, NEW token \in Sampled, NEW accepted \in 0..MaxDrafts,
         CommitRow(accepted, token)
  PROVE  IInv'
<1>1. PICK r, ids, computed, table : Commits(r, ids, computed, table)
  BY CommitRowFacts
<1>2. UNCHANGED <<setup, kv, cacheOf, slots, preempts>> /\ ngrams # << >> /\ TypeOK
  BY <1>1 DEF Commits, IInv
<1>3. /\ \A x \in Requests : RequestInv(x)'
      /\ Alone' /\ KeptInv'
      /\ UseSlotCache => \A x \in Requests : Held(x)'
      /\ UseSlotCache /\ ~AllowLoad => KeptHeld'
      /\ reqs' \in [Requests -> Request] /\ kept' \in [Blocks -> Seq(TokenIds)]
      /\ \A x \in Requests : reqs'[x].computed <= Len(reqs'[x].ids)
  BY <1>1, CommitRequest
<1>4. /\ batch' \in Seq([req : Requests, start : Nat, ids : Seq(TokenIds)])
      /\ Len(ngrams') \in {0, Len(batch')}
      /\ \A i \in DOMAIN batch' :
           /\ i + 1 \in DOMAIN batch /\ batch'[i] = batch[i + 1]
           /\ reqs'[batch[i + 1].req] = reqs[batch[i + 1].req]
           /\ ngrams' # << >> => ngrams'[i] = ngrams[i + 1]
      /\ DOMAIN batch' = 1..Len(batch') /\ NgramsInv'
  BY <1>1, RowsLeft
<1>5. TypeOK'
  BY <1>2, <1>3, <1>4 DEF TypeOK, UseSlotCache, MaxPreempts
<1>6. RowsApart'
  <2>1. ASSUME NEW i \in DOMAIN batch', NEW j \in DOMAIN batch',
               batch'[i].req = batch'[j].req
        PROVE  i = j
    <3>1. i + 1 = j + 1
      BY <1>4, <2>1 DEF IInv, RowsApart
    <3>2. i \in Int /\ j \in Int
      BY <1>4
    <3>. QED
      BY <3>1, <3>2
  <2>. QED
    BY <2>1 DEF RowsApart
<1>7. ASSUME NEW i \in DOMAIN batch' PROVE RowInv(batch[i])'
  <2> DEFINE row == batch[i + 1]
  <2>1. RowInv(row) /\ batch'[i] = row /\ reqs'[row.req] = reqs[row.req]
    BY <1>4 DEF IInv
  <2>. QED
    BY <2>1 DEF RowInv, Live
<1>8. ASSUME UseSlotCache, NEW i \in DOMAIN batch' PROVE RowHeld(batch[i])'
  <2> DEFINE row == batch[i + 1]
  <2>1. RowHeld(row) /\ batch'[i] = row /\ reqs'[row.req] = reqs[row.req]
    BY <1>2, <1>4, <1>8 DEF IInv, SlotInv
  <2>. QED
    BY <1>2, <2>1 DEF RowHeld, Holds, SlotOf, TableOf, TokenAt, RowPositions
<1>9. SlotInv'
  BY <1>2, <1>3, <1>8 DEF SlotInv, UseSlotCache, AllowLoad
<1>10. NgramsMatchHistory'
  <2>1. ASSUME ngrams' # << >>, NEW i \in 1..Len(batch'), NEW p \in RowPositions(batch'[i])
        PROVE  ngrams'[i][p] = Due(batch[i], p)'
    <3> DEFINE row == batch[i + 1]
    <3>1. /\ i + 1 \in DOMAIN batch /\ batch'[i] = row
          /\ reqs'[row.req] = reqs[row.req] /\ ngrams'[i] = ngrams[i + 1]
      BY <1>4, <2>1
    <3>2. ngrams[i + 1][p] = Due(row, p)
      <4>1. i + 1 \in 1..Len(batch)
        BY <1>2, <3>1, RowTyped
      <4>. QED
        BY <1>2, <2>1, <3>1, <4>1 DEF IInv, NgramsMatchHistory
    <3>3. Due(batch[i], p)' = Due(row, p)
      BY <3>1 DEF Due, Text
    <3>. QED
      BY <3>1, <3>2, <3>3
  <2>. QED
    BY <2>1 DEF NgramsMatchHistory, RowPositions
<1>. QED
  BY <1>3, <1>4, <1>5, <1>6, <1>7, <1>9, <1>10 DEF IInv
-----------------------------------------------------------------------------
(* The invariant *)

LEMMA InitInv == Init => IInv
<1>. SUFFICES ASSUME Init PROVE IInv
  OBVIOUS
<1>1. /\ setup \in Setups /\ reqs = [r \in Requests |-> NoRequest]
      /\ kept = [b \in Blocks |-> << >>] /\ kv = [id |-> 0, blocks |-> 0]
      /\ cacheOf = 0 /\ slots = << >> /\ batch = << >> /\ ngrams = << >> /\ preempts = 0
  BY DEF Init
<1>2. /\ << >> \in Seq(TokenIds) /\ << >> \in Seq(Blocks \cup {NullBlock})
      /\ << >> \in Seq([req : Requests, start : Nat, ids : Seq(TokenIds)])
      /\ Len(<< >>) = 0 /\ DOMAIN << >> = {}
  BY EmptySeq
<1>3. NoRequest \in Request /\ NoRequest.computed = 0 /\ NoRequest.ids = << >>
      /\ NoRequest.table = << >> /\ NoRequest.phase = "waiting"
  BY <1>2 DEF NoRequest, Request
<1>4. TypeOK
  <2>1. reqs \in [Requests -> Request] /\ \A r \in Requests : reqs[r].computed <= Len(reqs[r].ids)
    BY <1>1, <1>2, <1>3
  <2>2. kept \in [Blocks -> Seq(TokenIds)]
    BY <1>1, <1>2
  <2>3. kv.id \in 0..MaxBinds /\ kv.blocks \in {0} /\ cacheOf \in 0..kv.id
    BY <1>1, SizeAssumption
  <2>4. SlotsOf(0) = {}
    BY Sizes DEF SlotsOf
  <2>5. MaxPreempts \in Nat
    BY <1>1, SetupAssumption DEF MaxPreempts
  <2>. QED
    BY <1>1, <1>2, <2>1, <2>2, <2>3, <2>4, <2>5 DEF TypeOK
<1>5. ASSUME NEW r \in Requests PROVE RequestInv(r) /\ Held(r)
  <2>1. /\ reqs[r].phase = "waiting" /\ reqs[r].table = << >> /\ reqs[r].computed = 0
        /\ reqs[r].ids = << >> /\ DOMAIN reqs[r].table = {} /\ 0..(0 - 1) = {}
    BY <1>1, <1>2, <1>3
  <2>. QED
    BY <2>1 DEF RequestInv, Live, Held
<1>6. Alone
  BY <1>1, <1>2, <1>3 DEF Alone
<1>7. KeptInv /\ KeptHeld
  BY <1>1 DEF KeptInv, KeptHeld
<1>8. RowsApart /\ NgramsInv /\ NgramsMatchHistory /\ SlotInv
      /\ \A i \in DOMAIN batch : RowInv(batch[i])
  BY <1>1, <1>2, <1>5, <1>7 DEF RowsApart, NgramsInv, NgramsMatchHistory, SlotInv
<1>. QED
  BY <1>4, <1>5, <1>6, <1>7, <1>8 DEF IInv

LEMMA NextKeeps == LoadOrPreempt /\ IInv /\ [Next]_vars => IInv'
<1>. SUFFICES ASSUME LoadOrPreempt, IInv, [Next]_vars PROVE IInv'
  OBVIOUS
<1>1. ASSUME NEW n \in {0, ProfileBlocks, NumBlocks + 1}, BindKV(n) PROVE IInv'
  BY <1>1, BindKVKeeps
<1>2. ASSUME NEW token \in Sampled, NEW accepted \in 0..MaxDrafts, CommitRow(accepted, token)
      PROVE  IInv'
  BY <1>2, CommitRowKeeps
<1>3. ASSUME NEW r \in Requests, NEW prompt \in Prompts, NEW k \in 0..NumBlocks,
             Start(r, prompt, k)
      PROVE  IInv'
  BY <1>3, StartKeeps
<1>4. ASSUME NEW r \in Requests, NEW b \in Blocks, Allocate(r, b) PROVE IInv'
  BY <1>4, AllocateKeeps
<1>5. ASSUME NEW r \in Requests, NEW n \in 1..MaxLen, Load(r, n) PROVE IInv'
  BY <1>5, LoadKeeps
<1>6. ASSUME NEW r \in Requests, NEW n \in 1..MaxChunk, NEW drafts \in DraftSeqs,
             AddRow(r, n, drafts)
      PROVE  IInv'
  BY <1>6, AddRowKeeps
<1>7. ASSUME NEW r \in Requests, Finish(r) PROVE IInv'
  BY <1>7, FinishKeeps
<1>8. ASSUME NEW r \in Requests, Preempt(r) PROVE IInv'
  BY <1>8, PreemptKeeps
<1>9. CASE DummyRun
  BY <1>9, DummyRunKeeps
<1>10. CASE Forward
  BY <1>10, ForwardKeeps
<1>11. CASE UNCHANGED vars
  <2>1. UNCHANGED <<setup, reqs, kept, kv, cacheOf, slots, batch, ngrams, preempts>>
    BY <1>11 DEF vars
  <2>2. TypeOK'
    BY <2>1 DEF IInv, TypeOK, UseSlotCache, MaxPreempts
  <2>3. SlotInv'
    BY <2>1, SlotsStay
  <2>4. NgramsInv'
    BY <2>1 DEF IInv, NgramsInv
  <2>5. NgramsMatchHistory'
    <3>1. \A i, p : Due(batch[i], p)' = Due(batch[i], p)
      BY <2>1 DEF Due, Text
    <3>2. ASSUME ngrams # << >>, NEW i \in 1..Len(batch), NEW p \in RowPositions(batch[i])
          PROVE  ngrams'[i][p] = Due(batch[i], p)'
      <4>1. ngrams[i][p] = Due(batch[i], p)
        BY <3>2 DEF IInv, NgramsMatchHistory
      <4>. QED
        BY <2>1, <3>1, <4>1
    <3>. QED
      BY <2>1, <3>2 DEF NgramsMatchHistory, RowPositions
  <2>. QED
    BY <2>1, <2>2, <2>3, <2>4, <2>5, EngineSame DEF IInv
<1>12. CASE EngineStep
  BY <1>1, <1>2, <1>3, <1>4, <1>5, <1>6, <1>7, <1>8, <1>12 DEF EngineStep
<1>. QED
  BY <1>9, <1>10, <1>11, <1>12 DEF Next

LEMMA Inductive ==
  ASSUME LoadOrPreempt
  PROVE  Spec => []IInv
<1>1. IInv /\ [Next]_vars => IInv'
  BY NextKeeps
<1>. QED
  BY <1>1, InitInv, PTL DEF Spec-----------------------------------------------------------------------------
(* What follows *)

\* NgramHashState keeps its shape: no request has more computed than it has
\* tokens, and the slot cache is as large as the KV cache it was made for.
THEOREM TypeCorrect ==
  ASSUME LoadOrPreempt
  PROVE  Spec => []TypeOK
<1>1. IInv => TypeOK
  BY DEF IInv
<1>. QED
  BY <1>1, Inductive, PTL

\* Every n-gram the hash kernel produces is the one of the request's own text,
\* whether its tokens came from the chunk, the lookback window or the slot
\* cache: across chunked prefill, rejected drafts, prefix hits, loaded KV,
\* eviction, preemption and rebinding.
THEOREM NgramsCorrect ==
  ASSUME LoadOrPreempt
  PROVE  Spec => []NgramsMatchHistory
<1>1. IInv => NgramsMatchHistory
  BY DEF IInv
<1>. QED
  BY <1>1, Inductive, PTL

LEMMA HeldSlotsHold == IInv => SlotsHold
<1>. SUFFICES ASSUME IInv, UseSlotCache PROVE SlotsHold
  BY DEF SlotsHold
<1>1. ASSUME NEW r \in Requests, reqs[r].phase = "running",
             NEW pos \in reqs[r].prompt .. (reqs[r].computed - 1),
             pos >= reqs[r].computed - Depth
      PROVE  /\ SlotOf(reqs[r].table, pos) >= BlockSize
             /\ slots[SlotOf(reqs[r].table, pos)] = Value(reqs[r].ids[pos + 1])
  <2> DEFINE q == reqs[r]
             i == pos \div BlockSize + 1
  <2>1. TypeOK /\ RequestInv(r) /\ q \in Request /\ Live(r) /\ Held(r)
    BY <1>1, RequestTyped DEF IInv, SlotInv, Live
  <2>2. /\ q.prompt \in Nat /\ q.computed \in Nat /\ Len(q.table) * BlockSize \in Nat
        /\ q.computed <= Len(q.table) * BlockSize
    BY <2>1, RequestFacts, Sizes, Multiples DEF RequestInv
  <2>3. pos \in Nat /\ pos < Len(q.table) * BlockSize /\ pos \in 0..(q.computed - 1)
    BY <2>2
  <2>4. PlaceOf(q.table, pos, i)
    BY <2>1, <2>3, Place
  <2> HIDE DEF i
  <2>5. q.table[i] # NullBlock
    <3>1. q.table[i] = NullBlock => pos < q.computed - Depth
      BY <2>1, <2>3, <2>4, OpenBlock
    <3>2. ~(pos < q.computed - Depth)
      BY <1>1, <2>2, <2>3, Sizes
    <3>. QED
      BY <3>1, <3>2
  <2>6. BlockAt(q.table, pos) # NullBlock /\ SlotOf(q.table, pos) >= BlockSize
    BY <2>4, <2>5 DEF PlaceOf
  <2>7. Holds(SlotOf(q.table, pos), q.ids[pos + 1])
    BY <1>1, <2>1, <2>3, <2>6 DEF Held
  <2>. QED
    BY <2>6, <2>7 DEF Holds
<1>2. ASSUME ~AllowLoad, NEW b \in Blocks, kept[b] # << >>, NEW j \in 1..BlockSize
      PROVE  slots[b * BlockSize + j - 1] = Value(kept[b][Len(kept[b]) - BlockSize + j])
  BY <1>2 DEF IInv, SlotInv, KeptHeld, Holds
<1>. QED
  BY <1>1, <1>2 DEF SlotsHold

\* V1: between steps the slots of the generated tokens a request can still look
\* back at hold those tokens and, without connectors, the slots of a cached
\* block hold the tokens of the prefix it is cached for.
THEOREM SlotsCorrect ==
  ASSUME LoadOrPreempt
  PROVE  Spec => []SlotsHold
  BY HeldSlotsHold, Inductive, PTL

LEMMA SharedStay ==
  ASSUME IInv, [Next]_vars, UseSlotCache, cacheOf' = cacheOf,
         NEW b \in Blocks, kept[b] # << >>,
         NEW s \in DOMAIN slots, s \div BlockSize = b
  PROVE  slots'[s] = slots[s]
<1>1. TypeOK /\ kv.blocks = NumBlocks + 1
  BY DEF IInv, KeptInv
<1>2. CASE Forward
  <2>1. /\ cacheOf' = kv.id
        /\ \A t \in SlotsOf(NumBlocks + 1) :
             \/ cacheOf = kv.id => slots'[t] = slots[t]
             \/ \E n, pos, i : CellAt(n, pos, i) /\ SlotOf(TableOf(batch[n]), pos) = t
    BY <1>2, ForwardSlots
  <2>2. cacheOf = kv.id /\ s \in SlotsOf(NumBlocks + 1)
    BY <1>1, <2>1 DEF TypeOK
  <2>3. ASSUME NEW n, NEW pos, NEW i, CellAt(n, pos, i), SlotOf(TableOf(batch[n]), pos) = s
        PROVE  FALSE
    BY <2>3 DEF CellAt, PlaceOf
  <2>. QED
    BY <2>1, <2>2, <2>3
<1>3. CASE DummyRun
  BY <1>1, <1>3, Ensured DEF DummyRun
<1>4. ASSUME EngineStep PROVE UNCHANGED slots
  <2>1. ASSUME NEW n \in {0, ProfileBlocks, NumBlocks + 1}, BindKV(n) PROVE UNCHANGED slots
    BY <2>1 DEF BindKV
  <2>2. ASSUME NEW token \in Sampled, NEW accepted \in 0..MaxDrafts, CommitRow(accepted, token)
        PROVE  UNCHANGED slots
    BY <2>2 DEF CommitRow
  <2>3. ASSUME NEW r \in Requests, NEW prompt \in Prompts, NEW k \in 0..NumBlocks,
               Start(r, prompt, k)
        PROVE  UNCHANGED slots
    BY <2>3 DEF Start
  <2>4. ASSUME NEW r \in Requests, NEW c \in Blocks, Allocate(r, c) PROVE UNCHANGED slots
    BY <2>4 DEF Allocate
  <2>5. ASSUME NEW r \in Requests, NEW n \in 1..MaxLen, Load(r, n) PROVE UNCHANGED slots
    BY <2>5 DEF Load
  <2>6. ASSUME NEW r \in Requests, NEW n \in 1..MaxChunk, NEW drafts \in DraftSeqs,
               AddRow(r, n, drafts)
        PROVE  UNCHANGED slots
    BY <2>6 DEF AddRow
  <2>7. ASSUME NEW r \in Requests, Finish(r) \/ Preempt(r) PROVE UNCHANGED slots
    BY <2>7 DEF Finish, Preempt
  <2>. QED
    BY <1>4, <2>1, <2>2, <2>3, <2>4, <2>5, <2>6, <2>7 DEF EngineStep
<1>5. CASE UNCHANGED vars
  BY <1>5 DEF vars
<1>. QED
  BY <1>2, <1>3, <1>4, <1>5 DEF Next

\* V1: a step never changes a slot of a block that is cached and that other
\* requests may share: what is written lies in blocks that only the writer has.
THEOREM SharedSlotsKept ==
  ASSUME LoadOrPreempt
  PROVE  Spec => SharedSlotsStable
<1>1. IInv /\ [Next]_vars =>
        [UseSlotCache /\ cacheOf' = cacheOf =>
           \A b \in Blocks : kept[b] # << >> /\ kept'[b] = kept[b] =>
             \A s \in DOMAIN slots : s \div BlockSize = b => slots'[s] = slots[s]]_vars
  BY SharedStay
<1>. QED
  BY <1>1, Inductive, PTL DEF Spec, SharedSlotsStable
=============================================================================
