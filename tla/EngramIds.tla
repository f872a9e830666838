----------------------------- MODULE EngramIds -----------------------------
(***************************************************************************)
(* From a token to its rows in the n-gram tables: the buckets are laid out *)
(* (EngramLayout), a token of a batch finds its request (RequestSearch),   *)
(* its n-grams are hashed into the buckets, and the ranks that share a     *)
(* table look the ids up (files/engram.py, compute_hash_multipliers, the   *)
(* arithmetic of _hash_ids_kernel, ParallelEngramEmbedding.__init__,       *)
(* _engram_head_shard_weight_loader, _engram_lookup_kernel).               *)
(*                                                                         *)
(* Where the values of an n-gram come from is NgramHash's subject, how     *)
(* rows travel between ranks EngramShards'; here both are taken as given.  *)
(* A table row is its number.                                              *)
(***************************************************************************)
EXTENDS Integers, EngramLayout, RequestSearch

CONSTANTS LongBits,         \* width of the kernel's arithmetic (int64)
          IdBits,           \* width of the ids it stores (int32)
          CompressedSizes,  \* compressed_vocab_size: the sizes to consider
          NumShards,        \* ranks sharing a table
          Draw(_)           \* the numbers of 0..n-1 to consider, all or some

ASSUME WidthAssumption == LongBits \in Nat /\ IdBits \in 2..LongBits

\* Powers of two, as a table.
TwoTo ==
  LET two[n \in 0..LongBits] == IF n = 0 THEN 1 ELSE 2 * two[n - 1]
  IN  [n \in 0..LongBits |-> two[n]]

MaxLong == TwoTo[LongBits - 1] - 1

ASSUME CompressedAssumption == CompressedSizes \subseteq 1..MaxLong
ASSUME DrawAssumption == \A n \in 1..MaxLong : Draw(n) \subseteq 0..(n - 1)

\* part_n_hash_cols: heads of a rank.
PartCols == (NumCols + NumShards - 1) \div NumShards
Shards   == 0..(NumShards - 1)

\* "Engram sharding leaves ranks without hash heads" otherwise.
ASSUME ShardsAssumption == NumShards \in Nat \ {0} /\ (NumShards - 1) * PartCols < NumCols

VARIABLE hashed     \* the layer and ids of the token hashed, << >> before

idsVars == <<layoutVars, vars, hashed>>

-----------------------------------------------------------------------------
(* Integers of w bits *)

Signed(x, w) ==
  LET u == x % TwoTo[w] IN IF u < TwoTo[w - 1] THEN u ELSE u - TwoTo[w]

Times(x, y) == Signed(x * y, LongBits)

Bit(x, n) == (x \div TwoTo[n]) % 2

XorLong(x, y) ==
  LET low[n \in 0..LongBits] ==     \* of the lowest n bits
        IF n = 0 THEN 0
        ELSE low[n - 1] + (IF Bit(x, n - 1) = Bit(y, n - 1) THEN 0 ELSE TwoTo[n - 1])
  IN  Signed(low[LongBits], LongBits)

\* The remainder of the GPU has the sign of the dividend.
Rem(x, n) == IF x >= 0 THEN x % n ELSE -((-x) % n)

\* Defect, not part of Multipliers: the bound before it is halved.
WideBound(size) == MaxLong \div size

MultiplierBound(size) ==
  LET half == (MaxLong \div size) \div 2 IN IF half = 0 THEN 1 ELSE half

\* compute_hash_multipliers: any draw below the bound.
Multipliers(size) == {2 * x + 1 : x \in Draw(MultiplierBound(size))}

\* Ids of an n-gram's tokens, the padding id among them.
Sources(size) == Draw(size)

\* Bucket of every column of layer l: value[s] and mult[s] belong to the token
\* s places back; n-gram size k takes the first k + 1 of them.
HashIds(l, value, mult) ==
  LET rolling[s \in 0..NumNgrams] ==
        XorLong(IF s = 0 THEN 0 ELSE rolling[s - 1], Times(value[s], mult[s]))
  IN  [c \in 1..NumCols |->
         Signed(Rem(rolling[(c - 1) \div NumHeads + 1], primes[l][c]) + offsets[l][c],
                IdBits)]

Hash ==
  /\ LaidOut /\ Finished
  /\ hashed = << >> /\ start[NumRows] > 0
  /\ \E size \in CompressedSizes, l \in Layers :
       \E value \in [0..NumNgrams -> Sources(size)],
          mult \in [0..NumNgrams -> Multipliers(size)] :
         hashed' = <<l, HashIds(l, value, mult)>>
  /\ UNCHANGED <<layoutVars, vars>>

-----------------------------------------------------------------------------
(* The rank's part of a table *)

HeadStart(r) == r * PartCols

\* Rows of the first n heads of layer l's table.
RowsUpTo(l, n) ==
  LET rows[c \in 0..NumCols] == IF c = 0 THEN 0 ELSE rows[c - 1] + primes[l][c]
  IN  rows[IF n < NumCols THEN n ELSE NumCols]

VocabStart(l, r) == RowsUpTo(l, HeadStart(r))
VocabEnd(l, r)   == RowsUpTo(l, HeadStart(r) + PartCols)

\* _engram_head_shard_weight_loader narrows the table to the rank's rows.
Shard(l, r) == [k \in 0..(VocabEnd(l, r) - VocabStart(l, r) - 1) |-> VocabStart(l, r) + k]

Zero == -1

\* _engram_lookup_kernel, for local head j.
Lookup(l, ids, r, j) ==
  LET head  == HeadStart(r) + j
      owned == head < NumCols /\ ids[head + 1] \in VocabStart(l, r)..(VocabEnd(l, r) - 1)
  IN  IF owned THEN Shard(l, r)[ids[head + 1] - VocabStart(l, r)] ELSE Zero

-----------------------------------------------------------------------------

IdsInit == LayoutInit /\ Init /\ hashed = << >>

\* The layout is built when the model is; the kernel runs later.
IdsNext == \/ LayoutNext /\ UNCHANGED <<vars, hashed>>
           \/ LaidOut /\ Next /\ UNCHANGED <<layoutVars, hashed>>
           \/ Hash

\* Neither loop waits for anything.
IdsSpec == /\ IdsInit /\ [][IdsNext]_idsVars
           /\ WF_layoutVars(LayoutNext) /\ WF_vars(LaidOut /\ Next)

\* Every head's id leads to a row of that head's bucket, the rank that holds
\* the head finds it in its part of the table, and no product overflows on the
\* way ("Kept odd and bounded so `token_id * multiplier` cannot overflow").
RowsOfOwnBucket ==
  hashed # << >> =>
    LET l == hashed[1]  ids == hashed[2]
    IN  \A r \in Shards, j \in 0..(PartCols - 1) :
          LET head == HeadStart(r) + j
          IN  IF head < NumCols
              THEN /\ ids[head + 1] \in offsets[l][head + 1]..(Ends(l, head + 1) - 1)
                   /\ Lookup(l, ids, r, j) = ids[head + 1]
              ELSE Lookup(l, ids, r, j) = Zero

\* The strengthening behind RowsOfOwnBucket: the layout, and the ids of the
\* token hashed, as far as the ids number the rows of all tables.
TablesFit ==
  \A l \in Layers : \A c \in 1..Len(primes[l]) : Ends(l, c) <= TwoTo[IdBits - 1]

InBuckets(l, ids) ==
  \A c \in 1..NumCols : ids[c] \in offsets[l][c]..(Ends(l, c) - 1)

IdsInv ==
  /\ ColumnsInv
  /\ hashed # << >> =>
       /\ LaidOut /\ hashed[1] \in Layers
       /\ TablesFit => InBuckets(hashed[1], hashed[2])

\* The search for primes and the binary search come to their end, for every
\* layout and every request.
HashesEnd == <>(LaidOut /\ Finished)
=============================================================================
