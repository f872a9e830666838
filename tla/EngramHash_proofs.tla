------------------------- MODULE EngramHash_proofs -------------------------
(* What the hash kernels rely on, for every size.  The layout keeps the heads *)
(* apart whatever _is_prime says: the ranges do not overlap because a range   *)
(* begins where the one before it ends, and no size comes twice because       *)
(* find_next_prime has seen it.  It leaves no prime out, since the search     *)
(* passes over a number only when it is not prime or was handed out.          *)
(*                                                                            *)
(* The binary search of _hash_ids_kernel finds the row of each token: Bracket *)
(* is inductive, since a turn that moves lo learns that row Mid + 1 ends at   *)
(* or before the token, one that moves hi that it ends after it, and          *)
(* query_start_loc does not decrease.                                         *)
(*                                                                            *)
(* An id is a row of its head's bucket: with the bound of                     *)
(* compute_hash_multipliers no product exceeds the greatest integer, the xor  *)
(* of integers that are not negative is none either, and so the remainder is  *)
(* a row of the bucket.  A rank finds it, since tables have no gap.           *)
EXTENDS EngramIds, NaturalsInduction, WellFoundedInduction, TLAPS

-----------------------------------------------------------------------------
(* The layout *)

USE LayoutAssumption

LEMMA LayoutInitInv == LayoutInit => LayoutInv
<1>. SUFFICES ASSUME LayoutInit PROVE LayoutInv
  OBVIOUS
<1>1. \A l \in Layers : primes[l] = << >> /\ offsets[l] = << >>
  BY DEF LayoutInit
<1>2. LayoutTypes
  BY <1>1 DEF LayoutInit, LayoutTypes, Layers
<1>. QED
  BY <1>1, <1>2 DEF LayoutInv, SeenAll, BucketsDisjoint

LEMMA NextCandidateInv == LayoutInv /\ NextCandidate => LayoutInv'
<1>. SUFFICES ASSUME LayoutInv, NextCandidate PROVE LayoutInv'
  OBVIOUS
<1>. USE DEF LayoutInv, NextCandidate
<1>1. LayoutTypes'
  BY DEF LayoutTypes
<1>2. SeenAll' /\ BucketsDisjoint'
  BY DEF SeenAll, BucketsDisjoint, Ends
<1>. QED
  BY <1>1, <1>2

\* What TakePrime does to the columns: one more in its layer, the others as
\* they were.
LEMMA ColumnsAfter ==
  ASSUME LayoutTypes, TakePrime, NEW l \in Layers
  PROVE  /\ l # layer => primes'[l] = primes[l] /\ offsets'[l] = offsets[l]
         /\ l = layer => /\ primes'[l] = Append(primes[l], candidate)
                         /\ offsets'[l] = Append(offsets[l], NextOffset(l))
  BY DEF TakePrime, LayoutTypes

LEMMA NextOffsetType ==
  ASSUME LayoutTypes, NEW l \in Layers
  PROVE  NextOffset(l) \in Nat
<1>1. primes[l] \in Seq(Nat) /\ offsets[l] \in Seq(Nat)
      /\ Len(offsets[l]) = Len(primes[l])
  BY DEF LayoutTypes
<1>2. Len(primes[l]) # 0 =>
        offsets[l][Len(primes[l])] \in Nat /\ primes[l][Len(primes[l])] \in Nat
  BY <1>1
<1>. QED
  BY <1>1, <1>2 DEF NextOffset

LEMMA TakePrimeTypes == LayoutTypes /\ TakePrime => LayoutTypes'
<1>. SUFFICES ASSUME LayoutTypes, TakePrime PROVE LayoutTypes'
  OBVIOUS
<1>1. layer \in Layers /\ candidate \in Nat /\ NextOffset(layer) \in Nat
  BY NextOffsetType DEF TakePrime, LayoutTypes
<1>2. layer' \in 1..(NumLayers + 1) /\ candidate' \in Nat
  BY <1>1 DEF TakePrime, LayoutTypes, Layers
<1>3. primes' \in [Layers -> Seq(Nat)] /\ offsets' \in [Layers -> Seq(Nat)]
  BY <1>1 DEF TakePrime, LayoutTypes
<1>4. ASSUME NEW l \in Layers
      PROVE  Len(offsets'[l]) = Len(primes'[l])
  <2>1. primes[l] \in Seq(Nat) /\ offsets[l] \in Seq(Nat)
        /\ Len(offsets[l]) = Len(primes[l])
    BY DEF LayoutTypes
  <2>. QED
    BY <1>1, <2>1, ColumnsAfter
<1>. QED
  BY <1>2, <1>3, <1>4 DEF LayoutTypes

\* A column of the next state is one of this state, or the one just taken.
LEMMA ColumnsKept ==
  ASSUME LayoutTypes, TakePrime, NEW l \in Layers, NEW c \in 1..Len(primes'[l])
  PROVE  \/ /\ c \in 1..Len(primes[l])
            /\ primes'[l][c] = primes[l][c] /\ offsets'[l][c] = offsets[l][c]
         \/ /\ l = layer /\ c = Len(primes[l]) + 1
            /\ primes'[l][c] = candidate /\ offsets'[l][c] = NextOffset(l)
<1>1. primes[l] \in Seq(Nat) /\ offsets[l] \in Seq(Nat)
      /\ Len(offsets[l]) = Len(primes[l]) /\ candidate \in Nat
      /\ NextOffset(l) \in Nat
  BY NextOffsetType DEF LayoutTypes
<1>2. CASE l # layer
  BY <1>2, ColumnsAfter
<1>3. CASE l = layer
  <2>1. /\ primes'[l] = Append(primes[l], candidate)
        /\ offsets'[l] = Append(offsets[l], NextOffset(l))
    BY <1>3, ColumnsAfter
  <2>2. c \in 1..(Len(primes[l]) + 1)
    BY <1>1, <2>1
  <2>. QED
    BY <1>1, <1>3, <2>1, <2>2
<1>. QED
  BY <1>2, <1>3

LEMMA TakePrimeSeen == LayoutTypes /\ SeenAll /\ TakePrime => SeenAll'
  BY ColumnsKept DEF SeenAll, TakePrime

LEMMA TakePrimeRanges ==
  ASSUME LayoutInv, TakePrime,
         NEW l \in Layers, NEW c \in 1..Len(primes'[l]), NEW d \in 1..Len(primes'[l]),
         c < d
  PROVE  Ends(l, c)' <= offsets'[l][d]
<1>1. LayoutTypes
  BY DEF LayoutInv
<1>2. primes[l] \in Seq(Nat) /\ offsets[l] \in Seq(Nat)
      /\ Len(offsets[l]) = Len(primes[l])
  BY <1>1 DEF LayoutTypes
<1>3. Ends(l, c)' = offsets'[l][c] + primes'[l][c]
  BY DEF Ends
<1>4. \/ d \in 1..Len(primes[l]) /\ offsets'[l][d] = offsets[l][d]
      \/ d = Len(primes[l]) + 1 /\ offsets'[l][d] = NextOffset(l)
  BY <1>1, ColumnsKept
<1>5. \/ /\ c \in 1..Len(primes[l])
         /\ primes'[l][c] = primes[l][c] /\ offsets'[l][c] = offsets[l][c]
      \/ c = Len(primes[l]) + 1
  BY <1>1, ColumnsKept
<1>6. /\ c \in 1..Len(primes[l])
      /\ primes'[l][c] = primes[l][c] /\ offsets'[l][c] = offsets[l][c]
      /\ offsets[l][c] \in Nat /\ primes[l][c] \in Nat
  <2>1. Len(primes[l]) \in Nat /\ c \in Nat /\ d \in Nat
    BY <1>2, <1>4, <1>5
  <2>2. c # Len(primes[l]) + 1
    BY <1>4, <2>1
  <2>. QED
    BY <1>2, <1>5, <2>2
<1>7. CASE d \in 1..Len(primes[l]) /\ offsets'[l][d] = offsets[l][d]
  BY <1>3, <1>6, <1>7 DEF LayoutInv, BucketsDisjoint, Ends
<1>8. CASE d = Len(primes[l]) + 1 /\ offsets'[l][d] = NextOffset(l)
  <2>. DEFINE n == Len(primes[l])
  <2>0. n \in Nat /\ n # 0
    BY <1>2, <1>6
  <2>1. /\ n \in 1..n /\ n # 0
        /\ offsets[l][n] \in Nat /\ primes[l][n] \in Nat
    BY <1>2, <2>0
  <2>2. offsets'[l][d] = offsets[l][n] + primes[l][n]
    BY <1>8, <2>1 DEF NextOffset
  <2>3. c < n => offsets[l][c] + primes[l][c] <= offsets[l][n]
    BY <1>6, <2>1 DEF LayoutInv, BucketsDisjoint, Ends
  <2>4. CASE c < n
    BY <1>3, <1>6, <2>1, <2>2, <2>3, <2>4
  <2>5. CASE c = n
    BY <1>3, <1>6, <2>1, <2>2, <2>5
  <2>. QED
    BY <1>2, <1>6, <2>4, <2>5
<1>. QED
  BY <1>4, <1>7, <1>8

LEMMA TakePrimeDistinct ==
  ASSUME LayoutInv, TakePrime, NEW l \in Layers, NEW m \in Layers,
         NEW c \in 1..Len(primes'[l]), NEW d \in 1..Len(primes'[m]),
         primes'[l][c] = primes'[m][d]
  PROVE  l = m /\ c = d
<1>1. LayoutTypes /\ SeenAll /\ BucketsDisjoint /\ candidate \notin seen
  BY DEF LayoutInv, TakePrime
<1>2. ASSUME NEW k \in Layers, NEW e \in 1..Len(primes[k])
      PROVE  primes[k][e] # candidate
  BY <1>1 DEF SeenAll
<1>3. \/ c \in 1..Len(primes[l]) /\ primes'[l][c] = primes[l][c]
      \/ l = layer /\ c = Len(primes[l]) + 1 /\ primes'[l][c] = candidate
  BY <1>1, ColumnsKept
<1>4. \/ d \in 1..Len(primes[m]) /\ primes'[m][d] = primes[m][d]
      \/ m = layer /\ d = Len(primes[m]) + 1 /\ primes'[m][d] = candidate
  BY <1>1, ColumnsKept
<1>5. CASE c \in 1..Len(primes[l]) /\ d \in 1..Len(primes[m])
           /\ primes[l][c] = primes[m][d]
  BY <1>1, <1>5 DEF BucketsDisjoint
<1>. QED
  BY <1>2, <1>3, <1>4, <1>5

LEMMA TakePrimeInv == LayoutInv /\ TakePrime => LayoutInv'
<1>. SUFFICES ASSUME LayoutInv, TakePrime PROVE LayoutInv'
  OBVIOUS
<1>1. LayoutTypes' /\ SeenAll'
  BY TakePrimeTypes, TakePrimeSeen DEF LayoutInv
<1>2. BucketsDisjoint'
  BY TakePrimeRanges, TakePrimeDistinct DEF BucketsDisjoint
<1>. QED
  BY <1>1, <1>2 DEF LayoutInv

LEMMA LayoutNextInv == LayoutInv /\ [LayoutNext]_layoutVars => LayoutInv'
<1>. SUFFICES ASSUME LayoutInv, [LayoutNext]_layoutVars PROVE LayoutInv'
  OBVIOUS
<1>1. CASE UNCHANGED layoutVars
  BY <1>1 DEF layoutVars, LayoutInv, LayoutTypes, SeenAll, BucketsDisjoint, Ends
<1>. QED
  BY <1>1, NextCandidateInv, TakePrimeInv DEF LayoutNext

\* For any number of layers, n-gram sizes and heads: no bucket of a layer has
\* two heads, and no two heads have the same prime, at any time while the
\* layout is built and when it is done.
THEOREM HeadsApart == LayoutSpec => []BucketsDisjoint
<1>1. LayoutInv => BucketsDisjoint
  BY DEF LayoutInv
<1>. QED
  BY <1>1, LayoutInitInv, LayoutNextInv, PTL DEF LayoutSpec

LEMMA SweepInit == LayoutInit => SweepInv
  BY DEF LayoutInit, SweepInv, Swept, NoneSkipped

\* A number that is passed over is not prime or has been handed out; the search
\* starts over at the vocabulary size, below which nothing is looked at.
LEMMA SweepNext == SweepInv /\ [LayoutNext]_layoutVars => SweepInv'
<1>. SUFFICES ASSUME SweepInv, [LayoutNext]_layoutVars PROVE SweepInv'
  OBVIOUS
<1>. USE DEF SweepInv
<1>1. CASE NextCandidate
  <2>1. candidate' = candidate + 1 /\ seen' = seen
    BY <1>1 DEF NextCandidate
  <2>2. Swept'
    <3>. SUFFICES ASSUME NEW q \in VocabSize..candidate, IsPrime(q) PROVE q \in seen
      BY <2>1 DEF Swept
    <3>1. CASE q = candidate
      BY <1>1, <3>1 DEF NextCandidate
    <3>2. CASE q # candidate
      BY <3>2 DEF Swept
    <3>. QED
      BY <3>1, <3>2
  <2>. QED
    BY <2>1, <2>2 DEF NoneSkipped
<1>2. CASE TakePrime
  <2>1. /\ IsPrime(candidate) /\ seen' = seen \cup {candidate}
        /\ candidate' = VocabSize \/ candidate' = candidate + 1
    BY <1>2 DEF TakePrime
  <2>2. Swept'
    <3>. SUFFICES ASSUME NEW q \in VocabSize..(candidate' - 1), IsPrime(q) PROVE q \in seen'
      BY DEF Swept
    <3>1. candidate' # VocabSize /\ candidate' = candidate + 1
      BY <2>1
    <3>2. q = candidate \/ q \in VocabSize..(candidate - 1)
      BY <3>1
    <3>. QED
      BY <2>1, <3>2 DEF Swept
  <2>3. NoneSkipped'
    BY <2>1 DEF NoneSkipped, Swept
  <2>. QED
    BY <2>1, <2>2, <2>3
<1>3. CASE UNCHANGED layoutVars
  BY <1>3 DEF layoutVars, Swept, NoneSkipped
<1>. QED
  BY <1>1, <1>2, <1>3 DEF LayoutNext

\* find_next_prime hands out what _is_prime takes for primes in order and leaves
\* none out, however often the search starts over.
THEOREM NoneLeftOut == LayoutSpec => []SweepInv
  BY SweepInit, SweepNext, PTL DEF LayoutSpec

\* What the test has to get right for that to be the primes: the numbers up to
\* Reach.  (61 fails it, and so do some numbers from 4,759,123,141 on.)
TestRight == \A n \in VocabSize..Reach : IsPrime(n) <=> n \in PrimesToReach

\* As far as Reach, the primes handed out are the smallest from the vocabulary
\* size on, with no gap.
THEOREM PrimesInOrder ==
  ASSUME TestRight
  PROVE  LayoutSpec => [](seen \subseteq 0..Reach => PrimesWithoutGap)
<1>1. SweepInv => (seen \subseteq 0..Reach => PrimesWithoutGap)
  <2>. SUFFICES ASSUME SweepInv, seen \subseteq 0..Reach PROVE PrimesWithoutGap
    OBVIOUS
  <2>1. Reach \in Nat
    BY DEF Reach
  <2>2. \A p \in seen : p \in VocabSize..Reach /\ IsPrime(p)
    BY <2>1 DEF SweepInv, NoneSkipped
  <2>3. seen \subseteq PrimesToReach
    BY <2>2 DEF TestRight
  <2>4. ASSUME NEW q \in PrimesToReach \ seen, NEW p \in seen PROVE p < q
    <3>1. q \in VocabSize..Reach /\ IsPrime(q) /\ q # p
      BY <2>1, <2>4 DEF PrimesToReach, TestRight
    <3>2. ~(q \in VocabSize..(p - 1))
      BY <2>4, <3>1 DEF SweepInv, NoneSkipped
    <3>. QED
      BY <2>1, <2>2, <3>1, <3>2
  <2>. QED
    BY <2>3, <2>4 DEF PrimesWithoutGap
<1>. QED
  BY <1>1, NoneLeftOut, PTL

-----------------------------------------------------------------------------
(* The search *)

USE NumRowsAssumption, MaxTokensAssumption

\* The middle lies in the interval, so that start is read inside the array.
LEMMA MidInside ==
  ASSUME TypeOK, NEW t \in Lanes, Active(t)
  PROVE  Mid(t) \in lo[t]..(hi[t] - 1) /\ Mid(t) + 1 \in Rows
<1>1. lo[t] \in 0..NumRows /\ hi[t] \in 0..NumRows /\ lo[t] < hi[t]
  BY DEF TypeOK, Active
<1>. QED
  BY <1>1 DEF Mid, Rows

\* Rows end in the order of their numbers.
LEMMA EndsInOrder ==
  ASSUME TypeOK, NEW i \in 0..NumRows, NEW j \in 0..NumRows, i <= j
  PROVE  start[i] <= start[j] /\ start[i] \in Nat /\ start[j] \in Nat
  BY DEF TypeOK, QueryStartLocs

LEMMA InitIInv == Init => IInv
  BY DEF Init, IInv, TypeOK, Bracket, Rows, Lanes

LEMMA NextTypeOK == TypeOK /\ Halve => TypeOK'
<1>. SUFFICES ASSUME TypeOK, Halve PROVE TypeOK'
  OBVIOUS
<1>1. ASSUME NEW t \in Lanes
      PROVE  /\ (IF Active(t) /\ Right(t) THEN Mid(t) + 1 ELSE lo[t]) \in 0..NumRows
             /\ (IF Active(t) /\ ~Right(t) THEN Mid(t) ELSE hi[t]) \in 0..NumRows
  <2>1. lo[t] \in 0..NumRows /\ hi[t] \in 0..NumRows
    BY DEF TypeOK
  <2>2. Active(t) => Mid(t) \in 0..NumRows /\ Mid(t) + 1 \in 0..NumRows
    BY MidInside, <2>1 DEF Rows
  <2>. QED
    BY <2>1, <2>2
<1>2. start' \in QueryStartLocs
  BY DEF TypeOK, Halve
<1>. QED
  BY <1>1, <1>2 DEF TypeOK, Halve

LEMMA NextBracket == IInv /\ Halve => Bracket'
<1>. SUFFICES ASSUME IInv, Halve, NEW t \in Lanes
              PROVE  /\ lo'[t] <= hi'[t]
                     /\ \A r \in Rows : r <= lo'[t] => start[r] <= t
                     /\ \A r \in Rows : r > hi'[t]  => t < start[r]
  BY DEF Bracket, Halve
<1>1. /\ TypeOK /\ t \in Nat
      /\ lo[t] \in 0..NumRows /\ hi[t] \in 0..NumRows /\ lo[t] <= hi[t]
      /\ \A r \in Rows : r <= lo[t] => start[r] <= t
      /\ \A r \in Rows : r > hi[t]  => t < start[r]
  BY DEF IInv, TypeOK, Bracket, Lanes
<1>2. CASE ~Active(t)
  <2>1. lo'[t] = lo[t] /\ hi'[t] = hi[t]
    BY <1>2 DEF Halve
  <2>. QED
    BY <1>1, <2>1
<1>3. CASE Active(t) /\ Right(t)
  <2>1. lo'[t] = Mid(t) + 1 /\ hi'[t] = hi[t]
    BY <1>3 DEF Halve
  <2>2. Mid(t) \in lo[t]..(hi[t] - 1) /\ Mid(t) + 1 \in Rows
    BY <1>1, <1>3, MidInside
  <2>3. start[Mid(t) + 1] <= t
    BY <1>3 DEF Right
  <2>4. ASSUME NEW r \in Rows, r <= Mid(t) + 1 PROVE start[r] <= t
    <3>1. start[r] <= start[Mid(t) + 1] /\ start[r] \in Nat /\ start[Mid(t) + 1] \in Nat
      BY <1>1, <2>2, <2>4, EndsInOrder DEF Rows
    <3>. QED
      BY <1>1, <2>3, <3>1
  <2>. QED
    BY <1>1, <2>1, <2>2, <2>4 DEF Rows
<1>4. CASE Active(t) /\ ~Right(t)
  <2>1. lo'[t] = lo[t] /\ hi'[t] = Mid(t)
    BY <1>4 DEF Halve
  <2>2. Mid(t) \in lo[t]..(hi[t] - 1) /\ Mid(t) + 1 \in Rows
    BY <1>1, <1>4, MidInside
  <2>3. start[Mid(t) + 1] \in Nat /\ t < start[Mid(t) + 1]
    BY <1>1, <1>4, <2>2, EndsInOrder DEF Right, Rows
  <2>4. ASSUME NEW r \in Rows, r > Mid(t) PROVE t < start[r]
    <3>1. Mid(t) + 1 <= r
      BY <2>2, <2>4 DEF Rows
    <3>2. start[Mid(t) + 1] <= start[r] /\ start[r] \in Nat
      BY <1>1, <2>2, <3>1, EndsInOrder DEF Rows
    <3>. QED
      BY <1>1, <2>3, <3>2
  <2>. QED
    BY <1>1, <2>1, <2>2, <2>4 DEF Rows
<1>. QED
  BY <1>2, <1>3, <1>4

LEMMA BracketFinds == IInv => FindsOwnRow
<1>. SUFFICES ASSUME IInv, Finished, NEW t \in Lanes, t < start[NumRows]
              PROVE  start[Req(t)] <= t /\ t < start[Req(t) + 1]
  BY DEF FindsOwnRow
<1>1. /\ TypeOK /\ t \in Nat
      /\ lo[t] \in 0..NumRows /\ hi[t] \in 0..NumRows /\ lo[t] = hi[t]
      /\ \A r \in Rows : r <= lo[t] => start[r] <= t
      /\ \A r \in Rows : r > hi[t]  => t < start[r]
  BY DEF IInv, TypeOK, Bracket, Lanes, Finished, Active
<1>2. start[NumRows] \in Nat /\ start[0] = 0
  BY <1>1 DEF TypeOK, QueryStartLocs
<1>3. lo[t] < NumRows
  BY <1>1, <1>2 DEF Rows
<1>4. start[lo[t]] <= t
  BY <1>1, <1>2, <1>3 DEF Rows
<1>5. t < start[lo[t] + 1]
  BY <1>1, <1>3 DEF Rows
<1>. QED
  BY <1>3, <1>4, <1>5 DEF Req

LEMMA SearchNext == IInv /\ [Next]_vars => IInv'
<1>. SUFFICES ASSUME IInv, [Next]_vars PROVE IInv'
  OBVIOUS
<1>1. CASE Halve
  BY <1>1, NextTypeOK, NextBracket DEF IInv
<1>2. CASE UNCHANGED vars
  BY <1>2 DEF vars, IInv, TypeOK, Bracket, QueryStartLocs
<1>. QED
  BY <1>1, <1>2 DEF Next

\* The bracket around each lane's answer holds through every turn of the loop
\* of _hash_ids_kernel.
THEOREM Bracketed == Spec => []IInv
  BY InitIInv, SearchNext, PTL DEF Spec

\* Whatever padding rows and empty requests query_start_loc holds, the search
\* gives every token of the batch the row that holds it.
THEOREM RowFound == Spec => []FindsOwnRow
  BY Bracketed, BracketFinds, PTL

-----------------------------------------------------------------------------
(* Tables without gap *)

LEMMA ColumnsInit == LayoutInit => ColumnsInv
<1>. SUFFICES ASSUME LayoutInit PROVE ColumnsInv
  OBVIOUS
<1>1. \A l \in Layers : primes[l] = << >> /\ offsets[l] = << >> /\ Len(primes[l]) = 0
  BY DEF LayoutInit
<1>2. LayoutTypes
  BY LayoutInitInv DEF LayoutInv
<1>3. Contiguous
  BY <1>1 DEF Contiguous
<1>4. NumCols > 0 /\ NumCols \in Nat
  BY DEF NumCols
<1>5. AllColumns
  BY <1>1, <1>4 DEF AllColumns, LayoutInit, Layers
<1>. QED
  BY <1>2, <1>3, <1>5 DEF ColumnsInv

\* The column taken is not empty and begins where the last one ends.
LEMMA TakePrimeContiguous == ColumnsInv /\ TakePrime => Contiguous'
<1>. SUFFICES ASSUME ColumnsInv, TakePrime,
                     NEW l \in Layers, NEW c \in 1..Len(primes'[l])
              PROVE  /\ primes'[l][c] > 0
                     /\ offsets'[l][c] = IF c = 1 THEN 0 ELSE Ends(l, c - 1)'
  BY DEF Contiguous
<1> DEFINE n == Len(primes[l])
<1>1. LayoutTypes /\ Contiguous
  BY DEF ColumnsInv
<1>2. primes[l] \in Seq(Nat) /\ offsets[l] \in Seq(Nat) /\ Len(offsets[l]) = n
      /\ n \in Nat /\ Len(primes'[l]) \in Nat
  BY <1>1, TakePrimeTypes DEF LayoutTypes
<1>3. /\ \A d \in 1..n : primes'[l][d] = primes[l][d] /\ offsets'[l][d] = offsets[l][d]
      /\ c \in 1..n \/ /\ c = n + 1
                       /\ primes'[l][c] = candidate /\ offsets'[l][c] = NextOffset(l)
  <2>1. CASE l # layer
    BY <1>1, <2>1, ColumnsAfter
  <2>2. CASE l = layer
    <3>1. /\ primes'[l] = Append(primes[l], candidate)
          /\ offsets'[l] = Append(offsets[l], NextOffset(l))
      BY <1>1, <2>2, ColumnsAfter
    <3>2. candidate \in Nat /\ NextOffset(l) \in Nat
      BY <1>1, NextOffsetType DEF LayoutTypes
    <3>3. c \in 1..(n + 1)
      BY <1>2, <3>1, <3>2
    <3>4. ASSUME NEW d \in 1..n
          PROVE  primes'[l][d] = primes[l][d] /\ offsets'[l][d] = offsets[l][d]
      BY <1>2, <3>1, <3>2, <3>4
    <3>5. primes'[l][n + 1] = candidate /\ offsets'[l][n + 1] = NextOffset(l)
      BY <1>2, <3>1, <3>2
    <3> HIDE DEF n
    <3>. QED
      BY <1>2, <3>3, <3>4, <3>5
  <2>. QED
    BY <2>1, <2>2
<1>4. \A d \in 1..n : Ends(l, d)' = Ends(l, d)
  BY <1>3 DEF Ends
<1>5. candidate > 0
  BY DEF TakePrime, IsPrime, ColumnsInv, LayoutTypes
<1>6. CASE c \in 1..n
  <2>1. primes[l][c] > 0 /\ offsets[l][c] = IF c = 1 THEN 0 ELSE Ends(l, c - 1)
    BY <1>1, <1>6 DEF Contiguous
  <2>2. c # 1 => c - 1 \in 1..n
    BY <1>2, <1>6
  <2> HIDE DEF n
  <2>. QED
    BY <1>3, <1>4, <1>6, <2>1, <2>2
<1>7. CASE c = n + 1 /\ primes'[l][c] = candidate /\ offsets'[l][c] = NextOffset(l)
  <2>1. NextOffset(l) = IF n = 0 THEN 0 ELSE Ends(l, n)
    BY DEF NextOffset, Ends
  <2>2. c - 1 = n /\ (c = 1 <=> n = 0) /\ (n # 0 => n \in 1..n)
    BY <1>2, <1>7
  <2>3. n # 0 => Ends(l, c - 1)' = Ends(l, n)
    BY <1>4, <2>2
  <2> HIDE DEF n
  <2>. QED
    BY <1>5, <1>7, <2>1, <2>2, <2>3
<1>. QED
  BY <1>3, <1>6, <1>7

\* A layer is left when it has all its columns.
LEMMA TakePrimeAll == ColumnsInv /\ TakePrime => AllColumns'
<1>. SUFFICES ASSUME ColumnsInv, TakePrime, NEW l \in Layers
              PROVE  /\ l < layer' => Len(primes'[l]) = NumCols
                     /\ l = layer' => Len(primes'[l]) < NumCols
                     /\ l > layer' => Len(primes'[l]) = 0
  BY DEF AllColumns
<1> DEFINE n == Len(primes[l])
<1>1. LayoutTypes /\ AllColumns /\ layer \in Layers /\ l \in Nat /\ layer \in Nat
      /\ NumCols \in Nat /\ NumCols > 0
  BY DEF ColumnsInv, TakePrime, Layers, NumCols
<1>2. primes[l] \in Seq(Nat) /\ n \in Nat
  BY <1>1 DEF LayoutTypes
<1>3. /\ l < layer => n = NumCols
      /\ l = layer => n < NumCols
      /\ l > layer => n = 0
  BY <1>1 DEF AllColumns
<1>4. layer' = IF Len(primes[layer]) + 1 = NumCols THEN layer + 1 ELSE layer
  BY DEF TakePrime
<1>5. CASE l # layer
  <2>1. Len(primes'[l]) = n
    BY <1>1, <1>5, ColumnsAfter
  <2> HIDE DEF n
  <2>. QED
    BY <1>1, <1>2, <1>3, <1>4, <1>5, <2>1
<1>6. CASE l = layer
  <2>1. candidate \in Nat /\ primes'[l] = Append(primes[l], candidate)
    BY <1>1, <1>6, ColumnsAfter DEF LayoutTypes
  <2>2. Len(primes'[l]) = n + 1
    BY <1>2, <2>1
  <2>3. layer' = IF n + 1 = NumCols THEN layer + 1 ELSE layer
    BY <1>4, <1>6
  <2> HIDE DEF n
  <2>. QED
    BY <1>1, <1>2, <1>3, <1>6, <2>2, <2>3
<1>. QED
  BY <1>5, <1>6

LEMMA ColumnsNext == ColumnsInv /\ [LayoutNext]_layoutVars => ColumnsInv'
<1>. SUFFICES ASSUME ColumnsInv, [LayoutNext]_layoutVars PROVE ColumnsInv'
  OBVIOUS
<1>. USE DEF ColumnsInv
<1>1. CASE NextCandidate
  BY <1>1 DEF NextCandidate, LayoutTypes, Contiguous, AllColumns, Ends
<1>2. CASE TakePrime
  BY <1>2, TakePrimeTypes, TakePrimeContiguous, TakePrimeAll
<1>3. CASE UNCHANGED layoutVars
  BY <1>3 DEF layoutVars, LayoutTypes, Contiguous, AllColumns, Ends
<1>. QED
  BY <1>1, <1>2, <1>3 DEF LayoutNext

-----------------------------------------------------------------------------
(* Functions defined one argument after the other *)

\* Induction on a set of numbers.
LEMMA Counting ==
  ASSUME NEW S, 0 \in S, \A n \in Nat : n \in S => n + 1 \in S
  PROVE  Nat \subseteq S
<1> DEFINE T == Nat \ S
<1>. SUFFICES ASSUME T # {} PROVE FALSE
  OBVIOUS
<1>1. PICK t \in T : \A y \in T : <<y, t>> \notin OpToRel(<, Nat)
  <2>1. T \subseteq Nat /\ T # {}
    OBVIOUS
  <2> HIDE DEF T
  <2>. QED
    BY <2>1, NatLessThanWellFounded, WFMin, Zenon
<1>2. t - 1 \in Nat /\ t - 1 < t /\ (t - 1) + 1 = t
  OBVIOUS
<1>3. t - 1 \notin S
  BY <1>2
<1>4. <<t - 1, t>> \in OpToRel(<, Nat)
  <2>1. \A y, z \in Nat : y < z => <<y, z>> \in OpToRel(<, Nat)
    BY Zenon DEF OpToRel
  <2>. QED
    BY <1>2, <2>1
<1>. QED
  BY <1>1, <1>2, <1>3, <1>4

\* f begins with a, and each value follows from the one before it by g.
Follows(f, m, a, g) == f[0] = a /\ \A n \in 1..m : f[n] = g[<<n, f[n - 1]>>]

\* A function whose every value follows from the one before it exists.
LEMMA RecursionExists ==
  ASSUME NEW N \in Nat, NEW S, NEW a \in S, NEW g \in [(1..N) \X S -> S]
  PROVE  \E f \in [0..N -> S] : Follows(f, N, a, g)
<1> DEFINE D == {m \in Nat : m <= N => \E f \in [0..m -> S] : Follows(f, m, a, g)}
<1>1. 0 \in D
  <2>1. [n \in 0..0 |-> a] \in [0..0 -> S]
    OBVIOUS
  <2>2. Follows([n \in 0..0 |-> a], 0, a, g)
    BY DEF Follows
  <2>. QED
    BY <2>1, <2>2
<1>2. ASSUME NEW m \in Nat, m \in D PROVE m + 1 \in D
  <2>. SUFFICES ASSUME m + 1 <= N
                PROVE  \E f \in [0..(m + 1) -> S] : Follows(f, m + 1, a, g)
    OBVIOUS
  <2>1. PICK old \in [0..m -> S] : Follows(old, m, a, g)
    BY <1>2
  <2> DEFINE next == g[<<m + 1, old[m]>>]
             new  == [n \in 0..(m + 1) |-> IF n = m + 1 THEN next ELSE old[n]]
  <2>2. next \in S
    BY <2>1
  <2>3. new \in [0..(m + 1) -> S]
    <3> HIDE DEF next
    <3>. QED
      BY <2>1, <2>2
  <2>4. new[0] = a
    BY <2>1 DEF Follows
  <2>5. ASSUME NEW n \in 1..(m + 1) PROVE new[n] = g[<<n, new[n - 1]>>]
    <3>1. n - 1 \in 0..m /\ n - 1 # m + 1 /\ new[n - 1] = old[n - 1]
      OBVIOUS
    <3>2. CASE n = m + 1
      <4>1. new[n] = next /\ n - 1 = m
        BY <3>2
      <4> HIDE DEF new
      <4>. QED
        BY <3>1, <3>2, <4>1
    <3>3. CASE n # m + 1
      <4>1. n \in 1..m /\ new[n] = old[n]
        BY <3>3
      <4>2. old[n] = g[<<n, old[n - 1]>>]
        BY <2>1, <4>1 DEF Follows
      <4> HIDE DEF new
      <4>. QED
        BY <3>1, <4>1, <4>2
    <3>. QED
      BY <3>2, <3>3
  <2> HIDE DEF new
  <2>. QED
    BY <2>3, <2>4, <2>5 DEF Follows
<1>3. Nat \subseteq D
  <2> HIDE DEF D
  <2>. QED
    BY <1>1, <1>2, Counting
<1>. QED
  BY <1>3

-----------------------------------------------------------------------------
(* The kernel's integers *)

USE WidthAssumption

\* TwoTo[n] is 1 doubled n times.
LEMMA TwoToIs ==
  /\ TwoTo \in [0..LongBits -> Nat]
  /\ TwoTo[0] = 1
  /\ \A n \in 1..LongBits : TwoTo[n] = 2 * TwoTo[n - 1]
<1> DEFINE two == CHOOSE f : f = [n \in 0..LongBits |-> IF n = 0 THEN 1 ELSE 2 * f[n - 1]]
           twice == [p \in (1..LongBits) \X Nat |-> 2 * p[2]]
<1>1. \E f : f = [n \in 0..LongBits |-> IF n = 0 THEN 1 ELSE 2 * f[n - 1]]
             /\ f \in [0..LongBits -> Nat]
  <2>1. twice \in [(1..LongBits) \X Nat -> Nat]
    OBVIOUS
  <2>2. PICK f \in [0..LongBits -> Nat] : Follows(f, LongBits, 1, twice)
    <3> HIDE DEF twice
    <3>. QED
      BY <2>1, RecursionExists
  <2>3. \A n \in 1..LongBits : n - 1 \in 0..LongBits /\ f[n - 1] \in Nat
    BY <2>2
  <2>4. \A n \in 1..LongBits : f[n] = 2 * f[n - 1]
    BY <2>2, <2>3 DEF Follows
  <2>5. f = [n \in 0..LongBits |-> IF n = 0 THEN 1 ELSE 2 * f[n - 1]]
    BY <2>2, <2>4 DEF Follows
  <2>. QED
    BY <2>2, <2>5
<1>2. two = [n \in 0..LongBits |-> IF n = 0 THEN 1 ELSE 2 * two[n - 1]]
  BY <1>1, Zenon
<1>3. TwoTo = [n \in 0..LongBits |-> two[n]]
  BY DEF TwoTo
<1> HIDE DEF two
<1>4. \A n \in 0..LongBits : two[n] = IF n = 0 THEN 1 ELSE 2 * two[n - 1]
  BY <1>2, Zenon
<1>5. two[0] = 1 /\ \A n \in 1..LongBits : two[n] = 2 * two[n - 1]
  BY <1>4
<1> DEFINE D == {n \in Nat : n <= LongBits => two[n] \in Nat}
<1>6. ASSUME NEW n \in Nat, n \in D PROVE n + 1 \in D
  <2>1. n + 1 <= LongBits => n + 1 \in 1..LongBits /\ (n + 1) - 1 = n
    OBVIOUS
  <2>. QED
    BY <1>5, <1>6, <2>1
<1>7. 0 \in D
  BY <1>5
<1>8. Nat \subseteq D
  <2> HIDE DEF D
  <2>. QED
    BY <1>6, <1>7, Counting
<1>9. \A n \in 0..LongBits : two[n] \in Nat
  BY <1>8
<1>. QED
  BY <1>3, <1>5, <1>9

LEMMA TwoToPositive == \A n \in 0..LongBits : TwoTo[n] \in Nat /\ TwoTo[n] >= 1
<1> DEFINE D == {n \in Nat : n <= LongBits => TwoTo[n] >= 1}
<1>1. 0 \in D
  BY TwoToIs
<1>2. ASSUME NEW n \in Nat, n \in D PROVE n + 1 \in D
  <2>1. n + 1 <= LongBits =>
          n \in 0..LongBits /\ n + 1 \in 1..LongBits /\ (n + 1) - 1 = n
    OBVIOUS
  <2>. QED
    BY <1>2, <2>1, TwoToIs
<1>3. Nat \subseteq D
  <2> HIDE DEF D
  <2>. QED
    BY <1>1, <1>2, Counting
<1>. QED
  BY <1>3, TwoToIs

LEMMA MaxLongIs ==
  /\ MaxLong \in Nat /\ MaxLong + 1 = TwoTo[LongBits - 1]
  /\ TwoTo[LongBits] = 2 * TwoTo[LongBits - 1]
<1>1. LongBits - 1 \in 0..LongBits /\ LongBits \in 1..LongBits
  OBVIOUS
<1>2. TwoTo[LongBits - 1] \in Nat /\ TwoTo[LongBits - 1] >= 1
  BY <1>1, TwoToPositive
<1>3. TwoTo[LongBits] = 2 * TwoTo[LongBits - 1]
  BY <1>1, TwoToIs
<1>. QED
  BY <1>2, <1>3 DEF MaxLong

\* Division by a greater number.
LEMMA Below ==
  ASSUME NEW x \in Nat, NEW d \in Nat, x < d
  PROVE  x % d = x /\ x \div d = 0
  OBVIOUS

\* A number that fits in w bits, sign and all, is itself.
LEMMA SignedIs ==
  ASSUME NEW w \in 2..LongBits, NEW x \in Nat, x < TwoTo[w - 1]
  PROVE  Signed(x, w) = x
<1>1. /\ TwoTo[w - 1] \in Nat /\ TwoTo[w] \in Nat
      /\ TwoTo[w] = 2 * TwoTo[w - 1]
  <2>1. w - 1 \in 0..LongBits /\ w \in 0..LongBits /\ w \in 1..LongBits
    OBVIOUS
  <2>. QED
    BY <2>1, TwoToIs
<1>2. x % TwoTo[w] = x
  BY <1>1, Below
<1>. QED
  BY <1>2 DEF Signed

\* The xor of two numbers that are not negative is none either: their sign bits
\* are equal, and the bits below it do not carry.
LEMMA XorInside ==
  ASSUME NEW x \in 0..MaxLong, NEW y \in 0..MaxLong
  PROVE  XorLong(x, y) \in 0..MaxLong
<1> DEFINE Part(n) == IF Bit(x, n - 1) = Bit(y, n - 1) THEN 0 ELSE TwoTo[n - 1]
           low == CHOOSE f :
                    f = [n \in 0..LongBits |-> IF n = 0 THEN 0 ELSE f[n - 1] + Part(n)]
           add == [p \in (1..LongBits) \X Nat |-> p[2] + Part(p[1])]
<1>1. \A n \in 1..LongBits : Part(n) \in Nat /\ Part(n) <= TwoTo[n - 1]
  BY TwoToPositive
<1>2. \E f : f = [n \in 0..LongBits |-> IF n = 0 THEN 0 ELSE f[n - 1] + Part(n)]
  <2>1. add \in [(1..LongBits) \X Nat -> Nat]
    <3> HIDE DEF Part
    <3>. QED
      BY <1>1
  <2>2. PICK f \in [0..LongBits -> Nat] : Follows(f, LongBits, 0, add)
    <3> HIDE DEF add
    <3>. QED
      BY <2>1, RecursionExists
  <2>3. \A n \in 1..LongBits : n - 1 \in 0..LongBits /\ f[n - 1] \in Nat
    BY <2>2
  <2> HIDE DEF Part
  <2>4. \A n \in 1..LongBits : f[n] = f[n - 1] + Part(n)
    BY <2>2, <2>3 DEF Follows
  <2>5. f = [n \in 0..LongBits |-> IF n = 0 THEN 0 ELSE f[n - 1] + Part(n)]
    BY <2>2, <2>4 DEF Follows
  <2>. QED
    BY <2>5
<1>3. low = [n \in 0..LongBits |-> IF n = 0 THEN 0 ELSE low[n - 1] + Part(n)]
  <2> HIDE DEF Part
  <2>. QED
    BY <1>2, Zenon
<1>4. XorLong(x, y) = Signed(low[LongBits], LongBits)
  BY DEF XorLong
<1> HIDE DEF low
<1>5. low[0] = 0 /\ \A n \in 1..LongBits : low[n] = low[n - 1] + Part(n)
  <2> HIDE DEF Part
  <2>1. \A n \in 0..LongBits : low[n] = IF n = 0 THEN 0 ELSE low[n - 1] + Part(n)
    BY <1>3, Zenon
  <2>. QED
    BY <2>1
<1>6. \A n \in 0..LongBits : low[n] \in Nat /\ low[n] < TwoTo[n]
  <2> DEFINE D == {n \in Nat : n <= LongBits => low[n] \in Nat /\ low[n] < TwoTo[n]}
  <2>1. 0 \in D
    BY <1>5, TwoToIs
  <2>2. ASSUME NEW n \in Nat, n \in D PROVE n + 1 \in D
    <3>. SUFFICES ASSUME n + 1 <= LongBits
                  PROVE  low[n + 1] \in Nat /\ low[n + 1] < TwoTo[n + 1]
      OBVIOUS
    <3>1. n + 1 \in 1..LongBits /\ (n + 1) - 1 = n /\ n \in 0..LongBits
      OBVIOUS
    <3>2. low[n + 1] = low[n] + Part(n + 1) /\ TwoTo[n + 1] = 2 * TwoTo[n]
      BY <1>5, <3>1, TwoToIs
    <3>3. Part(n + 1) \in Nat /\ Part(n + 1) <= TwoTo[n] /\ TwoTo[n] \in Nat
      BY <1>1, <3>1, TwoToIs
    <3>4. low[n] \in Nat /\ low[n] < TwoTo[n]
      BY <2>2, <3>1
    <3> HIDE DEF Part
    <3>. QED
      BY <3>2, <3>3, <3>4
  <2>3. Nat \subseteq D
    <3> HIDE DEF D
    <3>. QED
      BY <2>1, <2>2, Counting
  <2>. QED
    BY <2>3
<1>7. Part(LongBits) = 0
  <2>1. x \div TwoTo[LongBits - 1] = 0 /\ y \div TwoTo[LongBits - 1] = 0
    BY MaxLongIs, Below, TwoToPositive
  <2>. QED
    BY <2>1 DEF Bit
<1>8. low[LongBits] = low[LongBits - 1] /\ LongBits - 1 \in 0..LongBits
      /\ low[LongBits - 1] \in Nat /\ low[LongBits - 1] < TwoTo[LongBits - 1]
  <2> HIDE DEF Part
  <2>1. LongBits \in 1..LongBits /\ LongBits - 1 \in 0..LongBits
    OBVIOUS
  <2>2. low[LongBits] = low[LongBits - 1] + Part(LongBits)
    BY <1>5, <2>1
  <2>. QED
    BY <1>6, <1>7, <2>1, <2>2
<1>9. Signed(low[LongBits], LongBits) = low[LongBits]
  <2>1. LongBits \in 2..LongBits
    OBVIOUS
  <2>. QED
    BY <1>8, <2>1, SignedIs
<1>. QED
  BY <1>4, <1>8, <1>9, MaxLongIs

-----------------------------------------------------------------------------
(* Ids *)

USE CompressedAssumption, DrawAssumption

\* Products grow with their factors.
LEMMA Product ==
  ASSUME NEW a \in Nat, NEW b \in Nat, NEW c \in Nat, NEW d \in Nat, a <= c, b <= d
  PROVE  a * b \in Nat /\ a * b <= c * d
<1>1. a * b <= c * b
  BY SMTT(30)
<1>2. c * b <= c * d
  BY SMTT(30)
<1>. QED
  BY <1>1, <1>2, SMTT(30)

\* The bound of compute_hash_multipliers keeps every product of an id and a
\* multiplier inside an int64.
LEMMA ProductInside ==
  ASSUME NEW size \in CompressedSizes, NEW v \in Sources(size), NEW m \in Multipliers(size)
  PROVE  v * m \in 0..MaxLong
<1> DEFINE quotient == MaxLong \div size
           bound    == MultiplierBound(size)
<1>1. MaxLong \in Nat /\ size \in 1..MaxLong /\ size \in Nat /\ size >= 1
  BY MaxLongIs
<1>2. quotient \in Nat /\ size * quotient <= MaxLong /\ quotient >= 1
  <2>1. quotient \in Int /\ size * quotient <= MaxLong /\ MaxLong < size * quotient + size
    BY <1>1, SMTT(30)
  <2>2. quotient >= 0
    BY <1>1, SMTT(30)
  <2> HIDE DEF quotient
  <2>3. quotient # 0
    BY <1>1, <2>1, SMTT(30)
  <2>. QED
    BY <2>1, <2>2, <2>3
<1>3. bound = IF quotient \div 2 = 0 THEN 1 ELSE quotient \div 2
  BY DEF MultiplierBound
<1> HIDE DEF quotient
<1>4. bound \in Nat /\ bound >= 1 /\ 2 * bound - 1 <= quotient
  BY <1>2, <1>3
<1>5. quotient <= MaxLong
  <2>1. 1 * quotient <= size * quotient
    BY <1>1, <1>2, Product
  <2>. QED
    BY <1>1, <1>2, <2>1, SMTT(30)
<1>6. bound \in 1..MaxLong
  BY <1>1, <1>2, <1>4, <1>5
<1>7. v \in 0..(size - 1)
  BY <1>1 DEF Sources
<1>8. PICK draw \in Draw(bound) : m = 2 * draw + 1
  BY DEF Multipliers
<1>9. draw \in 0..(bound - 1)
  BY <1>6, <1>8
<1> HIDE DEF bound
<1>10. m \in Nat /\ m <= quotient
  BY <1>2, <1>4, <1>8, <1>9
<1>11. v * m \in Nat /\ v * m <= size * quotient
  <2>1. v \in Nat /\ v <= size
    BY <1>1, <1>7
  <2>. QED
    BY <1>1, <1>2, <1>10, <2>1, Product
<1>12. size * quotient \in Nat
  BY <1>1, <1>2, Product
<1>. QED
  BY <1>1, <1>2, <1>11, <1>12

LEMMA TimesInside ==
  ASSUME NEW size \in CompressedSizes, NEW v \in Sources(size), NEW m \in Multipliers(size)
  PROVE  Times(v, m) \in 0..MaxLong
<1>1. v * m \in Nat /\ v * m < TwoTo[LongBits - 1]
  BY ProductInside, MaxLongIs
<1>2. LongBits \in 2..LongBits
  OBVIOUS
<1>3. Times(v, m) = v * m
  BY <1>1, <1>2, SignedIs DEF Times
<1>. QED
  BY <1>3, ProductInside

\* A column's n-gram size is one of the layout's.
LEMMA NgramOfColumn ==
  ASSUME NEW c \in 1..NumCols
  PROVE  (c - 1) \div NumHeads + 1 \in 1..NumNgrams
<1> DEFINE q == (c - 1) \div NumHeads
<1>1. NumHeads \in Nat /\ NumHeads >= 1 /\ NumNgrams \in Nat /\ c - 1 \in Nat
  BY DEF NumCols
<1>2. q \in Int /\ q >= 0 /\ NumHeads * q <= c - 1
  BY <1>1, SMTT(30)
<1> HIDE DEF q
<1>3. c - 1 < NumNgrams * NumHeads
  BY <1>1 DEF NumCols
<1>4. q < NumNgrams
  <2>. SUFFICES ASSUME q >= NumNgrams PROVE FALSE
    BY <1>1, <1>2
  <2>1. NumHeads * NumNgrams <= NumHeads * q
    BY <1>1, <1>2, Product
  <2>. QED
    BY <1>1, <1>2, <1>3, <2>1, SMTT(30)
<1>. QED
  BY <1>1, <1>2, <1>4 DEF q

\* Whatever the ids and the multipliers, no part of the rolling hash is
\* negative, and a remainder of it is a row of its bucket.
LEMMA HashInBucket ==
  ASSUME NEW size \in CompressedSizes, NEW l \in Layers,
         NEW value \in [0..NumNgrams -> Sources(size)],
         NEW mult \in [0..NumNgrams -> Multipliers(size)],
         NEW c \in 1..NumCols,
         primes[l][c] \in Nat, primes[l][c] > 0, offsets[l][c] \in Nat,
         Ends(l, c) <= TwoTo[IdBits - 1]
  PROVE  HashIds(l, value, mult)[c] \in offsets[l][c]..(Ends(l, c) - 1)
<1> DEFINE Term(s)  == Times(value[s], mult[s])
           rolling  == CHOOSE f : f = [s \in 0..NumNgrams |->
                                         XorLong(IF s = 0 THEN 0 ELSE f[s - 1], Term(s))]
           k        == (c - 1) \div NumHeads + 1
           next     == [p \in (1..NumNgrams) \X (0..MaxLong) |-> XorLong(p[2], Term(p[1]))]
<1>1. NumNgrams \in Nat /\ MaxLong \in Nat /\ 0 \in 0..MaxLong
  BY MaxLongIs
<1>2. \A s \in 0..NumNgrams : Term(s) \in 0..MaxLong
  BY TimesInside
<1>3. k \in 1..NumNgrams
  BY NgramOfColumn
<1>4. HashIds(l, value, mult)[c] =
        Signed(Rem(rolling[k], primes[l][c]) + offsets[l][c], IdBits)
  BY DEF HashIds
<1> HIDE DEF k, Term
<1>5. \E f : /\ f = [s \in 0..NumNgrams |-> XorLong(IF s = 0 THEN 0 ELSE f[s - 1], Term(s))]
             /\ f \in [0..NumNgrams -> 0..MaxLong]
  <2>1. next \in [(1..NumNgrams) \X (0..MaxLong) -> 0..MaxLong]
    <3>1. ASSUME NEW p \in (1..NumNgrams) \X (0..MaxLong)
          PROVE  XorLong(p[2], Term(p[1])) \in 0..MaxLong
      <4>1. p[1] \in 0..NumNgrams /\ p[2] \in 0..MaxLong
        OBVIOUS
      <4>2. Term(p[1]) \in 0..MaxLong
        BY <1>2, <4>1
      <4>. QED
        BY <4>1, <4>2, XorInside
    <3>. QED
      BY <3>1, Zenon
  <2>2. 0 \in 0..NumNgrams /\ XorLong(0, Term(0)) \in 0..MaxLong
    BY <1>1, <1>2, XorInside
  <2>3. PICK f \in [0..NumNgrams -> 0..MaxLong] :
          Follows(f, NumNgrams, XorLong(0, Term(0)), next)
    <3> HIDE DEF next
    <3>. QED
      BY <1>1, <2>1, <2>2, RecursionExists
  <2>4. \A s \in 1..NumNgrams : s - 1 \in 0..NumNgrams /\ f[s - 1] \in 0..MaxLong
    BY <2>3
  <2>5. \A s \in 1..NumNgrams : f[s] = XorLong(f[s - 1], Term(s))
    BY <2>3, <2>4 DEF Follows
  <2>6. f[0] = XorLong(0, Term(0))
    BY <2>3 DEF Follows
  <2>7. \A s \in 0..NumNgrams : f[s] = XorLong(IF s = 0 THEN 0 ELSE f[s - 1], Term(s))
    BY <1>1, <2>5, <2>6
  <2>8. f = [s \in 0..NumNgrams |-> XorLong(IF s = 0 THEN 0 ELSE f[s - 1], Term(s))]
    BY <2>3, <2>7
  <2>. QED
    BY <2>3, <2>8
<1>6. rolling = [s \in 0..NumNgrams |->
                   XorLong(IF s = 0 THEN 0 ELSE rolling[s - 1], Term(s))]
  BY <1>5, Zenon
<1> HIDE DEF rolling
<1>7. rolling[0] = XorLong(0, Term(0))
      /\ \A s \in 1..NumNgrams : rolling[s] = XorLong(rolling[s - 1], Term(s))
  <2>1. \A s \in 0..NumNgrams :
          rolling[s] = XorLong(IF s = 0 THEN 0 ELSE rolling[s - 1], Term(s))
    BY <1>6, Zenon
  <2>. QED
    BY <1>1, <2>1
<1>8. rolling[k] \in 0..MaxLong
  <2> DEFINE D == {s \in Nat : s <= NumNgrams => rolling[s] \in 0..MaxLong}
  <2>1. 0 \in D
    <3>1. 0 \in 0..NumNgrams
      BY <1>1
    <3>2. Term(0) \in 0..MaxLong
      BY <1>2, <3>1
    <3>3. rolling[0] \in 0..MaxLong
      BY <1>1, <1>7, <3>2, XorInside
    <3>. QED
      BY <3>3
  <2>2. ASSUME NEW s \in Nat, s \in D PROVE s + 1 \in D
    <3>. SUFFICES ASSUME s + 1 <= NumNgrams PROVE rolling[s + 1] \in 0..MaxLong
      OBVIOUS
    <3>1. s + 1 \in 1..NumNgrams /\ s + 1 \in 0..NumNgrams /\ (s + 1) - 1 = s
      BY <1>1
    <3>2. rolling[s + 1] = XorLong(rolling[s], Term(s + 1)) /\ rolling[s] \in 0..MaxLong
      BY <1>1, <1>7, <2>2, <3>1
    <3>. QED
      BY <1>2, <3>1, <3>2, XorInside
  <2>3. Nat \subseteq D
    <3> HIDE DEF D
    <3>. QED
      BY <2>1, <2>2, Counting
  <2>. QED
    BY <1>3, <2>3
<1>9. Rem(rolling[k], primes[l][c]) \in 0..(primes[l][c] - 1)
  <2>1. rolling[k] \in Nat /\ rolling[k] >= 0
    BY <1>8
  <2>2. Rem(rolling[k], primes[l][c]) = rolling[k] % primes[l][c]
    BY <2>1 DEF Rem
  <2>. QED
    BY <2>1, <2>2
<1> DEFINE id == Rem(rolling[k], primes[l][c]) + offsets[l][c]
<1>10. id \in offsets[l][c]..(Ends(l, c) - 1)
  BY <1>9 DEF Ends
<1>11. Signed(id, IdBits) = id
  <2>1. IdBits \in 2..LongBits /\ id \in Nat /\ TwoTo[IdBits - 1] \in Nat
    BY <1>10, TwoToPositive
  <2>2. id < TwoTo[IdBits - 1]
    BY <1>10, <2>1 DEF Ends
  <2> HIDE DEF id
  <2>. QED
    BY <2>1, <2>2, SignedIs
<1>. QED
  BY <1>4, <1>10, <1>11

-----------------------------------------------------------------------------
(* The rank's part of a table *)

USE ShardsAssumption

LEMMA NumColsType == NumCols \in Nat /\ NumCols >= 1
  BY DEF NumCols

\* A layer that has all its columns.
Complete(l) ==
  l \in Layers /\ LayoutTypes /\ Contiguous /\ Len(primes[l]) = NumCols

LEMMA CompleteLayer ==
  ASSUME ColumnsInv, LaidOut, NEW l \in Layers
  PROVE  Complete(l)
<1>1. l < layer
  BY DEF ColumnsInv, LayoutTypes, LaidOut, Layers
<1>. QED
  BY <1>1 DEF ColumnsInv, AllColumns, Complete

\* What there is to know about the columns of such a layer.
LEMMA CompleteIs ==
  ASSUME NEW l \in Layers, Complete(l)
  PROVE  \A c \in 1..NumCols :
           /\ primes[l][c] \in Nat /\ primes[l][c] > 0
           /\ offsets[l][c] \in Nat /\ Ends(l, c) = offsets[l][c] + primes[l][c]
           /\ offsets[l][c] = IF c = 1 THEN 0 ELSE Ends(l, c - 1)
<1>1. /\ primes[l] \in Seq(Nat) /\ offsets[l] \in Seq(Nat)
      /\ Len(primes[l]) = NumCols /\ Len(offsets[l]) = NumCols
  BY DEF Complete, LayoutTypes
<1>2. \A c \in 1..NumCols : primes[l][c] \in Nat /\ offsets[l][c] \in Nat
  BY <1>1
<1>3. \A c \in 1..NumCols : /\ primes[l][c] > 0
                            /\ offsets[l][c] = IF c = 1 THEN 0 ELSE Ends(l, c - 1)
  BY DEF Complete, Contiguous
<1>. QED
  BY <1>2, <1>3 DEF Ends

\* Rows are counted column by column.
LEMMA RowsUpToIs ==
  ASSUME NEW l \in Layers, Complete(l)
  PROVE  /\ RowsUpTo(l, 0) = 0
         /\ \A n \in 1..NumCols : RowsUpTo(l, n) = RowsUpTo(l, n - 1) + primes[l][n]
         /\ \A n \in Nat : n >= NumCols => RowsUpTo(l, n) = RowsUpTo(l, NumCols)
<1> DEFINE rows == CHOOSE f :
                     f = [c \in 0..NumCols |-> IF c = 0 THEN 0 ELSE f[c - 1] + primes[l][c]]
           add  == [p \in (1..NumCols) \X Nat |-> p[2] + primes[l][p[1]]]
<1>1. \E f : f = [c \in 0..NumCols |-> IF c = 0 THEN 0 ELSE f[c - 1] + primes[l][c]]
  <2>1. add \in [(1..NumCols) \X Nat -> Nat]
    BY CompleteIs
  <2>2. PICK f \in [0..NumCols -> Nat] : Follows(f, NumCols, 0, add)
    <3> HIDE DEF add
    <3>. QED
      BY <2>1, NumColsType, RecursionExists
  <2>3. \A c \in 1..NumCols : c - 1 \in 0..NumCols /\ f[c - 1] \in Nat
    BY <2>2, NumColsType
  <2>4. \A c \in 1..NumCols : f[c] = f[c - 1] + primes[l][c]
    BY <2>2, <2>3 DEF Follows
  <2>5. f = [c \in 0..NumCols |-> IF c = 0 THEN 0 ELSE f[c - 1] + primes[l][c]]
    BY <2>2, <2>4, NumColsType DEF Follows
  <2>. QED
    BY <2>5
<1>2. rows = [c \in 0..NumCols |-> IF c = 0 THEN 0 ELSE rows[c - 1] + primes[l][c]]
  BY <1>1, Zenon
<1>3. \A n : RowsUpTo(l, n) = rows[IF n < NumCols THEN n ELSE NumCols]
  BY DEF RowsUpTo
<1> HIDE DEF rows
<1>4. rows[0] = 0 /\ \A n \in 1..NumCols : rows[n] = rows[n - 1] + primes[l][n]
  <2>1. \A c \in 0..NumCols : rows[c] = IF c = 0 THEN 0 ELSE rows[c - 1] + primes[l][c]
    BY <1>2, Zenon
  <2>. QED
    BY <2>1, NumColsType
<1>5. \A n \in 0..NumCols : RowsUpTo(l, n) = rows[n]
  BY <1>3, NumColsType
<1>6. \A n \in 1..NumCols : n - 1 \in 0..NumCols /\ n \in 0..NumCols
  BY NumColsType
<1>7. \A n \in Nat : n >= NumCols => RowsUpTo(l, n) = RowsUpTo(l, NumCols)
  BY <1>3, NumColsType
<1>. QED
  BY <1>4, <1>5, <1>6, <1>7, NumColsType

\* The rows of the first columns end where the next one begins.
LEMMA RowsEnd ==
  ASSUME NEW l \in Layers, Complete(l)
  PROVE  \A n \in 1..NumCols : /\ RowsUpTo(l, n - 1) = offsets[l][n]
                               /\ RowsUpTo(l, n) = Ends(l, n)
<1> DEFINE D == {n \in Nat : n + 1 <= NumCols =>
                   /\ RowsUpTo(l, n) = offsets[l][n + 1]
                   /\ RowsUpTo(l, n + 1) = Ends(l, n + 1)}
<1>1. 0 \in D
  <2>1. 1 \in 1..NumCols
    BY NumColsType
  <2>2. offsets[l][1] = 0 /\ Ends(l, 1) = offsets[l][1] + primes[l][1]
    BY <2>1, CompleteIs
  <2>3. RowsUpTo(l, 0) = 0 /\ RowsUpTo(l, 1) = RowsUpTo(l, 0) + primes[l][1]
    BY <2>1, RowsUpToIs
  <2>. QED
    BY <2>2, <2>3
<1>2. ASSUME NEW n \in Nat, n \in D PROVE n + 1 \in D
  <2>. SUFFICES ASSUME (n + 1) + 1 <= NumCols
                PROVE  /\ RowsUpTo(l, n + 1) = offsets[l][(n + 1) + 1]
                       /\ RowsUpTo(l, (n + 1) + 1) = Ends(l, (n + 1) + 1)
    OBVIOUS
  <2>1. (n + 1) + 1 \in 1..NumCols /\ ((n + 1) + 1) - 1 = n + 1 /\ (n + 1) + 1 # 1
        /\ n + 1 <= NumCols
    BY NumColsType
  <2>2. RowsUpTo(l, n + 1) = Ends(l, n + 1)
    BY <1>2, <2>1
  <2>3. /\ offsets[l][(n + 1) + 1] = Ends(l, n + 1)
        /\ Ends(l, (n + 1) + 1) = offsets[l][(n + 1) + 1] + primes[l][(n + 1) + 1]
    BY <2>1, CompleteIs
  <2>4. RowsUpTo(l, (n + 1) + 1) = RowsUpTo(l, n + 1) + primes[l][(n + 1) + 1]
    BY <2>1, RowsUpToIs
  <2>. QED
    BY <2>2, <2>3, <2>4
<1>3. Nat \subseteq D
  <2> HIDE DEF D
  <2>. QED
    BY <1>1, <1>2, Counting
<1>4. ASSUME NEW n \in 1..NumCols
      PROVE  RowsUpTo(l, n - 1) = offsets[l][n] /\ RowsUpTo(l, n) = Ends(l, n)
  <2>1. n - 1 \in Nat /\ (n - 1) + 1 = n /\ n <= NumCols
    BY NumColsType
  <2>2. n - 1 \in D
    BY <1>3, <2>1
  <2>. QED
    BY <2>1, <2>2
<1>. QED
  BY <1>4

\* More columns do not have fewer rows.
LEMMA RowsGrow ==
  ASSUME NEW l \in Layers, Complete(l), NEW m \in 0..NumCols, NEW n \in m..NumCols
  PROVE  /\ RowsUpTo(l, m) \in Nat /\ RowsUpTo(l, n) \in Nat
         /\ RowsUpTo(l, m) <= RowsUpTo(l, n)
<1> DEFINE D == {i \in Nat : m + i <= NumCols =>
                   RowsUpTo(l, m + i) \in Nat /\ RowsUpTo(l, m) <= RowsUpTo(l, m + i)}
<1>1. m \in Nat /\ n \in Nat /\ NumCols \in Nat
  BY NumColsType
<1>2. RowsUpTo(l, m) \in Nat
  <2>1. CASE m = 0
    BY <2>1, RowsUpToIs
  <2>2. CASE m # 0
    <3>1. m \in 1..NumCols
      BY <1>1, <2>2
    <3>. QED
      BY <3>1, RowsEnd, CompleteIs
  <2>. QED
    BY <2>1, <2>2
<1>3. 0 \in D
  BY <1>1, <1>2
<1>4. ASSUME NEW i \in Nat, i \in D PROVE i + 1 \in D
  <2>. SUFFICES ASSUME m + (i + 1) <= NumCols
                PROVE  /\ RowsUpTo(l, m + (i + 1)) \in Nat
                       /\ RowsUpTo(l, m) <= RowsUpTo(l, m + (i + 1))
    OBVIOUS
  <2>1. m + (i + 1) \in 1..NumCols /\ (m + (i + 1)) - 1 = m + i /\ m + i <= NumCols
    BY <1>1
  <2>2. RowsUpTo(l, m + (i + 1)) = RowsUpTo(l, m + i) + primes[l][m + (i + 1)]
    BY <2>1, RowsUpToIs
  <2>3. primes[l][m + (i + 1)] \in Nat
    BY <2>1, CompleteIs
  <2>4. RowsUpTo(l, m + i) \in Nat /\ RowsUpTo(l, m) <= RowsUpTo(l, m + i)
    BY <1>4, <2>1
  <2>. QED
    BY <1>2, <2>2, <2>3, <2>4
<1>5. Nat \subseteq D
  <2> HIDE DEF D
  <2>. QED
    BY <1>3, <1>4, Counting
<1>6. n - m \in Nat /\ m + (n - m) = n /\ n <= NumCols
  BY <1>1
<1>7. n - m \in D
  BY <1>5, <1>6
<1>. QED
  BY <1>2, <1>6, <1>7

\* The rank that holds a head finds the head's ids; a padded head reads zeros.
LEMMA LookupFinds ==
  ASSUME NEW l \in Layers, Complete(l), NEW ids, InBuckets(l, ids),
         NEW r \in Shards, NEW j \in 0..(PartCols - 1)
  PROVE  LET head == HeadStart(r) + j
         IN  IF head < NumCols
             THEN /\ ids[head + 1] \in offsets[l][head + 1]..(Ends(l, head + 1) - 1)
                  /\ Lookup(l, ids, r, j) = ids[head + 1]
             ELSE Lookup(l, ids, r, j) = Zero
<1> DEFINE first == HeadStart(r)
           head  == first + j
           id    == ids[head + 1]
<1>1. NumCols \in Nat /\ PartCols \in Nat /\ j \in Nat /\ j + 1 <= PartCols
  <2>1. NumCols \in Nat
    BY NumColsType
  <2>2. PartCols \in Int
    <3>1. NumCols + NumShards - 1 \in Int /\ NumShards \in Nat /\ NumShards > 0
      BY <2>1
    <3>. QED
      BY <3>1 DEF PartCols
  <2>. QED
    BY <2>1, <2>2
<1>2. first \in Nat
  <2>1. r \in Nat
    BY DEF Shards
  <2>. QED
    BY <1>1, <2>1, Product DEF HeadStart
<1>3. Lookup(l, ids, r, j) =
        IF head < NumCols /\ id \in VocabStart(l, r)..(VocabEnd(l, r) - 1)
        THEN Shard(l, r)[id - VocabStart(l, r)] ELSE Zero
  BY DEF Lookup
<1>4. CASE head < NumCols
  <2>1. /\ head + 1 \in 1..NumCols /\ (head + 1) - 1 = head
        /\ first \in 0..NumCols /\ head \in first..NumCols
    BY <1>1, <1>2, <1>4
  <2>2. id \in offsets[l][head + 1]..(Ends(l, head + 1) - 1)
    BY <2>1 DEF InBuckets
  <2>3. RowsUpTo(l, head) = offsets[l][head + 1] /\ RowsUpTo(l, head + 1) = Ends(l, head + 1)
    BY <2>1, RowsEnd
  <2>4. VocabStart(l, r) \in Nat /\ VocabStart(l, r) <= offsets[l][head + 1]
    BY <2>1, <2>3, RowsGrow DEF VocabStart
  <2>5. VocabEnd(l, r) \in Nat /\ Ends(l, head + 1) <= VocabEnd(l, r)
    <3> DEFINE last == IF first + PartCols <= NumCols THEN first + PartCols ELSE NumCols
    <3>1. last \in (head + 1)..NumCols /\ head + 1 \in 0..NumCols
      BY <1>1, <1>2, <1>4
    <3>2. VocabEnd(l, r) = RowsUpTo(l, last)
      BY <1>1, <1>2, RowsUpToIs DEF VocabEnd
    <3> HIDE DEF last
    <3>. QED
      BY <2>3, <3>1, <3>2, RowsGrow
  <2>6. offsets[l][head + 1] \in Nat /\ Ends(l, head + 1) \in Nat
    BY <2>1, CompleteIs
  <2> HIDE DEF head
  <2> HIDE DEF id
  <2>7. id \in VocabStart(l, r)..(VocabEnd(l, r) - 1)
    BY <2>2, <2>4, <2>5, <2>6
  <2>8. Shard(l, r)[id - VocabStart(l, r)] = id
    <3>1. id - VocabStart(l, r) \in 0..(VocabEnd(l, r) - VocabStart(l, r) - 1)
          /\ VocabStart(l, r) + (id - VocabStart(l, r)) = id
      BY <2>4, <2>5, <2>7
    <3>. QED
      BY <3>1 DEF Shard
  <2>9. Lookup(l, ids, r, j) = id
    BY <1>3, <1>4, <2>7, <2>8
  <2>. QED
    BY <1>4, <2>2, <2>9 DEF head, id
<1>5. CASE ~(head < NumCols)
  BY <1>3, <1>5
<1>. QED
  BY <1>4, <1>5

-----------------------------------------------------------------------------
(* From a token to its rows *)

LEMMA IdsInitInv == IdsInit => IdsInv
  BY ColumnsInit DEF IdsInit, IdsInv

LEMMA HashInv == IdsInv /\ Hash => IdsInv'
<1>. SUFFICES ASSUME IdsInv, Hash PROVE IdsInv'
  OBVIOUS
<1>1. PICK size \in CompressedSizes, l \in Layers :
        \E value \in [0..NumNgrams -> Sources(size)],
           mult \in [0..NumNgrams -> Multipliers(size)] :
          hashed' = <<l, HashIds(l, value, mult)>>
  BY DEF Hash
<1>2. PICK value \in [0..NumNgrams -> Sources(size)],
           mult \in [0..NumNgrams -> Multipliers(size)] :
        hashed' = <<l, HashIds(l, value, mult)>>
  BY <1>1
<1>3. LaidOut /\ UNCHANGED layoutVars
  BY DEF Hash
<1>4. ColumnsInv'
  BY <1>3, ColumnsNext DEF IdsInv
<1>5. Complete(l)
  BY CompleteLayer, <1>3 DEF IdsInv
<1>6. LaidOut' /\ hashed'[1] = l /\ hashed'[2] = HashIds(l, value, mult)
  BY <1>2, <1>3 DEF LaidOut, layoutVars
<1>7. ASSUME TablesFit, NEW c \in 1..NumCols
      PROVE  HashIds(l, value, mult)[c] \in offsets[l][c]..(Ends(l, c) - 1)
  <2>1. /\ primes[l][c] \in Nat /\ primes[l][c] > 0 /\ offsets[l][c] \in Nat
    BY <1>5, CompleteIs
  <2>2. Ends(l, c) <= TwoTo[IdBits - 1]
    BY <1>5, <1>7 DEF TablesFit, Complete
  <2>. QED
    BY <2>1, <2>2, HashInBucket
<1>8. TablesFit => InBuckets(l, HashIds(l, value, mult))
  BY <1>7 DEF InBuckets
<1>9. (TablesFit' => TablesFit) /\ (InBuckets(l, hashed'[2]) => InBuckets(hashed[1], hashed[2])')
  BY <1>3, <1>6 DEF TablesFit, InBuckets, Ends, layoutVars
<1>. QED
  BY <1>4, <1>6, <1>8, <1>9 DEF IdsInv

LEMMA IdsNextInv == IdsInv /\ [IdsNext]_idsVars => IdsInv'
<1>. SUFFICES ASSUME IdsInv, [IdsNext]_idsVars PROVE IdsInv'
  OBVIOUS
<1>1. CASE LayoutNext /\ UNCHANGED <<vars, hashed>>
  <2>1. ColumnsInv'
    BY <1>1, ColumnsNext DEF IdsInv
  <2>2. ~LaidOut
    <3>1. layer \in Layers
      BY <1>1 DEF LayoutNext, NextCandidate, TakePrime
    <3>. QED
      BY <3>1 DEF LaidOut, Layers
  <2>. QED
    BY <1>1, <2>1, <2>2 DEF IdsInv
<1>2. CASE UNCHANGED <<layoutVars, hashed>>
  <2>1. ColumnsInv'
    BY <1>2, ColumnsNext DEF IdsInv
  <2>. QED
    BY <1>2, <2>1 DEF IdsInv, LaidOut, TablesFit, InBuckets, Ends, layoutVars
<1>3. CASE Hash
  BY <1>3, HashInv
<1>. QED
  BY <1>1, <1>2, <1>3 DEF IdsNext, idsVars

\* For any layout, widths and number of ranks, and whatever ids and multipliers
\* are drawn: while the rows of every table can be numbered in the ids' width,
\* an id leads to a row of its head's bucket, and the rank that holds the head
\* finds it (compute_hash_multipliers, _hash_ids_kernel, _engram_lookup_kernel).
THEOREM RowsInBucket == IdsSpec => [](TablesFit => RowsOfOwnBucket)
<1>1. IdsInv => (TablesFit => RowsOfOwnBucket)
  <2>. SUFFICES ASSUME IdsInv, TablesFit, hashed # << >>
                PROVE  \A r \in Shards, j \in 0..(PartCols - 1) :
                         LET head == HeadStart(r) + j
                         IN  IF head < NumCols
                             THEN /\ hashed[2][head + 1] \in
                                       offsets[hashed[1]][head + 1]..(Ends(hashed[1], head + 1) - 1)
                                  /\ Lookup(hashed[1], hashed[2], r, j) = hashed[2][head + 1]
                             ELSE Lookup(hashed[1], hashed[2], r, j) = Zero
    BY DEF RowsOfOwnBucket
  <2>1. hashed[1] \in Layers /\ Complete(hashed[1]) /\ InBuckets(hashed[1], hashed[2])
    BY CompleteLayer DEF IdsInv
  <2>. QED
    BY <2>1, LookupFinds
<1>. QED
  BY <1>1, IdsInitInv, IdsNextInv, PTL DEF IdsSpec

\* The layout and the search keep their promises where they are put together.
THEOREM HashingKeeps == IdsSpec => [](BucketsDisjoint /\ FindsOwnRow)
<1>1. IdsInit => LayoutInit /\ Init
  BY DEF IdsInit
<1>2. [IdsNext]_idsVars => [LayoutNext]_layoutVars /\ [Next]_vars
  BY DEF IdsNext, Hash, idsVars
<1>3. IdsSpec => (LayoutInit /\ [][LayoutNext]_layoutVars) /\ (Init /\ [][Next]_vars)
  BY <1>1, <1>2, PTL DEF IdsSpec
<1>4. IInv /\ [Next]_vars => IInv'
  BY SearchNext
<1>5. IInv => FindsOwnRow
  BY BracketFinds
<1>. QED
  BY <1>3, <1>4, <1>5, InitIInv, HeadsApart, PTL DEF LayoutSpec
=============================================================================
