---------------------------- MODULE EngramLayout ----------------------------
(***************************************************************************)
(* How the buckets of the n-gram hash tables are laid out (files/engram.py,*)
(* _is_prime, find_next_prime, EngramLayout.__init__).                     *)
(*                                                                         *)
(* Every layer, n-gram size and head gets a prime of its own, the size of  *)
(* its bucket range; the ranges of a layer lie one after the other in its  *)
(* table.  The search starts again at the vocabulary size for every n-gram *)
(* size and steps over the primes handed out before, in any layer.         *)
(***************************************************************************)
EXTENDS Naturals, Sequences, FiniteSets

CONSTANTS NumLayers,   \* layers with a table
          NumNgrams,   \* n-gram sizes: max_ngram_size - 1
          NumHeads,    \* heads per n-gram size
          VocabSize    \* engram_vocab_size: no prime is smaller

ASSUME LayoutAssumption ==
  /\ NumLayers \in Nat \ {0} /\ NumNgrams \in Nat \ {0}
  /\ NumHeads \in Nat \ {0}  /\ VocabSize \in Nat \ {0}

VARIABLES layer,      \* the layer being laid out
          primes,     \* per layer: the sizes of its buckets, by column
          offsets,    \* per layer: where they begin
          seen,       \* primes handed out
          candidate   \* the number find_next_prime looks at

layoutVars == <<layer, primes, offsets, seen, candidate>>

Layers  == 1..NumLayers
NumCols == NumNgrams * NumHeads     \* n_hash_cols

-----------------------------------------------------------------------------
(* The Miller-Rabin test *)

SmallPrimes == {2, 3, 5, 7, 11, 13, 17, 19, 23, 29, 31, 37}
Bases       == {2, 7, 61}

Power(a, e, n) ==
  LET p[k \in Nat] == IF k = 0 THEN 1
                      ELSE ((p[k \div 2]^2 % n) * (IF k % 2 = 1 THEN a ELSE 1)) % n
  IN  p[e]

\* n - 1 = 2^r * d with d odd.
TwosIn(m) == CHOOSE r \in 0..31 : m % 2^r = 0 /\ (m \div 2^r) % 2 = 1

\* Defect, not part of IsPrime: one squaring less.
ProbableShort(n, a) ==
  LET r == TwosIn(n - 1)
      x == Power(a, (n - 1) \div 2^r, n)
  IN  x = 1 \/ \E i \in 0..(r - 2) : Power(x, 2^i, n) = n - 1

\* a does not show that n is composite.
Probable(n, a) ==
  LET r == TwosIn(n - 1)
      x == Power(a, (n - 1) \div 2^r, n)
  IN  x = 1 \/ \E i \in 0..(r - 1) : Power(x, 2^i, n) = n - 1

IsPrime(n) ==
  /\ n >= 2
  /\ IF \E p \in SmallPrimes : n % p = 0
     THEN n \in SmallPrimes
     ELSE \A a \in Bases : Probable(n, a)

-----------------------------------------------------------------------------

LayoutInit ==
  /\ layer = 1 /\ seen = {}
  /\ candidate = VocabSize
  /\ primes  = [l \in Layers |-> << >>]
  /\ offsets = [l \in Layers |-> << >>]

LaidOut == layer > NumLayers

\* The loop of find_next_prime.
NextCandidate ==
  /\ layer \in Layers
  /\ ~IsPrime(candidate) \/ candidate \in seen
  /\ candidate' = candidate + 1
  /\ UNCHANGED <<layer, primes, offsets, seen>>

\* Defect, not part of LayoutNext: offsets of a layer go on from the last
\* bucket's begin, not its end.
OffsetAfterBegin(l) ==
  LET n == Len(primes[l]) IN IF n = 0 THEN 0 ELSE offsets[l][n] + primes[l][1] - 1

\* cumsum([0, *sizes[:-1]]): a column begins where the one before it ends.
NextOffset(l) ==
  LET n == Len(primes[l]) IN IF n = 0 THEN 0 ELSE offsets[l][n] + primes[l][n]

\* find_next_prime returns; the search for the next head goes on from here,
\* for the next n-gram size from the vocabulary size.
TakePrime ==
  LET cols == Len(primes[layer]) + 1
  IN
  /\ layer \in Layers
  /\ IsPrime(candidate) /\ candidate \notin seen
  /\ seen' = seen \cup {candidate}
  /\ primes'  = [primes  EXCEPT ![layer] = Append(@, candidate)]
  /\ offsets' = [offsets EXCEPT ![layer] = Append(@, NextOffset(layer))]
  /\ candidate' = IF cols % NumHeads = 0 THEN VocabSize ELSE candidate + 1
  /\ layer' = IF cols = NumCols THEN layer + 1 ELSE layer

LayoutNext == NextCandidate \/ TakePrime
LayoutSpec == LayoutInit /\ [][LayoutNext]_layoutVars

-----------------------------------------------------------------------------

\* Bound: how far PrimesWithoutGap looks.
Reach == 2 * VocabSize

\* Primes by definition.
PrimesToReach ==
  {n \in VocabSize..Reach : n >= 2 /\ \A k \in 2..(n - 1) : n % k # 0}

\* "The smallest prime above `start` that has not been handed out yet": the
\* primes handed out are the smallest from the vocabulary size on, with no gap,
\* however often the search starts over.
PrimesWithoutGap ==
  /\ seen \subseteq PrimesToReach
  /\ \A q \in PrimesToReach \ seen : \A p \in seen : p < q

Ends(l, c) == offsets[l][c] + primes[l][c]

\* "the primes are drawn in order and never reused, which keeps the ranges
\* disjoint": no bucket of a layer belongs to two heads, and no two heads, of
\* any layer, hash modulo the same prime.
BucketsDisjoint ==
  /\ \A l \in Layers : \A c, d \in 1..Len(primes[l]) :
       c < d => Ends(l, c) <= offsets[l][d]
  /\ \A l, m \in Layers :
       \A c \in 1..Len(primes[l]), d \in 1..Len(primes[m]) :
         primes[l][c] = primes[m][d] => l = m /\ c = d

-----------------------------------------------------------------------------
(* The strengthening behind BucketsDisjoint: the last range ends behind all  *)
(* the others, and whatever was handed out has been seen.                    *)

LayoutTypes ==
  /\ layer \in 1..(NumLayers + 1) /\ candidate \in Nat
  /\ primes \in [Layers -> Seq(Nat)] /\ offsets \in [Layers -> Seq(Nat)]
  /\ \A l \in Layers : Len(offsets[l]) = Len(primes[l])

SeenAll == \A l \in Layers : \A c \in 1..Len(primes[l]) : primes[l][c] \in seen

LayoutInv == LayoutTypes /\ SeenAll /\ BucketsDisjoint

(* The strengthening behind PrimesWithoutGap, whatever the test says is prime. *)

\* All below the number the search is at have been handed out.
Swept == \A q \in VocabSize..(candidate - 1) : IsPrime(q) => q \in seen

\* All below a number that was handed out have been handed out.
NoneSkipped ==
  \A p \in seen :
    /\ p \in Nat /\ p >= VocabSize /\ IsPrime(p)
    /\ \A q \in VocabSize..(p - 1) : IsPrime(q) => q \in seen

SweepInv == candidate \in Nat /\ candidate >= VocabSize /\ Swept /\ NoneSkipped

(* What a table needs to be found in: columns that follow each other without *)
(* gap, none of them empty, and all of them in the layers before this one.   *)

Contiguous ==
  \A l \in Layers : \A c \in 1..Len(primes[l]) :
    /\ primes[l][c] > 0
    /\ offsets[l][c] = IF c = 1 THEN 0 ELSE Ends(l, c - 1)

AllColumns ==
  \A l \in Layers :
    /\ l < layer => Len(primes[l]) = NumCols
    /\ l = layer => Len(primes[l]) < NumCols
    /\ l > layer => Len(primes[l]) = 0

ColumnsInv == LayoutTypes /\ Contiguous /\ AllColumns
=============================================================================
